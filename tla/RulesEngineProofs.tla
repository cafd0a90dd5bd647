------------------------- MODULE RulesEngineProofs -------------------------
(***************************************************************************)
(* Theorems of RulesEngine, for any upstreams and rules: what the probes,  *)
(* their callback and the rebuilds keep between them, and that the engine  *)
(* implements HealthChecker.                                               *)
(***************************************************************************)
EXTENDS RulesEngine, TLAPS

-----------------------------------------------------------------------------
(* Types.                                                                  *)

LEMMA Constants == Failures \in Nat \ {0} /\ NoTarget \notin Targets
BY HealthAssumption DEF Health!ConstantsOK

LEMMA CountedType ==
  ASSUME Health!TypeOK, NEW t \in Targets, NEW ok \in BOOLEAN
  PROVE  /\ Health!Counted(t, ok) \in 0..Failures
         /\ consec[t] \in 0..Failures
BY Constants DEF Health!TypeOK, Health!Counted

\* Whatever its targets, SetTargets keeps the types of the checker.
LEMMA SetTargetsType ==
  ASSUME Health!TypeOK, NEW ts \in SUBSET Targets, Health!SetTargets(ts)
  PROVE  Health!TypeOK'
BY Constants DEF Health!TypeOK, Health!SetTargets, Health!Kept, Health!probeVars

LEMMA ProbeType ==
  ASSUME Health!TypeOK, Health!Probe
  PROVE  Health!TypeOK'
<1>1. CASE Health!StartRound
  BY <1>1 DEF Health!TypeOK, Health!StartRound, Health!checkerVars
<1>2. ASSUME NEW t \in Targets, Health!Check(t) PROVE Health!TypeOK'
  BY <1>2 DEF Health!TypeOK, Health!Check, Health!checkerVars
<1>3. ASSUME NEW ok \in BOOLEAN, Health!Record(ok) PROVE Health!TypeOK'
  <2>1. current \in Targets /\ current' = NoTarget
    BY <1>3 DEF Health!TypeOK, Health!Record
  <2>2. UNCHANGED <<answers, watched, todo, snap, gauge, added>>
    BY <1>3 DEF Health!Record
  <2>3. CASE current \in watched
    <3>1. consec' = [consec EXCEPT ![current] = Health!Counted(current, ok)]
      BY <1>3, <2>3 DEF Health!Record
    <3>2. healthy' = [healthy EXCEPT ![current] =
                        ok \/ (healthy[current]
                               /\ Health!Counted(current, ok) < Failures)]
      BY <1>3, <2>3 DEF Health!Record
    <3>3. notify' \in {"snapshot", "idle"}
      BY <1>3, <2>3 DEF Health!Record
    <3>4. consec' \in [Targets -> 0..Failures]
      BY <2>1, <3>1, CountedType DEF Health!TypeOK
    <3>5. healthy' \in [Targets -> BOOLEAN]
      BY <2>1, <3>2 DEF Health!TypeOK
    <3> QED
      BY <2>1, <2>2, <3>3, <3>4, <3>5 DEF Health!TypeOK
  <2>4. CASE current \notin watched
    BY <1>3, <2>1, <2>2, <2>4 DEF Health!TypeOK, Health!Record
  <2> QED
    BY <2>3, <2>4
<1>4. CASE Health!Snapshot
  BY <1>4 DEF Health!TypeOK, Health!Snapshot, Health!checkerVars, Health!Gauges
<1>5. CASE Health!SetUpstreamHealth
  BY <1>5 DEF Health!TypeOK, Health!SetUpstreamHealth, Health!checkerVars,
     Health!Gauges, Health!NoGauge
<1> QED
  BY <1>1, <1>2, <1>3, <1>4, <1>5 DEF Health!Probe

LEMMA TypeInit == Init => TypeOK
<1>1. Health!Init => Health!TypeOK
  BY Constants DEF Health!Init, Health!TypeOK, Health!NoGauge, Health!Gauges
<1> QED
  BY <1>1 DEF Init, TypeOK

LEMMA TypeStep == TypeOK /\ [Next]_vars => TypeOK'
<1> SUFFICES ASSUME TypeOK, [Next]_vars
             PROVE  TypeOK'
  OBVIOUS
<1>1. CASE Probe
  BY <1>1, ProbeType DEF TypeOK, Probe, engineVars
<1>2. CASE Toggle
  BY <1>2 DEF TypeOK, Toggle, Health!Toggle, Health!TypeOK, Health!checkerVars,
     Health!probeVars, engineVars
<1>3. ASSUME NEW b \in Rebuilders, Change(b) \/ Get(b) \/ Swap(b) PROVE TypeOK'
  BY <1>3, ListsAssumption
     DEF TypeOK, Change, Get, Swap, Goto, healthVars, Health!TypeOK
<1>4. ASSUME NEW b \in Rebuilders, Watch(b) PROVE TypeOK'
  <2>1. list[b] \in SUBSET Targets
    BY DEF TypeOK
  <2>2. Health!TypeOK'
    BY <1>4, <2>1, SetTargetsType DEF TypeOK, Watch
  <2> QED
    BY <1>4, <2>2 DEF TypeOK, Watch, Goto
<1>5. CASE UNCHANGED vars
  BY <1>5 DEF TypeOK, vars, healthVars, engineVars, Health!TypeOK
<1> QED
  BY <1>1, <1>2, <1>3, <1>4, <1>5 DEF Next, Rebuild

\* Checker, gauge and routes keep their types.
THEOREM TypeCorrect == Spec => []TypeOK
BY TypeInit, TypeStep, PTL DEF Spec

-----------------------------------------------------------------------------
(* The circuit breaker.                                                    *)

LEMMA BreakerStep == TypeOK /\ BreakerConsistent /\ [Next]_vars => BreakerConsistent'
<1> SUFFICES ASSUME TypeOK, BreakerConsistent, [Next]_vars
             PROVE  BreakerConsistent'
  OBVIOUS
<1> USE DEF BreakerConsistent, Health!BreakerConsistent
<1>1. ASSUME UNCHANGED <<consec, healthy>> PROVE BreakerConsistent'
  BY <1>1
<1>2. ASSUME NEW ts, Health!SetTargets(ts) PROVE BreakerConsistent'
  <2>1. ASSUME NEW t \in Targets PROVE healthy'[t] <=> consec'[t] < Failures
    <3>1. CASE t \in Health!Kept(ts)
      BY <1>2, <3>1 DEF Health!SetTargets
    <3>2. CASE t \notin Health!Kept(ts)
      <4>1. consec'[t] = 0
        BY <1>2, <3>2 DEF Health!SetTargets
      <4>2. healthy'[t]
        BY <1>2, <3>2 DEF Health!SetTargets
      <4> QED
        BY <4>1, <4>2, Constants
    <3> QED
      BY <3>1, <3>2
  <2> QED
    BY <2>1
<1>3. ASSUME NEW ok \in BOOLEAN, Health!Record(ok) PROVE BreakerConsistent'
  <2>1. CASE current \notin watched
    BY <1>1, <1>3, <2>1 DEF Health!Record
  <2>2. CASE current \in watched
    <3> DEFINE n == Health!Counted(current, ok)
               h == ok \/ (healthy[current] /\ n < Failures)
    <3>1. /\ current \in Targets
          /\ consec \in [Targets -> 0..Failures] /\ healthy \in [Targets -> BOOLEAN]
      BY <1>3 DEF TypeOK, Health!TypeOK, Health!Record
    <3>2. /\ consec' = [consec EXCEPT ![current] = n]
          /\ healthy' = [healthy EXCEPT ![current] = h]
      BY <1>3, <2>2 DEF Health!Record
    <3>3. h <=> n < Failures
      <4>1. consec[current] \in 0..Failures /\ (healthy[current] <=> consec[current] < Failures)
        BY <3>1
      <4> QED
        BY <4>1, Constants DEF Health!Counted
    <3>4. h \in BOOLEAN
      BY <3>1
    <3> HIDE DEF n, h
    <3> QED
      BY <3>1, <3>2, <3>3, <3>4
  <2> QED
    BY <2>1, <2>2
<1>4. CASE Probe
  BY <1>1, <1>3, <1>4 DEF Probe, Health!Probe, Health!StartRound, Health!Check,
     Health!Snapshot, Health!SetUpstreamHealth, Health!checkerVars
<1>5. CASE Toggle
  BY <1>1, <1>5 DEF Toggle, Health!Toggle, Health!checkerVars
<1>6. ASSUME NEW b \in Rebuilders, Change(b) \/ Rebuild(b) PROVE BreakerConsistent'
  BY <1>1, <1>2, <1>6 DEF Change, Rebuild, Get, Swap, Watch, healthVars
<1>7. CASE UNCHANGED vars
  BY <1>1, <1>7 DEF vars, healthVars
<1> QED
  BY <1>4, <1>5, <1>6, <1>7 DEF Next

\* A target is down exactly when its last Failures probes failed, with rebuilds by
\* any number of goroutines around every probe (record, SetTargets).
THEOREM BreakerAgrees == Spec => []BreakerConsistent
<1>1. Init => BreakerConsistent
  <2>1. Init => \A t \in Targets : healthy[t] /\ consec[t] = 0
    BY DEF Init, Health!Init
  <2>2. 0 < Failures
    BY Constants
  <2> QED
    BY <2>1, <2>2 DEF BreakerConsistent, Health!BreakerConsistent
<1> QED
  BY <1>1, TypeInit, TypeStep, BreakerStep, PTL DEF Spec

\* A target goes down only by the last of Failures unanswered probes, while it is
\* watched, and comes back by one answer or by leaving the rules.
OnlyProbesTakeDown ==
    \A t \in Targets :
      /\ healthy[t] /\ ~healthy'[t] =>
           /\ t \in watched /\ t \notin answers
           /\ consec[t] = Failures - 1 /\ consec'[t] = Failures
      /\ ~healthy[t] /\ healthy'[t] =>
           t \in answers \/ t \notin watched \/ t \notin watched'

\* Neither a rebuild nor a late answer for a target that has left takes one down, nor
\* does a single failure of one that a rebuild has kept (record, SetTargets).
THEOREM BreakerNeedsItsFailures == Spec => [][OnlyProbesTakeDown]_vars
<1>1. ASSUME TypeOK, BreakerConsistent, [Next]_vars
      PROVE  OnlyProbesTakeDown
  <2> USE DEF OnlyProbesTakeDown
  <2>1. ASSUME UNCHANGED healthy PROVE OnlyProbesTakeDown
    BY <2>1
  <2>2. ASSUME NEW ts, Health!SetTargets(ts) PROVE OnlyProbesTakeDown
    BY <1>1, <2>2 DEF Health!SetTargets, Health!Kept, TypeOK, Health!TypeOK
  <2>3. ASSUME NEW ok \in BOOLEAN, Health!Record(ok), current \in watched
        PROVE  OnlyProbesTakeDown
    <3> DEFINE n == Health!Counted(current, ok)
               h == ok \/ (healthy[current] /\ n < Failures)
    <3>1. /\ current \in Targets
          /\ consec \in [Targets -> 0..Failures] /\ healthy \in [Targets -> BOOLEAN]
          /\ ok <=> current \in answers
      BY <1>1, <2>3 DEF TypeOK, Health!TypeOK, Health!Record
    <3>2. /\ consec' = [consec EXCEPT ![current] = n]
          /\ healthy' = [healthy EXCEPT ![current] = h]
      BY <2>3 DEF Health!Record
    <3>3. ASSUME healthy[current], ~h
          PROVE  ~ok /\ consec[current] = Failures - 1 /\ n = Failures
      <4>1. ~ok /\ ~(n < Failures)
        BY <3>3
      <4>2. consec[current] < Failures /\ consec[current] \in 0..Failures
        BY <1>1, <3>1, <3>3 DEF BreakerConsistent, Health!BreakerConsistent
      <4>3. n = consec[current] + 1
        BY <4>1, <4>2, Constants DEF Health!Counted
      <4> QED
        BY <4>1, <4>2, <4>3, Constants
    <3>4. ASSUME ~healthy[current], h PROVE ok
      BY <3>4
    <3> HIDE DEF n, h
    <3>5. ASSUME NEW t \in Targets, t # current
          PROVE  healthy'[t] = healthy[t]
      BY <3>1, <3>2, <3>5
    <3>6. /\ healthy'[current] = h /\ consec'[current] = n
      BY <3>1, <3>2
    <3> QED
      BY <2>3, <3>1, <3>3, <3>4, <3>5, <3>6
  <2>4. CASE Probe
    BY <2>1, <2>3, <2>4 DEF Probe, Health!Probe, Health!StartRound, Health!Check,
       Health!Record, Health!Snapshot, Health!SetUpstreamHealth, Health!checkerVars
  <2>5. CASE Toggle
    BY <2>1, <2>5 DEF Toggle, Health!Toggle, Health!checkerVars
  <2>6. ASSUME NEW b \in Rebuilders, Change(b) \/ Rebuild(b)
        PROVE  OnlyProbesTakeDown
    BY <2>1, <2>2, <2>6 DEF Change, Rebuild, Get, Swap, Watch, healthVars
  <2>7. CASE UNCHANGED vars
    BY <2>1, <2>7 DEF vars, healthVars
  <2> QED
    BY <1>1, <2>4, <2>5, <2>6, <2>7 DEF Next
<1>2. Spec => []BreakerConsistent
  BY BreakerAgrees
<1> QED
  BY <1>1, <1>2, TypeCorrect, PTL DEF Spec

-----------------------------------------------------------------------------
(* The gauge.                                                              *)

\* The gauge at rest, or the snapshot on its way to it, is right about all targets
\* that have not been added since; no probe is under way before it arrives.
Right(g) == \A t \in watched \ added : t \in g.down <=> ~healthy[t]

GaugeInv ==
    /\ current # NoTarget => notify = "idle"
    /\ notify = "idle" => Right(gauge)
    /\ notify = "publish" => Right(snap)

LEMMA GaugeStep == TypeOK /\ GaugeInv /\ [Next]_vars => GaugeInv'
<1> SUFFICES ASSUME TypeOK, GaugeInv, [Next]_vars
             PROVE  GaugeInv'
  OBVIOUS
<1>1. ASSUME UNCHANGED <<watched, healthy, added, gauge, snap, notify>>,
             current' # NoTarget => notify = "idle"
      PROVE GaugeInv'
  BY <1>1 DEF GaugeInv, Right
<1>2. ASSUME NEW ts, Health!SetTargets(ts) PROVE GaugeInv'
  <2>1. UNCHANGED <<current, notify, snap, gauge>>
    BY <1>2 DEF Health!SetTargets, Health!probeVars
  <2>2. ASSUME NEW t \in (watched \ added)'
        PROVE  t \in watched \ added /\ (t \in Targets => healthy'[t] = healthy[t])
    BY <1>2 DEF Health!SetTargets, Health!Kept, TypeOK, Health!TypeOK
  <2>3. \A t \in watched : t \in Targets
    BY DEF TypeOK, Health!TypeOK
  <2> QED
    BY <2>1, <2>2, <2>3 DEF GaugeInv, Right
<1>3. ASSUME NEW ok \in BOOLEAN, Health!Record(ok) PROVE GaugeInv'
  <2>1. /\ current # NoTarget /\ current' = NoTarget
        /\ UNCHANGED <<watched, snap, gauge, added>>
    BY <1>3 DEF Health!Record
  <2>2. notify = "idle"
    BY <2>1 DEF GaugeInv
  <2>3. CASE UNCHANGED healthy /\ notify' \in {notify, "idle", "snapshot"}
    BY <2>1, <2>2, <2>3 DEF GaugeInv, Right
  <2>4. CASE notify' = "snapshot"
    BY <2>1, <2>4 DEF GaugeInv
  <2>5. CASE current \in watched /\ notify' # "snapshot"
    <3> DEFINE h == ok \/ (healthy[current] /\ Health!Counted(current, ok) < Failures)
    <3>1. healthy' = [healthy EXCEPT ![current] = h]
      BY <1>3, <2>5 DEF Health!Record
    <3>2. healthy[current] = h /\ notify' = "idle"
      BY <1>3, <2>5 DEF Health!Record, Health!Notifies
    <3> HIDE DEF h
    <3>3. healthy' = healthy
      BY <3>1, <3>2 DEF TypeOK, Health!TypeOK
    <3> QED
      BY <2>3, <3>2, <3>3
  <2>6. CASE current \notin watched
    BY <1>3, <2>3, <2>6 DEF Health!Record
  <2> QED
    BY <2>4, <2>5, <2>6
<1>4. CASE Health!Snapshot
  BY <1>4 DEF GaugeInv, Right, Health!Snapshot, Health!checkerVars, TypeOK,
     Health!TypeOK
<1>5. CASE Health!SetUpstreamHealth
  BY <1>5 DEF GaugeInv, Right, Health!SetUpstreamHealth, Health!checkerVars
<1>6. CASE Probe
  BY <1>1, <1>3, <1>4, <1>5, <1>6 DEF Probe, Health!Probe, Health!StartRound,
     Health!Check, Health!checkerVars, GaugeInv
<1>7. CASE Toggle
  BY <1>1, <1>7 DEF Toggle, Health!Toggle, Health!checkerVars, Health!probeVars,
     GaugeInv
<1>8. ASSUME NEW b \in Rebuilders, Change(b) \/ Rebuild(b) PROVE GaugeInv'
  BY <1>1, <1>2, <1>8 DEF Change, Rebuild, Get, Swap, Watch, healthVars, GaugeInv
<1>9. CASE UNCHANGED vars
  BY <1>1, <1>9 DEF vars, healthVars, GaugeInv
<1> QED
  BY <1>6, <1>7, <1>8, <1>9 DEF Next

\* The snapshot is taken after record has unlocked and published later still, and
\* the gauge is right all the same about every target it can have seen (onChange,
\* SetUpstreamHealth).
THEOREM GaugeFollows == Spec => []GaugeFollowsHealth
<1>1. Init => GaugeInv
  BY DEF Init, Health!Init, GaugeInv, Right
<1>2. GaugeInv => GaugeFollowsHealth
  BY DEF GaugeInv, Right, GaugeFollowsHealth, Health!GaugeFollowsHealth
<1> QED
  BY <1>1, <1>2, TypeInit, TypeStep, GaugeStep, PTL DEF Spec

-----------------------------------------------------------------------------
(* Routes and probes.                                                      *)

\* A rebuild between its two steps is alone, and the routes are those it is going
\* to give to the checker; when there is none the checker has them.
RouteInv ==
    ~crossed =>
      /\ \A b, c \in Rebuilders : pc[b] = "watch" /\ pc[c] = "watch" => b = c
      /\ \A b \in Rebuilders : pc[b] = "watch" => list[b] = routed
      /\ Settled => watched = routed

LEMMA RouteStep == TypeOK /\ RouteInv /\ [Next]_vars => RouteInv'
<1> SUFFICES ASSUME TypeOK, RouteInv, [Next]_vars
             PROVE  RouteInv'
  OBVIOUS
<1>1. CASE Probe \/ Toggle
  BY <1>1 DEF RouteInv, Settled, Probe, Toggle, engineVars, Health!Probe, Health!Toggle,
     Health!StartRound, Health!Check, Health!Record, Health!Snapshot,
     Health!SetUpstreamHealth, Health!checkerVars
<1>2. ASSUME NEW b \in Rebuilders, Change(b) \/ Get(b)
      PROVE  RouteInv'
  <2>1. /\ UNCHANGED <<watched, routed, crossed>>
        /\ \A c \in Rebuilders :
             /\ pc'[c] = "watch" <=> pc[c] = "watch"
             /\ pc[c] = "watch" => list'[c] = list[c]
    BY <1>2 DEF TypeOK, Change, Get, Goto, healthVars
  <2> QED
    BY <2>1 DEF RouteInv, Settled
<1>3. ASSUME NEW b \in Rebuilders, Swap(b)
      PROVE  RouteInv'
  <2>1. /\ list' = list /\ routed' = list[b]
        /\ pc'[b] = "watch"
        /\ \A c \in Rebuilders \ {b} : pc'[c] = pc[c]
        /\ ~crossed' => \A c \in Rebuilders \ {b} : pc[c] # "watch"
    BY <1>3 DEF TypeOK, Swap, Goto
  <2> QED
    BY <2>1 DEF RouteInv, Settled
<1>4. ASSUME NEW b \in Rebuilders, Watch(b)
      PROVE  RouteInv'
  <2>1. /\ watched' = list[b] /\ UNCHANGED <<routed, crossed>>
        /\ pc[b] = "watch" /\ pc'[b] = "idle"
        /\ \A c \in Rebuilders \ {b} : pc'[c] = pc[c] /\ list'[c] = list[c]
    BY <1>4 DEF TypeOK, Watch, Goto, Health!SetTargets
  <2> QED
    BY <2>1 DEF RouteInv, Settled
<1>5. CASE UNCHANGED vars
  BY <1>5 DEF RouteInv, Settled, vars, healthVars, engineVars
<1> QED
  BY <1>1, <1>2, <1>3, <1>4, <1>5 DEF Next, Rebuild

\* However many goroutines rebuild, and whichever of their copies of the rules is the
\* older, the checker watches the targets of the routes when all are done, unless
\* the last to put its routes in place did so between the two steps of another
\* (Rebuild, SetTargets).
THEOREM UncrossedRebuildsWatch == Spec => []RoutedAreWatched
<1>1. Init => RouteInv
  BY DEF Init, Health!Init, RouteInv, Settled
<1>2. RouteInv => RoutedAreWatched
  BY DEF RouteInv, RoutedAreWatched
<1> QED
  BY <1>1, <1>2, TypeInit, TypeStep, RouteStep, PTL DEF Spec

-----------------------------------------------------------------------------
(* The checker inside the engine.                                          *)

\* A rebuild gives the checker a set of its targets.
LEMMA CheckerStep == TypeOK /\ [Next]_vars => [Health!Next]_(Health!vars)
<1> SUFFICES ASSUME TypeOK, [Next]_vars
             PROVE  [Health!Next]_(Health!vars)
  OBVIOUS
<1>1. CASE Probe \/ Toggle
  BY <1>1 DEF Probe, Toggle, Health!Next
<1>2. ASSUME NEW b \in Rebuilders, Change(b) \/ Get(b) \/ Swap(b)
      PROVE  UNCHANGED Health!vars
  BY <1>2 DEF Change, Get, Swap, healthVars, Health!vars, Health!checkerVars,
     Health!probeVars
<1>3. ASSUME NEW b \in Rebuilders, Watch(b)
      PROVE  Health!Next
  BY <1>3 DEF Watch, TypeOK, Health!Next
<1>4. CASE UNCHANGED vars
  BY <1>4 DEF vars, healthVars, Health!vars, Health!checkerVars, Health!probeVars
<1> QED
  BY <1>1, <1>2, <1>3, <1>4 DEF Next, Rebuild

\* The engine implements the checker alone: whatever rebuilds interleave, what
\* SetTargets, the probes and their callback do is a behaviour of HealthChecker, so
\* nothing said of that module depends on how the rules change (Rebuild, probe).
THEOREM EngineRunsChecker == Spec => Health!Spec
<1>1. Init => Health!Init
  BY DEF Init
<1> QED
  BY <1>1, TypeInit, TypeStep, CheckerStep, PTL DEF Spec, Health!Spec
=============================================================================
