---------------------------- MODULE HealthChecker ----------------------------
(***************************************************************************)
(* The health checks of the upstreams: health.Checker, with the goroutine  *)
(* that probes the targets one after the other and the circuit breaker of  *)
(* each, SetTargets, called at the end of every rebuild of the routes, and *)
(* the callback of main.go that copies the health into the gauge           *)
(* pxproxy_upstream_health.                                                *)
(*                                                                         *)
(* Abstractions.                                                           *)
(*   - The statistics and error texts of a status are left out.            *)
(*   - ConsecFails is only ever compared with failures: it stops there.    *)
(*   - A target that is not watched has the values of a fresh one, which   *)
(*     is what IsHealthy answers for it.                                   *)
(*   - An upstream answers (with a status below 500) or does not, and may  *)
(*     change at any time.                                                 *)
(***************************************************************************)
EXTENDS Naturals

CONSTANTS
    Targets,    \* upstream URLs
    NoTarget,
    Failures    \* consecutive failures after which a target is down

\* What the modules that compose this one assume of its constants.
ConstantsOK == Failures \in Nat \ {0} /\ NoTarget \notin Targets

VARIABLES
    answers,    \* the upstreams that answer
    watched,    \* the keys of Checker.targets and Checker.healthy
    consec,     \* Status.ConsecFails
    healthy,    \* Checker.healthy
    todo,       \* targets the probe round has still to check
    current,    \* the target being checked
    notify,     \* program point of the callback onChange
    snap,       \* the snapshot it has taken
    gauge,      \* Metrics.upstreamHealth
    added       \* history: targets added since the last snapshot

checkerVars == <<watched, consec, healthy>>
probeVars == <<todo, current, notify, snap, gauge>>
vars == <<answers, checkerVars, probeVars, added>>

-----------------------------------------------------------------------------
\* What the gauge shows: targets with the value 1 and with the value 0.
Gauges == [up : SUBSET Targets, down : SUBSET Targets]

TypeOK ==
    /\ answers \in SUBSET Targets
    /\ watched \in SUBSET Targets
    /\ consec \in [Targets -> 0..Failures]
    /\ healthy \in [Targets -> BOOLEAN]
    /\ todo \in SUBSET Targets
    /\ current \in Targets \cup {NoTarget}
    /\ notify \in {"idle", "snapshot", "publish"}
    /\ snap \in Gauges
    /\ gauge \in Gauges
    /\ added \in SUBSET Targets

NoGauge == [up |-> {}, down |-> {}]

Init ==
    /\ answers \in SUBSET Targets
    /\ watched = {}
    /\ consec = [t \in Targets |-> 0]
    /\ healthy = [t \in Targets |-> TRUE]
    /\ todo = {}
    /\ current = NoTarget
    /\ notify = "idle"
    /\ snap = NoGauge
    /\ gauge = NoGauge
    /\ added = {}

\* An upstream fails or recovers.
Toggle(t) ==
    /\ answers' = IF t \in answers THEN answers \ {t} ELSE answers \cup {t}
    /\ UNCHANGED <<checkerVars, probeVars, added>>

-----------------------------------------------------------------------------
Kept_None(ts) == {}  \* mutant: a rebuild starts every status afresh

\* The targets that keep their status when ts are set.
Kept(ts) == watched \cap ts

SetTargets_FreshStatus(ts) ==  \* mutant: keeps healthy, not the status
    /\ watched' = ts
    /\ consec' = [t \in Targets |-> 0]
    /\ healthy' = [t \in Targets |-> t \in Kept(ts) => healthy[t]]
    /\ added' = added \cup (ts \ watched)
    /\ UNCHANGED <<answers, probeVars>>

\* Targets that stay keep their status; the others start afresh.
SetTargets(ts) ==
    /\ watched' = ts
    /\ consec' = [t \in Targets |-> IF t \in Kept(ts) THEN consec[t] ELSE 0]
    /\ healthy' = [t \in Targets |-> t \in Kept(ts) => healthy[t]]
    /\ added' = added \cup (ts \ watched)
    /\ UNCHANGED <<answers, probeVars>>

StartRound_SkipsDown ==  \* mutant: a target that is down is not probed
    /\ current = NoTarget /\ todo = {} /\ notify = "idle"
    /\ todo' = {t \in watched : healthy[t]}
    /\ UNCHANGED <<answers, checkerVars, current, notify, snap, gauge, added>>

\* probe: the ticker fires and the targets are copied.
StartRound ==
    /\ current = NoTarget /\ todo = {} /\ notify = "idle"
    /\ todo' = watched
    /\ UNCHANGED <<answers, checkerVars, current, notify, snap, gauge, added>>

\* checkOne sends its request. The targets are a map: any comes next.
Check(t) ==
    /\ current = NoTarget /\ notify = "idle"
    /\ t \in todo
    /\ todo' = todo \ {t}
    /\ current' = t
    /\ UNCHANGED <<answers, checkerVars, notify, snap, gauge, added>>

\* ConsecFails of t after a check.
Counted(t, ok) ==
    IF ok THEN 0
    ELSE IF consec[t] = Failures THEN Failures ELSE consec[t] + 1

Notifies_Down(t, h) == healthy[t] /\ ~h  \* mutant: no recovery is notified

\* stateChanged: the health h recorded for t is notified.
Notifies(t, h) == healthy[t] # h

\* The answer, or the timeout, arrives and is recorded, unless the target is
\* no longer watched.
Record(ok) ==
    LET t == current
        h == ok \/ (healthy[t] /\ Counted(t, ok) < Failures)
    IN /\ t # NoTarget
       /\ ok <=> t \in answers
       /\ \/ /\ t \in watched
             /\ consec' = [consec EXCEPT ![t] = Counted(t, ok)]
             /\ healthy' = [healthy EXCEPT ![t] = h]
             /\ notify' = IF Notifies(t, h) THEN "snapshot" ELSE "idle"
          \/ /\ t \notin watched
             /\ UNCHANGED <<consec, healthy, notify>>
       /\ current' = NoTarget
       /\ UNCHANGED <<answers, watched, todo, snap, gauge, added>>

\* onChange, called by the probe goroutine after record has unlocked: a
\* snapshot of every target ...
Snapshot ==
    /\ notify = "snapshot"
    /\ snap' = [up |-> {t \in watched : healthy[t]},
                down |-> {t \in watched : ~healthy[t]}]
    /\ notify' = "publish"
    /\ added' = {}
    /\ UNCHANGED <<answers, checkerVars, todo, current, gauge>>

\* ... replaces the gauge.
SetUpstreamHealth ==
    /\ notify = "publish"
    /\ gauge' = snap
    /\ snap' = NoGauge
    /\ notify' = "idle"
    /\ UNCHANGED <<answers, checkerVars, todo, current, added>>

-----------------------------------------------------------------------------
Probe ==
    \/ StartRound
    \/ \E t \in Targets : Check(t)
    \/ \E ok \in BOOLEAN : Record(ok)
    \/ Snapshot
    \/ SetUpstreamHealth

Next ==
    \/ \E t \in Targets : Toggle(t)
    \/ \E ts \in SUBSET Targets : SetTargets(ts)
    \/ Probe

Spec == Init /\ [][Next]_vars

-----------------------------------------------------------------------------
(* Properties.                                                             *)

\* The circuit breaker and its counter agree, whatever rebuilds happen around
\* the probes and whenever their answers arrive: a target is down exactly
\* when its last failures probes failed (record, SetTargets).
BreakerConsistent ==
    \A t \in Targets : healthy[t] <=> consec[t] < Failures

\* At rest the gauge shows the health of every target it had a chance to see:
\* those that have not been added, or added again, since its last snapshot
\* (record, onChange, SetUpstreamHealth).
GaugeFollowsHealth ==
    notify = "idle" =>
      \A t \in watched \ added : t \in gauge.down <=> ~healthy[t]
=============================================================================
