------------------------ MODULE StreamManagerProofs ------------------------
(***************************************************************************)
(* Theorems of StreamManager, for any addresses, callers of Apply and      *)
(* connections.                                                            *)
(***************************************************************************)
EXTENDS StreamManager, SequenceTheorems, TLAPS

Listener == [addr : Addrs, target : Targets, open : BOOLEAN]

-----------------------------------------------------------------------------
(* Types.                                                                  *)

\* What Apply goes on to start is wanted: its target is one.
TypeInv ==
    /\ TypeOK
    /\ listeners \in Seq(Listener)
    /\ \A a \in Appliers :
         pc[a] = "start" => \A k \in todo[a] : list[a][k] # None

LEMMA ChangedListener ==
  ASSUME NEW s \in Seq(Listener), NEW i \in 1..Len(s), NEW e \in Listener,
         NEW t, t = [s EXCEPT ![i] = e]
  PROVE  /\ t \in Seq(Listener)
         /\ Len(t) = Len(s)
         /\ \A j \in 1..Len(s) : t[j] = IF j = i THEN e ELSE s[j]
BY ExceptSeq

LEMMA StoppedListener ==
  ASSUME TypeInv, NEW a \in Appliers, NEW k \in Addrs, running[k] # 0,
         listeners' = [listeners EXCEPT ![running[k]].open = FALSE]
  PROVE  /\ running[k] \in 1..Len(listeners)
         /\ listeners' \in Seq(Listener)
         /\ Len(listeners') = Len(listeners)
         /\ \A i \in 1..Len(listeners) :
              /\ listeners'[i].addr = listeners[i].addr
              /\ listeners'[i].open <=> i # running[k] /\ listeners[i].open
<1>1. Len(listeners) \in Nat
  BY LenProperties DEF TypeInv
<1>2. running[k] \in 1..Len(listeners)
  BY <1>1 DEF TypeInv, TypeOK, Indices
<1> DEFINE l == listeners[running[k]]
           e == [l EXCEPT !.open = FALSE]
<1>3. \A i \in 1..Len(listeners) : listeners[i] \in Listener
  BY ElementOfSeq DEF TypeInv
<1>4. e \in Listener /\ e.addr = l.addr /\ e.open = FALSE
  BY <1>2, <1>3 DEF Listener
<1>5. listeners' = [listeners EXCEPT ![running[k]] = e]
  OBVIOUS
<1> HIDE DEF e
<1>6. /\ listeners' \in Seq(Listener)
      /\ Len(listeners') = Len(listeners)
      /\ \A i \in 1..Len(listeners) :
           listeners'[i] = IF i = running[k] THEN e ELSE listeners[i]
  <2>1. listeners \in Seq(Listener)
    BY DEF TypeInv
  <2> QED
    BY ONLY <1>2, <1>4, <1>5, <2>1, ChangedListener
<1>7. \A i \in 1..Len(listeners) : listeners[i].open \in BOOLEAN
  BY <1>3 DEF Listener
<1>8. ASSUME NEW i \in 1..Len(listeners)
      PROVE  /\ listeners'[i].addr = listeners[i].addr
             /\ listeners'[i].open <=> i # running[k] /\ listeners[i].open
  <2>1. CASE i = running[k]
    BY <1>4, <1>6, <2>1
  <2>2. CASE i # running[k]
    BY <1>6, <1>7, <2>2
  <2> QED
    BY <2>1, <2>2
<1> QED
  BY <1>2, <1>6, <1>8

LEMMA StartedListener ==
  ASSUME TypeInv, NEW a \in Appliers, pc[a] = "start", NEW k \in todo[a],
         Started(a, k)
  PROVE  /\ k \in Addrs
         /\ listeners' \in Seq(Listener)
         /\ Len(listeners) \in Nat
         /\ Len(listeners') = Len(listeners) + 1
         /\ \A i \in 1..Len(listeners) : listeners'[i] = listeners[i]
         /\ listeners'[Len(listeners) + 1].addr = k
         /\ listeners'[Len(listeners) + 1].open = TRUE
<1>1. k \in Addrs /\ list[a][k] \in Targets
  BY ListsAssumption DEF TypeInv, TypeOK
<1> DEFINE e == [addr |-> k, target |-> list[a][k], open |-> TRUE]
<1>2. e \in Listener /\ e.addr = k /\ e.open = TRUE
  BY <1>1 DEF Listener
<1>3. listeners' = Append(listeners, e)
  BY DEF Started
<1> HIDE DEF e
<1>4. Len(listeners) \in Nat
  BY LenProperties DEF TypeInv
<1> QED
  BY <1>1, <1>2, <1>3, <1>4, AppendProperties DEF TypeInv

LEMMA TypeInit == Init => TypeInv
<1> SUFFICES ASSUME Init
             PROVE  TypeInv
  OBVIOUS
<1>1. listeners \in Seq(Listener) /\ Len(listeners) = 0
  BY EmptySeq DEF Init
<1>2. TypeOK
  BY <1>1, AppliesAssumption, NoRulesAssumption DEF Init, TypeOK, Indices, Phases
<1> QED
  BY <1>1, <1>2 DEF Init, TypeInv

\* A step that leaves the listeners alone, and one that adds to them.
LEMMA ListenersKept ==
  ASSUME TypeInv, UNCHANGED listeners
  PROVE  /\ listeners' \in Seq(Listener)
         /\ Indices' = Indices
         /\ (\A i \in 1..Len(listeners) :
               listeners[i] \in [addr : Addrs, target : Targets, open : BOOLEAN])'
BY DEF TypeInv, TypeOK, Indices

LEMMA ApplyType ==
  ASSUME TypeInv, NEW a \in Appliers, Call(a) \/ Apply(a)
  PROVE  TypeInv'
<1>1. \A i \in 1..Len(listeners') : listeners' \in Seq(Listener) =>
        listeners'[i] \in [addr : Addrs, target : Targets, open : BOOLEAN]
  BY ElementOfSeq DEF Listener
<1>2. CASE Call(a)
  BY <1>2, ListenersKept, AppliesAssumption DEF TypeInv, TypeOK, Call, Goto, mgrVars
<1>3. CASE Lock(a)
  BY <1>3, ListenersKept DEF TypeInv, TypeOK, Lock, Goto
<1>4. CASE StopOne(a)
  <2>1. PICK k \in Unwanted(a) :
          /\ listeners' = [listeners EXCEPT ![running[k]].open = FALSE]
          /\ victim' = [victim EXCEPT ![a] = running[k]]
    BY <1>4 DEF StopOne
  <2>2. k \in Addrs /\ running[k] # 0
    BY <2>1 DEF Unwanted
  <2>3. listeners' \in Seq(Listener) /\ Indices' = Indices
    BY <2>1, <2>2, StoppedListener DEF Indices
  <2> QED
    BY <1>1, <1>4, <2>1, <2>2, <2>3 DEF TypeInv, TypeOK, StopOne, Goto, mgrVars
<1>5. CASE CutConns(a)
  BY <1>5, ListenersKept DEF TypeInv, TypeOK, CutConns, Goto, At, mgrVars
<1>6. CASE WaitConns(a)
  <2>1. 0 \in Indices
    BY LenProperties DEF TypeInv, Indices
  <2> QED
    BY <1>6, <2>1, ListenersKept DEF TypeInv, TypeOK, WaitConns, Drop, Goto
<1>7. CASE StopsDone(a)
  BY <1>7, ListenersKept DEF TypeInv, TypeOK, StopsDone, Missing, Goto, mgrVars
<1>8. CASE Start(a)
  <2>1. PICK k \in todo[a] :
          /\ Started(a, k) \/ NotStarted(a, k)
          /\ todo' = [todo EXCEPT ![a] = @ \ {k}]
    BY <1>8 DEF Start
  <2>2. /\ pc[a] = "start" /\ k \in Addrs
        /\ UNCHANGED <<mu, pc, list, victim, applies, applied, conn, late>>
    BY <1>8, <2>1 DEF Start, TypeInv, TypeOK
  <2>3. /\ todo' \in [Appliers -> SUBSET Addrs]
        /\ \A b \in Appliers : todo'[b] \subseteq todo[b]
    BY <2>1 DEF TypeInv, TypeOK
  <2>4. CASE Started(a, k)
    <3>1. /\ listeners' \in Seq(Listener)
          /\ Len(listeners) \in Nat
          /\ Len(listeners') = Len(listeners) + 1
      BY <2>2, <2>4, StartedListener
    <3>2. Indices \subseteq Indices' /\ Len(listeners) + 1 \in Indices'
      BY <3>1 DEF Indices
    <3> QED
      BY <1>1, <2>2, <2>3, <2>4, <3>1, <3>2 DEF TypeInv, TypeOK, Started
  <2>5. CASE NotStarted(a, k)
    BY <2>2, <2>3, <2>5, ListenersKept DEF TypeInv, TypeOK, NotStarted
  <2> QED
    BY <2>1, <2>4, <2>5
<1>9. CASE Unlock(a)
  BY <1>9, ListenersKept, NoRulesAssumption DEF TypeInv, TypeOK, Unlock, Goto
<1> QED
  BY <1>2, <1>3, <1>4, <1>5, <1>6, <1>7, <1>8, <1>9 DEF Apply

LEMMA ConnType ==
  ASSUME TypeInv, NEW c \in Conns, Accept(c) \/ Hangup(c) \/ Serve(c)
  PROVE  TypeInv'
<1>1. UNCHANGED <<listeners, mgrVars, applyVars, late>>
  BY DEF Accept, Hangup, Serve, Count, Register, CutOff, Leave, Move
<1>2. conn' \in [Conns -> [phase : Phases, at : Indices, cut : BOOLEAN]]
  <2>1. ASSUME NEW from, NEW to \in Phases, Move(c, from, to)
        PROVE  conn' \in [Conns -> [phase : Phases, at : Indices, cut : BOOLEAN]]
    BY <2>1 DEF TypeInv, TypeOK, Move
  <2>2. CASE Accept(c)
    <3>1. 1..Len(listeners) \subseteq Indices
      BY LenProperties DEF TypeInv, Indices
    <3> QED
      BY <2>2, <3>1 DEF TypeInv, TypeOK, Accept, Phases
  <2> QED
    BY <2>1, <2>2 DEF Hangup, Serve, Count, Register, CutOff, Leave, Phases
<1> QED
  BY <1>1, <1>2, ListenersKept DEF TypeInv, TypeOK, mgrVars, applyVars

LEMMA TypeStep == TypeInv /\ [Next]_vars => TypeInv'
<1>1. TypeInv /\ UNCHANGED vars => TypeInv'
  BY ListenersKept DEF TypeInv, TypeOK, vars, mgrVars, applyVars
<1> QED
  BY <1>1, ApplyType, ConnType DEF Next

\* Apply, the listeners and the connections keep the types of their state.
THEOREM TypeCorrect == Spec => []TypeOK
<1>1. TypeInv => TypeOK
  BY DEF TypeInv
<1> QED
  BY <1>1, TypeInit, TypeStep, PTL DEF Spec

-----------------------------------------------------------------------------
(* The listeners and the rules.                                            *)

Held == {"stop", "cut", "wait", "start"}
Stopping(a) == pc[a] \in {"cut", "wait"}

\* Who is between Lock and Unlock has the mutex, and applies the last list.
MutexInv ==
    /\ \A a \in Appliers : pc[a] \in Held <=> mu = a
    /\ \A a \in Appliers : pc[a] \in Held => applied = list[a]
    /\ \A a \in Appliers :
         Stopping(a) =>
           \E k \in Addrs :
             victim[a] = running[k] /\ running[k] # 0 /\ list[a][k] = None

\* A listener of the map is at its address, has no error, and is open unless it is
\* being stopped.
Sound(k) ==
    running[k] # 0 =>
      /\ listeners[running[k]].addr = k
      /\ k \notin lastErrs
      /\ \/ listeners[running[k]].open
         \/ \E a \in Appliers : Stopping(a) /\ victim[a] = running[k]

\* The addresses of a list are as it wants them.
Settled(k, rules) == running[k] # 0 <=> rules[k] # None /\ k \notin lastErrs

\* What the last list wants is running, or still to be started.
MapInv ==
    /\ \A k \in Addrs : Sound(k)
    /\ \A a \in Appliers :
         pc[a] = "start" =>
           \A k \in Addrs : IF k \in todo[a] THEN running[k] = 0
                            ELSE Settled(k, list[a])
    /\ mu = None => \A k \in Addrs : Settled(k, applied)

LEMMA MutexStep == TypeInv /\ MutexInv /\ MapInv /\ [Next]_vars => MutexInv'
<1> SUFFICES ASSUME TypeInv, MutexInv, MapInv, [Next]_vars
             PROVE  MutexInv'
  OBVIOUS
<1> USE DEF Held, Stopping
<1>0. None \notin Appliers
  BY NoneAssumption
<1>1. ASSUME NEW a \in Appliers, Call(a) PROVE MutexInv'
  BY <1>1 DEF MutexInv, TypeInv, TypeOK, Call, Goto, mgrVars
<1>2. ASSUME NEW a \in Appliers, Lock(a) PROVE MutexInv'
  BY <1>0, <1>2 DEF MutexInv, TypeInv, TypeOK, Lock, Goto
<1>3. ASSUME NEW a \in Appliers, StopOne(a) PROVE MutexInv'
  <2>1. PICK k \in Unwanted(a) : victim' = [victim EXCEPT ![a] = running[k]]
    BY <1>3 DEF StopOne
  <2>2. k \in Addrs /\ running[k] # 0 /\ list[a][k] = None
    BY <2>1 DEF Unwanted
  <2> QED
    BY <1>3, <2>1, <2>2 DEF MutexInv, TypeInv, TypeOK, StopOne, Goto, mgrVars
<1>4. ASSUME NEW a \in Appliers, CutConns(a) PROVE MutexInv'
  BY <1>4 DEF MutexInv, TypeInv, TypeOK, CutConns, Goto, mgrVars
<1>5. ASSUME NEW a \in Appliers, WaitConns(a) PROVE MutexInv'
  BY <1>5 DEF MutexInv, TypeInv, TypeOK, WaitConns, Drop, Goto
<1>6. ASSUME NEW a \in Appliers, StopsDone(a) PROVE MutexInv'
  BY <1>6 DEF MutexInv, TypeInv, TypeOK, StopsDone, Goto, mgrVars
<1>7. ASSUME NEW a \in Appliers, Start(a) PROVE MutexInv'
  <2>1. \A b \in Appliers : ~Stopping(b)
    BY <1>7 DEF MutexInv, Start
  <2> QED
    BY <1>7, <2>1 DEF MutexInv, Start
<1>8. ASSUME NEW a \in Appliers, Unlock(a) PROVE MutexInv'
  BY <1>0, <1>8 DEF MutexInv, TypeInv, TypeOK, Unlock, Goto
<1>9. ASSUME NEW c \in Conns, Accept(c) \/ Hangup(c) \/ Serve(c) PROVE MutexInv'
  BY <1>9 DEF MutexInv, Accept, Hangup, Serve, Count, Register, CutOff, Leave, Move,
     mgrVars, applyVars
<1>10. CASE UNCHANGED vars
  BY <1>10 DEF MutexInv, vars, mgrVars, applyVars
<1> QED
  BY <1>1, <1>2, <1>3, <1>4, <1>5, <1>6, <1>7, <1>8, <1>9, <1>10 DEF Next, Apply

\* The listener that is stopped is the one of its address, and no other is.
LEMMA Victim ==
  ASSUME TypeInv, MutexInv, MapInv, NEW a \in Appliers, Stopping(a)
  PROVE  \E k \in Addrs :
           /\ victim[a] = running[k] /\ running[k] # 0
           /\ victim[a] \in 1..Len(listeners)
           /\ listeners[victim[a]].addr = k
           /\ list[a][k] = None
           /\ \A j \in Addrs \ {k} :
                running[j] # 0 => running[j] # victim[a] /\ listeners[running[j]].open
<1>1. PICK k \in Addrs :
        victim[a] = running[k] /\ running[k] # 0 /\ list[a][k] = None
  BY DEF MutexInv
<1>2. victim[a] \in 1..Len(listeners)
  BY <1>1, LenProperties DEF TypeInv, TypeOK, Indices
<1>3. listeners[victim[a]].addr = k
  BY <1>1 DEF MapInv, Sound
<1>4. \A b \in Appliers : Stopping(b) => b = a
  BY DEF MutexInv, Held, Stopping
<1>5. ASSUME NEW j \in Addrs \ {k}, running[j] # 0
      PROVE  running[j] # victim[a] /\ listeners[running[j]].open
  BY <1>1, <1>3, <1>4, <1>5 DEF MapInv, Sound
<1> QED
  BY <1>1, <1>2, <1>3, <1>5

LEMMA MapStep == TypeInv /\ MutexInv /\ MapInv /\ [Next]_vars => MapInv'
<1> SUFFICES ASSUME TypeInv, MutexInv, MapInv, [Next]_vars
             PROVE  MapInv'
  OBVIOUS
<1>0. /\ None \notin Appliers
      /\ Len(listeners) \in Nat
      /\ \A k \in Addrs : running[k] # 0 => running[k] \in 1..Len(listeners)
  BY NoneAssumption, LenProperties DEF TypeInv, TypeOK, Indices
<1>1. ASSUME NEW a \in Appliers, Call(a) PROVE MapInv'
  BY <1>1 DEF MapInv, Sound, Settled, Stopping, TypeInv, TypeOK, Call, Goto, mgrVars
<1>2. ASSUME NEW a \in Appliers, Lock(a) PROVE MapInv'
  BY <1>0, <1>2 DEF MapInv, Sound, Settled, Stopping, TypeInv, TypeOK, Lock, Goto
<1>3. ASSUME NEW a \in Appliers, StopOne(a) PROVE MapInv'
  <2>1. PICK k \in Unwanted(a) :
          /\ listeners' = [listeners EXCEPT ![running[k]].open = FALSE]
          /\ victim' = [victim EXCEPT ![a] = running[k]]
    BY <1>3 DEF StopOne
  <2>2. k \in Addrs /\ running[k] # 0
    BY <2>1 DEF Unwanted
  <2>3. /\ pc[a] = "stop" /\ mu = a /\ pc' = [pc EXCEPT ![a] = "cut"]
        /\ UNCHANGED <<running, lastErrs, mu, list, todo, applied>>
    BY <1>3 DEF StopOne, Goto, mgrVars, MutexInv, Held
  <2>4. \A b \in Appliers : ~Stopping(b) /\ pc'[b] # "start"
    BY <2>3 DEF MutexInv, Held, Stopping, TypeInv, TypeOK
  <2>5. Stopping(a)' /\ victim'[a] = running'[k]
    BY <2>1, <2>3 DEF Stopping, TypeInv, TypeOK
  <2>6. ASSUME NEW j \in Addrs PROVE Sound(j)'
    <3>1. CASE running[j] = 0
      BY <2>3, <3>1 DEF Sound
    <3>2. CASE running[j] = running[k] /\ running[j] # 0
      BY <1>0, <2>1, <2>2, <2>3, <2>5, <3>2, StoppedListener DEF MapInv, Sound
    <3>3. CASE running[j] # running[k] /\ running[j] # 0
      <4>1. /\ listeners[running[j]].addr = j /\ j \notin lastErrs
            /\ listeners[running[j]].open
        BY <2>4, <3>3 DEF MapInv, Sound
      <4>2. /\ listeners'[running[j]].addr = j
            /\ listeners'[running[j]].open
        BY <1>0, <2>1, <2>2, <3>3, <4>1, StoppedListener
      <4> QED
        BY <2>3, <4>1, <4>2 DEF Sound
    <3> QED
      BY <3>1, <3>2, <3>3
  <2> QED
    BY <1>0, <2>3, <2>4, <2>6 DEF MapInv
<1>4. ASSUME NEW a \in Appliers, CutConns(a) PROVE MapInv'
  BY <1>4 DEF MapInv, Sound, Settled, Stopping, TypeInv, TypeOK, CutConns, Goto, mgrVars
<1>5. ASSUME NEW a \in Appliers, WaitConns(a) PROVE MapInv'
  <2>1. /\ pc[a] = "wait" /\ mu = a /\ pc' = [pc EXCEPT ![a] = "stop"]
        /\ running' = [running EXCEPT ![listeners[victim[a]].addr] = 0]
        /\ UNCHANGED <<listeners, lastErrs, mu, list, todo, applied>>
    BY <1>5 DEF WaitConns, Drop, Goto, MutexInv, Held
  <2>2. PICK k \in Addrs :
          /\ listeners[victim[a]].addr = k
          /\ \A j \in Addrs \ {k} : running[j] # 0 => listeners[running[j]].open
    BY <2>1, Victim DEF Stopping
  <2>3. running'[k] = 0 /\ \A j \in Addrs \ {k} : running'[j] = running[j]
    BY <2>1, <2>2 DEF TypeInv, TypeOK
  <2>4. \A j \in Addrs : Sound(j)'
    BY <2>1, <2>2, <2>3 DEF MapInv, Sound
  <2>5. \A b \in Appliers : pc'[b] # "start"
    BY <2>1 DEF MutexInv, Held, TypeInv, TypeOK
  <2> QED
    BY <1>0, <2>1, <2>4, <2>5 DEF MapInv
<1>6. ASSUME NEW a \in Appliers, StopsDone(a) PROVE MapInv'
  <2>1. /\ pc[a] = "stop" /\ mu = a /\ Unwanted(a) = {}
        /\ pc' = [pc EXCEPT ![a] = "start"]
        /\ todo' = [todo EXCEPT ![a] = Missing(a)]
        /\ UNCHANGED <<listeners, running, lastErrs, mu, list, victim, applied>>
    BY <1>6 DEF StopsDone, Goto, mgrVars, MutexInv, Held
  <2>2. \A b \in Appliers : pc'[b] = "start" => b = a
    BY <2>1 DEF MutexInv, Held, TypeInv, TypeOK
  <2>3. ASSUME NEW k \in Addrs
        PROVE  IF k \in todo'[a] THEN running[k] = 0 ELSE Settled(k, list[a])
    BY <2>1 DEF MapInv, Sound, Settled, Unwanted, Missing, TypeInv, TypeOK
  <2>4. ASSUME NEW k \in Addrs PROVE Sound(k)'
    BY <2>1 DEF MapInv, Sound, Stopping, TypeInv, TypeOK
  <2>5. \A k \in Addrs : Settled(k, list[a])' <=> Settled(k, list[a])
    BY <2>1 DEF Settled
  <2> QED
    BY <1>0, <2>1, <2>2, <2>3, <2>4, <2>5 DEF MapInv
<1>7. ASSUME NEW a \in Appliers, Start(a) PROVE MapInv'
  <2>1. PICK k \in todo[a] :
          /\ Started(a, k) \/ NotStarted(a, k)
          /\ todo' = [todo EXCEPT ![a] = @ \ {k}]
    BY <1>7 DEF Start
  <2>2. /\ pc[a] = "start" /\ mu = a /\ k \in Addrs
        /\ list[a][k] # None /\ running[k] = 0
        /\ UNCHANGED <<mu, pc, list, victim, applied>>
    BY <1>7, <2>1 DEF Start, MutexInv, Held, MapInv, TypeInv, TypeOK
  <2>3. \A b \in Appliers : ~Stopping(b) /\ (pc[b] = "start" => b = a)
    BY <2>2 DEF MutexInv, Held, Stopping
  <2>4. /\ todo'[a] = todo[a] \ {k}
        /\ \A j \in Addrs \ {k} :
             running'[j] = running[j] /\ (j \in lastErrs' <=> j \in lastErrs)
        /\ \A i \in 1..Len(listeners) : listeners'[i] = listeners[i]
        /\ \/ k \notin lastErrs' /\ running'[k] # 0
              /\ listeners'[running'[k]].addr = k /\ listeners'[running'[k]].open
           \/ k \in lastErrs' /\ running'[k] = 0
    <3>1. CASE Started(a, k)
      <4>1. running' = [running EXCEPT ![k] = Len(listeners) + 1]
            /\ lastErrs' = lastErrs \ {k}
        BY <3>1 DEF Started
      <4> QED
        <5>1. running'[k] = Len(listeners) + 1 /\ running'[k] # 0
          BY <1>0, <2>2, <4>1 DEF TypeInv, TypeOK
        <5>2. /\ \A i \in 1..Len(listeners) : listeners'[i] = listeners[i]
              /\ listeners'[running'[k]].addr = k /\ listeners'[running'[k]].open
          BY <2>2, <3>1, <5>1, StartedListener
        <5>3. \A j \in Addrs \ {k} :
             running'[j] = running[j] /\ (j \in lastErrs' <=> j \in lastErrs)
          BY <4>1 DEF TypeInv, TypeOK
        <5>4. todo'[a] = todo[a] \ {k} /\ k \notin lastErrs'
          BY <2>1, <4>1 DEF TypeInv, TypeOK
        <5> QED
          BY <5>1, <5>2, <5>3, <5>4
    <3>2. CASE NotStarted(a, k)
      BY <2>1, <2>2, <3>2 DEF NotStarted, TypeInv, TypeOK
    <3> QED
      BY <2>1, <3>1, <3>2
  <2>5. ASSUME NEW j \in Addrs PROVE Sound(j)'
    <3>1. CASE j = k
      BY <2>4, <3>1 DEF Sound
    <3>2. CASE j # k /\ running[j] # 0
      <4>1. /\ listeners[running[j]].addr = j /\ j \notin lastErrs
            /\ listeners[running[j]].open
        BY <2>3, <3>2 DEF MapInv, Sound
      <4>2. /\ running'[j] = running[j] /\ j \notin lastErrs'
            /\ listeners'[running[j]] = listeners[running[j]]
        BY <1>0, <2>4, <3>2, <4>1
      <4> QED
        BY <4>1, <4>2 DEF Sound
    <3>3. CASE j # k /\ running[j] = 0
      BY <2>4, <3>3 DEF Sound
    <3> QED
      BY <3>1, <3>2, <3>3
  <2>6. ASSUME NEW j \in Addrs
        PROVE  IF j \in todo'[a] THEN running'[j] = 0 ELSE Settled(j, list[a])'
    <3>1. list' = list
      BY <2>2
    <3>2. CASE j = k
      <4>1. k \notin todo'[a] /\ (running'[k] # 0 <=> k \notin lastErrs')
        BY <2>4
      <4> QED
        BY <2>2, <3>1, <3>2, <4>1 DEF Settled
    <3>3. CASE j # k
      <4>1. IF j \in todo[a] THEN running[j] = 0 ELSE Settled(j, list[a])
        BY <2>2 DEF MapInv
      <4>2. /\ j \in todo'[a] <=> j \in todo[a]
            /\ running'[j] = running[j]
            /\ j \in lastErrs' <=> j \in lastErrs
        BY <2>4, <3>3
      <4> QED
        BY <3>1, <4>1, <4>2 DEF Settled
    <3> QED
      BY <3>2, <3>3
  <2> QED
    BY <1>0, <2>2, <2>3, <2>5, <2>6 DEF MapInv
<1>8. ASSUME NEW a \in Appliers, Unlock(a) PROVE MapInv'
  <2>1. /\ pc[a] = "start" /\ todo[a] = {} /\ pc' = [pc EXCEPT ![a] = "idle"]
        /\ applied = list[a]
        /\ UNCHANGED <<listeners, running, lastErrs, victim, applied>>
    BY <1>8 DEF Unlock, Goto, MutexInv, Held
  <2>2. \A k \in Addrs : Settled(k, applied)'
    BY <2>1 DEF MapInv, Settled
  <2>3. \A b \in Appliers : pc'[b] # "start" /\ ~Stopping(b)
    BY <2>1 DEF MutexInv, Held, Stopping, TypeInv, TypeOK
  <2>4. ASSUME NEW k \in Addrs PROVE Sound(k)'
    BY <2>1, <2>3 DEF MapInv, Sound
  <2> QED
    BY <2>2, <2>3, <2>4 DEF MapInv
<1>9. ASSUME NEW c \in Conns, Accept(c) \/ Hangup(c) \/ Serve(c) PROVE MapInv'
  <2>1. UNCHANGED <<listeners, mgrVars, applyVars>>
    BY <1>9 DEF Accept, Hangup, Serve, Count, Register, CutOff, Leave, Move
  <2> QED
    BY <2>1 DEF MapInv, Sound, Settled, Stopping, mgrVars, applyVars
<1>10. CASE UNCHANGED vars
  BY <1>10 DEF MapInv, Sound, Settled, Stopping, vars, mgrVars, applyVars
<1> QED
  BY <1>1, <1>2, <1>3, <1>4, <1>5, <1>6, <1>7, <1>8, <1>9, <1>10 DEF Next, Apply

LEMMA ManagerInit == Init => MutexInv /\ MapInv
<1> SUFFICES ASSUME Init
             PROVE  MutexInv /\ MapInv
  OBVIOUS
<1>1. MutexInv
  BY NoneAssumption DEF Init, MutexInv, Held, Stopping
<1>2. MapInv
  BY DEF Init, MapInv, Sound, Settled, NoRules
<1> QED
  BY <1>1, <1>2

\* Whenever nobody holds the mutex, the addresses that are listened at are those the
\* last list wants and that could be opened, for any number of goroutines that
\* reconfigure (Apply, startLocked, listener.stop).
THEOREM ListenersAsApplied == Spec => []RunningAsApplied
<1>1. TypeInv /\ MutexInv /\ MapInv => RunningAsApplied
  <2> SUFFICES ASSUME TypeInv, MutexInv, MapInv, mu = None, NEW k \in Addrs
               PROVE  /\ running[k] # 0 <=> applied[k] # None /\ k \notin lastErrs
                      /\ running[k] # 0 => listeners[running[k]].open
    BY DEF RunningAsApplied
  <2>1. \A a \in Appliers : ~Stopping(a)
    BY NoneAssumption DEF MutexInv, Held, Stopping
  <2> QED
    BY <2>1 DEF MapInv, Settled, Sound
<1> QED
  BY <1>1, TypeInit, TypeStep, ManagerInit, MutexStep, MapStep, PTL DEF Spec

-----------------------------------------------------------------------------
(* The connections.                                                        *)

Live == {"accepted", "counted", "relayed", "over"}
Mapped(i) == \E k \in Addrs : running[k] = i

\* A connection belongs to a listener of the map, unless it was missed by the stop
\* of its listener; a listener being stopped is closed, and accepts no more.
ConnInv ==
    /\ \A i \in 1..Len(listeners) : listeners[i].open => Mapped(i)
    /\ \A a \in Appliers : Stopping(a) => ~listeners[victim[a]].open
    /\ \A c \in Conns :
         conn[c].phase \in Live =>
           /\ conn[c].at \in 1..Len(listeners)
           /\ c \in late \/ Mapped(conn[c].at)
    /\ \A a \in Appliers, c \in Conns :
         /\ pc[a] = "wait"
         /\ conn[c].at = victim[a]
         /\ conn[c].phase \in {"accepted", "counted"}
         => c \in late

LEMMA ConnStep ==
  TypeInv /\ MutexInv /\ MapInv /\ ConnInv /\ [Next]_vars => ConnInv'
<1> SUFFICES ASSUME TypeInv, MutexInv, MapInv, ConnInv, [Next]_vars
             PROVE  ConnInv'
  OBVIOUS
<1>0. /\ Len(listeners) \in Nat
      /\ \A k \in Addrs : running[k] # 0 => running[k] \in 1..Len(listeners)
  BY LenProperties DEF TypeInv, TypeOK, Indices
<1>1. ASSUME NEW a \in Appliers,
             UNCHANGED <<listeners, running, victim, conn, late>>,
             pc' = [pc EXCEPT ![a] = pc'[a]], pc'[a] \notin {"cut", "wait"}
      PROVE  ConnInv'
  <2>1. \A b \in Appliers : pc'[b] = pc[b] \/ pc'[b] \notin {"cut", "wait"}
    BY <1>1 DEF TypeInv, TypeOK
  <2> QED
    BY <1>1, <2>1 DEF ConnInv, Mapped, Stopping
<1>2. ASSUME NEW a \in Appliers, Call(a) \/ Lock(a) \/ StopsDone(a) \/ Unlock(a)
      PROVE  ConnInv'
  BY <1>1, <1>2 DEF Call, Lock, StopsDone, Unlock, Goto, mgrVars, TypeInv, TypeOK
<1>3. ASSUME NEW a \in Appliers, StopOne(a) PROVE ConnInv'
  <2>1. PICK k \in Unwanted(a) :
          /\ listeners' = [listeners EXCEPT ![running[k]].open = FALSE]
          /\ victim' = [victim EXCEPT ![a] = running[k]]
    BY <1>3 DEF StopOne
  <2>2. k \in Addrs /\ running[k] # 0
    BY <2>1 DEF Unwanted
  <2>3. /\ running[k] \in 1..Len(listeners)
        /\ Len(listeners') = Len(listeners)
        /\ \A i \in 1..Len(listeners) :
             listeners'[i].open <=> i # running[k] /\ listeners[i].open
    BY <2>1, <2>2, StoppedListener
  <2>4. /\ mu = a /\ pc[a] = "stop" /\ pc' = [pc EXCEPT ![a] = "cut"]
        /\ UNCHANGED <<running, conn, late>>
    BY <1>3 DEF StopOne, Goto, mgrVars, MutexInv, Held
  <2>5. \A b \in Appliers : Stopping(b)' => b = a
    BY <2>4 DEF MutexInv, Held, Stopping, TypeInv, TypeOK
  <2>6. victim'[a] = running[k] /\ pc'[a] = "cut"
    BY <2>1, <2>4 DEF TypeInv, TypeOK
  <2>7. \A b \in Appliers : pc'[b] # "wait"
    BY <2>5, <2>6 DEF Stopping
  <2> QED
    BY <2>3, <2>4, <2>5, <2>6, <2>7 DEF ConnInv, Mapped
<1>4. ASSUME NEW a \in Appliers, CutConns(a) PROVE ConnInv'
  <2>1. /\ mu = a /\ pc[a] = "cut" /\ pc' = [pc EXCEPT ![a] = "wait"]
        /\ late' = late \cup At(victim[a], {"accepted", "counted"})
        /\ UNCHANGED <<listeners, running, victim>>
    BY <1>4 DEF CutConns, Goto, mgrVars, MutexInv, Held
  <2>2. \A c \in Conns : conn'[c].phase = conn[c].phase /\ conn'[c].at = conn[c].at
    <3>1. ASSUME NEW c \in Conns
          PROVE  /\ [conn[c] EXCEPT !.cut = TRUE].phase = conn[c].phase
                 /\ [conn[c] EXCEPT !.cut = TRUE].at = conn[c].at
      BY DEF TypeInv, TypeOK
    <3> QED
      BY <1>4, <3>1 DEF CutConns
  <2>3. \A b \in Appliers : Stopping(b)' => b = a /\ Stopping(a)
    BY <2>1 DEF MutexInv, Held, Stopping, TypeInv, TypeOK
  <2>4. ASSUME NEW c \in Conns, conn[c].at = victim[a],
               conn[c].phase \in {"accepted", "counted"}
        PROVE  c \in late'
    BY <2>1, <2>4 DEF At
  <2> QED
    BY <2>1, <2>2, <2>3, <2>4 DEF ConnInv, Mapped, Stopping
<1>5. ASSUME NEW a \in Appliers, WaitConns(a) PROVE ConnInv'
  <2>1. /\ pc[a] = "wait" /\ mu = a /\ pc' = [pc EXCEPT ![a] = "stop"]
        /\ At(victim[a], Counted) = {}
        /\ running' = [running EXCEPT ![listeners[victim[a]].addr] = 0]
        /\ UNCHANGED <<listeners, conn, late>>
    BY <1>5 DEF WaitConns, Drop, Goto, MutexInv, Held
  <2>2. PICK k \in Addrs :
          /\ victim[a] = running[k] /\ running[k] # 0
          /\ listeners[victim[a]].addr = k
    BY <2>1, Victim DEF Stopping
  <2>3. running'[k] = 0 /\ \A j \in Addrs \ {k} : running'[j] = running[j]
    BY <2>1, <2>2 DEF TypeInv, TypeOK
  <2>4. ASSUME NEW i, Mapped(i), i # victim[a] PROVE Mapped(i)'
    BY <2>2, <2>3, <2>4 DEF Mapped
  <2>5. \A b \in Appliers : ~Stopping(b)'
    BY <2>1 DEF MutexInv, Held, Stopping, TypeInv, TypeOK
  <2>6. ASSUME NEW c \in Conns, conn[c].phase \in Live, conn[c].at = victim[a]
        PROVE  c \in late
    <3>1. conn[c].phase = "accepted"
      BY <2>1, <2>6 DEF At, Counted, Live
    <3> QED
      BY <2>1, <2>6, <3>1 DEF ConnInv
  <2>7. ~listeners[victim[a]].open
    BY <2>1 DEF ConnInv, Stopping
  <2>8. /\ \A i \in 1..Len(listeners) : listeners[i].open => Mapped(i)'
        /\ \A c \in Conns :
             conn[c].phase \in Live =>
               /\ conn[c].at \in 1..Len(listeners)
               /\ c \in late \/ Mapped(conn[c].at)'
    <3>1. \A i \in 1..Len(listeners) : listeners[i].open => Mapped(i)'
      BY <2>4, <2>7 DEF ConnInv
    <3>2. ASSUME NEW c \in Conns, conn[c].phase \in Live
          PROVE  /\ conn[c].at \in 1..Len(listeners)
                 /\ c \in late \/ Mapped(conn[c].at)'
      <4>1. conn' = conn
        BY <2>1
      <4> QED
        BY <2>4, <2>6, <3>2, <4>1 DEF ConnInv
    <3> QED
      BY <3>1, <3>2
  <2> QED
    BY <2>1, <2>5, <2>8 DEF ConnInv, Mapped, Stopping
<1>6. ASSUME NEW a \in Appliers, Start(a) PROVE ConnInv'
  <2>1. PICK k \in todo[a] : Started(a, k) \/ NotStarted(a, k)
    BY <1>6 DEF Start
  <2>2. /\ pc[a] = "start" /\ mu = a /\ k \in Addrs /\ running[k] = 0
        /\ UNCHANGED <<pc, victim, conn, late>>
    BY <1>6, <2>1 DEF Start, MutexInv, Held, MapInv, TypeInv, TypeOK
  <2>3. \A b \in Appliers : ~Stopping(b)
    BY <2>2 DEF MutexInv, Held, Stopping
  <2>4. CASE Started(a, k)
    <3>1. /\ running'[k] = Len(listeners) + 1
          /\ \A j \in Addrs \ {k} : running'[j] = running[j]
      BY <2>2, <2>4 DEF Started, TypeInv, TypeOK
    <3>2. /\ Len(listeners') = Len(listeners) + 1
          /\ \A i \in 1..Len(listeners) : listeners'[i] = listeners[i]
      BY <2>2, <2>4, StartedListener
    <3>3. ASSUME NEW i \in 1..Len(listeners), Mapped(i) PROVE Mapped(i)'
      BY <1>0, <2>2, <3>1, <3>3 DEF Mapped
    <3>4. ASSUME NEW i \in 1..Len(listeners'), listeners'[i].open PROVE Mapped(i)'
      <4>1. CASE i \in 1..Len(listeners)
        BY <3>2, <3>3, <3>4, <4>1 DEF ConnInv
      <4>2. CASE i = Len(listeners) + 1
        <5>1. running'[k] = i
          BY <3>1, <4>2
        <5> QED
          BY <2>2, <5>1 DEF Mapped
      <4> QED
        BY <1>0, <3>2, <4>1, <4>2
    <3>5. ASSUME NEW c \in Conns, conn[c].phase \in Live
          PROVE  /\ conn[c].at \in 1..Len(listeners')
                 /\ c \in late \/ Mapped(conn[c].at)'
      <4>1. conn' = conn
        BY <2>2
      <4> QED
        BY <1>0, <3>2, <3>3, <3>5, <4>1 DEF ConnInv
    <3>6. conn' = conn /\ late' = late /\ \A b \in Appliers : pc'[b] \notin {"cut", "wait"}
      BY <2>2, <2>3 DEF Stopping
    <3> QED
      BY <3>4, <3>5, <3>6 DEF ConnInv, Mapped, Stopping
  <2>5. CASE NotStarted(a, k)
    BY <2>2, <2>5 DEF ConnInv, Mapped, Stopping, NotStarted
  <2> QED
    BY <2>1, <2>4, <2>5
<1>7. ASSUME NEW c \in Conns, Accept(c) PROVE ConnInv'
  <2>1. PICK i \in 1..Len(listeners) :
          /\ listeners[i].open
          /\ conn' = [conn EXCEPT ![c] = [phase |-> "accepted", at |-> i, cut |-> FALSE]]
    BY <1>7 DEF Accept
  <2>2. /\ conn'[c].phase = "accepted" /\ conn'[c].at = i
        /\ \A d \in Conns \ {c} : conn'[d] = conn[d]
    BY <2>1 DEF TypeInv, TypeOK
  <2>3. Mapped(i) /\ \A a \in Appliers : Stopping(a) => victim[a] # i
    BY <2>1 DEF ConnInv
  <2>4. UNCHANGED <<listeners, running, pc, victim, late>>
    BY <1>7 DEF Accept, mgrVars, applyVars
  <2> QED
    BY <2>1, <2>2, <2>3, <2>4 DEF ConnInv, Mapped, Stopping
<1>8. ASSUME NEW c \in Conns, Hangup(c) \/ Serve(c) PROVE ConnInv'
  <2>1. /\ UNCHANGED <<listeners, running, pc, victim, late>>
        /\ \A d \in Conns :
             /\ conn'[d].at = conn[d].at
             /\ conn'[d].phase \in Live => conn[d].phase \in Live
             /\ conn'[d].phase \in {"accepted", "counted"}
                  => conn[d].phase \in {"accepted", "counted"}
    <3>1. ASSUME NEW from, NEW to, Move(c, from, to)
          PROVE  /\ UNCHANGED <<listeners, running, pc, victim, late>>
                 /\ conn[c].phase = from /\ conn'[c].phase = to
                 /\ conn'[c].at = conn[c].at
                 /\ \A d \in Conns \ {c} : conn'[d] = conn[d]
      BY <3>1 DEF Move, TypeInv, TypeOK, mgrVars, applyVars
    <3>2. PICK step \in {<<"accepted", "counted">>, <<"counted", "relayed">>,
                         <<"relayed", "over">>, <<"over", "done">>} :
            Move(c, step[1], step[2])
      BY <1>8 DEF Hangup, Serve, Count, Register, CutOff, Leave
    <3> QED
      BY <3>1, <3>2 DEF Live
  <2> QED
    BY <2>1 DEF ConnInv, Mapped, Stopping
<1>9. CASE UNCHANGED vars
  BY <1>9 DEF ConnInv, Mapped, Stopping, vars, mgrVars, applyVars
<1> QED
  BY <1>2, <1>3, <1>4, <1>5, <1>6, <1>7, <1>8, <1>9 DEF Next, Apply, Serve

LEMMA ConnInit == Init => ConnInv
<1> SUFFICES ASSUME Init PROVE ConnInv
  OBVIOUS
<1>1. /\ Len(listeners) = 0
      /\ \A a \in Appliers : pc[a] = "idle"
      /\ \A c \in Conns : conn[c].phase = "none"
  BY EmptySeq DEF Init
<1> QED
  BY <1>1 DEF ConnInv, Stopping, Live

\* A listener that is gone from the map has no connection left but those that were
\* accepted and not registered when stop closed them (acceptLoop, listener.stop).
THEOREM StoppedListenersEmpty == Spec => []StoppedIsEmpty
<1>1. ConnInv => StoppedIsEmpty
  BY DEF ConnInv, Mapped, StoppedIsEmpty, At, Counted, Live
<1> QED
  BY <1>1, TypeInit, TypeStep, ManagerInit, MutexStep, MapStep, ConnInit, ConnStep,
     PTL DEF Spec

-----------------------------------------------------------------------------
(* Both together.                                                          *)

\* Every listener that is open is the one the map has for its address.
OpenIsRunning ==
    \A i \in 1..Len(listeners) :
      listeners[i].open => running[listeners[i].addr] = i

\* No listener is left open that no later Apply could stop, and no address has two,
\* for any number of goroutines that reconfigure (Apply, startLocked, listener.stop).
THEOREM NoListenerIsLost == Spec => []OpenIsRunning
<1>1. MapInv /\ ConnInv => OpenIsRunning
  <2> SUFFICES ASSUME MapInv, ConnInv,
                      NEW i \in 1..Len(listeners), listeners[i].open
               PROVE  running[listeners[i].addr] = i
    BY DEF OpenIsRunning
  <2>1. PICK k \in Addrs : running[k] = i
    BY DEF ConnInv, Mapped
  <2>2. listeners[i].addr = k
    BY <2>1 DEF MapInv, Sound
  <2> QED
    BY <2>1, <2>2
<1> QED
  BY <1>1, TypeInit, TypeStep, ManagerInit, MutexStep, MapStep, ConnInit, ConnStep,
     PTL DEF Spec

\* Once Apply has returned, a connection that is not over is at an address the last
\* list wants, or was missed by the stop of its listener.
RemovedCarryNothing ==
    mu = None =>
      \A c \in Conns \ late :
        conn[c].phase \in Live => applied[listeners[conn[c].at].addr] # None

\* A rule that is removed carries nothing on, save what had been accepted and was not
\* yet registered when its listener was stopped (Apply, listener.stop, acceptLoop).
THEOREM RemovedRulesCarryNothing == Spec => []RemovedCarryNothing
<1>1. MapInv /\ ConnInv => RemovedCarryNothing
  <2> SUFFICES ASSUME MapInv, ConnInv, mu = None,
                      NEW c \in Conns \ late, conn[c].phase \in Live
               PROVE  applied[listeners[conn[c].at].addr] # None
    BY DEF RemovedCarryNothing
  <2>1. conn[c].at \in 1..Len(listeners) /\ Mapped(conn[c].at)
    BY DEF ConnInv
  <2>2. PICK k \in Addrs : running[k] = conn[c].at
    BY <2>1 DEF Mapped
  <2>3. running[k] # 0
    BY <2>1, <2>2
  <2>4. listeners[conn[c].at].addr = k
    BY <2>2, <2>3 DEF MapInv, Sound
  <2>5. Settled(k, applied)
    BY DEF MapInv
  <2> QED
    BY <2>3, <2>4, <2>5 DEF Settled
<1> QED
  BY <1>1, TypeInit, TypeStep, ManagerInit, MutexStep, MapStep, ConnInit, ConnStep,
     PTL DEF Spec
=============================================================================
