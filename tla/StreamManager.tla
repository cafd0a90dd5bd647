---------------------------- MODULE StreamManager ----------------------------
(***************************************************************************)
(* The TCP stream proxy: stream.Manager reconciles its listeners with the  *)
(* stream rules (at the start and in every reload of the cluster, from any *)
(* of two goroutines), each listener accepts connections and relays them,  *)
(* and stopping one closes its connections and waits for them, all under   *)
(* the manager's mutex.                                                    *)
(*                                                                         *)
(* Abstractions.                                                           *)
(*   - A list of rules is the target of every address that has an enabled  *)
(*     rule, or None.                                                      *)
(*   - The TLS handshake, the dial and the relay are one phase, which ends *)
(*     when either side closes. Deadlines are left out: watchIdle pushes   *)
(*     them away as long as the listener is open, and a rule without       *)
(*     TimeoutSec sets none.                                               *)
(***************************************************************************)
EXTENDS Naturals, Sequences

CONSTANTS
    Addrs,      \* listen addresses
    Targets,
    None,
    Lists,      \* the lists of rules the configuration may hold
    Appliers,   \* goroutines that call Apply
    Conns,      \* connections
    MaxApplies  \* bound: calls of Apply

ASSUME NoneAssumption == None \notin Targets \cup Appliers
ASSUME ListsAssumption == Lists \subseteq [Addrs -> Targets \cup {None}]
ASSUME AppliesAssumption == MaxApplies \in Nat

VARIABLES
    listeners,  \* every listener ever started
    running,    \* Manager.running: the index of a listener, or 0
    lastErrs,   \* the keys of Manager.lastErrs
    mu,         \* who holds Manager.mu
    pc,         \* the program point of each applier
    list,       \* the rules it applies
    victim,     \* the listener it is stopping
    todo,       \* the addresses it has still to start
    conn,       \* where each connection is, and at which listener
    applies,
    applied,    \* history: the list last applied
    late        \* history: connections not registered when stop looked

mgrVars == <<running, lastErrs, mu>>
applyVars == <<pc, list, victim, todo, applies, applied>>
vars == <<listeners, mgrVars, applyVars, conn, late>>

-----------------------------------------------------------------------------
Indices == 0..Len(listeners)

Phases == {"none", "accepted", "counted", "relayed", "over", "done"}

\* The connections that l.conns counts.
Counted == {"counted", "relayed", "over"}

TypeOK ==
    /\ \A i \in 1..Len(listeners) :
         listeners[i] \in [addr : Addrs, target : Targets, open : BOOLEAN]
    /\ running \in [Addrs -> Indices]
    /\ lastErrs \in SUBSET Addrs
    /\ mu \in Appliers \cup {None}
    /\ pc \in [Appliers -> {"idle", "lock", "stop", "cut", "wait", "start"}]
    /\ list \in [Appliers -> Lists]
    /\ victim \in [Appliers -> Indices]
    /\ todo \in [Appliers -> SUBSET Addrs]
    /\ conn \in [Conns -> [phase : Phases, at : Indices, cut : BOOLEAN]]
    /\ applies \in 0..MaxApplies
    /\ applied \in Lists
    /\ late \in SUBSET Conns

NoRules == [k \in Addrs |-> None]

ASSUME NoRulesAssumption == NoRules \in Lists

Init ==
    /\ listeners = <<>>
    /\ running = [k \in Addrs |-> 0]
    /\ lastErrs = {}
    /\ mu = None
    /\ pc = [a \in Appliers |-> "idle"]
    /\ list = [a \in Appliers |-> NoRules]
    /\ victim = [a \in Appliers |-> 0]
    /\ todo = [a \in Appliers |-> {}]
    /\ conn = [c \in Conns |-> [phase |-> "none", at |-> 0, cut |-> FALSE]]
    /\ applies = 0
    /\ applied = NoRules
    /\ late = {}

Goto(a, point) == pc' = [pc EXCEPT ![a] = point]

-----------------------------------------------------------------------------
(* Apply. Close, at the end of the program, is Apply of no rules.          *)

\* reload, or main at the start, has its copy of the rules.
Call(a) ==
    /\ pc[a] = "idle"
    /\ applies < MaxApplies
    /\ applies' = applies + 1
    /\ \E rules \in Lists : list' = [list EXCEPT ![a] = rules]
    /\ Goto(a, "lock")
    /\ UNCHANGED <<listeners, mgrVars, victim, todo, applied, conn, late>>

Lock(a) ==
    /\ pc[a] = "lock"
    /\ mu = None
    /\ mu' = a
    /\ applied' = list[a]
    /\ Goto(a, "stop")
    /\ UNCHANGED <<listeners, running, lastErrs, list, victim, todo, applies,
                   conn, late>>

Unwanted(a) == {k \in Addrs : running[k] # 0 /\ list[a][k] = None}
Missing(a) == {k \in Addrs : running[k] = 0 /\ list[a][k] # None}

\* listener.stop: the context is cancelled and the listener closed, ...
StopOne(a) ==
    /\ pc[a] = "stop"
    /\ \E k \in Unwanted(a) :
         /\ listeners' = [listeners EXCEPT ![running[k]].open = FALSE]
         /\ victim' = [victim EXCEPT ![a] = running[k]]
    /\ Goto(a, "cut")
    /\ UNCHANGED <<mgrVars, list, todo, applies, applied, conn, late>>

At(i, phases) == {c \in Conns : conn[c].at = i /\ conn[c].phase \in phases}

Active_None(i) == {}  \* mutant: the connections are not closed

\* l.active: the connections registered at listener i.
Active(i) == At(i, {"relayed", "over"})

\* ... its active connections are closed ...
CutConns(a) ==
    /\ pc[a] = "cut"
    /\ conn' = [c \in Conns |->
                  IF c \in Active(victim[a])
                  THEN [conn[c] EXCEPT !.cut = TRUE] ELSE conn[c]]
    /\ late' = late \cup At(victim[a], {"accepted", "counted"})
    /\ Goto(a, "wait")
    /\ UNCHANGED <<listeners, mgrVars, list, victim, todo, applies, applied>>

Drop(a) ==
    /\ running' = [running EXCEPT ![listeners[victim[a]].addr] = 0]
    /\ victim' = [victim EXCEPT ![a] = 0]
    /\ Goto(a, "stop")
    /\ UNCHANGED <<listeners, lastErrs, mu, list, todo, applies, applied, conn,
                   late>>

WaitConns_Not(a) == pc[a] = "wait" /\ Drop(a)  \* mutant: does not wait

\* ... and waited for. Then the listener is taken from the map.
WaitConns(a) ==
    /\ pc[a] = "wait"
    /\ At(victim[a], Counted) = {}
    /\ Drop(a)

StopsDone(a) ==
    /\ pc[a] = "stop"
    /\ Unwanted(a) = {}
    /\ todo' = [todo EXCEPT ![a] = Missing(a)]
    /\ Goto(a, "start")
    /\ UNCHANGED <<listeners, mgrVars, list, victim, applies, applied, conn,
                   late>>

Started_KeepsErr(a, k) ==  \* mutant: the old error stays
    /\ listeners' = Append(listeners, [addr |-> k, target |-> list[a][k],
                                       open |-> TRUE])
    /\ running' = [running EXCEPT ![k] = Len(listeners) + 1]
    /\ UNCHANGED lastErrs

Started(a, k) ==
    /\ listeners' = Append(listeners, [addr |-> k, target |-> list[a][k],
                                       open |-> TRUE])
    /\ running' = [running EXCEPT ![k] = Len(listeners) + 1]
    /\ lastErrs' = lastErrs \ {k}

NotStarted_Kept(a, k) ==  \* mutant: no continue after the error
    /\ lastErrs' = lastErrs \cup {k}
    /\ running' = [running EXCEPT ![k] = Len(listeners) + 1]
    /\ UNCHANGED listeners

NotStarted(a, k) ==
    /\ lastErrs' = lastErrs \cup {k}
    /\ UNCHANGED <<listeners, running>>

\* startLocked succeeds, or fails when the port is taken.
Start(a) ==
    /\ pc[a] = "start"
    /\ \E k \in todo[a] :
         /\ Started(a, k) \/ NotStarted(a, k)
         /\ todo' = [todo EXCEPT ![a] = @ \ {k}]
    /\ UNCHANGED <<mu, pc, list, victim, applies, applied, conn, late>>

Unlock(a) ==
    /\ pc[a] = "start"
    /\ todo[a] = {}
    /\ mu' = None
    /\ list' = [list EXCEPT ![a] = NoRules]
    /\ Goto(a, "idle")
    /\ UNCHANGED <<listeners, running, lastErrs, victim, todo, applies, applied,
                   conn, late>>

-----------------------------------------------------------------------------
(* acceptLoop and handle.                                                  *)

Move(c, from, to) ==
    /\ conn[c].phase = from
    /\ conn' = [conn EXCEPT ![c].phase = to]
    /\ UNCHANGED <<listeners, mgrVars, applyVars, late>>

\* A client connects to a listener that is open.
Accept(c) ==
    /\ conn[c].phase = "none"
    /\ \E i \in 1..Len(listeners) :
         /\ listeners[i].open
         /\ conn' = [conn EXCEPT ![c] = [phase |-> "accepted", at |-> i,
                                         cut |-> FALSE]]
    /\ UNCHANGED <<listeners, mgrVars, applyVars, late>>

Count(c) == Move(c, "accepted", "counted")     \* l.conns.Add
Register(c) == Move(c, "counted", "relayed")   \* into l.active
Hangup(c) == Move(c, "relayed", "over")        \* a side closes; no dial
CutOff(c) == conn[c].cut /\ Hangup(c)          \* stop has closed it
Leave(c) == Move(c, "over", "done")            \* l.conns.Done

-----------------------------------------------------------------------------
Apply(a) ==
    \/ Lock(a) \/ StopOne(a) \/ CutConns(a) \/ WaitConns(a) \/ StopsDone(a)
    \/ Start(a) \/ Unlock(a)

Serve(c) == Count(c) \/ Register(c) \/ CutOff(c) \/ Leave(c)

Next ==
    \/ \E a \in Appliers : Call(a) \/ Apply(a)
    \/ \E c \in Conns : Accept(c) \/ Hangup(c) \/ Serve(c)

Spec == Init /\ [][Next]_vars

\* The goroutines run; nobody has to hang up.
Fairness ==
    /\ \A a \in Appliers : WF_vars(Apply(a))
    /\ \A c \in Conns : WF_vars(Serve(c))

FairSpec == Spec /\ Fairness

-----------------------------------------------------------------------------
(* Properties.                                                             *)

\* Between calls the addresses that are listened at are those the last list
\* wants and that could be opened: no listener survives its rule, is lost or
\* is reported failed while it runs (Apply, Status).
RunningAsApplied ==
    mu = None =>
      \A k \in Addrs :
        /\ running[k] # 0 <=> applied[k] # None /\ k \notin lastErrs
        /\ running[k] # 0 => listeners[running[k]].open

\* A listener that has been taken from the map has no connection left, save
\* those it had accepted and not yet registered when stop looked for them
\* (acceptLoop, listener.stop).
StoppedIsEmpty ==
    \A i \in 1..Len(listeners) :
      (\A k \in Addrs : running[k] # i) => At(i, Counted) \subseteq late

\* A reconfiguration ends, though clients never hang up: stop closes the
\* connections it waits for. A connection it missed may hold it, and the
\* mutex, for ever (listener.stop).
ApplyEnds ==
    \A a \in Appliers :
      pc[a] = "lock" ~> \/ pc[a] = "idle"
                        \/ \E c \in late : conn[c].phase \in Counted

-----------------------------------------------------------------------------
(* What a comment says and the code does not do.                           *)

\* After Apply the listeners are those of the rules, their targets included. A
\* rule that keeps its address and changes its target is left as it was.
TargetsAsApplied ==
    mu = None =>
      \A k \in Addrs :
        running[k] # 0 => listeners[running[k]].target = applied[k]
=============================================================================
