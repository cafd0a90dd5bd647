----------------------------- MODULE RulesEngine -----------------------------
(***************************************************************************)
(* The rebuilds of the routes together with the health checks: every       *)
(* handler that changes the rules, and the reload of the cluster, copies   *)
(* the configuration, builds the routes from the copy, puts them in        *)
(* Engine.routes and only then gives their targets to the checker. These   *)
(* are three critical sections; rebuilds of several goroutines interleave. *)
(*                                                                         *)
(* A list of rules is the set of the targets of its enabled rules.         *)
(***************************************************************************)
EXTENDS Naturals

CONSTANTS
    Targets, NoTarget, Failures,    \* of HealthChecker
    Rebuilders,                     \* the goroutines that rebuild
    Lists                           \* bound: the lists of rules there may be

VARIABLES
    answers, watched, consec, healthy, todo, current, notify, snap, gauge,
    added,      \* of HealthChecker
    rules,      \* Config.Rules
    routed,     \* Engine.routes
    pc,         \* the program point of each rebuilder
    list,       \* list[b]: its copy of the rules
    crossed     \* history: the routes in place were put there while another
                \* rebuild had still to tell the checker of its own

Health == INSTANCE HealthChecker

ASSUME HealthAssumption == Health!ConstantsOK
ASSUME ListsAssumption == Lists \subseteq SUBSET Targets

healthVars ==
    <<answers, watched, consec, healthy, todo, current, notify, snap, gauge,
      added>>
engineVars == <<rules, routed, pc, list, crossed>>
vars == <<healthVars, engineVars>>

TypeOK ==
    /\ Health!TypeOK
    /\ rules \in SUBSET Targets
    /\ routed \in SUBSET Targets
    /\ pc \in [Rebuilders -> {"idle", "get", "swap", "watch"}]
    /\ list \in [Rebuilders -> SUBSET Targets]
    /\ crossed \in BOOLEAN

Init ==
    /\ Health!Init
    /\ rules = {}
    /\ routed = {}
    /\ pc = [b \in Rebuilders |-> "idle"]
    /\ list = [b \in Rebuilders |-> {}]
    /\ crossed = FALSE

Goto(b, point) == pc' = [pc EXCEPT ![b] = point]

-----------------------------------------------------------------------------
\* handleRulesPost, handleRulesDelete, handleConfigPost or a reload has put
\* other rules in the store, and goes on to rebuild.
Change(b) ==
    /\ pc[b] = "idle"
    /\ \E ts \in Lists : rules' = ts
    /\ Goto(b, "get")
    /\ UNCHANGED <<healthVars, routed, list, crossed>>

Get_Invalid(b) ==  \* mutant: an invalid URL is not discarded
    /\ pc[b] = "get"
    /\ list' = [list EXCEPT ![b] = rules \cup {NoTarget}]
    /\ Goto(b, "swap")
    /\ UNCHANGED <<healthVars, rules, routed, crossed>>

\* Admin.rebuild: store.Get; the targets of the rules that are enabled.
Get(b) ==
    /\ pc[b] = "get"
    /\ list' = [list EXCEPT ![b] = rules]
    /\ Goto(b, "swap")
    /\ UNCHANGED <<healthVars, rules, routed, crossed>>

\* Rebuild: the routes are built and put in place ...
Swap(b) ==
    /\ pc[b] = "swap"
    /\ routed' = list[b]
    /\ Goto(b, "watch")
    /\ crossed' = (\E c \in Rebuilders \ {b} : pc[c] = "watch")
    /\ UNCHANGED <<healthVars, rules, list>>

Watch_Adds(b) ==  \* mutant: the targets of the old routes stay
    /\ pc[b] = "watch"
    /\ Health!SetTargets(watched \cup list[b])
    /\ list' = [list EXCEPT ![b] = {}]
    /\ Goto(b, "idle")
    /\ UNCHANGED <<rules, routed, crossed>>

\* ... and their targets are given to the checker.
Watch(b) ==
    /\ pc[b] = "watch"
    /\ Health!SetTargets(list[b])
    /\ list' = [list EXCEPT ![b] = {}]
    /\ Goto(b, "idle")
    /\ UNCHANGED <<rules, routed, crossed>>

-----------------------------------------------------------------------------
Rebuild(b) == Get(b) \/ Swap(b) \/ Watch(b)

Probe == Health!Probe /\ UNCHANGED engineVars

Toggle == \E t \in Targets : Health!Toggle(t) /\ UNCHANGED engineVars

Next == Probe \/ Toggle \/ \E b \in Rebuilders : Change(b) \/ Rebuild(b)

Spec == Init /\ [][Next]_vars

\* A rebuild is never abandoned; the probes are those of HealthChecker.
Fairness == WF_vars(Probe) /\ \A b \in Rebuilders : WF_vars(Rebuild(b))

FairSpec == Spec /\ Fairness

-----------------------------------------------------------------------------
(* Properties.                                                             *)

\* The circuit breaker and its counter agree, and the gauge follows the health,
\* whatever rebuilds happen around the probes (record, SetTargets, onChange):
\* see HealthChecker.
BreakerConsistent == Health!BreakerConsistent
GaugeFollowsHealth == Health!GaugeFollowsHealth

\* No rebuild has swapped the routes and not yet told the checker.
Settled == \A b \in Rebuilders : pc[b] # "watch"

\* The checker watches the targets of the routes, no more and no less, however
\* many goroutines rebuild and whichever copy is the older (Rebuild, SetTargets):
\* unless the last of them to put its routes in place did so while another was
\* between the two steps, as nothing orders their two calls of SetTargets.
RoutedAreWatched == Settled /\ ~crossed => watched = routed

\* A silent upstream that stays watched ends up marked down, so that its requests
\* get a 503 at once: no rebuild, of however many goroutines, makes the checker
\* forget the failures it has counted (SetTargets, probe).
WatchedDownDetected ==
    \A t \in Targets :
      <>[](t \in watched /\ t \notin answers) => <>[]~healthy[t]

\* An upstream that answers again and stays in the configuration is taken back
\* for good, however often the routes are rebuilt (probe, SetTargets).
ConfiguredRecovered ==
    \A t \in Targets :
      <>[](t \in rules /\ t \in answers) => <>[]healthy[t]

-----------------------------------------------------------------------------
(* What the documentation says and the code does not do.                   *)

\* Every target of the routes is probed: with two rebuilds under way at once
\* the routes can be those of one and the watched targets those of the other.
RoutedAreProbed == Settled => routed \subseteq watched

\* A silent upstream of the configuration ends up marked down. With two rebuilds
\* under way at once the older list can be the last the checker is given, or the
\* last to become the routes: nothing probes the upstream until the next rebuild.
ConfiguredDownDetected ==
    \A t \in Targets :
      <>[](t \in rules /\ t \notin answers) => <>[]~healthy[t]

\* The gauge of an upstream that answers for good ends up being 1. It does
\* not when the upstream was down, removed and added again: its new status is
\* healthy from the start, so no change is notified (SetTargets, record).
GaugeRecovers ==
    \A t \in Targets :
      <>[](t \in watched /\ t \in answers) => <>[](t \notin gauge.down)
=============================================================================
