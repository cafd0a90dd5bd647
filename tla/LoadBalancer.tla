---------------------------- MODULE LoadBalancer ----------------------------
(***************************************************************************)
(* The requests to one virtual host: Engine.Handler, the three strategies  *)
(* of loadBalancer.next, the counters of connections that newBackend's     *)
(* reverse proxy lowers, and Rebuild, which puts a route with new backends *)
(* and new counters in the place of the one that requests still use.       *)
(*                                                                         *)
(* Abstractions.                                                           *)
(*   - The checker's and the authenticator's answers are free choices      *)
(*     (HealthChecker and RulesEngine model the former).                   *)
(*   - A backend is its index among those with a valid URL.                *)
(*   - lookup and a next that takes turns are one step: such a next reads  *)
(*     rr alone, and those of one route can be ordered as their lookups.   *)
(*     leastConns reads one counter after the other, as others change them.*)
(***************************************************************************)
EXTENDS Integers, Sequences, FiniteSets

CONSTANTS
    Requests,
    Upgrades,   \* the requests that ask for a change of protocol
    Rules,      \* the rules the host may have
    MaxBuilds   \* bound: rebuilds

Strategies == {"round-robin", "weighted", "least-connections"}

\* weights: one for each valid target, as configured.
RuleType ==
    [enabled : BOOLEAN, strategy : Strategies, weights : Seq(Nat)]

ASSUME RulesAssumption == Rules \subseteq RuleType
ASSUME UpgradesAssumption == Upgrades \subseteq Requests
ASSUME BuildsAssumption == MaxBuilds \in Nat

VARIABLES
    built,      \* every route built; the last one is in Engine.routes
    pc,         \* the program point of each request
    at,         \* at[r]: the route and the backend request r uses
    seen        \* seen[r]: the counters that r has read in leastConns

vars == <<built, pc, at, seen>>

-----------------------------------------------------------------------------
Waiting == {"idle", "comparing", "picked", "sent", "body", "switching"}
Answered ==
    {"blocked", "empty", "unavailable", "unauthorized", "served",
     "badGateway"}

Route == [rule : Rules, rr : Nat, conns : Seq(Int), picks : Seq(Nat)]

TypeOK ==
    /\ built \in Seq(Route) \ {<<>>}
    /\ \A g \in DOMAIN built :
         LET n == Len(built[g].rule.weights)
         IN Len(built[g].conns) = n /\ Len(built[g].picks) = n
    /\ pc \in [Requests -> Waiting \cup Answered]
    /\ at \in [Requests -> [route : 0..Len(built), backend : Nat]]
    /\ \A r \in Requests :
         at[r].backend # 0 =>
           /\ at[r].route # 0
           /\ at[r].backend \in 1..Len(built[at[r].route].rule.weights)
    /\ seen \in [Requests -> Seq(Int)]

\* buildMultiBackends: a weight that is not positive counts as 1. A rule with
\* one target is a round-robin of weight 1, and so are all with that strategy.
Weight(rule, i) ==
    IF rule.strategy # "weighted" \/ rule.weights[i] = 0 THEN 1
    ELSE rule.weights[i]

\* Cumulative(rule)[i]: the sum of the weights of the first i backends.
Cumulative(rule) ==
    LET sum[j \in 0..Len(rule.weights)] ==
          IF j = 0 THEN 0 ELSE sum[j - 1] + Weight(rule, j)
    IN sum

Total(rule) == Cumulative(rule)[Len(rule.weights)]

\* picks: history, how often it was the turn of each backend.
NewRoute(rule) ==
    [rule |-> rule, rr |-> 0,
     conns |-> [i \in 1..Len(rule.weights) |-> 0],
     picks |-> [i \in 1..Len(rule.weights) |-> 0]]

Least(S) == CHOOSE i \in S : \A j \in S : i <= j

Turn_Inclusive(rt) ==  \* mutant: pos <= cumulative
    Least({i \in 1..Len(rt.rule.weights) :
             rt.rr % Total(rt.rule) <= Cumulative(rt.rule)[i]})

Turn_Next(rt) ==  \* mutant: the counter is not taken back by one
    1 + (rt.rr % Total(rt.rule)) + (IF rt.rr = 0 THEN 0 ELSE 1)

\* roundRobin and weighted: the backend whose turn it is.
Turn(rt) ==
    Least({i \in 1..Len(rt.rule.weights) :
             rt.rr % Total(rt.rule) < Cumulative(rt.rule)[i]})

\* leastConns: the first of those with the fewest connections.
Idlest(conns) ==
    Least({i \in DOMAIN conns : \A j \in DOMAIN conns : conns[i] <= conns[j]})

Init ==
    /\ \E rule \in Rules : built = <<NewRoute(rule)>>
    /\ pc = [r \in Requests |-> "idle"]
    /\ at = [r \in Requests |-> [route |-> 0, backend |-> 0]]
    /\ seen = [r \in Requests |-> <<>>]

-----------------------------------------------------------------------------
Rebuild ==
    /\ Len(built) <= MaxBuilds
    /\ \E rule \in Rules : built' = Append(built, NewRoute(rule))
    /\ UNCHANGED <<pc, at, seen>>

Goto(r, point) == pc' = [pc EXCEPT ![r] = point]

\* Handler finds the route; a rule that is disabled ends the request.
Blocked(r) ==
    /\ pc[r] = "idle"
    /\ ~built[Len(built)].rule.enabled
    /\ Goto(r, "blocked")
    /\ UNCHANGED <<built, at, seen>>

\* A route with several backends: next chooses the one whose turn it is ...
Balance(r) ==
    LET g == Len(built)
        i == Turn(built[g])
    IN /\ pc[r] = "idle"
       /\ built[g].rule.enabled
       /\ built[g].rule.strategy # "least-connections"
       /\ Len(built[g].rule.weights) > 1
       /\ built' = [built EXCEPT ![g].rr = @ + 1, ![g].picks[i] = @ + 1]
       /\ at' = [at EXCEPT ![r] = [route |-> g, backend |-> i]]
       /\ Goto(r, "picked")
       /\ UNCHANGED seen

\* ... or begins to compare their counters ...
Compare(r) ==
    LET g == Len(built)
    IN /\ pc[r] = "idle"
       /\ built[g].rule.enabled
       /\ built[g].rule.strategy = "least-connections"
       /\ Len(built[g].rule.weights) > 1
       /\ at' = [at EXCEPT ![r] = [route |-> g, backend |-> 0]]
       /\ Goto(r, "comparing")
       /\ UNCHANGED <<built, seen>>

NextCounter(r) == built[at[r].route].conns[Len(seen[r]) + 1]

\* ... reads the next of them ...
ReadCounter(r) ==
    /\ pc[r] = "comparing"
    /\ Len(seen[r]) + 1 < Len(built[at[r].route].conns)
    /\ seen' = [seen EXCEPT ![r] = Append(@, NextCounter(r))]
    /\ UNCHANGED <<built, pc, at>>

\* ... and after the last chooses among what it has read.
ReadLast(r) ==
    LET g == at[r].route
        i == Idlest(Append(seen[r], NextCounter(r)))
    IN /\ pc[r] = "comparing"
       /\ Len(seen[r]) + 1 = Len(built[g].conns)
       /\ at' = [at EXCEPT ![r] = [route |-> g, backend |-> i]]
       /\ seen' = [seen EXCEPT ![r] = <<>>]
       /\ Goto(r, "picked")
       /\ UNCHANGED built

\* A route with one backend, or with none.
Only(r) ==
    LET g == Len(built)
    IN /\ pc[r] = "idle"
       /\ built[g].rule.enabled
       /\ Len(built[g].rule.weights) <= 1
       /\ at' = [at EXCEPT ![r] = [route |-> g,
                                   backend |-> Len(built[g].rule.weights)]]
       /\ Goto(r, "picked")
       /\ UNCHANGED <<built, seen>>

\* The backend is down, or the request lacks a session.
Rejected(r) ==
    /\ pc[r] = "picked"
    /\ \/ at[r].backend # 0 /\ Goto(r, "unavailable")
       \/ Goto(r, "unauthorized")
    /\ UNCHANGED <<built, at, seen>>

\* No backend is left: the handler returns without an answer of its own.
EmptyAnswer(r) ==
    /\ pc[r] = "picked"
    /\ at[r].backend = 0
    /\ Goto(r, "empty")
    /\ UNCHANGED <<built, at, seen>>

Count(r, d) ==
    built' = [built EXCEPT ![at[r].route].conns[at[r].backend] = @ + d]

\* incConns, then the request is sent.
Forward(r) ==
    /\ pc[r] = "picked"
    /\ at[r].backend # 0
    /\ Count(r, 1)
    /\ Goto(r, "sent")
    /\ UNCHANGED <<at, seen>>

\* ModifyResponse: the headers of the response have come.
Respond(r) ==
    /\ pc[r] = "sent"
    /\ Count(r, -1)
    /\ Goto(r, IF r \in Upgrades THEN "switching" ELSE "body")
    /\ UNCHANGED <<at, seen>>

SendFails_NotCounted(r) ==  \* mutant: the error handler does not count
    /\ pc[r] = "sent"
    /\ Goto(r, "badGateway")
    /\ UNCHANGED <<built, at, seen>>

\* ErrorHandler: the backend does not answer, or the client has gone.
SendFails(r) ==
    /\ pc[r] = "sent"
    /\ Count(r, -1)
    /\ Goto(r, "badGateway")
    /\ UNCHANGED <<at, seen>>

\* The body has been copied, or its copy has been abandoned.
Finish(r) ==
    /\ pc[r] = "body"
    /\ Goto(r, "served")
    /\ UNCHANGED <<built, at, seen>>

\* The writer of metrics.Middleware cannot be hijacked: the reverse proxy
\* cannot switch protocols, and calls ErrorHandler after ModifyResponse.
SwitchFails(r) ==
    /\ pc[r] = "switching"
    /\ Count(r, -1)
    /\ Goto(r, "badGateway")
    /\ UNCHANGED <<at, seen>>

-----------------------------------------------------------------------------
Handle(r) ==
    \/ Blocked(r) \/ Balance(r) \/ Compare(r) \/ ReadCounter(r) \/ ReadLast(r)
    \/ Only(r) \/ Rejected(r) \/ EmptyAnswer(r)
    \/ Forward(r) \/ Respond(r) \/ SendFails(r) \/ Finish(r) \/ SwitchFails(r)

Next == Rebuild \/ \E r \in Requests : Handle(r)

Spec == Init /\ [][Next]_vars

-----------------------------------------------------------------------------
(* Properties.                                                             *)

\* The requests that backend i of route g has in its hands, at some points.
Using(g, i, points) ==
    {r \in Requests : at[r] = [route |-> g, backend |-> i] /\ pc[r] \in points}

\* No connection leaks, and none is lost to a rebuild: the counter of every
\* backend, those of routes replaced long ago included, is the number of the
\* requests that wait for its headers, less at most one for each request for a
\* change of protocol that has failed (incConns, decConns, newBackend).
ConnsCounted ==
    \A g \in DOMAIN built : \A i \in DOMAIN built[g].conns :
      LET waiting == Using(g, i, {"sent"})
          twice == Using(g, i, {"badGateway"}) \cap Upgrades
      IN built[g].conns[i] \in
           (Cardinality(waiting) - Cardinality(twice))..Cardinality(waiting)

\* Requests are shared out by weight, however they interleave: in every run of
\* as many choices as the weights add up to, each backend has its share
\* (roundRobin, weighted).
SharesKept ==
    \A g \in 1..Len(built) :
      built[g].rule.strategy # "least-connections" =>
        \A i \in DOMAIN built[g].picks :
          LET cycles == built[g].rr \div Total(built[g].rule)
              w == Weight(built[g].rule, i)
          IN built[g].picks[i] \in (cycles * w)..((cycles + 1) * w)

-----------------------------------------------------------------------------
(* What the documentation says and the code does not do.                   *)

\* least-connections chooses a backend with the fewest requests in progress.
\* The counter drops when the headers come, however long the body lasts, and
\* leastConns compares counters that it has read one after the other.
LeastLoadedChosen ==
    [][\A r \in Requests :
         LET g == at'[r].route
             Load(i) == Cardinality(Using(g, i, {"sent", "body", "switching"}))
         IN /\ pc[r] = "comparing" /\ pc'[r] = "picked"
            => \A i \in DOMAIN built[g].conns :
                 Load(at'[r].backend) <= Load(i)]_vars

\* The connections shown by the panel are those that are active: a number.
\* A request that asks for a change of protocol is taken off twice.
ConnsNotNegative ==
    \A g \in 1..Len(built) : \A i \in DOMAIN built[g].conns :
      built[g].conns[i] >= 0
=============================================================================
