----------------------------- MODULE HostLookup -----------------------------
(***************************************************************************)
(* Engine.lookup: the rule that a request for a host gets.  The routes are *)
(* a Go map, so the loop over them meets the wildcards in any order.       *)
(*                                                                         *)
(* Abstractions.                                                           *)
(*   - A host is the sequence of its labels, in lower case and without     *)
(*     port, as NormalizeHost leaves it; the host of a rule is marked when *)
(*     it begins with "*.".                                                *)
(*   - Length is counted in labels.  The wildcards a host matches are ends *)
(*     of one another, and among those it orders as the length in bytes.   *)
(***************************************************************************)
EXTENDS Naturals, Sequences, SequencesExt

CONSTANT NoRule

Exact(host) == [wild |-> FALSE, labels |-> host]
Wild(host) == [wild |-> TRUE, labels |-> host]

\* "*.b.c" has the suffix ".b.c" in common with "a.b.c" and with "x.a.b.c".
Matches(rule, host) == rule.wild /\ IsStrictSuffix(rule.labels, host)

Longer(rule, best) ==
    best = NoRule \/ Len(rule.labels) > Len(best.labels)

\* The loop over the routes, in the order it meets them: Scan(order, host)[n] is
\* the best of the first n.
Scan(order, host) ==
    LET best[n \in 0..Len(order)] ==
          IF n = 0 THEN NoRule
          ELSE IF Matches(order[n], host) /\ Longer(order[n], best[n - 1])
               THEN order[n] ELSE best[n - 1]
    IN best

Lookup(order, host) ==
    IF \E i \in DOMAIN order : order[i] = Exact(host) THEN Exact(host)
    ELSE Scan(order, host)[Len(order)]

\* What lookup is to find: the rule of the host itself, enabled or not, and
\* otherwise that of the nearest domain above it.
Nearest(rules, host) ==
    IF Exact(host) \in rules THEN {Exact(host)}
    ELSE LET above == {rule \in rules : Matches(rule, host)}
         IN IF above = {} THEN {NoRule}
            ELSE {rule \in above :
                    \A other \in above : IsSuffix(other.labels, rule.labels)}

\* Whatever order the map is walked in, every set of rules gives a host one
\* rule, the nearest (lookup).
FindsNearest(rules, hosts) ==
    \A some \in SUBSET rules : \A order \in SetToSeqs(some), host \in hosts :
        Nearest(some, host) = {Lookup(order, host)}
=============================================================================
