--------------------------- MODULE MCLoadBalancer ---------------------------
(***************************************************************************)
(* Small instances of LoadBalancer. A rule of two backends with weights 1  *)
(* and 2 goes through a whole cycle with four requests; 0 stands for a     *)
(* weight that was left out.                                               *)
(***************************************************************************)
EXTENDS LoadBalancer, HostLookup, TLC

CONSTANTS r1, r2, r3, r4

\* Two domains that share an end, with hosts up to two labels below them, and
\* the rules for five of them: which one a request gets does not depend on the
\* order of the map (Engine.lookup).
Hosts ==
    {<<"b", "c">>, <<"a", "b", "c">>, <<"x", "a", "b", "c">>, <<"d", "c">>,
     <<"y", "x", "a", "b", "c">>, <<"ab", "c">>, <<"c">>}
HostRules ==
    {Exact(<<"a", "b", "c">>), Exact(<<"d", "c">>),
     Wild(<<"b", "c">>), Wild(<<"a", "b", "c">>), Wild(<<"c">>)}

ASSUME LookupFindsNearest == FindsNearest(HostRules, Hosts)

Rule(enabled, strategy, weights) ==
    [enabled |-> enabled, strategy |-> strategy, weights |-> weights]

AllRules ==
    {Rule(TRUE, "round-robin", <<1, 1, 1>>),
     Rule(TRUE, "weighted", <<1, 2>>),
     Rule(TRUE, "weighted", <<0, 2, 1>>),
     Rule(TRUE, "least-connections", <<1, 1>>),
     Rule(TRUE, "round-robin", <<1>>),
     Rule(TRUE, "round-robin", <<>>),
     Rule(FALSE, "round-robin", <<1>>)}

\* Those that ask for a change of protocol are told from the others.
Symmetry == Permutations(Requests \ Upgrades)
=============================================================================
