-------------------------- MODULE MCClusterConfig --------------------------
(***************************************************************************)
(* Small clusters for TLC: two nodes and two changes, made at one node or  *)
(* at each.                                                                *)
(***************************************************************************)
EXTENDS ClusterConfig, TLC

CONSTANTS n1, n2, e1, e2

\* Both requests reach the same panel, or one each.
SameHome == [e \in {e1, e2} |-> n1]
OneEdit == [e \in {e1} |-> n1]
OwnHome == e1 :> n1 @@ e2 :> n2

\* State constraint: every change is made at a member at rest, the only case
\* CalmChangesSurvive says anything about, and at most one fault happens, an
\* outage or a node that stops.
AllCalm == hurried = {} /\ outages + crashes <= 1
=============================================================================
