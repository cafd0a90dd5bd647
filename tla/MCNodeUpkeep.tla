--------------------------- MODULE MCNodeUpkeep ---------------------------
(***************************************************************************)
(* A small instance of NodeUpkeep: an update from the panel and its retry, *)
(* and one from the command line.                                          *)
(***************************************************************************)
EXTENDS NodeUpkeep

CONSTANTS p1, p2, c1

\* The bounds of the run: updates that are in each other's way are not
\* followed, and from MaxBusy events on the log is explored alone.
MaxBusy == 2
Focus ==
    /\ ~crossed
    /\ last <= MaxBusy \/ \A u \in Panels \cup Clis : pc[u] = "idle"
=============================================================================
