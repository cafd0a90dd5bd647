--------------------------- MODULE ConfigRegister ---------------------------
(***************************************************************************)
(* What the cluster's row would be if its writers never crossed: a         *)
(* register that every change is added to in one step, on top of all the   *)
(* earlier ones, and that has a change before it is acknowledged.          *)
(* ClusterConfig implements it for as long as every change is made at a    *)
(* member at rest with the row.                                            *)
(***************************************************************************)

CONSTANT Edits

VARIABLES
    row,       \* the changes the register holds
    answered   \* those that have been acknowledged

Init == row = {} /\ answered = {}

Commit(e) ==
    /\ row' = row \cup {e}
    /\ UNCHANGED answered

Answer(e) ==
    /\ e \in row
    /\ answered' = answered \cup {e}
    /\ UNCHANGED row

Next == \E e \in Edits : Commit(e) \/ Answer(e)

Spec == Init /\ [][Next]_<<row, answered>>
=============================================================================
