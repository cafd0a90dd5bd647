----------------------------- MODULE AuditTrail -----------------------------
(***************************************************************************)
(* What the audit log of a node promises to its reader: the events are     *)
(* written one after another, nothing written is changed, and an event is  *)
(* given up only when Retain newer ones have been written.  AuditLog keeps *)
(* this promise with a file and its rotations.                             *)
(***************************************************************************)
EXTENDS Naturals

CONSTANT Retain

VARIABLES
    last,   \* how many events have been written: they are 1 .. last
    kept    \* those that can still be read

Init == last = 0 /\ kept = {}

Append ==
    /\ last' = last + 1
    /\ kept' = kept \cup {last + 1}

\* Some of the events that Retain newer ones follow are given up.
Forget ==
    /\ kept' \subseteq kept
    /\ \A e \in kept \ kept' : e + Retain <= last
    /\ UNCHANGED last

Next == Append \/ Forget

Spec == Init /\ [][Next]_<<last, kept>>
=============================================================================
