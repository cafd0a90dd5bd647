--------------------------- MODULE MCSecondFactor ---------------------------
(***************************************************************************)
(* Small instances of SecondFactor: one or two browsers of the user.       *)
(***************************************************************************)
EXTENDS SecondFactor

CONSTANTS b1, b2
=============================================================================
