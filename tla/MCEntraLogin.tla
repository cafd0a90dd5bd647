---------------------------- MODULE MCEntraLogin ----------------------------
(***************************************************************************)
(* Small instances of EntraLogin.                                          *)
(***************************************************************************)
EXTENDS EntraLogin

CONSTANTS b1
=============================================================================
