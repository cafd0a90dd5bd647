---------------------------- MODULE MCRulesEngine ----------------------------
(***************************************************************************)
(* Small instances of RulesEngine.                                         *)
(***************************************************************************)
EXTENDS RulesEngine

CONSTANTS t1, t2, b1, b2
=============================================================================
