--------------------------- MODULE MCStreamManager ---------------------------
(***************************************************************************)
(* Small instances of StreamManager: the watch and the poll goroutine call *)
(* Apply, with any rules for a few addresses.                              *)
(***************************************************************************)
EXTENDS StreamManager

CONSTANTS k1, k2, t1, t2, watch, poll, c1, c2

AnyList == [Addrs -> Targets \cup {None}]
=============================================================================
