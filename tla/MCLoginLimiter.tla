--------------------------- MODULE MCLoginLimiter ---------------------------
(***************************************************************************)
(* Small instances of LoginLimiter: logins of one user from one address,   *)
(* one at each of two nodes.                                               *)
(***************************************************************************)
EXTENDS LoginLimiter

CONSTANTS n1, n2, a1, a2, i1, u1

TwoNodes == [a \in Logins |-> IF a = a2 THEN n2 ELSE n1]
OneAddress == [a \in Logins |-> <<i1, u1>>]
=============================================================================
