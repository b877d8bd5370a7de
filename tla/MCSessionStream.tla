-------------------------- MODULE MCSessionStream --------------------------
(* SessionStream for TLC.                                                   *)
EXTENDS SessionStream

CONSTANTS c1, c2

Limits == [k \in Kinds |-> 1]

Clients == Permutations({c1, c2})
=============================================================================
