---------------------------- MODULE MCConnecting ----------------------------
(* A small instance of Connecting for TLC. *)
EXTENDS Connecting

CONSTANTS k1, a1

MCAddrOf == [k \in Conn |-> a1]
K1Only   == {k1}
=============================================================================
