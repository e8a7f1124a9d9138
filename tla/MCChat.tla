------------------------------- MODULE MCChat --------------------------------
(* A small instance of Chat for TLC. *)
EXTENDS Chat

CONSTANTS k1, k2, a1, a2

OwnAddrs == (k1 :> a1) @@ (k2 :> a2)
MCAddrOf == [k \in Conn |-> OwnAddrs[k]]
MCLines  == (k1 :> 2) @@ (k2 :> 1)
K1Only   == {k1}
K2Only   == {k2}
None     == {}
=============================================================================
