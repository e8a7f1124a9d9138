----------------------------- MODULE MCSession ------------------------------
(* Small instances of Session for TLC. *)
EXTENDS Session

CONSTANTS k1, k2, k3, a1, a2, a3

OwnAddrs == (k1 :> a1) @@ (k2 :> a2) @@ (k3 :> a3)
MCAddrOf == [k \in Conn |-> OwnAddrs[k]]   \* every client has its own address
OneAddr  == [k \in Conn |-> a1]            \* all behind one address
None     == {}
K1Only   == {k1}
K2Only   == {k2}

(* Clients are interchangeable, together with their addresses. *)
SameClients ==
  {p \in Permutations(Conn \cup Addr) :
     \A k \in Conn : p[k] \in Conn /\ p[AddrOf[k]] = AddrOf[p[k]]}
=============================================================================
