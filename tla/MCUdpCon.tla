----------------------------- MODULE MCUdpCon -------------------------------
(* A small instance of UdpCon for TLC. *)
EXTENDS UdpCon

CONSTANTS a, b, tc, tr, td, t1, t2, t3

Chat == [tid |-> t1, transport |-> "UDP", ident |-> 5]
Move == [tid |-> t2, transport |-> "UDP", ident |-> 4]
Chunk == [tid |-> t3, transport |-> "TCP", ident |-> 8]

(* t2 again under another name; a second type under a name that is taken;   *)
(* the connection type; a type under a name build uses.                     *)
MCEntry ==
  {Chat, Move, Chunk,
   [tid |-> t2, transport |-> "UDP", ident |-> 5],
   [tid |-> tc, transport |-> "TCP", ident |-> 6],
   [tid |-> t2, transport |-> "UDP", ident |-> ResponseIdent]}

MCPlugins == {<<Move>>, <<Chat, Move>>}
MCBuildTypes == {<<tc, tr, td>>, <<tc, tc, td>>}
MCMaxMsgSize == (a :> 2) @@ (b :> 1)
MCSkews == {(a :> 0) @@ (b :> s) : s \in {-1, 0, 1}}
=============================================================================
