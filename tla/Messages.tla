------------------------------ MODULE Messages ------------------------------
(***************************************************************************)
(* The messages carrier-pigeon exchanges.  A type is known on the wire by   *)
(* its MId; MsgTable::build gives the three connection types the first      *)
(* three.  TcpMsg and UdpMsg stand for the application's own types, one per *)
(* transport, registered in the order the repository's tests register them.*)
(***************************************************************************)
EXTENDS Integers

CONSTANT
  Conn   \* the TCP connections clients open: one per call of Client::new

CONNECTION_TYPE_MID == 0
RESPONSE_TYPE_MID   == 1
DISCONNECT_TYPE_MID == 2
TcpMsg              == 3
UdpMsg              == 4

MId == CONNECTION_TYPE_MID .. UdpMsg

(* A message: its type, the connection whose user wrote it (the part of the *)
(* payload that says who is speaking) and a number.  For a response the     *)
(* number is the answer, for user messages it counts them.                  *)
Msg == [mid : MId, con : Conn, n : Nat]

Rejected == 0
Accepted == 1

ConnectionMsg(k)  == [mid |-> CONNECTION_TYPE_MID, con |-> k, n |-> 0]
ResponseMsg(k, r) == [mid |-> RESPONSE_TYPE_MID,   con |-> k, n |-> r]
DisconnectMsg(k)  == [mid |-> DISCONNECT_TYPE_MID, con |-> k, n |-> 0]
TcpData(k, i)     == [mid |-> TcpMsg,              con |-> k, n |-> i]
=============================================================================
