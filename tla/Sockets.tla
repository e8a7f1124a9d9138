------------------------------ MODULE Sockets -------------------------------
(***************************************************************************)
(* The operating system's sockets, as src/tcp.rs, src/udp.rs and the       *)
(* server's listener use them.  None of this is carrier-pigeon's code.     *)
(*                                                                         *)
(* A TCP connection k is two end points and two FIFO streams.  Messages    *)
(* are the unit here; how a TcpCon cuts the byte stream into messages is   *)
(* the subject of module Framing.  A message in a stream may still be on   *)
(* its way: whoever reads decides whether it has arrived.                  *)
(***************************************************************************)
EXTENDS Messages, Sequences, FiniteSets

CONSTANTS
  Addr,       \* socket addresses of clients
  AddrOf,     \* the local address of each connection's client
  Unreliable  \* the connections that the network itself may break

ASSUME SocketsAssumption ==
  /\ AddrOf \in [Conn -> Addr]
  /\ Unreliable \subseteq Conn

VARIABLES
  listening,  \* the server's listening socket is open
  backlog,    \* connections the kernel has established and nobody accepted
  up, down,   \* per connection: messages towards the server / the client
  cliEnd,     \* state of the client's and
  srvEnd,     \* of the server's end point of each connection
  broken,     \* the connection was reset
  dgrams      \* UDP datagrams in flight

netVars == <<listening, backlog, up, down, cliEnd, srvEnd, broken, dgrams>>

EndState == {"none", "open", "shut"}
Direction == {"up", "down"}
Datagram == [dir : Direction, addr : Addr, con : Conn, n : Nat]

SocketsTypeOK ==
  /\ listening \in BOOLEAN
  /\ backlog \in Seq(Conn)
  /\ up \in [Conn -> Seq(Msg)]
  /\ down \in [Conn -> Seq(Msg)]
  /\ cliEnd \in [Conn -> EndState]
  /\ srvEnd \in [Conn -> EndState]
  /\ broken \in [Conn -> BOOLEAN]
  /\ dgrams \subseteq Datagram

SocketsInit ==
  /\ listening = TRUE
  /\ backlog = <<>>
  /\ up = [k \in Conn |-> <<>>]
  /\ down = [k \in Conn |-> <<>>]
  /\ cliEnd = [k \in Conn |-> "none"]
  /\ srvEnd = [k \in Conn |-> "none"]
  /\ broken = [k \in Conn |-> FALSE]
  /\ dgrams = {}

-----------------------------------------------------------------------------
(* A write fails on a stream that was shut down here or reset.  It succeeds *)
(* when only the peer has closed, but then nothing is delivered.            *)
SrvCanWrite(k) == srvEnd[k] = "open" /\ ~broken[k]
CliCanWrite(k) == cliEnd[k] = "open" /\ ~broken[k]

Delivered(stream, k, peerEnd, m) ==
  IF peerEnd[k] = "open" THEN [stream EXCEPT ![k] = Append(@, m)] ELSE stream

(* A read finds the end of the stream, or a reset, once everything that     *)
(* arrived was read.  The peer's FIN may still be on its way; a shutdown    *)
(* here, or a reset, is known at once, so a read that finds nothing blocks  *)
(* exactly while a write would still be accepted.                           *)
SrvAborted(k) ==
  up[k] = <<>> /\ (cliEnd[k] = "shut" \/ ~SrvCanWrite(k))
CliAborted(k) ==
  down[k] = <<>> /\ (srvEnd[k] = "shut" \/ ~CliCanWrite(k))

(* What is in a stream when its reader shuts it down, or when it is reset:  *)
(* the part that had arrived.                                               *)
Arrived(stream, k) == {SubSeq(stream[k], 1, i) : i \in 0..Len(stream[k])}

(* The 4-tuple of k is free: every earlier connection from this address is  *)
(* closed by its client, and is dead at the server too.                     *)
AddrFree(k) ==
  \A j \in Conn \ {k} :
    AddrOf[j] = AddrOf[k] =>
      \/ cliEnd[j] = "none"
      \/ cliEnd[j] = "shut" /\ (broken[j] \/ srvEnd[j] = "shut")

(* connect(): the kernel completes the handshake and queues the connection. *)
OpenConnection(k) ==
  /\ listening /\ AddrFree(k)
  /\ backlog' = Append(backlog, k)
  /\ cliEnd' = [cliEnd EXCEPT ![k] = "open"]
  /\ srvEnd' = [srvEnd EXCEPT ![k] = "open"]

-----------------------------------------------------------------------------
(* The network's own steps. *)

(* The connection dies: a failure of the path, or the reset that answers    *)
(* data for a closed end point.  What had not arrived yet is lost.          *)
Break(k) ==
  /\ srvEnd[k] # "none"
  /\ ~broken[k]
  /\ \/ k \in Unreliable
     \/ cliEnd[k] = "shut"
     \/ srvEnd[k] = "shut"
  /\ broken' = [broken EXCEPT ![k] = TRUE]
  /\ \E s \in Arrived(up, k) : up' = [up EXCEPT ![k] = s]
  /\ \E s \in Arrived(down, k) : down' = [down EXCEPT ![k] = s]
  /\ UNCHANGED <<listening, backlog, cliEnd, srvEnd, dgrams>>

(* A datagram is lost. *)
LoseDatagram ==
  /\ \E d \in dgrams : dgrams' = dgrams \ {d}
  /\ UNCHANGED <<listening, backlog, up, down, cliEnd, srvEnd, broken>>
=============================================================================
