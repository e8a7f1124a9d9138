------------------------------- MODULE Client -------------------------------
(***************************************************************************)
(* carrier_pigeon::Client (src/client.rs), one per connection: the thread  *)
(* Client::new spawns runs new_blocking; the Client it yields is then used *)
(* by one owner.  k stands for the Client and for its connection.          *)
(***************************************************************************)
EXTENDS Sockets

CONSTANTS
  MaxTcp, MaxUdp  \* bounds: user messages a client sends on each transport

ASSUME ClientAssumption == MaxTcp \in Nat /\ MaxUdp \in Nat

VARIABLES
  phase,     \* how far new_blocking is; "ready": the Client exists
  resp,      \* the response new_blocking returned with the Client
  status,    \* Client::status
  received,  \* Client::msg_buff, for the user messages
  sent       \* user messages sent, per transport: numbers their payloads

clientVars == <<phase, resp, status, received, sent>>

Phase == {"idle", "connecting", "waiting", "ready", "failed", "dropped"}
NoResponse == -1
UserMsg == {TcpMsg, UdpMsg}

ClientTypeOK ==
  /\ phase \in [Conn -> Phase]
  /\ resp \in [Conn -> Nat \cup {NoResponse}]
  /\ status \in [Conn -> {"Connected", "Disconnected", "Closed", "Dropped"}]
  /\ received \in [Conn -> [UserMsg -> Seq([con : Conn, n : Nat])]]
  /\ sent \in [Conn -> [UserMsg -> Nat]]

NothingReceived == [m \in UserMsg |-> <<>>]

ClientInit ==
  /\ phase = [k \in Conn |-> "idle"]
  /\ resp = [k \in Conn |-> NoResponse]
  /\ status = [k \in Conn |-> "Connected"]
  /\ received = [k \in Conn |-> NothingReceived]
  /\ sent = [k \in Conn |-> [m \in UserMsg |-> 0]]

-----------------------------------------------------------------------------
(* new_blocking. *)

(* TcpStream::connect, which fails when nobody listens.                     *)
Connect(k) ==
  /\ phase[k] = "idle"
  /\ \/ /\ OpenConnection(k)
        /\ phase' = [phase EXCEPT ![k] = "connecting"]
     \/ /\ ~listening
        /\ phase' = [phase EXCEPT ![k] = "failed"]
        /\ UNCHANGED <<backlog, cliEnd, srvEnd>>
  /\ UNCHANGED <<listening, up, down, broken, dgrams>>
  /\ UNCHANGED <<resp, status, received, sent>>

(* A Client that still exists holds the UDP socket of its address.          *)
UdpAddrFree(k) ==
  \A j \in Conn \ {k} :
    phase[j] \in {"waiting", "ready"} => AddrOf[j] # AddrOf[k]

(* UdpCon::new at the TCP socket's address, then the connection message.    *)
SendConnection(k) ==
  /\ phase[k] = "connecting"
  /\ UdpAddrFree(k) /\ CliCanWrite(k)
  /\ up' = Delivered(up, k, srvEnd, ConnectionMsg(k))
  /\ phase' = [phase EXCEPT ![k] = "waiting"]
  /\ UNCHANGED <<listening, backlog, down, cliEnd, srvEnd, broken, dgrams>>
  /\ UNCHANGED <<resp, status, received, sent>>

(* The first message received is the response, and the Client is ready.     *)
RecvResponse(k) ==
  /\ phase[k] = "waiting"
  /\ down[k] # <<>> /\ Head(down[k]).mid = RESPONSE_TYPE_MID
  /\ down' = [down EXCEPT ![k] = Tail(@)]
  /\ resp' = [resp EXCEPT ![k] = Head(down[k]).n]
  /\ phase' = [phase EXCEPT ![k] = "ready"]
  /\ UNCHANGED <<listening, backlog, up, cliEnd, srvEnd, broken, dgrams>>
  /\ UNCHANGED <<status, received, sent>>

(* Every other outcome returns an error and drops the sockets: the UDP      *)
(* address is taken, the write failed, the read timed out or found the end  *)
(* of the stream, or the first message is not a response.  Time is not      *)
(* modelled: the read may time out whenever nothing has arrived.            *)
Fail(k) ==
  /\ phase[k] \in {"connecting", "waiting"}
  /\ phase' = [phase EXCEPT ![k] = "failed"]
  /\ cliEnd' = [cliEnd EXCEPT ![k] = "shut"]
  /\ UNCHANGED <<listening, backlog, up, down, srvEnd, broken, dgrams>>
  /\ UNCHANGED <<resp, status, received, sent>>

-----------------------------------------------------------------------------
(* The Client once it is ready.  Nothing here looks at the response, and    *)
(* send does not look at the status.                                        *)
SendTcp(k) ==
  /\ phase[k] = "ready" /\ CliCanWrite(k) /\ sent[k][TcpMsg] < MaxTcp
  /\ sent' = [sent EXCEPT ![k][TcpMsg] = @ + 1]
  /\ up' = Delivered(up, k, srvEnd, TcpData(k, sent'[k][TcpMsg]))
  /\ UNCHANGED <<listening, backlog, down, cliEnd, srvEnd, broken, dgrams>>
  /\ UNCHANGED <<phase, resp, status, received>>

(* close() does not touch the UDP socket, so this works after disconnect.   *)
SendUdp(k) ==
  /\ phase[k] = "ready" /\ sent[k][UdpMsg] < MaxUdp
  /\ sent' = [sent EXCEPT ![k][UdpMsg] = @ + 1]
  /\ dgrams' = dgrams \cup
       {[dir |-> "up", addr |-> AddrOf[k], con |-> k, n |-> sent'[k][UdpMsg]]}
  /\ UNCHANGED <<listening, backlog, up, down, cliEnd, srvEnd, broken>>
  /\ UNCHANGED <<phase, resp, status, received>>

(* recv_msgs loops over the TCP connection and then over the UDP socket;    *)
(* each iteration is an action here, and WouldBlock, which changes nothing, *)
(* ends a loop.  Both loops run only while the status is Connected.         *)
Receiving(k) == phase[k] = "ready" /\ status[k] = "Connected"

Keep(k, m, con, n) ==
  received' = [received EXCEPT ![k][m] = Append(@, [con |-> con, n |-> n])]

ClientTcpYields(k) ==
  /\ Receiving(k)
  /\ down[k] # <<>>
  /\ down' = [down EXCEPT ![k] = Tail(@)]
  /\ LET m == Head(down[k]) IN
       \/ /\ m.mid = DISCONNECT_TYPE_MID
          /\ status' = [status EXCEPT ![k] = "Disconnected"]
          /\ UNCHANGED received
       \/ /\ m.mid \in UserMsg
          /\ Keep(k, m.mid, m.con, m.n)
          /\ UNCHANGED status
  /\ UNCHANGED <<listening, backlog, up, cliEnd, srvEnd, broken, dgrams>>
  /\ UNCHANGED <<phase, resp, sent>>

(* An error on the stream ends the receiving for good.  (Lost_Ignored is a  *)
(* mutant of it: see the note in module Server.)                            *)
Lost_Ignored(k) == UNCHANGED status
Lost(k) == status' = [status EXCEPT ![k] = "Dropped"]

ClientTcpFails(k) ==
  /\ Receiving(k)
  /\ CliAborted(k)
  /\ Lost(k)
  /\ UNCHANGED netVars
  /\ UNCHANGED <<phase, resp, received, sent>>

(* The UDP loop starts only after the TCP read would block.                 *)
ClientRecvUdp(k) ==
  /\ Receiving(k) /\ CliCanWrite(k)
  /\ \E d \in dgrams :
       /\ d.dir = "down" /\ d.addr = AddrOf[k]
       /\ dgrams' = dgrams \ {d}
       /\ Keep(k, UdpMsg, d.con, d.n)
  /\ UNCHANGED <<listening, backlog, up, down, cliEnd, srvEnd, broken>>
  /\ UNCHANGED <<phase, resp, status, sent>>

ClientClearMsgs(k) ==
  /\ phase[k] = "ready"
  /\ received' = [received EXCEPT ![k] = NothingReceived]
  /\ UNCHANGED netVars
  /\ UNCHANGED <<phase, resp, status, sent>>

(* disconnect: the message, then close(), then the status, whatever it was. *)
(* The reset that makes close() fail comes between the two.                 *)
ClientDisconnect(k) ==
  /\ phase[k] = "ready" /\ CliCanWrite(k)
  /\ up' = Delivered(up, k, srvEnd, DisconnectMsg(k))
  /\ \/ /\ cliEnd' = [cliEnd EXCEPT ![k] = "shut"]
        /\ status' = [status EXCEPT ![k] = "Closed"]
        /\ UNCHANGED broken
     \/ /\ k \in Unreliable \/ srvEnd[k] = "shut"
        /\ broken' = [broken EXCEPT ![k] = TRUE]
        /\ UNCHANGED <<cliEnd, status>>
  /\ UNCHANGED <<listening, backlog, down, srvEnd, dgrams>>
  /\ UNCHANGED <<phase, resp, received, sent>>

(* The Client is dropped, taken out of its PendingClient or not.            *)
DropClient(k) ==
  /\ phase[k] = "ready"
  /\ phase' = [phase EXCEPT ![k] = "dropped"]
  /\ cliEnd' = [cliEnd EXCEPT ![k] = "shut"]
  /\ UNCHANGED <<listening, backlog, up, down, srvEnd, broken, dgrams>>
  /\ UNCHANGED <<resp, status, received, sent>>

ClientNext ==
  \E k \in Conn :
    \/ Connect(k) \/ SendConnection(k) \/ RecvResponse(k) \/ Fail(k)
    \/ SendTcp(k) \/ SendUdp(k)
    \/ ClientTcpYields(k) \/ ClientTcpFails(k) \/ ClientRecvUdp(k)
    \/ ClientClearMsgs(k) \/ ClientDisconnect(k) \/ DropClient(k)
=============================================================================
