------------------------------ MODULE Session -------------------------------
(***************************************************************************)
(* A Server, its clients and the network between them.                     *)
(***************************************************************************)
EXTENDS Server, Client

CONSTANT
  Crashing  \* whether the application may drop the Server

ASSUME CrashingAssumption == Crashing \in BOOLEAN

vars == <<netVars, serverVars, appVars, clientVars>>

Init == SocketsInit /\ ServerInit /\ ClientInit

ServerStep == ServerNext /\ UNCHANGED clientVars
ShutDown == Crashing /\ DropServer /\ UNCHANGED clientVars
ClientStep == ClientNext /\ UNCHANGED <<serverVars, appVars>>
NetworkStep ==
  /\ LoseDatagram \/ \E k \in Conn : Break(k)
  /\ UNCHANGED <<serverVars, appVars, clientVars>>

Next == ServerStep \/ ShutDown \/ ClientStep \/ NetworkStep

Spec == Init /\ [][Next]_vars

TypeOK == SocketsTypeOK /\ ServerTypeOK /\ ClientTypeOK

-----------------------------------------------------------------------------
(* Safety.                                                                 *)

PendingCids == {new_cons[i].cid : i \in 1..Len(new_cons)}
PendingCons == {new_cons[i].con : i \in 1..Len(new_cons)}
ReportedCids == {reported[i].cid : i \in 1..Len(reported)}
Registered(k) == \E c \in DOMAIN tcp : tcp[c] = k

(* A CId names one connection, once: whatever mixture of batches, removals  *)
(* by index and stale queue entries happens, no CId or connection is in two *)
(* places, the two maps keyed by CId agree, and the disconnect hook is      *)
(* called at most once per CId (server.rs:184-195, 261-274, 383-393).       *)
CidOnce ==
  /\ DOMAIN tcp = DOMAIN cid_addr
  /\ PendingCids \cup DOMAIN tcp \cup ReportedCids \subseteq 1..current_cid
  /\ PendingCids \cap DOMAIN tcp = {}
  /\ ReportedCids \cap (PendingCids \cup DOMAIN tcp) = {}
  /\ \A i, j \in 1..Len(new_cons) : i # j => new_cons[i].cid # new_cons[j].cid
  /\ \A i, j \in 1..Len(reported) : i # j => reported[i].cid # reported[j].cid

ConOnce ==
  /\ \A i, j \in 1..Len(new_cons) : i # j => new_cons[i].con # new_cons[j].con
  /\ \A i, j \in 1..Len(backlog) : i # j => backlog[i] # backlog[j]
  /\ \A k \in PendingCons : ~Registered(k)
  /\ \A c, d \in DOMAIN tcp : c # d => tcp[c] # tcp[d]
  /\ \A i \in 1..Len(backlog) : backlog[i] \notin PendingCons /\ ~Registered(backlog[i])

OneOwner == CidOnce /\ ConOnce

(* "The maximum number of connections that this can handle at the same      *)
(* time" (net.rs:162): whatever start_incoming finds in the backlog, the    *)
(* list of pending connections never outgrows it (server.rs:323-335).       *)
PendingBounded == Len(new_cons) <= MaxConHandle

(* addr_cid never leads to a connection that is gone, nor to one with       *)
(* another address, even when a new client has the address of an old one    *)
(* whose disconnect is not handled yet (server.rs:780-795).                 *)
AddrCidSound ==
  \A a \in DOMAIN addr_cid :
    addr_cid[a] \in DOMAIN cid_addr /\ cid_addr[addr_cid[a]] = a

(* The comment on cid_addr and addr_cid (server.rs:48-59): each is the      *)
(* mirror of the other.                                                     *)
Mirror ==
  /\ AddrCidSound
  /\ \A c \in DOMAIN cid_addr :
       cid_addr[c] \in DOMAIN addr_cid /\ addr_cid[cid_addr[c]] = c

(* Only connections the hook accepted are ever registered: the indices the  *)
(* scan collected still mean the same entries when they are removed         *)
(* (server.rs:153-197, 232-275).  That is so for handle_new_con, whose scan *)
(* collects at most one entry for the two loops before the dead ones.       *)
AcceptedByHook == DOMAIN tcp \subseteq granted

(* What the server tells a client is what it did: an accepted client is in  *)
(* the server's maps, from before it can hear of it until a disconnect is   *)
(* reported and its own stream is closed, and a rejected one never is       *)
(* (server.rs:338-373).                                                     *)
ToldIsTrue ==
  \A k \in Conn :
    /\ resp[k] = Accepted => Registered(k) \/ (srvEnd[k] = "shut" /\ reported # <<>>)
    /\ resp[k] = Rejected => ~Registered(k) /\ srvEnd[k] = "shut"

(* Why a client left is told right: unless the connection was reset, a      *)
(* client that said goodbye is reported as Disconnected and one that did    *)
(* not as Dropped, whatever order FIN, goodbye and earlier data are read    *)
(* in.  recv_msgs may queue a connection again before the queue is handled; *)
(* the first entry is the one reported (server.rs:678-696, 381-383).        *)
FirstFor(i) ==
  \A j \in 1..(i - 1) : disconnected[j].cid # disconnected[i].cid

StatusAccurate ==
  \A i \in 1..Len(disconnected) :
    LET c == disconnected[i].cid
        goodbye == status[tcp[c]] = "Closed" IN
    c \in DOMAIN tcp /\ FirstFor(i) /\ srvEnd[tcp[c]] = "open" /\ ~broken[tcp[c]] =>
      /\ disconnected[i].status = "Disconnected" => goodbye
      /\ disconnected[i].status = "Dropped" => cliEnd[tcp[c]] = "shut" /\ ~goodbye

(* An accepted client learns that it was disconnected, not that it was      *)
(* dropped, as long as the connection is not reset and the server lives:    *)
(* the goodbye is written before the stream is closed (server.rs:115-119,   *)
(* client.rs:287-312).                                                      *)
NoSilentDrop ==
  \A k \in Conn :
    resp[k] = Accepted /\ status[k] = "Dropped" => broken[k] \/ ~listening

(* A message in the server's buffer is filed under the CId of the           *)
(* connection it was sent on (server.rs:443-470).                           *)
AttributedTcp ==
  \A i \in 1..Len(msg_buff[TcpMsg]) :
    LET m == msg_buff[TcpMsg][i] IN m.cid \in DOMAIN tcp => tcp[m.cid] = m.con

(* A datagram is filed under the CId of the client that sent it, although   *)
(* it is known by its address only, and may be read after that client is    *)
(* gone: if clients have addresses of their own (server.rs:477-509).        *)
AttributedUdp ==
  \A i \in 1..Len(msg_buff[UdpMsg]) :
    LET m == msg_buff[UdpMsg][i] IN m.cid \in DOMAIN tcp => tcp[m.cid] = m.con

(* Of the messages a client k sent on TCP the server still holds a run       *)
(* without gaps, in order, up to the last, in its buffer b and then in the  *)
(* stream u: the handshake takes the connection message and nothing more,   *)
(* recv_msgs keeps the order, and nothing is lost on a connection that      *)
(* works (server.rs:301, 642-651).                                          *)
InBuffer(b, k) == {i \in 1..Len(b) : b[i].con = k}
Coming(u) == {i \in 1..Len(u) : u[i].mid = TcpMsg}
Numbers(b, u, k) == {b[i].n : i \in InBuffer(b, k)} \cup {u[i].n : i \in Coming(u)}

InOrder(b, u, k) ==
  /\ \A i, j \in InBuffer(b, k) : i < j => b[i].n < b[j].n
  /\ \A i, j \in Coming(u) : i < j => u[i].n < u[j].n
  /\ \A i \in InBuffer(b, k), j \in Coming(u) : b[i].n < u[j].n

NoGaps(N) == \A v, w \in N : v..w \subseteq N

StreamIntact ==
  \A k \in Conn :
    LET b == msg_buff[TcpMsg]
        held == Numbers(b, up[k], k) IN
    /\ InOrder(b, up[k], k) /\ NoGaps(held)
    /\ held \subseteq 1..sent[k][TcpMsg]
    /\ held # {} /\ srvEnd[k] = "open" /\ ~broken[k] => sent[k][TcpMsg] \in held

(* The first message a connecting client finds is its response: no user     *)
(* message and no goodbye gets ahead of it (server.rs:338-341, client.rs:   *)
(* 107-117).                                                                *)
ResponseFirst ==
  \A k \in Conn :
    phase[k] \in {"connecting", "waiting"} /\ down[k] # <<>> =>
      Head(down[k]).mid = RESPONSE_TYPE_MID

(* Nothing follows a goodbye, in either direction (server.rs:115-118,       *)
(* client.rs:214-215).                                                      *)
GoodbyeLast ==
  \A k \in Conn :
    /\ \A i \in 1..(Len(up[k]) - 1) : up[k][i].mid # DISCONNECT_TYPE_MID
    /\ \A i \in 1..(Len(down[k]) - 1) : down[k][i].mid # DISCONNECT_TYPE_MID

(* A UDP message reaches the client whose CId it was sent to                *)
(* (server.rs:430-437).                                                     *)
AddressedUdp ==
  \A k \in Conn : \A i \in 1..Len(received[k][UdpMsg]) :
    received[k][UdpMsg][i].con = k

(* The unwrap of rm_tcp_con cannot fail (server.rs:390, 412).               *)
NoUnwrapPanic == op # "unwrap panic"

-----------------------------------------------------------------------------
(* Action properties.                                                      *)

(* A connection leaves the server's map exactly when the disconnect hook is *)
(* called for it, and the hook hears of no other (server.rs:383-393).       *)
ReportedWhenRemoved ==
  [][/\ Len(reported') <= Len(reported) + 1
     /\ DOMAIN tcp \ DOMAIN tcp' =
          {reported'[i].cid : i \in (Len(reported) + 1)..Len(reported')}]_vars

(* "Broadcasts a message to all connected clients" (server.rs:539): when     *)
(* the application sends with CIdSpec::All only, each message is written to *)
(* every connection that works.                                             *)
BroadcastComplete ==
  [][srvSent'[TcpMsg] > srvSent[TcpMsg] =>
       \A c \in DOMAIN tcp :
         SrvCanWrite(tcp[c]) /\ cliEnd[tcp[c]] = "open" => down'[tcp[c]] # down[tcp[c]]]_vars

(* What the server promises about CIds (module Roster) it keeps: it         *)
(* implements the roster whose members are the CIds in its maps and which   *)
(* they leave by the disconnect hook, through every batch of connections,   *)
(* removal by index, stale queue entry and panic (server.rs:131-417).       *)
Promise == INSTANCE Roster WITH
       How <- Status, issued <- current_cid, members <- DOMAIN tcp,
       left <- reported, ended <- op \in Gone

KeepsRoster == Promise!RosterSpec

-----------------------------------------------------------------------------
(* Liveness.  The application's loop calls handle_new_con(s), recv_msgs and *)
(* handle_disconnect(s) for ever, so each is called again and again while   *)
(* the Server lives; what is on its way arrives; the timeout of a pending   *)
(* connection elapses.  A client reads its stream again and again.  The     *)
(* client's own read timeout is not relied on.                              *)
BySrv(A) == A /\ UNCHANGED clientVars
ByCli(A) == A /\ UNCHANGED <<serverVars, appVars>>
CIds == 1..Cardinality(Conn)

(* An operation that has begun runs to its end. *)
OpEnds ==
  /\ WF_vars(BySrv(AcceptIncoming \/ RejectIncoming \/ DropDead))
  /\ WF_vars(BySrv(\E c \in todo : TcpYields(c) \/ TcpFails(c) \/ TcpWouldBlock(c)))
  /\ WF_vars(BySrv(RecvUdp))
  /\ WF_vars(BySrv(Reap))

HandshakeFairness ==
  /\ OpEnds
  /\ SF_vars(BySrv(HandleNewCon))
  /\ WF_vars(BySrv(Elapse))

ReceiveFairness ==
  /\ SF_vars(BySrv(RecvMsgs)) /\ SF_vars(BySrv(HandleDisconnect))
  /\ \A c \in CIds : SF_vars(BySrv(TcpYields(c))) /\ SF_vars(BySrv(TcpFails(c)))

ClientFairness ==
  \A k \in Conn :
    /\ WF_vars(ByCli(SendConnection(k)))
    /\ WF_vars(ByCli(RecvResponse(k)))
    /\ WF_vars(ByCli(CliAborted(k) /\ Fail(k)))
    /\ WF_vars(ByCli(ClientTcpYields(k)))
    /\ WF_vars(ByCli(ClientTcpFails(k)))

FairSpec == Spec /\ HandshakeFairness /\ ReceiveFairness /\ ClientFairness

(* Whoever connects is accepted, rejected or dropped, unless a panic ends   *)
(* the server: silent clients hold up nobody, although only max_con_handle  *)
(* connections are looked at at a time (server.rs:153-197, 294, 323-335).   *)
Waits(k) == k \in PendingCons \/ \E i \in DOMAIN backlog : backlog[i] = k

Settled == \A k \in Conn : Waits(k) ~> (~Waits(k) \/ op \in Gone)

(* A client that waits for its response gets one or an error, without its   *)
(* own read timeout: the server answers it, drops it, or is gone            *)
(* (server.rs:182-197, client.rs:108).                                      *)
Answered == \A k \in Conn : phase[k] = "waiting" ~> phase[k] # "waiting"

(* A client that is gone is reported to the disconnect hook (server.rs:     *)
(* 635-696, 380-394).                                                       *)
GoneReported ==
  \A k \in Conn :
    Registered(k) /\ (cliEnd[k] = "shut" \/ broken[k]) ~> (~Registered(k) \/ op \in Gone)

(* When the Server is dropped or panics, every client comes to know         *)
(* (client.rs:287-312).                                                     *)
ShutdownNoticed ==
  \A k \in Conn : (~listening /\ Receiving(k)) ~> ~Receiving(k)
=============================================================================
