---------------------------- MODULE MessageProofs ----------------------------
(***************************************************************************)
(* Theorems about Session: a message in the server's buffer is filed under *)
(* the CId of the connection it was sent on, and the server's maps mirror  *)
(* each other; the latter, and the former for datagrams, where no two      *)
(* connections share an address.                                           *)
(***************************************************************************)
EXTENDS OwnerProofs

(* What a connection's own client writes, and the server to it: no UDP      *)
(* messages.                                                                *)
Own(k) == {m \in Msg : m.con = k /\ m.mid # UdpMsg}

(* What may be in the buffer: besides what AttributedTcp says, the CId has  *)
(* been given and is not pending, so that it cannot come to be registered   *)
(* for another connection.                                                  *)
Filed ==
  {m \in Received : /\ m.cid \in 1..current_cid /\ m.cid \notin PendingCids
                    /\ m.cid \in DOMAIN tcp => tcp[m.cid] = m.con}

OwnStreams == \A k \in Conn : up[k] \in Seq(Own(k))
MessageInv == OwnStreams /\ msg_buff[TcpMsg] \in Seq(Filed)

LEMMA UserMIds == TcpMsg \in MId /\ UdpMsg \in MId /\ TcpMsg # UdpMsg
  BY DEF MId, CONNECTION_TYPE_MID, TcpMsg, UdpMsg

LEMMA MessageInit == Init => MessageInv
  BY EmptySeq, UserMIds DEF Init, SocketsInit, ServerInit, MessageInv, OwnStreams

LEMMA MessageGives == ASSUME MessageInv PROVE AttributedTcp
<1>1. \A i \in 1..Len(msg_buff[TcpMsg]) : msg_buff[TcpMsg][i] \in Filed
  BY ElementOfSeq DEF MessageInv
<1> QED
  BY <1>1 DEF AttributedTcp, Filed

-----------------------------------------------------------------------------
(* The streams.                                                             *)

LEMMA PrefixOwn ==
  ASSUME NEW T, NEW s \in Seq(T), NEW i \in 0..Len(s)
  PROVE  SubSeq(s, 1, i) \in Seq(T)
  BY LenProperties, SubSeqProperties, ElementOfSeq

LEMMA ArrivedOwn ==
  ASSUME OwnStreams, SocketsTypeOK, NEW k \in Conn, NEW s \in Arrived(up, k),
         up' = [up EXCEPT ![k] = s]
  PROVE  OwnStreams'
<1>1. PICK i \in 0..Len(up[k]) : s = SubSeq(up[k], 1, i)
  BY DEF Arrived
<1>2. s \in Seq(Own(k))
  BY <1>1, PrefixOwn DEF OwnStreams
<1> QED
  BY <1>2 DEF OwnStreams, SocketsTypeOK, Own

LEMMA DeliveredOwn ==
  ASSUME OwnStreams, SocketsTypeOK, NEW k \in Conn, NEW m \in Own(k),
         up' = Delivered(up, k, srvEnd, m)
  PROVE  OwnStreams'
<1>1. Append(up[k], m) \in Seq(Own(k))
  BY AppendProperties DEF OwnStreams
<1> QED
  BY <1>1 DEF Delivered, OwnStreams, SocketsTypeOK, Own

LEMMA TailOwn ==
  ASSUME OwnStreams, NEW k \in Conn, up[k] # <<>>
  PROVE  Head(up[k]) \in Own(k) /\ Tail(up[k]) \in Seq(Own(k))
  BY HeadTailProperties DEF OwnStreams

LEMMA StreamStep ==
  ASSUME SystemInv, OwnStreams, [Next]_vars
  PROVE  OwnStreams'
<1>1. SocketsTypeOK /\ ServerTypeOK
  BY DEF SystemInv, ServerInv
<1>2. ASSUME UNCHANGED up
      PROVE  OwnStreams'
  BY <1>2 DEF OwnStreams, Own
<1>3. CASE HandleNewCon
  <2>1. ASSUME NEW k \in Conn
        PROVE  up'[k] = up[k] \/ (up[k] # <<>> /\ up'[k] = Tail(up[k]))
    BY <1>3, <2>1 DEF HandleNewCon, HandleNew, Consumes
  <2> QED
    BY <2>1, TailOwn DEF OwnStreams, Own
<1>4. ASSUME NEW c \in todo, TcpYields(c)
      PROVE  OwnStreams'
  <2>1. tcp[c] \in Conn
    BY DEF SystemInv, ServerInv, ServerTypeOK, Maps
  <2>2. up[tcp[c]] # <<>> /\ up' = [up EXCEPT ![tcp[c]] = Tail(@)]
    BY <1>4 DEF TcpYields
  <2> QED
    BY <1>1, <2>1, <2>2, TailOwn DEF OwnStreams, SocketsTypeOK, Own
<1>5. ASSUME NEW c \in DOMAIN cid_addr, Disconnect(c)
      PROVE  OwnStreams'
  <2>1. tcp[c] \in Conn
    BY DEF SystemInv, ServerInv, ServerTypeOK, Maps
  <2>2. \E s \in Arrived(up, tcp[c]) : up' = [up EXCEPT ![tcp[c]] = s]
    BY <1>5 DEF Disconnect
  <2> QED
    BY <1>1, <2>1, <2>2, ArrivedOwn
<1>6. ASSUME NEW k \in Conn, SendConnection(k) \/ SendTcp(k) \/ ClientDisconnect(k)
      PROVE  OwnStreams'
  <2>1. sent[k][TcpMsg] \in Nat /\ sent'[k][TcpMsg] \in Nat
    BY <1>6 DEF SystemInv, ClientTypeOK, SendConnection, SendTcp, ClientDisconnect, UserMsg
  <2>2. /\ ConnectionMsg(k) \in Own(k) /\ DisconnectMsg(k) \in Own(k)
        /\ TcpData(k, sent'[k][TcpMsg]) \in Own(k)
    BY <2>1, MessageTypes DEF Own, ConnectionMsg, DisconnectMsg, TcpData,
       CONNECTION_TYPE_MID, DISCONNECT_TYPE_MID, TcpMsg, UdpMsg
  <2>3. \E m \in Own(k) : up' = Delivered(up, k, srvEnd, m)
    BY <1>6, <2>2 DEF SendConnection, SendTcp, ClientDisconnect
  <2> QED
    BY <1>1, <2>3, DeliveredOwn
<1>7. CASE NetworkStep
  <2>1. CASE LoseDatagram
    BY <1>2, <2>1 DEF LoseDatagram
  <2>2. ASSUME NEW k \in Conn, Break(k)
        PROVE  OwnStreams'
    <3>1. \E s \in Arrived(up, k) : up' = [up EXCEPT ![k] = s]
      BY <2>2 DEF Break
    <3> QED
      BY <1>1, <3>1, ArrivedOwn
  <2> QED
    BY <1>7, <2>1, <2>2 DEF NetworkStep
<1>8. CASE UNCHANGED vars \/ ShutDown
  BY <1>2, <1>8 DEF vars, netVars, ShutDown, DropServer
<1>9. CASE ClientStep
  <2>1. PICK k \in Conn :
          \/ Connect(k) \/ SendConnection(k) \/ RecvResponse(k) \/ Fail(k)
          \/ SendTcp(k) \/ SendUdp(k)
          \/ ClientTcpYields(k) \/ ClientTcpFails(k) \/ ClientRecvUdp(k)
          \/ ClientClearMsgs(k) \/ ClientDisconnect(k) \/ DropClient(k)
    BY <1>9 DEF ClientStep, ClientNext
  <2>2. CASE ~(SendConnection(k) \/ SendTcp(k) \/ ClientDisconnect(k))
    BY <1>2, <2>1, <2>2 DEF Connect, RecvResponse, Fail, SendUdp, ClientTcpYields,
       ClientTcpFails, ClientRecvUdp, ClientClearMsgs, DropClient, netVars
  <2> QED
    BY <1>6, <2>2
<1>10. CASE AcceptIncoming \/ RejectIncoming \/ DropDead
  BY <1>2, <1>10 DEF AcceptIncoming, RejectIncoming, DropDead, PanicWith
<1>11. CASE Elapse \/ RecvMsgs \/ RecvUdp \/ ClearMsgs \/ HandleDisconnect \/ Reap
  BY <1>2, <1>11
  DEF Elapse, RecvMsgs, RecvUdp, ClearMsgs, HandleDisconnect, Reap, PanicWith, netVars
<1>12. ASSUME NEW c \in todo, TcpFails(c) \/ TcpWouldBlock(c)
       PROVE  OwnStreams'
  BY <1>2, <1>12 DEF TcpFails, TcpWouldBlock
<1>13. ASSUME NEW S \in Matching, SendUdpSpec(S) \/ \E G \in SUBSET S : SendTcpSpec(S, G)
       PROVE  OwnStreams'
  BY <1>2, <1>13 DEF SendUdpSpec, SendTcpSpec
<1> QED
  BY <1>3, <1>4, <1>5, <1>7, <1>8, <1>9, <1>10, <1>11, <1>12, <1>13
  DEF Next, ServerStep, ServerNext

-----------------------------------------------------------------------------
(* Addresses.  What follows is for clients that have addresses of their own, *)
(* at the same time or one after the other: run StaleAddr shows what becomes *)
(* of a datagram when an address is used again.                             *)
OwnAddresses == \A j, k \in Conn : AddrOf[j] = AddrOf[k] => j = k

(* The maps of the server gain a connection or lose one.                    *)
MapsGain(c, k) ==
  /\ c \notin DOMAIN tcp /\ k \notin RegisteredCons
  /\ tcp' = Insert(tcp, c, k)
  /\ addr_cid' = Insert(addr_cid, AddrOf[k], c)
  /\ cid_addr' = Insert(cid_addr, c, AddrOf[k])

MapsLose(c) ==
  /\ tcp' = Delete(tcp, c)
  /\ cid_addr' = Delete(cid_addr, c)
  /\ addr_cid' = Delete(addr_cid, cid_addr[c])

MapsMove ==
  \/ UNCHANGED <<tcp, cid_addr, addr_cid>>
  \/ \E c \in CId, k \in Conn : MapsGain(c, k)
  \/ \E c \in DOMAIN tcp : MapsLose(c)

LEMMA MapsStep ==
  ASSUME SystemInv, Places, [Next]_vars
  PROVE  MapsMove
<1>1. ServerInv /\ ServerTypeOK /\ DOMAIN tcp = DOMAIN cid_addr
  BY DEF SystemInv, ServerInv, Maps
<1>2. CASE UNCHANGED <<tcp, cid_addr, addr_cid>>
  BY <1>2 DEF MapsMove
<1>3. CASE AcceptIncoming
  <2>1. PICK i \in accepted : AcceptIncoming!2!(i)
    BY <1>3 DEF AcceptIncoming
  <2>2. CASE PanicWith("index panic") \/ PanicWith("peer_addr panic")
    BY <1>2, <2>2 DEF PanicWith
  <2>3. CASE ~(i > Len(new_cons)) /\ ~broken[new_cons[i].con]
    <3>1. PICK k, c : k = new_cons[i].con /\ c = new_cons[i].cid
      OBVIOUS
    <3>2. i \in 1..Len(new_cons) /\ k \in Conn /\ c \in CId
      BY <1>1, <2>3, <3>1, EntryTypes, LenProperties DEF ServerTypeOK, CId
    <3>3. c \in PendingCids /\ k \in PendingCons
      BY <3>1, <3>2 DEF PendingCids, PendingCons
    <3>4. c \notin DOMAIN tcp /\ k \notin RegisteredCons
      BY <1>1, <3>3 DEF ServerInv, Maps, CidOnce, Places
    <3>5. MapsGain(c, k)
      BY <2>1, <2>3, <3>1, <3>4 DEF AddTcpCon, MapsGain
    <3> QED
      BY <3>2, <3>5 DEF MapsMove
  <2> QED
    BY <2>1, <2>2, <2>3
<1>4. CASE Reap
  <2>1. PICK c : c = Head(disconnected).cid
    OBVIOUS
  <2>2. CASE Alive(c)
    <3>1. c \in DOMAIN tcp
      BY <1>1, <2>2 DEF Alive
    <3> QED
      BY <1>4, <2>1, <2>2, <3>1 DEF Reap, RmTcpCon, MapsLose, MapsMove
  <2>3. CASE ~Alive(c)
    BY <1>2, <1>4, <2>1, <2>3 DEF Reap
  <2> QED
    BY <2>2, <2>3
<1>5. CASE HandleNewCon \/ RejectIncoming \/ DropDead \/ Elapse
  BY <1>2, <1>5 DEF HandleNewCon, HandleNew, RejectIncoming, DropDead, Elapse, PanicWith
<1>6. CASE RecvMsgs \/ RecvUdp \/ ClearMsgs \/ HandleDisconnect
  BY <1>2, <1>6 DEF RecvMsgs, RecvUdp, ClearMsgs, HandleDisconnect
<1>7. ASSUME NEW c \in todo, TcpYields(c) \/ TcpFails(c) \/ TcpWouldBlock(c)
      PROVE  MapsMove
  BY <1>2, <1>7 DEF TcpYields, TcpFails, TcpWouldBlock, RecvTcp
<1>8. ASSUME NEW c \in DOMAIN cid_addr, Disconnect(c)
      PROVE  MapsMove
  BY <1>2, <1>8 DEF Disconnect
<1>9. ASSUME NEW S \in Matching, SendUdpSpec(S) \/ \E G \in SUBSET S : SendTcpSpec(S, G)
      PROVE  MapsMove
  BY <1>2, <1>9 DEF SendUdpSpec, SendTcpSpec
<1>10. CASE UNCHANGED vars \/ ShutDown \/ ClientStep \/ NetworkStep
  BY <1>2, <1>10 DEF vars, serverVars, ShutDown, DropServer, ClientStep, NetworkStep
<1> QED
  BY <1>3, <1>4, <1>5, <1>6, <1>7, <1>8, <1>9, <1>10 DEF Next, ServerStep, ServerNext

(* The address in a datagram is that of the client whose message it is, on  *)
(* either way, and the address in cid_addr that of the client's socket.     *)
Addressed(dir) == \A d \in dgrams : d.dir = dir => d.addr = AddrOf[d.con]
MapAddresses == \A c \in DOMAIN tcp : cid_addr[c] = AddrOf[tcp[c]]
SocketAddresses == Addressed("up") /\ MapAddresses

LEMMA SocketMapsStep ==
  ASSUME SystemInv, MapAddresses, MapsMove
  PROVE  MapAddresses'
<1>1. DOMAIN tcp = DOMAIN cid_addr
  BY DEF SystemInv, ServerInv, Maps
<1>2. ASSUME NEW c, NEW k, MapsGain(c, k)
      PROVE  MapAddresses'
  BY <1>1, <1>2 DEF MapsGain, Insert, MapAddresses
<1>3. ASSUME NEW c, MapsLose(c)
      PROVE  MapAddresses'
  BY <1>1, <1>3 DEF MapsLose, Delete, Restrict, MapAddresses
<1> QED
  BY <1>2, <1>3 DEF MapsMove, MapAddresses

LEMMA DatagramsStep ==
  ASSUME SystemInv, MapAddresses, NEW dir, Addressed(dir), [Next]_vars
  PROVE  Addressed(dir)'
<1>1. ASSUME dgrams' \subseteq dgrams
      PROVE  Addressed(dir)'
  BY <1>1 DEF Addressed
<1>2. ASSUME NEW S \in Matching, SendUdpSpec(S)
      PROVE  Addressed(dir)'
  <2>1. S \subseteq DOMAIN tcp
    <3>1. PICK spec \in Specs, o \in 0..current_cid : S = Matches(spec, o)
      BY DEF Matching
    <3> QED
      BY <3>1 DEF Matches, SystemInv, ServerInv, Maps
  <2>2. \A d \in dgrams' :
          d \in dgrams \/ \E c \in S : d.addr = cid_addr[c] /\ d.con = tcp[c]
    BY <1>2 DEF SendUdpSpec
  <2> QED
    BY <2>1, <2>2 DEF MapAddresses, Addressed
<1>3. ASSUME NEW k \in Conn, SendUdp(k)
      PROVE  Addressed(dir)'
  <2>1. \A d \in dgrams' : d \in dgrams \/ (d.addr = AddrOf[k] /\ d.con = k)
    BY <1>3 DEF SendUdp
  <2> QED
    BY <2>1 DEF Addressed
<1>4. CASE HandleNewCon \/ AcceptIncoming \/ RejectIncoming \/ DropDead \/ Elapse
  BY <1>1, <1>4
  DEF HandleNewCon, HandleNew, AcceptIncoming, RejectIncoming, DropDead, Elapse, PanicWith, netVars
<1>5. CASE RecvMsgs \/ RecvUdp \/ ClearMsgs \/ HandleDisconnect \/ Reap
  BY <1>1, <1>5 DEF RecvMsgs, RecvUdp, ClearMsgs, HandleDisconnect, Reap, PanicWith, netVars
<1>6. ASSUME NEW c \in todo, TcpYields(c) \/ TcpFails(c) \/ TcpWouldBlock(c)
      PROVE  dgrams' = dgrams
  BY <1>6 DEF TcpYields, TcpFails, TcpWouldBlock, RecvTcp
<1>7. ASSUME NEW c \in DOMAIN cid_addr, Disconnect(c)
      PROVE  dgrams' = dgrams
  BY <1>7 DEF Disconnect
<1>8. ASSUME NEW S \in Matching, NEW G \in SUBSET S, SendTcpSpec(S, G)
      PROVE  dgrams' = dgrams
  BY <1>8 DEF SendTcpSpec
<1>9. CASE UNCHANGED vars \/ ShutDown \/ NetworkStep
  BY <1>1, <1>9 DEF vars, netVars, ShutDown, DropServer, NetworkStep, LoseDatagram, Break
<1>10. ASSUME NEW k \in Conn,
              \/ Connect(k) \/ SendConnection(k) \/ RecvResponse(k) \/ Fail(k) \/ SendTcp(k)
              \/ ClientTcpYields(k) \/ ClientTcpFails(k) \/ ClientRecvUdp(k)
              \/ ClientClearMsgs(k) \/ ClientDisconnect(k) \/ DropClient(k)
       PROVE  Addressed(dir)'
  BY <1>1, <1>10 DEF Connect, SendConnection, RecvResponse, Fail, SendTcp, ClientTcpYields,
     ClientTcpFails, ClientRecvUdp, ClientClearMsgs, ClientDisconnect, DropClient, netVars
<1>11. CASE ClientStep
  BY <1>3, <1>10, <1>11 DEF ClientStep, ClientNext
<1> QED
  BY <1>1, <1>2, <1>4, <1>5, <1>6, <1>7, <1>8, <1>9, <1>11 DEF Next, ServerStep, ServerNext

LEMMA AddressesInvariant == Spec => [](SystemInv /\ Places /\ SocketAddresses)
<1>1. Init => Places /\ SocketAddresses
  BY PlacesInit DEF Init, SocketsInit, ServerInit, SocketAddresses, Addressed, MapAddresses
<1>2. SystemInv /\ Places /\ SocketAddresses /\ [Next]_vars => Places' /\ SocketAddresses'
  BY PlacesStep, MapsStep, SocketMapsStep, DatagramsStep DEF SocketAddresses
<1> QED
  BY <1>1, <1>2, SystemInvariant, PTL DEF Spec

LEMMA MirrorStep ==
  ASSUME OwnAddresses, SystemInv, Places, SocketAddresses, Mirror, MapsMove, AddrCidSound'
  PROVE  Mirror'
<1>1. DOMAIN tcp = DOMAIN cid_addr /\ tcp \in [DOMAIN tcp -> Conn]
  BY DEF SystemInv, ServerInv, ServerTypeOK, Maps
<1>2. CASE UNCHANGED <<tcp, cid_addr, addr_cid>>
  BY <1>2 DEF Mirror
<1>3. ASSUME NEW c \in CId, NEW k \in Conn, MapsGain(c, k)
      PROVE  Mirror'
  <2>1. \A d \in DOMAIN tcp : tcp[d] # k /\ tcp[d] \in Conn
    BY <1>1, <1>3 DEF MapsGain, RegisteredCons
  <2>2. \A d \in DOMAIN tcp : cid_addr[d] # AddrOf[k]
    BY <2>1 DEF OwnAddresses, SocketAddresses, Addressed, MapAddresses
  <2> QED
    BY <1>1, <1>3, <2>2 DEF MapsGain, Insert, Mirror
<1>4. ASSUME NEW c \in DOMAIN tcp, MapsLose(c)
      PROVE  Mirror'
  <2>1. \A d \in DOMAIN cid_addr \ {c} : cid_addr[d] # cid_addr[c]
    BY <1>1 DEF Mirror
  <2> QED
    BY <1>1, <1>4, <2>1 DEF MapsLose, Delete, Restrict, Mirror
<1> QED
  BY <1>2, <1>3, <1>4 DEF MapsMove

(* The comment on cid_addr and addr_cid (server.rs:48-59) is right, through *)
(* every registration and removal, for clients with addresses of their own. *)
THEOREM MapsMirror ==
  ASSUME OwnAddresses
  PROVE  Spec => []Mirror
<1>1. Init => Mirror
  BY DEF Init, ServerInit, Mirror, AddrCidSound
<1>2. SystemInv /\ Places /\ SocketAddresses /\ Mirror /\ [Next]_vars /\ SystemInv' => Mirror'
  BY MapsStep, MirrorStep DEF SystemInv, ServerInv, Maps
<1> QED
  BY <1>1, <1>2, AddressesInvariant, PTL DEF Spec

-----------------------------------------------------------------------------
(* The buffer.                                                              *)

LEMMA FiledStep ==
  ASSUME SystemInv, [Next]_vars
  PROVE  Filed \subseteq Filed'
  BY CidsStep DEF CidsStay, Filed

(* A message that is buffered comes from the connection its CId is          *)
(* registered for.                                                          *)
Mine == {m \in Received : m.cid \in DOMAIN tcp /\ tcp[m.cid] = m.con}

LEMMA BufferMoves ==
  ASSUME SystemInv, OwnStreams, NEW mid \in MId, [Next]_vars,
         mid = UdpMsg => OwnAddresses /\ SocketAddresses
  PROVE  msg_buff'[mid] \in {msg_buff[mid], <<>>} \cup {Append(msg_buff[mid], m) : m \in Mine}
<1> DEFINE Goal ==
      msg_buff'[mid] \in {msg_buff[mid], <<>>} \cup {Append(msg_buff[mid], m) : m \in Mine}
<1>1. ServerInv /\ ServerTypeOK
  BY DEF SystemInv, ServerInv
<1>2. ASSUME msg_buff'[mid] = msg_buff[mid]
      PROVE  Goal
  BY <1>2
<1>3. ASSUME NEW c \in todo, TcpYields(c)
      PROVE  Goal
  <2> DEFINE m == Head(up[tcp[c]])
  <2>1. tcp[c] \in Conn /\ c \in DOMAIN tcp /\ c \in CId
    BY DEF SystemInv, ServerInv, ServerTypeOK, Maps
  <2>2. m \in Own(tcp[c])
    BY <1>3, <2>1, TailOwn DEF TcpYields
  <2>3. [cid |-> c, con |-> m.con, n |-> m.n] \in Mine
    BY <2>1, <2>2 DEF Own, Msg, Received, Mine
  <2> HIDE DEF m
  <2>4. UNCHANGED msg_buff \/ Buffer(m.mid, c, m)
    BY <1>3 DEF TcpYields, m
  <2>5. \/ msg_buff'[mid] = msg_buff[mid]
        \/ msg_buff'[mid] = Append(msg_buff[mid], [cid |-> c, con |-> m.con, n |-> m.n])
    BY <1>1, <2>4, UserMIds DEF Buffer, ServerTypeOK
  <2> QED
    BY <2>3, <2>5
<1>4. CASE RecvUdp
  <2>1. CASE msg_buff'[mid] = msg_buff[mid]
    BY <1>2, <2>1
  <2>2. CASE msg_buff'[mid] # msg_buff[mid]
    <3>1. PICK d \in dgrams : /\ d.dir = "up" /\ d.addr \in DOMAIN addr_cid
                              /\ Buffer(UdpMsg, addr_cid[d.addr], d)
      BY <1>4, <2>2 DEF RecvUdp
    <3>2. PICK c : c = addr_cid[d.addr]
      OBVIOUS
    <3>3. /\ mid = UdpMsg
          /\ msg_buff'[mid] = Append(msg_buff[mid], [cid |-> c, con |-> d.con, n |-> d.n])
      BY <1>1, <2>2, <3>1, <3>2, UserMIds DEF Buffer, ServerTypeOK
    <3>4. d.con \in Conn /\ d.n \in Nat
      BY DEF SystemInv, ServerInv, SocketsTypeOK, Datagram
    <3>5. c \in DOMAIN tcp /\ cid_addr[c] = d.addr /\ tcp[c] \in Conn /\ c \in CId
      BY <1>1, <3>1, <3>2 DEF ServerInv, ServerTypeOK, Maps, CidOnce, AddrCidSound
    <3>6. tcp[c] = d.con
      BY <3>1, <3>3, <3>4, <3>5 DEF OwnAddresses, SocketAddresses, Addressed, MapAddresses
    <3>7. [cid |-> c, con |-> d.con, n |-> d.n] \in Mine
      BY <3>4, <3>5, <3>6 DEF Received, Mine
    <3> QED
      BY <3>3, <3>7
  <2> QED
    BY <2>1, <2>2
<1>5. CASE ClearMsgs
  BY <1>5, UserMIds DEF ClearMsgs, Emptied
<1>6. CASE HandleNewCon \/ AcceptIncoming \/ RejectIncoming \/ DropDead \/ Elapse
  BY <1>2, <1>6
  DEF HandleNewCon, HandleNew, AcceptIncoming, RejectIncoming, DropDead, Elapse, PanicWith
<1>7. CASE RecvMsgs \/ HandleDisconnect \/ Reap
  BY <1>2, <1>7 DEF RecvMsgs, HandleDisconnect, Reap, PanicWith
<1>8. CASE UNCHANGED vars \/ ShutDown \/ ClientStep \/ NetworkStep
  BY <1>2, <1>8 DEF vars, serverVars, ShutDown, DropServer, ClientStep, NetworkStep
<1>9. ASSUME NEW c \in todo, TcpFails(c) \/ TcpWouldBlock(c)
      PROVE  Goal
  BY <1>2, <1>9 DEF TcpFails, TcpWouldBlock
<1>10. ASSUME NEW c \in DOMAIN cid_addr, Disconnect(c)
       PROVE  Goal
  BY <1>2, <1>10 DEF Disconnect
<1>11. ASSUME NEW S \in Matching, SendUdpSpec(S) \/ \E G \in SUBSET S : SendTcpSpec(S, G)
       PROVE  Goal
  BY <1>2, <1>11 DEF SendUdpSpec, SendTcpSpec
<1> QED
  BY <1>3, <1>4, <1>5, <1>6, <1>7, <1>8, <1>9, <1>10, <1>11
  DEF Next, ServerStep, ServerNext

LEMMA BufferFrom ==
  ASSUME NEW mid, NEW F, NEW G, F \subseteq G, Mine \subseteq F, msg_buff[mid] \in Seq(F),
         msg_buff'[mid] \in {msg_buff[mid], <<>>} \cup {Append(msg_buff[mid], m) : m \in Mine}
  PROVE  msg_buff'[mid] \in Seq(G)
<1>1. msg_buff'[mid] \in Seq(F)
  <2>1. ASSUME NEW m \in Mine
        PROVE  Append(msg_buff[mid], m) \in Seq(F)
    <3>1. m \in F
      OBVIOUS
    <3> QED
      BY <3>1, AppendProperties
  <2>2. <<>> \in Seq(F)
    BY EmptySeq
  <2> QED
    BY <2>1, <2>2
<1>2. Seq(F) \subseteq Seq(G)
  BY ElementOfSeq, SeqDef
<1> QED
  BY <1>1, <1>2

LEMMA BufferStep ==
  ASSUME SystemInv, OwnStreams, NEW mid \in MId, msg_buff[mid] \in Seq(Filed), [Next]_vars,
         mid = UdpMsg => OwnAddresses /\ SocketAddresses
  PROVE  msg_buff'[mid] \in Seq(Filed')
<1>1. Mine \subseteq Filed
  BY DEF Mine, Filed, SystemInv, ServerInv, Maps, CidOnce
<1> QED
  BY <1>1, FiledStep, BufferMoves, BufferFrom

(* A TCP message is filed under its sender's CId, for any number of clients *)
(* and whatever the addresses: also when handle_new_cons has registered the *)
(* wrong connection, and when CIds have come and gone (server.rs:443-475).  *)
THEOREM TcpAttributed == Spec => []AttributedTcp
<1>1. Init => MessageInv
  BY MessageInit
<1>2. SystemInv /\ MessageInv /\ [Next]_vars => MessageInv'
  <2>1. ASSUME SystemInv, MessageInv, [Next]_vars
        PROVE  MessageInv'
    <3>1. OwnStreams'
      BY <2>1, StreamStep DEF MessageInv
    <3>2. (msg_buff[TcpMsg])' = msg_buff'[TcpMsg]
      BY DEF TcpMsg
    <3> QED
      BY <2>1, <3>1, <3>2, UserMIds, BufferStep DEF MessageInv
  <2> QED
    BY <2>1
<1>3. MessageInv => AttributedTcp
  BY MessageGives
<1> QED
  BY <1>1, <1>2, <1>3, SystemInvariant, PTL DEF Spec

(* A datagram in the server's buffer is filed under the CId of the client   *)
(* that sent it, although it is known by its address only and may be read   *)
(* when that client is gone; if clients have addresses of their own         *)
(* (server.rs:477-509).                                                     *)
THEOREM UdpAttributed ==
  ASSUME OwnAddresses
  PROVE  Spec => []AttributedUdp
<1> DEFINE Inv == OwnStreams /\ msg_buff[UdpMsg] \in Seq(Filed)
<1>1. Init => Inv
  BY EmptySeq, UserMIds DEF Init, SocketsInit, ServerInit, OwnStreams
<1>2. SystemInv /\ SocketAddresses /\ Inv /\ [Next]_vars => Inv'
  <2>1. ASSUME SystemInv, SocketAddresses, Inv, [Next]_vars
        PROVE  Inv'
    <3>1. OwnStreams'
      BY <2>1, StreamStep
    <3>2. (msg_buff[UdpMsg])' = msg_buff'[UdpMsg]
      BY DEF UdpMsg
    <3> QED
      BY <2>1, <3>1, <3>2, UserMIds, BufferStep
  <2> QED
    BY <2>1
<1>3. Inv => AttributedUdp
  <2>1. ASSUME Inv
        PROVE  \A i \in 1..Len(msg_buff[UdpMsg]) : msg_buff[UdpMsg][i] \in Filed
    BY <2>1, ElementOfSeq
  <2> QED
    BY <2>1 DEF AttributedUdp, Filed
<1> QED
  BY <1>1, <1>2, <1>3, AddressesInvariant, PTL DEF Spec
=============================================================================
