---------------------------- MODULE StreamProofs ----------------------------
(***************************************************************************)
(* Theorems about Session: what a server and a client tell each other on   *)
(* one connection, what each of them comes to believe, and that what the   *)
(* one sent is what the other gets, in order.  A step of the system is     *)
(* first read as a step of every single connection (module part "One       *)
(* connection"); each invariant is then about one connection only.         *)
(***************************************************************************)
EXTENDS MessageProofs

HasGoodbye(s) == \E i \in 1..Len(s) : s[i].mid = DISCONNECT_TYPE_MID

(* The server has the connection and has not answered it.                   *)
Unanswered(k) == k \in BacklogCons \cup PendingCons
Handshaking(k) == phase[k] \in {"connecting", "waiting"}

LEMMA MIds ==
  /\ CONNECTION_TYPE_MID # DISCONNECT_TYPE_MID /\ RESPONSE_TYPE_MID # DISCONNECT_TYPE_MID
  /\ TcpMsg # DISCONNECT_TYPE_MID /\ UdpMsg # DISCONNECT_TYPE_MID
  /\ TcpMsg # RESPONSE_TYPE_MID /\ Accepted # Rejected
  /\ Accepted # NoResponse /\ Rejected # NoResponse
  BY DEF CONNECTION_TYPE_MID, RESPONSE_TYPE_MID, DISCONNECT_TYPE_MID, TcpMsg, UdpMsg,
         Accepted, Rejected, NoResponse

-----------------------------------------------------------------------------
(* One connection.                                                          *)

(* It moves in the server only forward, and not to the map.                 *)
Stays(k) ==
  /\ Unanswered(k)' => Unanswered(k)
  /\ Registered(k)' => Registered(k)

(* The listener does not open again.                                        *)
StillClosed == listening' => listening

Sent(s, m, peer) == IF peer = "open" THEN Append(s, m) ELSE s

(* A message is read: by the handshake, or by recv_msgs, which queues the   *)
(* connection if it is a goodbye.                                           *)
Yields(k) ==
  \E c \in DOMAIN tcp :
    /\ tcp[c] = k
    /\ Head(up[k]).mid = DISCONNECT_TYPE_MID => disconnected' = Ended(c, "Disconnected")

Taken(k) ==
  up[k] # <<>> /\ up'[k] = Tail(up[k]) /\ (Unanswered(k) \/ Yields(k))

(* What a step can be to the connection k.  First, that the server reads    *)
(* what the client wrote, or nothing at all.                                *)
Rests(k) ==
  /\ up'[k] = up[k] \/ Taken(k)
  /\ UNCHANGED <<down[k], cliEnd[k], srvEnd[k], broken[k], phase[k], resp[k], status[k]>>
  /\ Stays(k)

(* The client's steps.                                                      *)
Opens(k) ==
  /\ phase[k] = "idle" /\ phase'[k] = "connecting"
  /\ cliEnd'[k] = "open" /\ srvEnd'[k] = "open"
  /\ UNCHANGED <<up[k], down[k], broken[k], resp[k], status[k]>>
  /\ ~Registered(k)'

Refused(k) ==
  /\ phase[k] = "idle" /\ phase'[k] = "failed"
  /\ UNCHANGED <<up[k], down[k], cliEnd[k], srvEnd[k], broken[k], resp[k], status[k]>>
  /\ Stays(k)

Tells(k) ==
  /\ CliCanWrite(k)
  /\ \E m \in Msg : /\ m.mid # DISCONNECT_TYPE_MID
                    /\ up'[k] = Sent(up[k], m, srvEnd[k])
  /\ \/ phase[k] = "connecting" /\ phase'[k] = "waiting"
     \/ phase[k] = "ready" /\ phase'[k] = "ready"
  /\ UNCHANGED <<down[k], cliEnd[k], srvEnd[k], broken[k], resp[k], status[k]>>
  /\ Stays(k)

Hears(k) ==
  /\ phase[k] = "waiting" /\ phase'[k] = "ready"
  /\ down[k] # <<>> /\ Head(down[k]).mid = RESPONSE_TYPE_MID
  /\ down'[k] = Tail(down[k]) /\ resp'[k] = Head(down[k]).n
  /\ UNCHANGED <<up[k], cliEnd[k], srvEnd[k], broken[k], status[k]>>
  /\ Stays(k)

Departs(k) ==
  /\ \/ Handshaking(k) /\ phase'[k] = "failed"
     \/ phase[k] = "ready" /\ phase'[k] = "dropped"
  /\ cliEnd'[k] = "shut"
  /\ UNCHANGED <<up[k], down[k], srvEnd[k], broken[k], resp[k], status[k]>>
  /\ Stays(k)

Reads(k) ==
  /\ Receiving(k) /\ down[k] # <<>> /\ down'[k] = Tail(down[k])
  /\ \/ Head(down[k]).mid = DISCONNECT_TYPE_MID /\ status'[k] = "Disconnected"
     \/ Head(down[k]).mid # DISCONNECT_TYPE_MID /\ status'[k] = status[k]
  /\ UNCHANGED <<up[k], cliEnd[k], srvEnd[k], broken[k], phase[k], resp[k]>>
  /\ Stays(k)

Loses(k) ==
  /\ Receiving(k) /\ CliAborted(k) /\ status'[k] = "Dropped"
  /\ UNCHANGED <<up[k], down[k], cliEnd[k], srvEnd[k], broken[k], phase[k], resp[k]>>
  /\ Stays(k)

Leaves(k) ==
  /\ phase[k] = "ready" /\ CliCanWrite(k)
  /\ up'[k] = Sent(up[k], DisconnectMsg(k), srvEnd[k])
  /\ \/ cliEnd'[k] = "shut" /\ status'[k] = "Closed" /\ broken'[k] = broken[k]
     \/ broken'[k] = TRUE /\ cliEnd'[k] = cliEnd[k] /\ status'[k] = status[k]
  /\ UNCHANGED <<down[k], srvEnd[k], phase[k], resp[k]>>
  /\ Stays(k)

(* The server's steps.                                                      *)
Answers(k) ==
  /\ Unanswered(k) /\ ~Unanswered(k)'
  /\ \E r \in {Accepted, Rejected} :
       /\ down'[k] = IF SrvCanWrite(k) THEN Sent(down[k], ResponseMsg(k, r), cliEnd[k])
                                       ELSE down[k]
       /\ \/ r = Accepted /\ Registered(k)' /\ srvEnd'[k] = srvEnd[k]
          \/ r = Rejected /\ ~Registered(k)' /\ srvEnd'[k] = "shut"
  /\ UNCHANGED <<up[k], cliEnd[k], broken[k], phase[k], resp[k], status[k]>>

Drops(k) ==
  /\ Unanswered(k) /\ ~Unanswered(k)' /\ srvEnd'[k] = "shut"
  /\ UNCHANGED <<up[k], down[k], cliEnd[k], broken[k], phase[k], resp[k], status[k]>>
  /\ Stays(k)

Reaped(k) ==
  \E c \in DOMAIN tcp : tcp[c] = k /\ disconnected # <<>> /\ Head(disconnected).cid = c

Reaps(k) ==
  /\ Reaped(k) /\ srvEnd'[k] = "shut"
  /\ UNCHANGED <<up[k], down[k], cliEnd[k], broken[k], phase[k], resp[k], status[k]>>
  /\ Stays(k)

Writes(k) ==
  /\ Registered(k) /\ SrvCanWrite(k)
  /\ \E n \in Nat : down'[k] = Sent(down[k], TcpData(k, n), cliEnd[k])
  /\ UNCHANGED <<up[k], cliEnd[k], srvEnd[k], broken[k], phase[k], resp[k], status[k]>>
  /\ Stays(k)

Disconnects(k) ==
  /\ Registered(k) /\ SrvCanWrite(k)
  /\ down'[k] = Sent(down[k], DisconnectMsg(k), cliEnd[k])
  /\ up'[k] \in Arrived(up, k)
  /\ \/ srvEnd'[k] = "shut" /\ broken'[k] = broken[k]
     \/ broken'[k] = TRUE /\ srvEnd'[k] = srvEnd[k]
  /\ UNCHANGED <<cliEnd[k], phase[k], resp[k], status[k]>>
  /\ Stays(k)

GoesDown(k) ==
  /\ ~listening'
  /\ srvEnd'[k] = IF srvEnd[k] = "open" THEN "shut" ELSE srvEnd[k]
  /\ UNCHANGED <<up[k], down[k], cliEnd[k], broken[k], phase[k], resp[k], status[k]>>
  /\ Stays(k)

(* And the network's.                                                       *)
Breaks(k) ==
  /\ broken'[k] = TRUE
  /\ up'[k] \in Arrived(up, k) /\ down'[k] \in Arrived(down, k)
  /\ UNCHANGED <<cliEnd[k], srvEnd[k], phase[k], resp[k], status[k]>>
  /\ Stays(k)

ClientMoves(k) ==
  Opens(k) \/ Refused(k) \/ Tells(k) \/ Hears(k) \/ Departs(k) \/ Reads(k) \/ Loses(k)
    \/ Leaves(k)
ServerMoves(k) ==
  Answers(k) \/ Drops(k) \/ Reaps(k) \/ Writes(k) \/ Disconnects(k) \/ GoesDown(k)
Moves(k) == Rests(k) \/ ClientMoves(k) \/ ServerMoves(k) \/ Breaks(k)
EveryoneMoves == StillClosed /\ \A k \in Conn : Moves(k)

-----------------------------------------------------------------------------
(* Every step of the system is a step of each connection.                   *)

LEMMA EveryoneStays ==
  ASSUME UNCHANGED <<backlog, new_cons, tcp>>
  PROVE  \A k : Stays(k)
  BY DEF Stays, Unanswered, BacklogCons, PendingCons, Registered

(* Nothing but the server's own books, or data it has read.                 *)
LEMMA EveryoneRests ==
  ASSUME UNCHANGED <<listening, down, cliEnd, srvEnd, broken, phase, resp, status>>,
         \A k \in Conn : up'[k] = up[k] \/ Taken(k),
         \A k \in Conn : Stays(k)
  PROVE  EveryoneMoves
  BY DEF EveryoneMoves, StillClosed, Moves, Rests

LEMMA ClientMovesIt ==
  ASSUME SystemInv, Places, NEW k \in Conn, UNCHANGED <<new_cons, tcp>>,
         \/ Connect(k) \/ SendConnection(k) \/ RecvResponse(k) \/ Fail(k)
         \/ SendTcp(k) \/ SendUdp(k)
         \/ ClientTcpYields(k) \/ ClientTcpFails(k) \/ ClientRecvUdp(k)
         \/ ClientClearMsgs(k) \/ ClientDisconnect(k) \/ DropClient(k)
  PROVE  EveryoneMoves
<1>1. SocketsTypeOK /\ ClientTypeOK
  BY DEF SystemInv, ServerInv
<1>2. /\ up \in [Conn -> Seq(Msg)] /\ down \in [Conn -> Seq(Msg)]
      /\ cliEnd \in [Conn -> EndState] /\ srvEnd \in [Conn -> EndState]
      /\ broken \in [Conn -> BOOLEAN] /\ phase \in [Conn -> Phase]
      /\ resp \in [Conn -> Nat \cup {NoResponse}]
      /\ status \in [Conn -> {"Connected", "Disconnected", "Closed", "Dropped"}]
  BY <1>1 DEF SocketsTypeOK, ClientTypeOK
<1>3. CASE Connect(k)
  <2>1. CASE OpenConnection(k) /\ phase' = [phase EXCEPT ![k] = "connecting"]
    <3>1. /\ listening' = listening
          /\ phase[k] = "idle"
          /\ backlog' = Append(backlog, k)
          /\ cliEnd' = [cliEnd EXCEPT ![k] = "open"]
          /\ srvEnd' = [srvEnd EXCEPT ![k] = "open"]
          /\ UNCHANGED <<up, down, broken, resp, status>>
      BY <1>3, <2>1 DEF Connect, OpenConnection
    <3>2. ~Registered(k)'
      BY <3>1 DEF Places, RegisteredCons, Registered
    <3>3. Opens(k)
      BY <1>2, <2>1, <3>1, <3>2 DEF Opens
    <3>4. BacklogCons' = BacklogCons \cup {k}
      <4>1. /\ Len(backlog') = Len(backlog) + 1 /\ backlog'[Len(backlog) + 1] = k
            /\ \A i \in 1..Len(backlog) : backlog'[i] = backlog[i]
            /\ Len(backlog) \in Nat
        BY <3>1, PlaceTypes, AppendProperties
      <4>2. 1..Len(backlog') = 1..Len(backlog) \cup {Len(backlog) + 1}
        BY <4>1
      <4> QED
        BY <4>1, <4>2 DEF BacklogCons
    <3>5. ASSUME NEW j \in Conn, j # k
          PROVE  Rests(j)
      BY <1>2, <2>1, <3>1, <3>4, <3>5
      DEF Rests, Stays, Unanswered, PendingCons, Registered
    <3> QED
      BY <3>1, <3>3, <3>5 DEF EveryoneMoves, StillClosed, Moves, ClientMoves
  <2>2. CASE phase' = [phase EXCEPT ![k] = "failed"] /\ UNCHANGED <<backlog, cliEnd, srvEnd>>
    <3>1. /\ phase[k] = "idle"
          /\ UNCHANGED <<listening, up, down, broken, resp, status, backlog, cliEnd, srvEnd>>
      BY <1>3, <2>2 DEF Connect
    <3>2. \A j : Stays(j)
      BY <3>1, EveryoneStays
    <3>3. \A j \in Conn : IF j = k THEN Refused(j) ELSE Rests(j)
      BY <1>2, <2>2, <3>1, <3>2 DEF Refused, Rests
    <3> QED
      BY <3>1, <3>3 DEF EveryoneMoves, StillClosed, Moves, ClientMoves
  <2> QED
    BY <1>3, <2>1, <2>2 DEF Connect
<1>4. CASE ~Connect(k)
  <2>1. UNCHANGED <<listening, backlog, srvEnd>>
    BY <1>4 DEF SendConnection, RecvResponse, Fail, SendTcp, SendUdp, ClientTcpYields,
       ClientTcpFails, ClientRecvUdp, ClientClearMsgs, ClientDisconnect, DropClient, netVars
  <2>2. \A j : Stays(j)
    BY <2>1, EveryoneStays
  <2>3. ASSUME NEW j \in Conn, j # k
        PROVE  Rests(j)
    BY <1>2, <1>4, <2>1, <2>2, <2>3
    DEF SendConnection, RecvResponse, Fail, SendTcp, SendUdp, ClientTcpYields,
       ClientTcpFails, ClientRecvUdp, ClientClearMsgs, ClientDisconnect, DropClient, netVars,
       Rests, Delivered, Lost
  <2>4. CASE SendConnection(k) \/ SendTcp(k)
    <3>1. sent'[k][TcpMsg] \in Nat
      BY <1>1, <2>4 DEF ClientTypeOK, SendConnection, SendTcp, UserMsg
    <3>2. /\ ConnectionMsg(k) \in Msg /\ ConnectionMsg(k).mid # DISCONNECT_TYPE_MID
          /\ TcpData(k, sent'[k][TcpMsg]) \in Msg
          /\ TcpData(k, sent'[k][TcpMsg]).mid # DISCONNECT_TYPE_MID
      BY <3>1, MessageTypes, MIds DEF ConnectionMsg, TcpData
    <3>3. \E m \in Msg : m.mid # DISCONNECT_TYPE_MID /\ up' = Delivered(up, k, srvEnd, m)
      BY <2>4, <3>2 DEF SendConnection, SendTcp
    <3>4. \E m \in Msg : m.mid # DISCONNECT_TYPE_MID /\ up'[k] = Sent(up[k], m, srvEnd[k])
      BY <1>2, <3>3 DEF Delivered, Sent
    <3>5. Tells(k)
      BY <1>2, <2>1, <2>2, <2>4, <3>4 DEF SendConnection, SendTcp, Tells
    <3> QED
      BY <2>1, <2>3, <3>5 DEF EveryoneMoves, StillClosed, Moves, ClientMoves
  <2>5. CASE RecvResponse(k)
    <3>1. Hears(k)
      BY <1>2, <2>1, <2>2, <2>5 DEF RecvResponse, Hears
    <3> QED
      BY <2>1, <2>3, <3>1 DEF EveryoneMoves, StillClosed, Moves, ClientMoves
  <2>6. CASE Fail(k) \/ DropClient(k)
    <3>1. Departs(k)
      BY <1>2, <2>1, <2>2, <2>6 DEF Fail, DropClient, Departs, Handshaking
    <3> QED
      BY <2>1, <2>3, <3>1 DEF EveryoneMoves, StillClosed, Moves, ClientMoves
  <2>7. CASE SendUdp(k) \/ ClientRecvUdp(k) \/ ClientClearMsgs(k)
    <3>1. Rests(k)
      BY <1>2, <2>1, <2>2, <2>7 DEF SendUdp, ClientRecvUdp, ClientClearMsgs, netVars, Rests
    <3> QED
      BY <2>1, <2>3, <3>1 DEF EveryoneMoves, StillClosed, Moves
  <2>8. CASE ClientTcpYields(k)
    <3>1. Reads(k)
      BY <1>2, <2>1, <2>2, <2>8, MIds DEF ClientTcpYields, Reads, UserMsg
    <3> QED
      BY <2>1, <2>3, <3>1 DEF EveryoneMoves, StillClosed, Moves, ClientMoves
  <2>9. CASE ClientTcpFails(k)
    <3>1. Loses(k)
      BY <1>2, <2>1, <2>2, <2>9 DEF ClientTcpFails, Lost, Loses, netVars
    <3> QED
      BY <2>1, <2>3, <3>1 DEF EveryoneMoves, StillClosed, Moves, ClientMoves
  <2>10. CASE ClientDisconnect(k)
    <3>1. up'[k] = Sent(up[k], DisconnectMsg(k), srvEnd[k])
      BY <1>2, <2>10 DEF ClientDisconnect, Delivered, Sent
    <3>2. Leaves(k)
      BY <1>2, <2>1, <2>2, <2>10, <3>1 DEF ClientDisconnect, Leaves
    <3> QED
      BY <2>1, <2>3, <3>2 DEF EveryoneMoves, StillClosed, Moves, ClientMoves
  <2> QED
    BY <1>4, <2>4, <2>5, <2>6, <2>7, <2>8, <2>9, <2>10
<1> QED
  BY <1>3, <1>4

(* start_incoming and the scan: some of the backlog is now pending.         *)
LEMMA ScanStays ==
  ASSUME SystemInv, Places, HandleNewCon
  PROVE  \A k \in Conn : Stays(k)
<1>1. /\ new_cons' = new_cons \o Pulled
      /\ backlog' = SubSeq(backlog, Len(Pulled) + 1, Len(backlog))
      /\ tcp' = tcp
  BY DEF HandleNewCon, HandleNew
<1> DEFINE a == Len(new_cons)
           b == Len(Pulled)
           n == Len(backlog)
<1>2. /\ Pulled \in Seq(Pending) /\ b \in Nat /\ b <= n
      /\ \A i \in 1..b : Pulled[i].con = backlog[i]
  <2>1. Pulled \in Seq(Pending) /\ b <= n
    BY PulledType DEF SystemInv
  <2>2. b \in Nat /\ DOMAIN Pulled = 1..b
    BY <2>1, LenProperties
  <2> QED
    BY <2>1, <2>2 DEF Pulled
<1>3. new_cons \in Seq(Pending) /\ a \in Nat /\ backlog \in Seq(Conn) /\ n \in Nat
  BY PlaceTypes
<1>4. /\ Len(new_cons') = a + b
      /\ \A i \in 1..(a + b) : new_cons'[i] = IF i <= a THEN new_cons[i] ELSE Pulled[i - a]
  BY <1>1, <1>2, <1>3, ConcatProperties
<1>5. /\ Len(backlog') = n - b
      /\ \A i \in 1..(n - b) : backlog'[i] = backlog[b + i]
  <2>1. \A i \in (b + 1)..n : backlog[i] \in Conn
    BY <1>2, <1>3, ElementOfSeq
  <2>2. b + 1 \in Int
    BY <1>2
  <2> HIDE DEF n
  <2>3. /\ Len(backlog') = IF b + 1 <= n THEN n - (b + 1) + 1 ELSE 0
        /\ \A i \in 1..(n - (b + 1) + 1) : backlog'[i] = backlog[(b + 1) + i - 1]
    BY <1>1, <1>2, <1>3, <2>1, <2>2, SubSeqProperties DEF n
  <2> QED
    BY <1>2, <1>3, <2>3
<1> HIDE DEF a, b, n
<1>6. ASSUME NEW i \in 1..(a + b)
      PROVE  new_cons'[i].con \in PendingCons \cup BacklogCons
  <2>1. CASE i <= a
    BY <1>3, <1>4, <2>1 DEF PendingCons, a
  <2>2. CASE ~(i <= a)
    <3>1. i - a \in 1..b /\ i - a \in 1..n
      BY <1>2, <1>3, <2>2
    <3>2. new_cons'[i].con = backlog[i - a]
      BY <1>2, <1>4, <2>2, <3>1
    <3> QED
      BY <3>1, <3>2 DEF BacklogCons, n
  <2> QED
    BY <2>1, <2>2
<1>7. ASSUME NEW i \in 1..(n - b)
      PROVE  backlog'[i] \in BacklogCons
  <2>1. b + i \in 1..n
    BY <1>2, <1>3
  <2> QED
    BY <1>5, <2>1 DEF BacklogCons, n
<1>8. PendingCons' \cup BacklogCons' \subseteq PendingCons \cup BacklogCons
  BY <1>4, <1>5, <1>6, <1>7 DEF PendingCons, BacklogCons
<1> QED
  BY <1>1, <1>8 DEF Stays, Unanswered, Registered

(* What the scan of handle_new_con reads, it reads from a connection that   *)
(* is not answered.                                                         *)
LEMMA ScanReads ==
  ASSUME SystemInv, Places, HandleNewCon, NEW k \in Conn, up'[k] # up[k]
  PROVE  Unanswered(k) /\ up[k] # <<>> /\ up'[k] = Tail(up[k])
<1>1. new_cons' = new_cons \o Pulled
  BY DEF HandleNewCon, HandleNew
<1>2. /\ \E i \in 1..Len(new_cons') : new_cons'[i].con = k
      /\ up[k] # <<>> /\ up'[k] = Tail(up[k])
  BY <1>1 DEF HandleNewCon, HandleNew, Consumes
<1>3. Unanswered(k)'
  BY <1>2 DEF Unanswered, PendingCons
<1> QED
  BY <1>2, <1>3, ScanStays DEF Stays

(* The entry that is removed from the list.                                 *)
LEMMA EntryRemoved ==
  ASSUME SystemInv, Places, NEW i \in CId, ~(i > Len(new_cons)),
         new_cons' = RemoveAt(new_cons, i), UNCHANGED backlog,
         NEW k, k = new_cons[i].con
  PROVE  /\ k \in Conn /\ k \in PendingCons /\ ~Registered(k)
         /\ Unanswered(k) /\ ~Unanswered(k)'
         /\ \A j : Unanswered(j)' => Unanswered(j)
<1>1. i \in 1..Len(new_cons)
  BY LenProperties DEF SystemInv, ServerInv, ServerTypeOK, CId
<1>2. k \in PendingCons /\ k \in Conn
  BY <1>1, PlaceTypes DEF PendingCons
<1>3. PendingCons' \subseteq PendingCons \ {k}
  BY <1>1, RemovedCon
<1>4. k \notin BacklogCons /\ BacklogCons' = BacklogCons /\ ~Registered(k)
  BY <1>2 DEF Places, BacklogCons, Registered, RegisteredCons
<1> QED
  BY <1>2, <1>3, <1>4 DEF Unanswered

LEMMA AcceptMoves ==
  ASSUME SystemInv, Places, AcceptIncoming, UNCHANGED clientVars,
         ~(\E why \in Panic : PanicWith(why))
  PROVE  EveryoneMoves
<1>1. PICK i \in accepted : AcceptIncoming!2!(i)
  BY DEF AcceptIncoming
<1>2. ~(i > Len(new_cons)) /\ ~broken[new_cons[i].con]
  BY <1>1 DEF Panic
<1>3. PICK k, c : k = new_cons[i].con /\ c = new_cons[i].cid
  OBVIOUS
<1>4. /\ new_cons' = RemoveAt(new_cons, i)
      /\ tcp' = Insert(tcp, c, k)
      /\ Answer(k, Accepted)
      /\ UNCHANGED <<listening, backlog, up, cliEnd, srvEnd, broken, phase, resp, status>>
  BY <1>1, <1>2, <1>3 DEF AddTcpCon, clientVars
<1>5. /\ k \in Conn /\ Unanswered(k) /\ ~Unanswered(k)'
      /\ \A j : Unanswered(j)' => Unanswered(j)
  <2>1. i \in CId
    BY DEF SystemInv, ServerInv, ServerTypeOK
  <2> QED
    BY <1>2, <1>3, <1>4, <2>1, EntryRemoved
<1>6. Registered(k)' /\ \A j \in Conn \ {k} : Registered(j)' => Registered(j)
  BY <1>4 DEF Registered, Insert
<1>7. /\ down \in [Conn -> Seq(Msg)]
      /\ down' = IF SrvCanWrite(k) THEN Delivered(down, k, cliEnd, ResponseMsg(k, Accepted))
                                   ELSE down
  BY <1>4 DEF Answer, SystemInv, ServerInv, SocketsTypeOK
<1>8. Answers(k)
  <2>1. down'[k] = IF SrvCanWrite(k) THEN Sent(down[k], ResponseMsg(k, Accepted), cliEnd[k])
                                     ELSE down[k]
    BY <1>5, <1>7 DEF Delivered, Sent
  <2> QED
    BY <1>4, <1>5, <1>6, <2>1 DEF Answers
<1>9. ASSUME NEW j \in Conn, j # k
      PROVE  Rests(j)
  <2>1. down'[j] = down[j]
    BY <1>5, <1>7, <1>9 DEF Delivered
  <2> QED
    BY <1>4, <1>5, <1>6, <1>9, <2>1 DEF Rests, Stays
<1> QED
  BY <1>4, <1>8, <1>9 DEF EveryoneMoves, StillClosed, Moves, ServerMoves

LEMMA RejectMoves ==
  ASSUME SystemInv, Places, RejectIncoming, UNCHANGED clientVars,
         ~(\E why \in Panic : PanicWith(why))
  PROVE  EveryoneMoves
<1>1. PICK i \in rejected : RejectIncoming!2!(i)
  BY DEF RejectIncoming
<1>2. ~(i > Len(new_cons)) /\ ~broken[new_cons[i].con]
  BY <1>1 DEF Panic
<1>3. PICK k : k = new_cons[i].con
  OBVIOUS
<1>4. /\ new_cons' = RemoveAt(new_cons, i)
      /\ Answer(k, Rejected) /\ srvEnd' = [srvEnd EXCEPT ![k] = "shut"]
      /\ UNCHANGED <<listening, backlog, up, cliEnd, broken, tcp, phase, resp, status>>
  BY <1>1, <1>2, <1>3 DEF CloseTcp, clientVars
<1>5. /\ k \in Conn /\ Unanswered(k) /\ ~Unanswered(k)' /\ ~Registered(k)
      /\ \A j : Unanswered(j)' => Unanswered(j)
  <2>1. i \in CId
    BY DEF SystemInv, ServerInv, ServerTypeOK
  <2> QED
    BY <1>2, <1>3, <1>4, <2>1, EntryRemoved
<1>6. \A j : Registered(j)' <=> Registered(j)
  BY <1>4 DEF Registered
<1>7. /\ down \in [Conn -> Seq(Msg)] /\ srvEnd \in [Conn -> EndState]
      /\ down' = IF SrvCanWrite(k) THEN Delivered(down, k, cliEnd, ResponseMsg(k, Rejected))
                                   ELSE down
  BY <1>4 DEF Answer, SystemInv, ServerInv, SocketsTypeOK
<1>8. Answers(k)
  <2>1. down'[k] = IF SrvCanWrite(k) THEN Sent(down[k], ResponseMsg(k, Rejected), cliEnd[k])
                                     ELSE down[k]
    BY <1>5, <1>7 DEF Delivered, Sent
  <2> QED
    BY <1>4, <1>5, <1>6, <1>7, <2>1 DEF Answers
<1>9. ASSUME NEW j \in Conn, j # k
      PROVE  Rests(j)
  <2>1. down'[j] = down[j]
    BY <1>5, <1>7, <1>9 DEF Delivered
  <2> QED
    BY <1>4, <1>5, <1>6, <1>7, <1>9, <2>1 DEF Rests, Stays
<1> QED
  BY <1>4, <1>8, <1>9 DEF EveryoneMoves, StillClosed, Moves, ServerMoves

LEMMA DropMoves ==
  ASSUME SystemInv, Places, DropDead, UNCHANGED clientVars,
         ~(\E why \in Panic : PanicWith(why))
  PROVE  EveryoneMoves
<1>1. PICK i \in dead : DropDead!2!(i)
  BY DEF DropDead
<1>2. ~(i > Len(new_cons))
  BY <1>1 DEF Panic
<1>3. PICK k : k = new_cons[i].con
  OBVIOUS
<1>4. /\ new_cons' = RemoveAt(new_cons, i) /\ srvEnd' = [srvEnd EXCEPT ![k] = "shut"]
      /\ UNCHANGED <<listening, backlog, up, down, cliEnd, broken, tcp, phase, resp, status>>
  BY <1>1, <1>2, <1>3 DEF CloseTcp, clientVars
<1>5. /\ k \in Conn /\ Unanswered(k) /\ ~Unanswered(k)'
      /\ \A j : Unanswered(j)' => Unanswered(j)
  <2>1. i \in CId
    BY DEF SystemInv, ServerInv, ServerTypeOK
  <2> QED
    BY <1>2, <1>3, <1>4, <2>1, EntryRemoved
<1>6. \A j : Registered(j)' => Registered(j)
  BY <1>4 DEF Registered
<1>7. srvEnd \in [Conn -> EndState]
  BY DEF SystemInv, ServerInv, SocketsTypeOK
<1>8. \A j \in Conn : IF j = k THEN Drops(j) ELSE Rests(j)
  BY <1>4, <1>5, <1>6, <1>7 DEF Drops, Rests, Stays
<1> QED
  BY <1>4, <1>8 DEF EveryoneMoves, StillClosed, Moves, ServerMoves

LEMMA ReapMoves ==
  ASSUME SystemInv, Reap, UNCHANGED clientVars, ~(\E why \in Panic : PanicWith(why))
  PROVE  EveryoneMoves
<1>1. PICK c : c = Head(disconnected).cid
  OBVIOUS
<1>2. disconnected # <<>> /\ srvEnd \in [Conn -> EndState] /\ tcp \in [DOMAIN tcp -> Conn]
  BY DEF Reap, SystemInv, ServerInv, SocketsTypeOK, ServerTypeOK, Maps
<1>3. /\ UNCHANGED <<listening, backlog, up, down, cliEnd, broken, new_cons>>
      /\ UNCHANGED <<phase, resp, status>>
      /\ Alive(c) => /\ c \in DOMAIN tcp /\ tcp' = Delete(tcp, c)
                     /\ srvEnd' = [srvEnd EXCEPT ![tcp[c]] = "shut"]
      /\ ~Alive(c) => UNCHANGED <<tcp, srvEnd>>
  BY <1>1 DEF Reap, RmTcpCon, CloseTcp, Panic, clientVars
<1>4. CASE ~Alive(c)
  <2>1. \A k : Stays(k)
    BY <1>3, <1>4, EveryoneStays
  <2> QED
    BY <1>3, <1>4, <2>1, EveryoneRests
<1>5. CASE Alive(c)
  <2>1. DOMAIN tcp' \subseteq DOMAIN tcp /\ \A d \in DOMAIN tcp' : tcp'[d] = tcp[d]
    BY <1>3, <1>5 DEF Delete, Restrict
  <2>2. \A k : Stays(k)
    BY <1>3, <2>1 DEF Stays, Unanswered, BacklogCons, PendingCons, Registered
  <2>3. \A k \in Conn : IF k = tcp[c] THEN Reaps(k) ELSE Rests(k)
    BY <1>1, <1>2, <1>3, <1>5, <2>2 DEF Reaps, Reaped, Rests
  <2> QED
    BY <1>3, <2>3 DEF EveryoneMoves, StillClosed, Moves, ServerMoves
<1> QED
  BY <1>4, <1>5

LEMMA DisconnectMoves ==
  ASSUME SystemInv, NEW c \in DOMAIN cid_addr, Disconnect(c), UNCHANGED clientVars
  PROVE  EveryoneMoves
<1>1. c \in DOMAIN tcp
  BY DEF SystemInv, ServerInv, Maps
<1>2. PICK k \in Conn : k = tcp[c]
  BY <1>1 DEF SystemInv, ServerInv, ServerTypeOK
<1>3. /\ SayGoodbye(k)
      /\ \E s \in Arrived(up, k) : up' = [up EXCEPT ![k] = s]
      /\ \/ CloseTcp(k) /\ UNCHANGED broken
         \/ broken' = [broken EXCEPT ![k] = TRUE] /\ UNCHANGED srvEnd
      /\ UNCHANGED <<listening, backlog, cliEnd, new_cons, tcp, phase, resp, status>>
  BY <1>2 DEF Disconnect, clientVars
<1>4. /\ up \in [Conn -> Seq(Msg)] /\ down \in [Conn -> Seq(Msg)]
      /\ srvEnd \in [Conn -> EndState] /\ broken \in [Conn -> BOOLEAN]
  BY DEF SystemInv, ServerInv, SocketsTypeOK
<1>5. \A j : Stays(j)
  BY <1>3, EveryoneStays
<1>6. Registered(k)
  BY <1>1, <1>2 DEF Registered
<1>7. down' = Delivered(down, k, cliEnd, DisconnectMsg(k)) /\ SrvCanWrite(k)
  BY <1>3 DEF SayGoodbye
<1>8. /\ down'[k] = Sent(down[k], DisconnectMsg(k), cliEnd[k])
      /\ \A j \in Conn \ {k} : down'[j] = down[j]
  BY <1>4, <1>7 DEF Delivered, Sent
<1>9. up'[k] \in Arrived(up, k) /\ \A j \in Conn \ {k} : up'[j] = up[j]
  BY <1>3, <1>4
<1>10. Disconnects(k)
  BY <1>3, <1>4, <1>5, <1>6, <1>7, <1>8, <1>9 DEF Disconnects, CloseTcp
<1>11. ASSUME NEW j \in Conn, j # k
       PROVE  Rests(j)
  BY <1>3, <1>4, <1>5, <1>8, <1>9, <1>11 DEF Rests, CloseTcp
<1> QED
  BY <1>3, <1>10, <1>11 DEF EveryoneMoves, StillClosed, Moves, ServerMoves

LEMMA SendMoves ==
  ASSUME SystemInv, NEW S \in Matching, NEW G \in SUBSET S, SendTcpSpec(S, G),
         UNCHANGED clientVars
  PROVE  EveryoneMoves
<1>1. G \subseteq DOMAIN tcp /\ \A c \in G : SrvCanWrite(tcp[c])
  BY DEF SendTcpSpec, Matching, Matches, Reaches, SystemInv, ServerInv, Maps
<1>2. PICK n \in Nat : n = srvSent[TcpMsg] + 1
  BY DEF SystemInv, ServerInv, ServerTypeOK
<1>3. PICK To : To = {tcp[c] : c \in G}
  OBVIOUS
<1>4. /\ down' = [k \in Conn |-> IF k \in To /\ cliEnd[k] = "open"
                                 THEN Append(down[k], TcpData(k, n)) ELSE down[k]]
      /\ UNCHANGED <<listening, backlog, up, cliEnd, srvEnd, broken, new_cons, tcp>>
      /\ UNCHANGED <<phase, resp, status>>
  BY <1>2, <1>3 DEF SendTcpSpec, clientVars
<1>5. \A j : Stays(j)
  BY <1>4, EveryoneStays
<1>6. ASSUME NEW k \in Conn, k \in To
      PROVE  Writes(k)
  <2>1. Registered(k) /\ SrvCanWrite(k)
    BY <1>1, <1>3, <1>6 DEF Registered
  <2>2. down'[k] = Sent(down[k], TcpData(k, n), cliEnd[k])
    BY <1>4, <1>6 DEF Sent
  <2> QED
    BY <1>4, <1>5, <2>1, <2>2 DEF Writes
<1>7. ASSUME NEW k \in Conn, k \notin To
      PROVE  Rests(k)
  BY <1>4, <1>5, <1>7 DEF Rests
<1> QED
  BY <1>4, <1>6, <1>7 DEF EveryoneMoves, StillClosed, Moves, ServerMoves

(* A panic, or the application drops the Server.                            *)
LEMMA GoneMoves ==
  ASSUME SystemInv, CloseAll, UNCHANGED <<up, down, cliEnd, broken, new_cons, tcp>>,
         UNCHANGED clientVars
  PROVE  EveryoneMoves
<1>1. BacklogCons' = {} /\ PendingCons' = PendingCons
  <2>1. Len(backlog') = 0
    BY EmptySeq DEF CloseAll
  <2> QED
    BY <2>1 DEF BacklogCons, PendingCons
<1>2. \A k : Stays(k)
  BY <1>1 DEF Stays, Unanswered, Registered
<1>3. \A k \in Conn : GoesDown(k)
  BY <1>2 DEF CloseAll, GoesDown, clientVars
<1> QED
  BY <1>3 DEF CloseAll, EveryoneMoves, StillClosed, Moves, ServerMoves

LEMMA NetworkMoves ==
  ASSUME SystemInv, NetworkStep
  PROVE  EveryoneMoves
<1>1. UNCHANGED <<listening, backlog, new_cons, tcp, phase, resp, status>>
  BY DEF NetworkStep, LoseDatagram, Break, serverVars, clientVars
<1>2. \A k : Stays(k)
  BY <1>1, EveryoneStays
<1>3. CASE LoseDatagram
  BY <1>1, <1>2, <1>3, EveryoneRests DEF LoseDatagram
<1>4. ASSUME NEW k \in Conn, Break(k)
      PROVE  EveryoneMoves
  <2>1. /\ up \in [Conn -> Seq(Msg)] /\ down \in [Conn -> Seq(Msg)]
        /\ broken \in [Conn -> BOOLEAN]
    BY DEF SystemInv, ServerInv, SocketsTypeOK
  <2>2. /\ \E s \in Arrived(up, k) : up' = [up EXCEPT ![k] = s]
        /\ \E s \in Arrived(down, k) : down' = [down EXCEPT ![k] = s]
        /\ broken' = [broken EXCEPT ![k] = TRUE]
        /\ UNCHANGED <<cliEnd, srvEnd>>
    BY <1>4 DEF Break
  <2>3. Breaks(k)
    BY <1>1, <1>2, <2>1, <2>2 DEF Breaks
  <2>4. ASSUME NEW j \in Conn, j # k
        PROVE  Rests(j)
    BY <1>1, <1>2, <2>1, <2>2, <2>4 DEF Rests
  <2> QED
    BY <1>1, <2>3, <2>4 DEF EveryoneMoves, StillClosed, Moves
<1> QED
  BY <1>3, <1>4 DEF NetworkStep

LEMMA ServerMovesIt ==
  ASSUME SystemInv, Places, ServerNext, UNCHANGED clientVars
  PROVE  EveryoneMoves
<1>1. UNCHANGED <<phase, resp, status>> /\ up \in [Conn -> Seq(Msg)]
  BY DEF clientVars, SystemInv, ServerInv, SocketsTypeOK
<1>2. ASSUME UNCHANGED <<listening, backlog, up, down, cliEnd, srvEnd, broken, new_cons, tcp>>
      PROVE  EveryoneMoves
  BY <1>1, <1>2, EveryoneStays, EveryoneRests
<1>3. ASSUME NEW why, PanicWith(why)
      PROVE  EveryoneMoves
  BY <1>3, GoneMoves DEF PanicWith
<1>4. CASE AcceptIncoming \/ RejectIncoming \/ DropDead \/ Reap
  BY <1>3, <1>4, AcceptMoves, RejectMoves, DropMoves, ReapMoves
<1>5. CASE HandleNewCon
  <2>1. /\ UNCHANGED <<listening, down, cliEnd, srvEnd, broken>>
        /\ new_cons' = new_cons \o Pulled
    BY <1>5 DEF HandleNewCon, HandleNew
  <2>2. \A k \in Conn : up'[k] = up[k] \/ Taken(k)
    BY <1>5, ScanReads DEF Taken
  <2> QED
    BY <1>1, <1>5, <2>1, <2>2, ScanStays, EveryoneRests
<1>6. CASE Elapse
  <2>1. PICK i \in 1..Len(new_cons) : new_cons' = [new_cons EXCEPT ![i].late = TRUE]
    BY <1>6 DEF Elapse
  <2>2. /\ new_cons \in Seq(Pending) /\ new_cons[i] \in Pending
    BY PlaceTypes, ElementOfSeq
  <2>3. /\ new_cons' = [new_cons EXCEPT ![i] = [new_cons[i] EXCEPT !.late = TRUE]]
        /\ [new_cons[i] EXCEPT !.late = TRUE].con = new_cons[i].con
    BY <2>1, <2>2 DEF Pending
  <2>4. /\ Len(new_cons') = Len(new_cons)
        /\ \A j \in 1..Len(new_cons) : new_cons'[j].con = new_cons[j].con
    BY <2>2, <2>3, ExceptSeq, LenProperties DEF Pending
  <2>5. PendingCons' = PendingCons
    BY <2>4 DEF PendingCons
  <2>6. UNCHANGED <<listening, backlog, up, down, cliEnd, srvEnd, broken, tcp>>
    BY <1>6 DEF Elapse, netVars
  <2>7. \A k : Stays(k)
    BY <2>5, <2>6 DEF Stays, Unanswered, BacklogCons, Registered
  <2> QED
    BY <1>1, <2>6, <2>7, EveryoneRests
<1>7. CASE RecvMsgs \/ RecvUdp \/ ClearMsgs \/ HandleDisconnect
  BY <1>2, <1>7 DEF RecvMsgs, RecvUdp, ClearMsgs, HandleDisconnect, netVars
<1>8. ASSUME NEW c \in todo, TcpFails(c) \/ TcpWouldBlock(c)
      PROVE  EveryoneMoves
  BY <1>2, <1>8 DEF TcpFails, TcpWouldBlock, RecvTcp
<1>9. ASSUME NEW c \in todo, TcpYields(c)
      PROVE  EveryoneMoves
  <2>1. /\ up[tcp[c]] # <<>> /\ up' = [up EXCEPT ![tcp[c]] = Tail(@)]
        /\ UNCHANGED <<listening, backlog, down, cliEnd, srvEnd, broken, new_cons, tcp>>
    BY <1>9 DEF TcpYields, RecvTcp
  <2>2. c \in DOMAIN tcp
    BY DEF SystemInv, ServerInv, Maps
  <2>3. Yields(tcp[c])
    BY <1>9, <2>2 DEF TcpYields, Yields
  <2>4. \A k \in Conn : up'[k] = up[k] \/ Taken(k)
    BY <1>1, <2>1, <2>3 DEF Taken
  <2> QED
    BY <1>1, <2>1, <2>4, EveryoneStays, EveryoneRests
<1>10. ASSUME NEW S \in Matching, SendUdpSpec(S)
       PROVE  EveryoneMoves
  BY <1>2, <1>10 DEF SendUdpSpec
<1> QED
  BY <1>4, <1>5, <1>6, <1>7, <1>8, <1>9, <1>10, DisconnectMoves, SendMoves DEF ServerNext

LEMMA EveryoneStep ==
  ASSUME SystemInv, Places, [Next]_vars
  PROVE  EveryoneMoves
<1>1. CASE ServerStep
  BY <1>1, ServerMovesIt DEF ServerStep
<1>2. CASE ShutDown
  BY <1>2, GoneMoves DEF ShutDown, DropServer
<1>3. CASE ClientStep
  <2>1. UNCHANGED <<new_cons, tcp>>
    BY <1>3 DEF ClientStep, serverVars
  <2> QED
    BY <1>3, <2>1, ClientMovesIt DEF ClientStep, ClientNext
<1>4. CASE UNCHANGED vars
  BY <1>4, EveryoneStays, EveryoneRests DEF vars, netVars, serverVars, clientVars
<1> QED
  BY <1>1, <1>2, <1>3, <1>4, NetworkMoves DEF Next

-----------------------------------------------------------------------------
(* What happens to a stream.                                                *)

GoodbyeIsLast(s) == \A i \in 1..(Len(s) - 1) : s[i].mid # DISCONNECT_TYPE_MID

LEMMA NothingSaid ==
  ~HasGoodbye(<<>>) /\ GoodbyeIsLast(<<>>)
<1>1. Len(<<>>) = 0
  BY EmptySeq
<1> QED
  BY <1>1 DEF HasGoodbye, GoodbyeIsLast

(* The reader takes the first message.                                      *)
LEMMA AfterRead ==
  ASSUME NEW s \in Seq(Msg), s # <<>>
  PROVE  /\ Head(s) \in Msg /\ Tail(s) \in Seq(Msg)
         /\ HasGoodbye(Tail(s)) => HasGoodbye(s)
         /\ HasGoodbye(s) => Head(s).mid = DISCONNECT_TYPE_MID \/ HasGoodbye(Tail(s))
         /\ GoodbyeIsLast(s) => GoodbyeIsLast(Tail(s))
<1>1. /\ Head(s) \in Msg /\ Tail(s) \in Seq(Msg) /\ Len(Tail(s)) = Len(s) - 1
      /\ \A i \in 1..Len(Tail(s)) : Tail(s)[i] = s[i + 1]
  BY HeadTailProperties
<1>2. Len(s) \in Nat /\ Len(s) # 0 /\ Head(s) = s[1]
  BY EmptySeq, LenProperties
<1>3. HasGoodbye(Tail(s)) => HasGoodbye(s)
  BY <1>1, <1>2 DEF HasGoodbye
<1>4. ASSUME NEW i \in 1..Len(s), s[i].mid = DISCONNECT_TYPE_MID, i # 1
      PROVE  HasGoodbye(Tail(s))
  <2>1. i - 1 \in 1..Len(Tail(s)) /\ Tail(s)[i - 1] = s[i]
    BY <1>1, <1>2, <1>4
  <2> QED
    BY <1>4, <2>1 DEF HasGoodbye
<1>5. GoodbyeIsLast(s) => GoodbyeIsLast(Tail(s))
  BY <1>1, <1>2 DEF GoodbyeIsLast
<1> QED
  BY <1>1, <1>2, <1>3, <1>4, <1>5 DEF HasGoodbye

(* The end of it is lost.                                                   *)
LEMMA AfterCut ==
  ASSUME NEW f \in [Conn -> Seq(Msg)], NEW k \in Conn, NEW t \in Arrived(f, k)
  PROVE  /\ t \in Seq(Msg)
         /\ HasGoodbye(t) => HasGoodbye(f[k])
         /\ GoodbyeIsLast(f[k]) => GoodbyeIsLast(t)
         /\ f[k] = <<>> => t = <<>>
         /\ t # <<>> => Head(t) = Head(f[k])
         /\ Len(t) \in 0..Len(f[k]) /\ \A j \in 1..Len(t) : t[j] = f[k][j]
<1>1. PICK s \in Seq(Msg) : s = f[k]
  OBVIOUS
<1>2. PICK i \in 0..Len(s) : t = SubSeq(s, 1, i)
  BY <1>1 DEF Arrived
<1>3. Len(s) \in Nat /\ \A j \in 1..i : s[j] \in Msg
  BY LenProperties, ElementOfSeq
<1>4. t \in Seq(Msg) /\ Len(t) = i /\ \A j \in 1..i : t[j] = s[j]
  <2>1. 1 \in Int /\ i \in Int
    BY <1>3
  <2>2. /\ t \in Seq(Msg) /\ Len(t) = (IF 1 <= i THEN i - 1 + 1 ELSE 0)
        /\ \A j \in 1..(i - 1 + 1) : t[j] = s[1 + j - 1]
    BY <1>2, <1>3, <2>1, SubSeqProperties
  <2> QED
    BY <1>3, <2>2
<1>5. t # <<>> => Len(t) # 0 /\ Head(t) = t[1] /\ s # <<>> /\ Head(s) = s[1]
  BY <1>3, <1>4, EmptySeq
<1>6. s = <<>> => t = <<>>
  BY <1>5
<1>7. t # <<>> => Head(t) = Head(s)
  BY <1>3, <1>4, <1>5
<1>8. (HasGoodbye(t) => HasGoodbye(s)) /\ (GoodbyeIsLast(s) => GoodbyeIsLast(t))
  <2>1. /\ \A j \in 1..Len(t) : j \in 1..Len(s) /\ t[j] = s[j]
        /\ \A j \in 1..(Len(t) - 1) : j \in 1..(Len(s) - 1) /\ t[j] = s[j]
    BY <1>3, <1>4
  <2> QED
    BY <2>1 DEF HasGoodbye, GoodbyeIsLast
<1> QED
  BY <1>1, <1>3, <1>4, <1>6, <1>7, <1>8

(* A message is added, if the other side has not closed.                    *)
LEMMA AfterSend ==
  ASSUME NEW s \in Seq(Msg), NEW m \in Msg, NEW e
  PROVE  /\ Sent(s, m, e) \in Seq(Msg)
         /\ e # "open" => Sent(s, m, e) = s
         /\ e = "open" => Sent(s, m, e) # <<>>
         /\ HasGoodbye(Sent(s, m, e)) =>
              HasGoodbye(s) \/ (e = "open" /\ m.mid = DISCONNECT_TYPE_MID)
         /\ HasGoodbye(s) => HasGoodbye(Sent(s, m, e))
         /\ e = "open" /\ m.mid = DISCONNECT_TYPE_MID => HasGoodbye(Sent(s, m, e))
         /\ GoodbyeIsLast(s) /\ ~HasGoodbye(s) => GoodbyeIsLast(Sent(s, m, e))
         /\ e = "open" => Head(Sent(s, m, e)) = IF s = <<>> THEN m ELSE Head(s)
<1>1. CASE e # "open"
  BY <1>1 DEF Sent
<1>2. CASE e = "open"
  <2>1. PICK t : t = Append(s, m)
    OBVIOUS
  <2>2. /\ t \in Seq(Msg) /\ t # <<>> /\ Len(t) = Len(s) + 1 /\ Len(s) \in Nat
        /\ \A i \in 1..Len(s) : t[i] = s[i]
        /\ t[Len(s) + 1] = m
    BY <2>1, AppendProperties, LenProperties
  <2>3. 1..Len(t) = 1..Len(s) \cup {Len(s) + 1} /\ 1..(Len(t) - 1) = 1..Len(s)
    BY <2>2
  <2>4. HasGoodbye(t) <=> HasGoodbye(s) \/ m.mid = DISCONNECT_TYPE_MID
    BY <2>2, <2>3 DEF HasGoodbye
  <2>5. ~HasGoodbye(s) => GoodbyeIsLast(t)
    BY <2>2, <2>3 DEF HasGoodbye, GoodbyeIsLast
  <2>6. Head(t) = IF s = <<>> THEN m ELSE Head(s)
    BY <2>1, HeadTailAppend
  <2>7. Sent(s, m, e) = t
    BY <1>2, <2>1 DEF Sent
  <2> QED
    BY <1>2, <2>2, <2>4, <2>5, <2>6, <2>7
<1> QED
  BY <1>1, <1>2

-----------------------------------------------------------------------------
(* Goodbyes.                                                                *)

(* What is known of k alone, from its type.                                 *)
ConType(k) ==
  /\ up[k] \in Seq(Msg) /\ down[k] \in Seq(Msg)
  /\ cliEnd[k] \in EndState /\ srvEnd[k] \in EndState /\ broken[k] \in BOOLEAN
  /\ phase[k] \in Phase

LEMMA ConTyped ==
  ASSUME SystemInv, NEW k \in Conn
  PROVE  ConType(k) /\ up \in [Conn -> Seq(Msg)] /\ down \in [Conn -> Seq(Msg)]
  BY DEF SystemInv, ServerInv, SocketsTypeOK, ClientTypeOK, ConType

(* GoodbyeLast, strengthened: who has said goodbye cannot write any more,   *)
(* and the streams of a connection that is not opened are empty.            *)
Goodbyes(k) ==
  /\ phase[k] = "idle" => cliEnd[k] = "none"
  /\ cliEnd[k] = "none" => up[k] = <<>> /\ down[k] = <<>>
  /\ HasGoodbye(up[k]) => ~CliCanWrite(k)
  /\ HasGoodbye(down[k]) => ~SrvCanWrite(k)
  /\ GoodbyeIsLast(up[k]) /\ GoodbyeIsLast(down[k])

LEMMA OwnMessages ==
  ASSUME NEW k \in Conn
  PROVE  /\ DisconnectMsg(k) \in Msg /\ DisconnectMsg(k).mid = DISCONNECT_TYPE_MID
         /\ \A r \in {Accepted, Rejected} :
              /\ ResponseMsg(k, r) \in Msg /\ ResponseMsg(k, r).n = r
              /\ ResponseMsg(k, r).mid = RESPONSE_TYPE_MID
         /\ \A n \in Nat : TcpData(k, n) \in Msg /\ TcpData(k, n).mid = TcpMsg
  BY MessageTypes DEF DisconnectMsg, ResponseMsg, TcpData, Accepted, Rejected

LEMMA GoodbyesStep ==
  ASSUME SystemInv, NEW k \in Conn, Goodbyes(k), Moves(k)
  PROVE  Goodbyes(k)'
<1>1. ConType(k) /\ up \in [Conn -> Seq(Msg)] /\ down \in [Conn -> Seq(Msg)]
  BY ConTyped
<1>2. CASE Rests(k)
  BY <1>1, <1>2, AfterRead DEF ConType, Rests, Taken, Goodbyes, CliCanWrite, SrvCanWrite
<1>3. CASE Opens(k)
  BY <1>3, NothingSaid DEF Opens, Goodbyes, CliCanWrite, SrvCanWrite
<1>4. CASE Refused(k) \/ Departs(k) \/ Loses(k)
  BY <1>4 DEF Refused, Departs, Loses, Goodbyes, CliCanWrite, SrvCanWrite, Handshaking
<1>5. CASE Tells(k)
  BY <1>1, <1>5, AfterSend DEF ConType, Tells, Goodbyes, CliCanWrite, SrvCanWrite
<1>6. CASE Hears(k) \/ Reads(k)
  BY <1>1, <1>6, AfterRead DEF ConType, Hears, Reads, Goodbyes, CliCanWrite, SrvCanWrite
<1>7. CASE Leaves(k)
  BY <1>1, <1>7, AfterSend, OwnMessages
  DEF ConType, Leaves, Goodbyes, CliCanWrite, SrvCanWrite
<1>8. CASE Answers(k)
  <2>1. PICK m \in Msg : /\ m.mid # DISCONNECT_TYPE_MID
                         /\ down'[k] = IF SrvCanWrite(k) THEN Sent(down[k], m, cliEnd[k])
                                                         ELSE down[k]
    BY <1>8, OwnMessages, MIds DEF Answers
  <2>2. /\ HasGoodbye(down'[k]) => HasGoodbye(down[k])
        /\ GoodbyeIsLast(down'[k])
        /\ cliEnd[k] = "none" => down'[k] = down[k]
    BY <1>1, <2>1, AfterSend DEF ConType, Goodbyes
  <2>3. ~SrvCanWrite(k) => ~SrvCanWrite(k)'
    BY <1>8 DEF Answers, SrvCanWrite
  <2> QED
    BY <1>8, <2>2, <2>3 DEF Answers, Goodbyes, CliCanWrite
<1>9. CASE Drops(k) \/ Reaps(k) \/ GoesDown(k)
  BY <1>9 DEF Drops, Reaps, GoesDown, Goodbyes, CliCanWrite, SrvCanWrite
<1>10. CASE Writes(k)
  BY <1>1, <1>10, AfterSend, OwnMessages, MIds
  DEF ConType, Writes, Goodbyes, CliCanWrite, SrvCanWrite
<1>11. CASE Disconnects(k)
  BY <1>1, <1>11, AfterSend, AfterCut, OwnMessages
  DEF ConType, Disconnects, Goodbyes, CliCanWrite, SrvCanWrite
<1>12. CASE Breaks(k)
  <2>1. up'[k] \in Arrived(up, k) /\ down'[k] \in Arrived(down, k)
    BY <1>12 DEF Breaks
  <2>2. /\ GoodbyeIsLast(up[k]) => GoodbyeIsLast(up'[k])
        /\ up[k] = <<>> => up'[k] = <<>>
    BY <1>1, <2>1, AfterCut
  <2>3. /\ GoodbyeIsLast(down[k]) => GoodbyeIsLast(down'[k])
        /\ down[k] = <<>> => down'[k] = <<>>
    BY <1>1, <2>1, AfterCut
  <2> QED
    BY <1>12, <2>2, <2>3 DEF Breaks, Goodbyes, CliCanWrite, SrvCanWrite
<1> QED
  BY <1>2, <1>3, <1>4, <1>5, <1>6, <1>7, <1>8, <1>9, <1>10, <1>11, <1>12
  DEF Moves, ClientMoves, ServerMoves

-----------------------------------------------------------------------------
(* The response.                                                            *)

(* ResponseFirst, strengthened: nothing is written to a connection before   *)
(* it is answered, and when the answer could not be written nothing can be. *)
Responses(k) ==
  /\ Unanswered(k) => down[k] = <<>> /\ phase[k] \in {"connecting", "waiting", "failed"}
  /\ phase[k] \notin {"ready", "dropped"} => resp[k] = NoResponse /\ status[k] = "Connected"
  /\ Handshaking(k) =>
       \/ down[k] = <<>> /\ (Registered(k) => ~SrvCanWrite(k))
       \/ down[k] # <<>> /\ Head(down[k]).mid = RESPONSE_TYPE_MID
  /\ Handshaking(k) \/ Receiving(k) => cliEnd[k] = "open"

LEMMA AnsweredOnce ==
  ASSUME Places, NEW k, Registered(k)
  PROVE  ~Unanswered(k)
  BY DEF Places, Registered, RegisteredCons, Unanswered

LEMMA ResponsesStep ==
  ASSUME SystemInv, Places, NEW k \in Conn, Goodbyes(k), Responses(k), Moves(k)
  PROVE  Responses(k)'
<1>1. ConType(k) /\ up \in [Conn -> Seq(Msg)] /\ down \in [Conn -> Seq(Msg)]
  BY ConTyped
<1> USE DEF Responses, Handshaking, Receiving
<1>2. CASE Rests(k)
  BY <1>2 DEF Rests, Stays, SrvCanWrite
<1>3. CASE Opens(k)
  BY <1>3 DEF Opens, Goodbyes
<1>4. CASE Refused(k) \/ Loses(k)
  BY <1>4 DEF Refused, Loses, Stays, SrvCanWrite
<1>5. CASE Departs(k)
  BY <1>5 DEF Departs, Stays
<1>6. CASE Tells(k)
  BY <1>6 DEF Tells, Stays, SrvCanWrite
<1>7. CASE Hears(k) \/ Reads(k)
  BY <1>7 DEF Hears, Reads, Stays
<1>8. CASE Leaves(k)
  BY <1>8 DEF Leaves, Stays
<1>9. CASE Answers(k)
  <2>1. PICK m \in Msg : /\ m.mid = RESPONSE_TYPE_MID
                         /\ down'[k] = IF SrvCanWrite(k) THEN Sent(down[k], m, cliEnd[k])
                                                         ELSE down[k]
    BY <1>9, OwnMessages DEF Answers
  <2>2. down[k] = <<>> /\ (Handshaking(k) => cliEnd[k] = "open")
    BY <1>9 DEF Answers
  <2>3. Handshaking(k) /\ SrvCanWrite(k) => down'[k] # <<>> /\ Head(down'[k]) = m
    BY <1>1, <2>1, <2>2, AfterSend DEF ConType
  <2>4. Handshaking(k) /\ ~SrvCanWrite(k) => down'[k] = <<>> /\ ~SrvCanWrite(k)'
    BY <1>9, <2>1, <2>2 DEF Answers, SrvCanWrite
  <2> QED
    BY <1>9, <2>1, <2>3, <2>4 DEF Answers
<1>10. CASE Drops(k) \/ Reaps(k) \/ GoesDown(k)
  BY <1>10 DEF Drops, Reaps, GoesDown, Stays, SrvCanWrite
<1>11. CASE Writes(k) \/ Disconnects(k)
  <2>1. ~Unanswered(k) /\ ~Unanswered(k)' /\ SrvCanWrite(k) /\ Registered(k)
    BY <1>11, AnsweredOnce DEF Writes, Disconnects, Stays
  <2>2. PICK m \in Msg : down'[k] = Sent(down[k], m, cliEnd[k])
    BY <1>11, OwnMessages DEF Writes, Disconnects
  <2>3. down[k] # <<>> => down'[k] # <<>> /\ Head(down'[k]) = Head(down[k])
    BY <1>1, <2>2, AfterSend DEF ConType
  <2> QED
    BY <1>11, <2>1, <2>3 DEF Writes, Disconnects
<1>12. CASE Breaks(k)
  <2>1. down'[k] \in Arrived(down, k) /\ ~SrvCanWrite(k)'
    BY <1>12 DEF Breaks, SrvCanWrite
  <2>2. /\ down[k] = <<>> => down'[k] = <<>>
        /\ down'[k] # <<>> => Head(down'[k]) = Head(down[k])
    BY <1>1, <2>1, AfterCut
  <2> QED
    BY <1>12, <2>1, <2>2 DEF Breaks, Stays
<1> QED
  BY <1>2, <1>3, <1>4, <1>5, <1>6, <1>7, <1>8, <1>9, <1>10, <1>11, <1>12
  DEF Moves, ClientMoves, ServerMoves

-----------------------------------------------------------------------------
(* What holds of the connections by themselves.                             *)
ConsInv == \A k \in Conn : Goodbyes(k) /\ Responses(k)

LEMMA ConsInit == Init => ConsInv
<1> SUFFICES ASSUME Init, NEW k \in Conn
             PROVE  Goodbyes(k) /\ Responses(k)
  BY DEF ConsInv
<1>1. /\ backlog = <<>> /\ new_cons = <<>> /\ up[k] = <<>> /\ down[k] = <<>>
      /\ cliEnd[k] = "none" /\ phase[k] = "idle" /\ resp[k] = NoResponse
      /\ status[k] = "Connected"
  BY DEF Init, SocketsInit, ServerInit, ClientInit
<1>2. ~Unanswered(k)
  BY <1>1, EmptySeq DEF Unanswered, BacklogCons, PendingCons
<1> QED
  BY <1>1, <1>2, NothingSaid DEF Goodbyes, Responses, Handshaking, Receiving

LEMMA ConsMoves ==
  ASSUME SystemInv, Places, ConsInv, EveryoneMoves
  PROVE  ConsInv'
<1> SUFFICES ASSUME NEW k \in Conn
             PROVE  Goodbyes(k)' /\ Responses(k)'
  BY DEF ConsInv
<1>1. Goodbyes(k) /\ Responses(k) /\ Moves(k)
  BY DEF ConsInv, EveryoneMoves
<1> QED
  BY <1>1, GoodbyesStep, ResponsesStep

LEMMA ConsStep == ASSUME SystemInv, Places, ConsInv, [Next]_vars PROVE ConsInv'
  BY EveryoneStep, ConsMoves

LEMMA ConsInvariant == Spec => [](SystemInv /\ Places /\ ConsInv)
<1>1. Init => Places /\ ConsInv
  BY PlacesInit, ConsInit
<1>2. SystemInv /\ Places /\ ConsInv /\ [Next]_vars => Places' /\ ConsInv'
  BY PlacesStep, ConsStep
<1> QED
  BY <1>1, <1>2, SystemInvariant, PTL DEF Spec

(* Nothing follows a goodbye, in either direction: whoever writes one        *)
(* closes its end in the same call or finds the connection reset, and the   *)
(* other writes of both sides need an end that is open (server.rs:115-118,   *)
(* client.rs:214-215).                                                      *)
THEOREM GoodbyeIsTheLast == Spec => []GoodbyeLast
<1>1. ConsInv => GoodbyeLast
  BY DEF ConsInv, Goodbyes, GoodbyeIsLast, GoodbyeLast
<1> QED
  BY <1>1, ConsInvariant, PTL

(* The first message a connecting client finds is its response, whichever    *)
(* of the two handlers the application calls and whatever it broadcasts     *)
(* meanwhile (server.rs:338-341, client.rs:107-117).                        *)
THEOREM ResponseIsFirst == Spec => []ResponseFirst
<1>1. ConsInv => ResponseFirst
  BY DEF ConsInv, Responses, Handshaking, ResponseFirst
<1> QED
  BY <1>1, ConsInvariant, PTL

-----------------------------------------------------------------------------
(* No silent drop.                                                          *)

Told(k) ==
  \/ Receiving(k) /\ resp[k] = Accepted
  \/ Handshaking(k) /\ down[k] # <<>> /\ Head(down[k]).n = Accepted

(* NoSilentDrop, strengthened: a server that has closed a connection on     *)
(* which the client is, or will be, accepted has a goodbye in the stream.   *)
Warned(k) ==
  /\ srvEnd[k] = "shut" /\ ~broken[k] /\ listening /\ Told(k) => HasGoodbye(down[k])
  /\ resp[k] = Accepted /\ status[k] = "Dropped" => broken[k] \/ ~listening

(* An entry of the disconnect queue is about a connection that has ended.   *)
OverWhenReaped(k) ==
  Reaped(k) => cliEnd[k] = "shut" \/ broken[k] \/ srvEnd[k] = "shut"

LEMMA WarnedStep ==
  ASSUME SystemInv, NEW k \in Conn, Responses(k), Warned(k), OverWhenReaped(k),
         Moves(k), StillClosed
  PROVE  Warned(k)'
<1>1. ConType(k) /\ up \in [Conn -> Seq(Msg)] /\ down \in [Conn -> Seq(Msg)]
  BY ConTyped
<1> USE DEF Warned, Told, Handshaking, Receiving, StillClosed
<1>2. CASE Rests(k)
  BY <1>2 DEF Rests
<1>3. CASE Opens(k) \/ Refused(k)
  BY <1>3, MIds DEF Opens, Refused, Responses
<1>4. CASE Departs(k)
  BY <1>4 DEF Departs
<1>5. CASE Loses(k)
  BY <1>5, NothingSaid DEF Loses, CliAborted, CliCanWrite, Responses
<1>6. CASE Tells(k)
  BY <1>6 DEF Tells
<1>7. CASE Hears(k) \/ Reads(k)
  <2>1. down[k] # <<>> /\ down'[k] = Tail(down[k])
    BY <1>7 DEF Hears, Reads
  <2>2. HasGoodbye(down[k]) => Head(down[k]).mid = DISCONNECT_TYPE_MID \/ HasGoodbye(down'[k])
    BY <1>1, <2>1, AfterRead DEF ConType
  <2> QED
    BY <1>7, <2>1, <2>2, MIds DEF Hears, Reads, Responses
<1>8. CASE Leaves(k)
  BY <1>8 DEF Leaves
<1>9. CASE Answers(k)
  <2>1. PICK r \in {Accepted, Rejected} :
          /\ down'[k] = IF SrvCanWrite(k) THEN Sent(down[k], ResponseMsg(k, r), cliEnd[k])
                                          ELSE down[k]
          /\ \/ r = Accepted /\ srvEnd'[k] = srvEnd[k]
             \/ r = Rejected /\ srvEnd'[k] = "shut"
    BY <1>9 DEF Answers
  <2>2. down[k] = <<>> /\ phase[k] \in {"connecting", "waiting", "failed"}
    BY <1>9 DEF Answers, Responses
  <2>3. \/ down'[k] = <<>>
        \/ SrvCanWrite(k) /\ down'[k] # <<>> /\ Head(down'[k]).n = r
    BY <1>1, <2>1, <2>2, AfterSend, OwnMessages DEF ConType
  <2> QED
    BY <1>9, <2>1, <2>2, <2>3, MIds DEF Answers, SrvCanWrite
<1>10. CASE Drops(k)
  BY <1>10 DEF Drops, Responses
<1>11. CASE Reaps(k)
  BY <1>11 DEF Reaps, OverWhenReaped, Responses
<1>12. CASE GoesDown(k)
  BY <1>12 DEF GoesDown
<1>13. CASE Writes(k)
  BY <1>13 DEF Writes, SrvCanWrite
<1>14. CASE Disconnects(k)
  BY <1>1, <1>14, AfterSend, OwnMessages DEF ConType, Disconnects, Responses
<1>15. CASE Breaks(k)
  BY <1>15 DEF Breaks
<1> QED
  BY <1>2, <1>3, <1>4, <1>5, <1>6, <1>7, <1>8, <1>9, <1>10, <1>11, <1>12, <1>13, <1>14, <1>15
  DEF Moves, ClientMoves, ServerMoves
-----------------------------------------------------------------------------
(* The disconnect queue.                                                    *)
Finished(k) == cliEnd[k] = "shut" \/ broken[k] \/ srvEnd[k] = "shut"

(* What may be in the queue: an entry about a connection that has ended.  It *)
(* may be stale; but its CId has been given and is not pending, so that it  *)
(* never comes to be about another connection.                              *)
Endings ==
  {e \in Ending : /\ e.cid \in 1..current_cid /\ e.cid \notin PendingCids
                  /\ e.cid \in DOMAIN tcp => Finished(tcp[e.cid])}

(* The connections the server has are open, or were.                        *)
WasOpened(k) == Unanswered(k) \/ Registered(k) => srvEnd[k] # "none"

(* What a step can do to the queue.                                         *)
QueueGrows(c) ==
  /\ UNCHANGED tcp
  /\ \/ /\ disconnected' = Ended(c, "Disconnected")
        /\ up[tcp[c]] # <<>> /\ Head(up[tcp[c]]).mid = DISCONNECT_TYPE_MID
        /\ UNCHANGED <<cliEnd, srvEnd, broken, status>>
     \/ /\ disconnected' = Ended(c, "Dropped")
        /\ SrvAborted(tcp[c])
        /\ UNCHANGED <<up, cliEnd, srvEnd, broken, status>>
     \/ disconnected' = Ended(c, "Closed") /\ srvEnd'[tcp[c]] = "shut"

QueueShrinks ==
  /\ disconnected # <<>> /\ disconnected' = Tail(disconnected)
  /\ Head(disconnected).cid \notin DOMAIN tcp'

QueueMoves ==
  disconnected' = disconnected \/ (\E c \in DOMAIN tcp : QueueGrows(c)) \/ QueueShrinks

LEMMA QueueStep ==
  ASSUME SystemInv, [Next]_vars
  PROVE  QueueMoves
<1>1. /\ DOMAIN tcp = DOMAIN cid_addr /\ todo \subseteq DOMAIN tcp
      /\ tcp \in [DOMAIN tcp -> Conn] /\ srvEnd \in [Conn -> EndState]
      /\ op \in {"reap_one", "reap_all"} => disconnected # <<>>
  BY DEF SystemInv, ServerInv, Maps, ServerTypeOK, SocketsTypeOK
<1>2. ASSUME UNCHANGED disconnected
      PROVE  QueueMoves
  BY <1>2 DEF QueueMoves
<1>3. CASE UNCHANGED vars \/ ShutDown \/ ClientStep \/ NetworkStep
  BY <1>2, <1>3 DEF vars, serverVars, ShutDown, DropServer, ClientStep, NetworkStep
<1>4. ASSUME ServerNext, UNCHANGED clientVars
      PROVE  QueueMoves
  <2>1. CASE HandleNewCon \/ AcceptIncoming \/ RejectIncoming \/ DropDead \/ Elapse
    BY <1>2, <2>1
    DEF HandleNewCon, HandleNew, AcceptIncoming, RejectIncoming, DropDead, Elapse, PanicWith
  <2>2. CASE RecvMsgs \/ HandleDisconnect \/ RecvUdp \/ ClearMsgs
    BY <1>2, <2>2 DEF RecvMsgs, HandleDisconnect, RecvUdp, ClearMsgs
  <2>3. ASSUME NEW c \in todo, TcpYields(c)
        PROVE  QueueMoves
    <3>1. UNCHANGED <<cliEnd, srvEnd, broken, status, tcp>> /\ c \in DOMAIN tcp
      BY <1>1, <1>4, <2>3 DEF TcpYields, RecvTcp, clientVars
    <3> QED
      BY <2>3, <3>1 DEF TcpYields, QueueMoves, QueueGrows
  <2>4. ASSUME NEW c \in todo, TcpFails(c) \/ TcpWouldBlock(c)
        PROVE  QueueMoves
    <3>1. UNCHANGED <<up, cliEnd, srvEnd, broken, status, tcp>> /\ c \in DOMAIN tcp
      BY <1>1, <1>4, <2>4 DEF TcpFails, TcpWouldBlock, RecvTcp, clientVars
    <3> QED
      BY <2>4, <3>1 DEF TcpFails, TcpWouldBlock, QueueMoves, QueueGrows
  <2>5. CASE Reap
    <3>1. disconnected # <<>>
      BY <1>1, <2>5 DEF Reap
    <3>2. CASE PanicWith("unwrap panic")
      BY <1>2, <3>2 DEF PanicWith
    <3>3. CASE ~PanicWith("unwrap panic")
      <4>1. PICK c : c = Head(disconnected).cid
        OBVIOUS
      <4>2. /\ disconnected' = Tail(disconnected)
            /\ Alive(c) => tcp' = Delete(tcp, c)
            /\ ~Alive(c) => tcp' = tcp
        BY <2>5, <3>3, <4>1 DEF Reap, Popped, RmTcpCon
      <4>3. c \notin DOMAIN tcp'
        BY <1>1, <4>2 DEF Delete, Restrict, Alive
      <4> QED
        BY <3>1, <4>1, <4>2, <4>3 DEF QueueMoves, QueueShrinks
    <3> QED
      BY <3>2, <3>3
  <2>6. ASSUME NEW c \in DOMAIN cid_addr, Disconnect(c)
        PROVE  QueueMoves
    <3>1. CASE CloseTcp(tcp[c]) /\ disconnected' = Ended(c, "Closed")
      <4>1. srvEnd'[tcp[c]] = "shut" /\ UNCHANGED tcp /\ c \in DOMAIN tcp
        BY <1>1, <2>6, <3>1 DEF CloseTcp, Disconnect
      <4> QED
        BY <3>1, <4>1 DEF QueueMoves, QueueGrows
    <3> QED
      BY <1>2, <2>6, <3>1 DEF Disconnect
  <2>7. ASSUME NEW S \in Matching, SendUdpSpec(S) \/ \E G \in SUBSET S : SendTcpSpec(S, G)
        PROVE  QueueMoves
    BY <1>2, <2>7 DEF SendUdpSpec, SendTcpSpec
  <2> QED
    BY <1>4, <2>1, <2>2, <2>3, <2>4, <2>5, <2>6, <2>7 DEF ServerNext
<1> QED
  BY <1>3, <1>4 DEF Next, ServerStep

LEMMA OpenedStep ==
  ASSUME NEW k \in Conn, WasOpened(k), Moves(k)
  PROVE  WasOpened(k)'
<1>1. CASE Rests(k) \/ Breaks(k)
  BY <1>1 DEF Rests, Breaks, Stays, WasOpened
<1>2. CASE ClientMoves(k)
  BY <1>2 DEF ClientMoves, Opens, Refused, Tells, Hears, Departs, Reads, Loses, Leaves, Stays,
     WasOpened
<1>3. CASE ServerMoves(k)
  BY <1>3 DEF ServerMoves, Answers, Drops, Reaps, Writes, Disconnects, GoesDown, Stays, WasOpened
<1> QED
  BY <1>1, <1>2, <1>3 DEF Moves

(* What has ended does not begin again.                                     *)
LEMMA FinishedStays ==
  ASSUME NEW k \in Conn, phase[k] # "idle", Moves(k), Finished(k)
  PROVE  Finished(k)'
<1>1. CASE Rests(k) \/ Breaks(k)
  BY <1>1 DEF Rests, Breaks, Finished
<1>2. CASE ClientMoves(k)
  BY <1>2 DEF ClientMoves, Opens, Refused, Tells, Hears, Departs, Reads, Loses, Leaves, Finished
<1>3. CASE ServerMoves(k)
  BY <1>3 DEF ServerMoves, Answers, Drops, Reaps, Writes, Disconnects, GoesDown, Finished
<1> QED
  BY <1>1, <1>2, <1>3 DEF Moves

LEMMA OverStep ==
  ASSUME SystemInv, Places, CidsStay, EveryoneMoves
  PROVE  Endings \subseteq Endings'
<1> SUFFICES ASSUME NEW e \in Endings
             PROVE  e \in Endings'
  OBVIOUS
<1>1. /\ e.cid \in 1..current_cid' /\ e.cid \notin PendingCids'
      /\ e.cid \in DOMAIN tcp' => e.cid \in DOMAIN tcp /\ tcp'[e.cid] = tcp[e.cid]
  BY DEF Endings, CidsStay
<1>2. ASSUME e.cid \in DOMAIN tcp'
      PROVE  Finished(tcp[e.cid])'
  <2>1. PICK k \in Conn : k = tcp[e.cid] /\ k = tcp'[e.cid] /\ k \in RegisteredCons
    BY <1>1, <1>2 DEF SystemInv, ServerInv, ServerTypeOK, RegisteredCons
  <2>2. phase[k] # "idle" /\ Finished(k) /\ Moves(k)
    BY <1>1, <1>2, <2>1 DEF Places, Endings, EveryoneMoves
  <2>3. Finished(k)'
    BY <2>2, FinishedStays
  <2> QED
    BY <2>1, <2>3 DEF Finished
<1> QED
  BY <1>1, <1>2 DEF Endings

LEMMA QueueOver ==
  ASSUME SystemInv, Places, CidsStay, EveryoneMoves, QueueMoves,
         \A k \in Conn : Goodbyes(k) /\ WasOpened(k),
         disconnected \in Seq(Endings)
  PROVE  disconnected' \in Seq(Endings')
<1>1. Endings \subseteq Endings' /\ Seq(Endings) \subseteq Seq(Endings')
  BY OverStep, ElementOfSeq, SeqDef
<1>2. CASE disconnected' = disconnected
  BY <1>1, <1>2
<1>3. ASSUME NEW c \in DOMAIN tcp, QueueGrows(c)
      PROVE  disconnected' \in Seq(Endings')
  <2>1. PICK k \in Conn : k = tcp[c]
    BY DEF SystemInv, ServerInv, ServerTypeOK
  <2>2. PICK how \in Status : disconnected' = Append(disconnected, [cid |-> c, status |-> how])
    BY <1>3 DEF QueueGrows, Ended, Status
  <2>3. Finished(k)'
    <3>1. ConType(k) /\ Goodbyes(k) /\ srvEnd[k] # "none"
      BY <2>1, ConTyped DEF WasOpened, Registered
    <3>2. CASE up[k] # <<>> /\ Head(up[k]).mid = DISCONNECT_TYPE_MID
                 /\ UNCHANGED <<cliEnd, srvEnd, broken>>
      <4>1. Len(up[k]) \in Nat /\ Len(up[k]) # 0 /\ Head(up[k]) = up[k][1]
        BY <3>1, <3>2, EmptySeq, LenProperties DEF ConType
      <4>2. HasGoodbye(up[k])
        BY <3>2, <4>1 DEF HasGoodbye
      <4> QED
        BY <3>1, <3>2, <4>2 DEF Goodbyes, ConType, EndState, CliCanWrite, Finished
    <3>3. CASE SrvAborted(k) /\ UNCHANGED <<cliEnd, srvEnd, broken>>
      BY <3>1, <3>3 DEF ConType, EndState, SrvAborted, SrvCanWrite, Finished
    <3>4. CASE srvEnd'[k] = "shut"
      BY <3>4 DEF Finished
    <3> QED
      BY <1>3, <2>1, <3>2, <3>3, <3>4 DEF QueueGrows
  <2>4. c \in 1..current_cid /\ c \notin PendingCids /\ c \in CId /\ UNCHANGED tcp
    BY <1>3 DEF SystemInv, ServerInv, ServerTypeOK, Maps, CidOnce, QueueGrows
  <2>5. c \in 1..current_cid' /\ c \notin PendingCids'
    BY <2>4 DEF CidsStay
  <2>6. Finished(tcp[c])'
    BY <2>1, <2>3, <2>4 DEF Finished
  <2>7. [cid |-> c, status |-> how] \in Endings'
    BY <2>4, <2>5, <2>6 DEF Endings, Ending
  <2> QED
    BY <1>1, <2>2, <2>7, AppendProperties
<1>4. CASE QueueShrinks
  <2>1. Tail(disconnected) \in Seq(Endings)
    BY <1>4, HeadTailProperties DEF QueueShrinks
  <2> QED
    BY <1>1, <1>4, <2>1 DEF QueueShrinks
<1> QED
  BY <1>2, <1>3, <1>4 DEF QueueMoves

LEMMA QueueGives ==
  ASSUME disconnected \in Seq(Endings), NEW k \in Conn
  PROVE  OverWhenReaped(k)
<1> SUFFICES ASSUME Reaped(k)
             PROVE  Finished(k)
  BY DEF OverWhenReaped, Finished
<1>1. PICK c \in DOMAIN tcp : tcp[c] = k /\ disconnected # <<>> /\ Head(disconnected).cid = c
  BY DEF Reaped
<1>2. Head(disconnected) \in Endings
  BY <1>1, HeadTailProperties
<1> QED
  BY <1>1, <1>2 DEF Endings

QueueInv ==
  /\ \A k \in Conn : WasOpened(k) /\ Warned(k)
  /\ disconnected \in Seq(Endings)

LEMMA QueueInit == Init => QueueInv
<1> SUFFICES ASSUME Init
             PROVE  QueueInv
  OBVIOUS
<1>1. /\ backlog = <<>> /\ new_cons = <<>> /\ DOMAIN tcp = {} /\ disconnected = <<>>
      /\ srvEnd = [k \in Conn |-> "none"] /\ resp = [k \in Conn |-> NoResponse]
      /\ phase = [k \in Conn |-> "idle"] /\ status = [k \in Conn |-> "Connected"]
  BY DEF Init, SocketsInit, ServerInit, ClientInit
<1>2. \A k \in Conn : WasOpened(k)
  BY <1>1, EmptySeq DEF WasOpened, Unanswered, BacklogCons, PendingCons, Registered
<1>3. \A k \in Conn : Warned(k)
  BY <1>1 DEF Warned
<1> QED
  BY <1>1, <1>2, <1>3, EmptySeq DEF QueueInv

LEMMA QueueInvMoves ==
  ASSUME SystemInv, Places, ConsInv, QueueInv, CidsStay, EveryoneMoves, QueueMoves
  PROVE  QueueInv'
<1>1. disconnected' \in Seq(Endings')
  BY QueueOver DEF ConsInv, QueueInv
<1>2. ASSUME NEW k \in Conn
      PROVE  WasOpened(k)' /\ Warned(k)'
  <2>1. Responses(k) /\ Warned(k) /\ WasOpened(k) /\ OverWhenReaped(k) /\ Moves(k) /\ StillClosed
    BY QueueGives DEF ConsInv, QueueInv, EveryoneMoves
  <2> QED
    BY <2>1, OpenedStep, WarnedStep
<1> QED
  BY <1>1, <1>2 DEF QueueInv

LEMMA QueueInvStep ==
  ASSUME SystemInv, Places, ConsInv, QueueInv, [Next]_vars
  PROVE  QueueInv'
  BY CidsStep, EveryoneStep, QueueStep, QueueInvMoves

LEMMA QueueInvariant == Spec => [](SystemInv /\ Places /\ ConsInv /\ QueueInv)
<1>1. Init => QueueInv
  BY QueueInit
<1>2. SystemInv /\ Places /\ ConsInv /\ QueueInv /\ [Next]_vars => QueueInv'
  BY QueueInvStep
<1> QED
  BY <1>1, <1>2, ConsInvariant, PTL DEF Spec

(* An accepted client is never told that it was dropped while the server     *)
(* lives and the connection works: whichever of the two closes first, and   *)
(* however stale the entries of the disconnect queue are (server.rs:115-119, *)
(* 381-393, client.rs:287-312).                                             *)
THEOREM NeverSilentlyDropped == Spec => []NoSilentDrop
<1>1. QueueInv => NoSilentDrop
  BY DEF QueueInv, Warned, NoSilentDrop
<1> QED
  BY <1>1, QueueInvariant, PTL
-----------------------------------------------------------------------------
(* The status that is reported.                                             *)

(* A goodbye in the stream is the client's, and its last word.              *)
Farewell(k) ==
  /\ HasGoodbye(up[k]) /\ ~broken[k] => status[k] = "Closed"
  /\ status[k] = "Closed" => cliEnd[k] = "shut"

Queued(c) == \E i \in 1..Len(disconnected) : disconnected[i].cid = c

(* A goodbye is not lost on the way to the queue.                           *)
CloseReported(c) ==
  status[tcp[c]] = "Closed" /\ ~broken[tcp[c]] /\ srvEnd[tcp[c]] = "open" =>
    HasGoodbye(up[tcp[c]]) \/ Queued(c)

StatusInv ==
  /\ \A k \in Conn : Farewell(k)
  /\ \A c \in DOMAIN tcp : CloseReported(c)
  /\ StatusAccurate

LEMMA FarewellStep ==
  ASSUME SystemInv, NEW k \in Conn, Goodbyes(k), Responses(k), Farewell(k), Moves(k)
  PROVE  Farewell(k)'
<1>1. ConType(k) /\ up \in [Conn -> Seq(Msg)]
  BY ConTyped
<1>2. CASE Rests(k)
  BY <1>1, <1>2, AfterRead DEF ConType, Rests, Taken, Farewell
<1>3. CASE Opens(k)
  BY <1>3, NothingSaid DEF Opens, Goodbyes, Responses, Farewell
<1>4. CASE Refused(k) \/ Hears(k) \/ Departs(k) \/ Reads(k) \/ Loses(k)
  BY <1>4 DEF Refused, Hears, Departs, Reads, Loses, Receiving, Farewell
<1>5. CASE Tells(k)
  BY <1>1, <1>5, AfterSend DEF ConType, Tells, Farewell
<1>6. CASE Leaves(k)
  BY <1>6 DEF Leaves, Farewell, CliCanWrite
<1>7. CASE Answers(k) \/ Drops(k) \/ Reaps(k) \/ Writes(k) \/ GoesDown(k)
  BY <1>7 DEF Answers, Drops, Reaps, Writes, GoesDown, Farewell
<1>8. CASE Disconnects(k)
  BY <1>1, <1>8, AfterCut DEF Disconnects, Farewell
<1>9. CASE Breaks(k)
  BY <1>9 DEF Breaks, Farewell
<1> QED
  BY <1>2, <1>3, <1>4, <1>5, <1>6, <1>7, <1>8, <1>9 DEF Moves, ClientMoves, ServerMoves

(* What the claim about a queued entry says of its connection, once said,   *)
(* stays true.                                                              *)
LEMMA StatusFrame ==
  ASSUME NEW k \in Conn, phase[k] # "idle", Moves(k)
  PROVE  /\ srvEnd'[k] = "open" /\ ~broken'[k] => srvEnd[k] = "open" /\ ~broken[k]
         /\ status[k] = "Closed" => status'[k] = "Closed"
         /\ cliEnd[k] = "shut" =>
              cliEnd'[k] = "shut" /\ (status'[k] = "Closed" => status[k] = "Closed")
<1>1. CASE Rests(k) \/ Breaks(k)
  BY <1>1 DEF Rests, Breaks
<1>2. CASE ClientMoves(k)
  BY <1>2 DEF ClientMoves, Opens, Refused, Tells, Hears, Departs, Reads, Loses, Leaves,
     Receiving, CliCanWrite
<1>3. CASE ServerMoves(k)
  BY <1>3 DEF ServerMoves, Answers, Drops, Reaps, Writes, Disconnects, GoesDown
<1> QED
  BY <1>1, <1>2, <1>3 DEF Moves

(* A connection that comes to be registered has not said goodbye: its       *)
(* client has not even read the response.                                   *)
LEMMA NewlyRegistered ==
  ASSUME SystemInv, Places, Places', CidsStay, [Promise!RosterNext]_(Promise!rosterVars),
         EveryoneMoves, ConsInv, NEW c \in DOMAIN tcp', c \notin DOMAIN tcp
  PROVE  tcp'[c] \in Conn => status'[tcp'[c]] = "Connected"
<1> SUFFICES ASSUME NEW k \in Conn, k = tcp'[c]
             PROVE  status'[k] = "Connected"
  OBVIOUS
<1>1. DOMAIN tcp \subseteq DOMAIN tcp'
  BY DEF Promise!RosterNext, Promise!rosterVars, Promise!Issue, Promise!Enter, Promise!Leave,
         Promise!End
<1>2. ~Registered(k)
  <2>1. SUFFICES ASSUME NEW d \in DOMAIN tcp, tcp[d] = k
                 PROVE  FALSE
    BY DEF Registered
  <2>2. d \in 1..current_cid /\ d \notin PendingCids /\ d \in DOMAIN tcp'
    BY <1>1 DEF SystemInv, ServerInv, Maps, CidOnce
  <2>3. tcp'[d] = k
    BY <2>1, <2>2 DEF CidsStay
  <2> QED
    BY <2>2, <2>3 DEF Places
<1>3. Registered(k)' /\ Moves(k) /\ Responses(k)
  BY DEF Registered, EveryoneMoves, ConsInv
<1>4. Answers(k)
  BY <1>2, <1>3 DEF Moves, ClientMoves, ServerMoves, Rests, Breaks, Opens, Refused, Tells, Hears,
     Departs, Reads, Loses, Leaves, Drops, Reaps, Writes, Disconnects, GoesDown, Stays
<1> QED
  BY <1>3, <1>4 DEF Answers, Responses

LEMMA QueuedStays ==
  ASSUME disconnected \in Seq(Endings), QueueMoves, NEW c \in DOMAIN tcp', Queued(c)
  PROVE  Queued(c)'
<1>1. PICK i \in 1..Len(disconnected) : disconnected[i].cid = c
  BY DEF Queued
<1>2. Len(disconnected) \in Nat
  BY LenProperties
<1>3. ASSUME NEW d, NEW how, disconnected' = Append(disconnected, [cid |-> d, status |-> how])
      PROVE  Queued(c)'
  <2>1. Len(disconnected') = Len(disconnected) + 1 /\ disconnected'[i] = disconnected[i]
    BY <1>3, AppendProperties
  <2> QED
    BY <1>1, <1>2, <2>1 DEF Queued
<1>4. CASE QueueShrinks
  <2>1. /\ Len(disconnected') = Len(disconnected) - 1 /\ Head(disconnected) = disconnected[1]
        /\ \A j \in 1..Len(disconnected') : disconnected'[j] = disconnected[j + 1]
    BY <1>4, HeadTailProperties DEF QueueShrinks
  <2>2. i # 1
    BY <1>1, <1>4, <2>1 DEF QueueShrinks
  <2>3. i - 1 \in 1..Len(disconnected') /\ disconnected'[i - 1] = disconnected[i]
    BY <1>2, <2>1, <2>2
  <2> QED
    BY <1>1, <2>3 DEF Queued
<1> QED
  BY <1>1, <1>3, <1>4 DEF QueueMoves, QueueGrows, Ended, Queued

LEMMA CloseReportedStep ==
  ASSUME SystemInv, SystemInv', Places, Places', ConsInv, QueueInv, StatusInv, [Next]_vars
  PROVE  \A c \in DOMAIN tcp' : CloseReported(c)'
<1>1. CidsStay /\ EveryoneMoves /\ QueueMoves /\ [Promise!RosterNext]_(Promise!rosterVars)
  BY CidsStep, EveryoneStep, QueueStep, RosterStep
<1> SUFFICES ASSUME NEW c \in DOMAIN tcp', NEW k \in Conn, k = tcp'[c],
                    status'[k] = "Closed", ~broken'[k], srvEnd'[k] = "open"
             PROVE  HasGoodbye(up'[k]) \/ Queued(c)'
  BY DEF CloseReported, SystemInv, ServerInv, ServerTypeOK, HasGoodbye
<1>2. c \in DOMAIN tcp
  BY <1>1, NewlyRegistered
<1>3. c \in 1..current_cid /\ c \notin PendingCids
  BY <1>2 DEF SystemInv, ServerInv, Maps, CidOnce
<1>4. k = tcp[c]
  BY <1>1, <1>3 DEF CidsStay
<1>5. /\ Registered(k) /\ ~Unanswered(k) /\ phase[k] # "idle" /\ Moves(k) /\ Goodbyes(k)
      /\ \A d \in DOMAIN tcp : tcp[d] = k => d = c
      /\ ConType(k) /\ up \in [Conn -> Seq(Msg)]
  BY <1>1, <1>2, <1>4, AnsweredOnce, ConTyped
  DEF Registered, Places, RegisteredCons, EveryoneMoves, ConsInv
<1>6. srvEnd[k] = "open" /\ ~broken[k]
  BY <1>5, StatusFrame
<1>7. CASE status[k] # "Closed"
  <2>1. Leaves(k) /\ up'[k] = Sent(up[k], DisconnectMsg(k), srvEnd[k])
    BY <1>5, <1>7 DEF Moves, ClientMoves, ServerMoves, Rests, Breaks, Opens, Refused, Tells,
       Hears, Departs, Reads, Loses, Leaves, Answers, Drops, Reaps, Writes, Disconnects, GoesDown
  <2> QED
    BY <1>5, <1>6, <2>1, AfterSend, OwnMessages DEF ConType
<1>8. CASE Queued(c)
  BY <1>1, <1>8, QueuedStays DEF QueueInv
<1>9. CASE status[k] = "Closed" /\ HasGoodbye(up[k])
  <2>1. ~CliCanWrite(k)
    BY <1>5, <1>9 DEF Goodbyes
  <2>2. up'[k] = up[k] \/ Taken(k)
    BY <1>5, <2>1 DEF Moves, ClientMoves, ServerMoves, Rests, Breaks, Opens, Refused, Tells,
       Hears, Departs, Reads, Loses, Leaves, Answers, Drops, Reaps, Writes, Disconnects, GoesDown
  <2>3. CASE Taken(k)
    <3>1. /\ up[k] # <<>> /\ up'[k] = Tail(up[k])
          /\ Head(up[k]).mid = DISCONNECT_TYPE_MID => disconnected' = Ended(c, "Disconnected")
      BY <1>5, <2>3 DEF Taken, Yields
    <3>2. Head(up[k]).mid = DISCONNECT_TYPE_MID \/ HasGoodbye(Tail(up[k]))
      BY <1>5, <1>9, <3>1, AfterRead DEF ConType
    <3>3. ASSUME disconnected' = Append(disconnected, [cid |-> c, status |-> "Disconnected"])
          PROVE  Queued(c)'
      <4>1. /\ Len(disconnected) \in Nat /\ Len(disconnected') = Len(disconnected) + 1
            /\ disconnected'[Len(disconnected) + 1] = [cid |-> c, status |-> "Disconnected"]
        BY <3>3, AppendProperties, LenProperties DEF QueueInv
      <4>2. Len(disconnected) + 1 \in 1..Len(disconnected')
        BY <4>1
      <4> QED
        BY <4>1, <4>2 DEF Queued
    <3> QED
      BY <3>1, <3>2, <3>3 DEF Ended
  <2> QED
    BY <1>9, <2>2, <2>3
<1> QED
  BY <1>2, <1>4, <1>6, <1>7, <1>8, <1>9 DEF StatusInv, CloseReported
(* What StatusAccurate says of an entry of the queue.                       *)
Accurate(e) ==
  LET k == tcp[e.cid] IN
  srvEnd[k] = "open" /\ ~broken[k] =>
    /\ e.status = "Disconnected" => status[k] = "Closed"
    /\ e.status = "Dropped" => cliEnd[k] = "shut" /\ status[k] # "Closed"

LEMMA AccurateStep ==
  ASSUME SystemInv, Places, EveryoneMoves, NEW e, e.cid \in DOMAIN tcp, tcp'[e.cid] = tcp[e.cid],
         Accurate(e)
  PROVE  Accurate(e)'
<1>1. PICK k \in Conn : k = tcp[e.cid] /\ k \in RegisteredCons
  BY DEF SystemInv, ServerInv, ServerTypeOK, RegisteredCons
<1>2. phase[k] # "idle" /\ Moves(k)
  BY <1>1 DEF Places, EveryoneMoves
<1> QED
  BY <1>1, <1>2, StatusFrame DEF Accurate

LEMMA StatusAccurateStep ==
  ASSUME SystemInv, Places, ConsInv, QueueInv, StatusInv, [Next]_vars
  PROVE  StatusAccurate'
<1>1. CidsStay /\ EveryoneMoves /\ QueueMoves
  BY CidsStep, EveryoneStep, QueueStep
<1>2. disconnected \in Seq(Endings) /\ Len(disconnected) \in Nat
  BY LenProperties DEF QueueInv
<1> SUFFICES ASSUME NEW i \in 1..Len(disconnected'), NEW e, e = disconnected'[i],
                    e.cid \in DOMAIN tcp', FirstFor(i)'
             PROVE  Accurate(e)'
  BY DEF StatusAccurate, Accurate
<1>3. ASSUME NEW j \in 1..Len(disconnected), disconnected[j] = e, FirstFor(j)
      PROVE  Accurate(e)'
  <2>1. e \in Endings
    BY <1>2, <1>3, ElementOfSeq
  <2>2. e.cid \in DOMAIN tcp /\ tcp'[e.cid] = tcp[e.cid]
    BY <1>1, <2>1 DEF Endings, CidsStay
  <2>3. Accurate(e)
    BY <1>3, <2>2 DEF StatusInv, StatusAccurate, Accurate
  <2> QED
    BY <1>1, <2>2, <2>3, AccurateStep
<1>4. CASE disconnected' = disconnected
  BY <1>3, <1>4 DEF FirstFor
<1>5. ASSUME NEW c \in DOMAIN tcp, QueueGrows(c)
      PROVE  Accurate(e)'
  <2>1. PICK how : disconnected' = Append(disconnected, [cid |-> c, status |-> how])
    BY <1>5 DEF QueueGrows, Ended
  <2>2. /\ Len(disconnected') = Len(disconnected) + 1
        /\ disconnected'[Len(disconnected) + 1] = [cid |-> c, status |-> how]
        /\ \A j \in 1..Len(disconnected) : disconnected'[j] = disconnected[j]
    BY <1>2, <2>1, AppendProperties
  <2>3. CASE i <= Len(disconnected)
    <3>1. i \in 1..Len(disconnected) /\ disconnected[i] = e
      BY <1>2, <2>2, <2>3
    <3>2. \A j \in 1..(i - 1) : j \in 1..Len(disconnected)
      BY <1>2, <3>1
    <3>3. FirstFor(i)
      BY <2>2, <3>1, <3>2 DEF FirstFor
    <3> QED
      BY <1>3, <3>1, <3>3
  <2>4. CASE i = Len(disconnected) + 1
    <3>1. e = [cid |-> c, status |-> how] /\ ~Queued(c)
      BY <1>2, <2>2, <2>4 DEF FirstFor, Queued
    <3>2. PICK k \in Conn : k = tcp[c]
      BY DEF SystemInv, ServerInv, ServerTypeOK
    <3>3. ConType(k) /\ Goodbyes(k) /\ Farewell(k) /\ CloseReported(c)
      BY <3>2, ConTyped DEF ConsInv, StatusInv
    <3>4. CASE how = "Disconnected" /\ up[k] # <<>> /\ Head(up[k]).mid = DISCONNECT_TYPE_MID
                /\ UNCHANGED <<srvEnd, broken, status>>
      <4>1. Len(up[k]) \in Nat /\ Len(up[k]) # 0 /\ Head(up[k]) = up[k][1]
        BY <3>3, <3>4, EmptySeq, LenProperties DEF ConType
      <4>2. HasGoodbye(up[k])
        BY <3>4, <4>1 DEF HasGoodbye
      <4> QED
        BY <1>5, <3>1, <3>2, <3>3, <3>4, <4>2 DEF QueueGrows, Accurate, Farewell
    <3>5. CASE how = "Dropped" /\ SrvAborted(k) /\ UNCHANGED <<cliEnd, srvEnd, broken, status>>
      <4>1. ~HasGoodbye(up[k])
        BY <3>5, NothingSaid DEF SrvAborted
      <4>2. srvEnd[k] = "open" /\ ~broken[k] => cliEnd[k] = "shut" /\ status[k] # "Closed"
        BY <3>1, <3>2, <3>3, <3>5, <4>1 DEF SrvAborted, SrvCanWrite, CloseReported
      <4> QED
        BY <1>5, <3>1, <3>2, <3>5, <4>2 DEF QueueGrows, Accurate
    <3>6. CASE srvEnd'[k] = "shut"
      BY <1>5, <3>1, <3>2, <3>6 DEF QueueGrows, Accurate
    <3>7. how \in Status /\ disconnected' = Ended(c, how)
          /\ \A h \in Status : disconnected' = Ended(c, h) => h = how
      <4>1. \A h : disconnected' = Ended(c, h) => h = how
        BY <1>2, <2>1, <2>2, AppendProperties DEF Ended
      <4> QED
        BY <1>5, <2>1, <4>1 DEF QueueGrows, Ended, Status
    <3> QED
      BY <1>5, <3>2, <3>4, <3>5, <3>6, <3>7 DEF QueueGrows, Status
  <2> QED
    BY <1>2, <2>2, <2>3, <2>4
<1>6. CASE QueueShrinks
  <2>1. /\ Len(disconnected') = Len(disconnected) - 1 /\ Head(disconnected) = disconnected[1]
        /\ \A j \in 1..Len(disconnected') : disconnected'[j] = disconnected[j + 1]
        /\ Head(disconnected).cid # e.cid
    BY <1>2, <1>6, HeadTailProperties DEF QueueShrinks
  <2>2. i + 1 \in 1..Len(disconnected) /\ disconnected[i + 1] = e
    BY <1>2, <2>1
  <2>3. ASSUME NEW j \in 1..i
        PROVE  disconnected[j].cid # e.cid
    <3>1. CASE j = 1
      BY <2>1, <3>1
    <3>2. CASE j # 1
      <4>1. j - 1 \in 1..(i - 1) /\ j - 1 \in 1..Len(disconnected') /\ (j - 1) + 1 = j
        BY <1>2, <2>1, <2>2, <3>2
      <4>2. disconnected'[j - 1] = disconnected[j]
        BY <2>1, <4>1
      <4>3. disconnected'[j - 1].cid # disconnected'[i].cid
        BY <4>1 DEF FirstFor
      <4> QED
        BY <4>2, <4>3
    <3> QED
      BY <3>1, <3>2
  <2>4. FirstFor(i + 1)
    <3>1. (i + 1) - 1 = i
      BY <2>2
    <3> QED
      BY <2>2, <2>3, <3>1 DEF FirstFor
  <2> QED
    BY <1>3, <2>2, <2>4
<1> QED
  BY <1>1, <1>4, <1>5, <1>6 DEF QueueMoves

LEMMA StatusInit == Init => StatusInv
<1> SUFFICES ASSUME Init
             PROVE  StatusInv
  OBVIOUS
<1>1. /\ DOMAIN tcp = {} /\ disconnected = <<>>
      /\ up = [k \in Conn |-> <<>>] /\ status = [k \in Conn |-> "Connected"]
  BY DEF Init, SocketsInit, ServerInit, ClientInit
<1>2. \A k \in Conn : Farewell(k)
  BY <1>1, NothingSaid DEF Farewell
<1> QED
  BY <1>1, <1>2, EmptySeq DEF StatusInv, StatusAccurate

LEMMA StatusStep ==
  ASSUME SystemInv, SystemInv', Places, Places', ConsInv, QueueInv, StatusInv, [Next]_vars
  PROVE  StatusInv'
<1>1. ASSUME NEW k \in Conn
      PROVE  Farewell(k)'
  <2>1. Goodbyes(k) /\ Responses(k) /\ Farewell(k) /\ Moves(k)
    BY EveryoneStep DEF ConsInv, StatusInv, EveryoneMoves
  <2> QED
    BY <2>1, FarewellStep
<1>2. \A c \in DOMAIN tcp' : CloseReported(c)'
  BY CloseReportedStep
<1> QED
  BY <1>1, <1>2, StatusAccurateStep DEF StatusInv

(* Why a client left is told right: whatever order FIN, goodbye and earlier *)
(* data are read in, and although recv_msgs may queue a connection again    *)
(* before the queue is handled (server.rs:678-696, 381-383).                *)
THEOREM StatusIsAccurate == Spec => []StatusAccurate
<1>1. Init => StatusInv
  BY StatusInit
<1>2. /\ SystemInv /\ Places /\ ConsInv /\ QueueInv /\ StatusInv /\ [Next]_vars
      /\ SystemInv' /\ Places'
      => StatusInv'
  BY StatusStep
<1>3. StatusInv => StatusAccurate
  BY DEF StatusInv
<1> QED
  BY <1>1, <1>2, <1>3, QueueInvariant, PTL DEF Spec
-----------------------------------------------------------------------------
(* The truth of the response.                                               *)
Says(s, r) == \E i \in 1..Len(s) : s[i].mid = RESPONSE_TYPE_MID /\ s[i].n = r

(* The client has its response, or will read it.                            *)
Heard(k, r) == resp[k] = r \/ Says(down[k], r)

(* ToldIsTrue, strengthened to what the client has yet to read.             *)
TrueAnswer(k) ==
  /\ Heard(k, Accepted) => Registered(k) \/ (srvEnd[k] = "shut" /\ reported # <<>>)
  /\ Heard(k, Rejected) => ~Registered(k) /\ ~Unanswered(k) /\ srvEnd[k] = "shut"

LEMMA SaysNothing == ASSUME NEW r PROVE ~Says(<<>>, r)
  BY EmptySeq DEF Says

LEMMA SaysRead ==
  ASSUME NEW s \in Seq(Msg), s # <<>>, NEW r
  PROVE  /\ Says(Tail(s), r) => Says(s, r)
         /\ Head(s).mid = RESPONSE_TYPE_MID => Says(s, Head(s).n)
<1>1. /\ Len(Tail(s)) = Len(s) - 1 /\ \A i \in 1..Len(Tail(s)) : Tail(s)[i] = s[i + 1]
      /\ Len(s) \in Nat /\ Len(s) # 0 /\ Head(s) = s[1]
  BY HeadTailProperties, EmptySeq, LenProperties
<1>2. \A i \in 1..Len(Tail(s)) : i + 1 \in 1..Len(s)
  BY <1>1
<1>3. 1 \in 1..Len(s)
  BY <1>1
<1> QED
  BY <1>1, <1>2, <1>3 DEF Says

LEMMA SaysSend ==
  ASSUME NEW s \in Seq(Msg), NEW m \in Msg, NEW e, NEW r, Says(Sent(s, m, e), r)
  PROVE  Says(s, r) \/ (m.mid = RESPONSE_TYPE_MID /\ m.n = r)
<1>1. CASE e # "open"
  BY <1>1 DEF Sent
<1>2. CASE e = "open"
  <2>1. PICK t : t = Append(s, m)
    OBVIOUS
  <2>2. /\ Len(t) = Len(s) + 1 /\ Len(s) \in Nat
        /\ \A i \in 1..Len(s) : t[i] = s[i]
        /\ t[Len(s) + 1] = m
    BY <2>1, AppendProperties, LenProperties
  <2>3. 1..Len(t) = 1..Len(s) \cup {Len(s) + 1}
    BY <2>2
  <2>4. Sent(s, m, e) = t
    BY <1>2, <2>1 DEF Sent
  <2> QED
    BY <2>2, <2>3, <2>4 DEF Says
<1> QED
  BY <1>1, <1>2

LEMMA SaysCut ==
  ASSUME NEW f \in [Conn -> Seq(Msg)], NEW k \in Conn, NEW t \in Arrived(f, k), NEW r, Says(t, r)
  PROVE  Says(f[k], r)
<1>1. /\ Len(t) \in 0..Len(f[k]) /\ \A j \in 1..Len(t) : t[j] = f[k][j]
      /\ Len(f[k]) \in Nat
  BY AfterCut, LenProperties
<1>2. \A j \in 1..Len(t) : j \in 1..Len(f[k])
  BY <1>1
<1> QED
  BY <1>1, <1>2 DEF Says

(* Nothing is heard that was not heard before, unless the server answers.   *)
LEMMA HeardStep ==
  ASSUME SystemInv, NEW k \in Conn, Goodbyes(k), Responses(k), Moves(k), NEW r, Heard(k, r)'
  PROVE  \/ Heard(k, r)
         \/ /\ Unanswered(k) /\ ~Unanswered(k)'
            /\ r = Accepted => Registered(k)'
            /\ r = Rejected => ~Registered(k)' /\ srvEnd'[k] = "shut"
<1>1. ConType(k) /\ up \in [Conn -> Seq(Msg)] /\ down \in [Conn -> Seq(Msg)]
  BY ConTyped
<1> USE DEF Heard
<1>2. CASE Rests(k) \/ Opens(k) \/ Refused(k) \/ Tells(k) \/ Departs(k) \/ Loses(k) \/ Leaves(k)
  BY <1>2 DEF Rests, Opens, Refused, Tells, Departs, Loses, Leaves
<1>3. CASE Hears(k) \/ Reads(k)
  BY <1>1, <1>3, SaysRead DEF ConType, Hears, Reads
<1>4. CASE Answers(k)
  <2>1. PICK a \in {Accepted, Rejected} :
          /\ down'[k] = IF SrvCanWrite(k) THEN Sent(down[k], ResponseMsg(k, a), cliEnd[k])
                                          ELSE down[k]
          /\ \/ a = Accepted /\ Registered(k)'
             \/ a = Rejected /\ ~Registered(k)' /\ srvEnd'[k] = "shut"
    BY <1>4 DEF Answers
  <2>2. PICK m \in Msg : m = ResponseMsg(k, a) /\ m.n = a
    BY OwnMessages
  <2>3. down'[k] = down[k] \/ down'[k] = Sent(down[k], m, cliEnd[k])
    BY <2>1, <2>2
  <2>4. Says(down'[k], r) => Says(down[k], r) \/ r = a
    BY <1>1, <2>2, <2>3, SaysSend DEF ConType
  <2>5. Heard(k, r) \/ r = a
    BY <1>4, <2>4 DEF Answers
  <2> QED
    BY <1>4, <2>1, <2>5, MIds DEF Answers
<1>5. CASE Drops(k) \/ Reaps(k) \/ GoesDown(k)
  BY <1>5 DEF Drops, Reaps, GoesDown
<1>6. CASE Writes(k) \/ Disconnects(k)
  <2>1. PICK m \in Msg : /\ m.mid \in {TcpMsg, DISCONNECT_TYPE_MID}
                         /\ down'[k] = Sent(down[k], m, cliEnd[k]) /\ resp'[k] = resp[k]
    BY <1>6, OwnMessages DEF Writes, Disconnects
  <2> QED
    BY <1>1, <2>1, SaysSend, MIds DEF ConType
<1>7. CASE Breaks(k)
  BY <1>1, <1>7, SaysCut DEF Breaks
<1> QED
  BY <1>2, <1>3, <1>4, <1>5, <1>6, <1>7 DEF Moves, ClientMoves, ServerMoves

(* A connection leaves the map only when it is reaped.                      *)
LEMMA RemovedStep ==
  ASSUME SystemInv, [Next]_vars, NEW c \in DOMAIN tcp, c \notin DOMAIN tcp'
  PROVE  Reaped(tcp[c]) /\ srvEnd'[tcp[c]] = "shut" /\ reported' # <<>>
<1>1. ServerTypeOK /\ tcp[c] \in Conn /\ srvEnd \in [Conn -> EndState]
  BY DEF SystemInv, ServerInv, ServerTypeOK, SocketsTypeOK
<1>2. ~(ClientStep \/ NetworkStep \/ ShutDown \/ UNCHANGED vars)
  BY DEF ClientStep, NetworkStep, ShutDown, DropServer, vars, serverVars
<1>3. ~(HandleNewCon \/ AcceptIncoming \/ RejectIncoming \/ DropDead \/ Elapse)
  BY DEF HandleNewCon, HandleNew, AcceptIncoming, RejectIncoming, DropDead, Elapse, PanicWith,
         AddTcpCon, Insert
<1>4. ~(RecvMsgs \/ HandleDisconnect \/ RecvUdp \/ ClearMsgs)
  BY DEF RecvMsgs, HandleDisconnect, RecvUdp, ClearMsgs
<1>5. ~(\E d \in todo : TcpYields(d) \/ TcpFails(d) \/ TcpWouldBlock(d))
  BY DEF TcpYields, TcpFails, TcpWouldBlock, RecvTcp
<1>6. ~(\E d \in DOMAIN cid_addr : Disconnect(d))
  BY DEF Disconnect
<1>7. ~(\E S \in Matching : SendUdpSpec(S) \/ \E G \in SUBSET S : SendTcpSpec(S, G))
  BY DEF SendUdpSpec, SendTcpSpec
<1>8. Reap
  BY <1>2, <1>3, <1>4, <1>5, <1>6, <1>7 DEF Next, ServerStep, ServerNext
<1>9. PICK d : d = Head(disconnected).cid
  OBVIOUS
<1>10. /\ tcp' = Delete(tcp, d) /\ srvEnd' = [srvEnd EXCEPT ![tcp[d]] = "shut"]
       /\ reported' = Append(reported, Head(disconnected))
  BY <1>8, <1>9 DEF Reap, PanicWith, RmTcpCon, CloseTcp
<1>11. c = d
  BY <1>10 DEF Delete, Restrict
<1>12. disconnected # <<>> /\ Head(disconnected) \in Ending /\ reported \in Seq(Ending)
  <2>1. disconnected # <<>> /\ disconnected \in Seq(Ending) /\ reported \in Seq(Ending)
    BY <1>8 DEF Reap, SystemInv, ServerInv, ServerTypeOK, Maps
  <2> QED
    BY <2>1, HeadTailProperties
<1> QED
  BY <1>1, <1>9, <1>10, <1>11, <1>12, AppendProperties DEF Reaped

LEMMA ReportsStay ==
  ASSUME SystemInv, [Next]_vars, reported # <<>>
  PROVE  reported' # <<>>
<1>1. reported \in Seq(Ending)
  BY DEF SystemInv, ServerInv, ServerTypeOK
<1>2. ASSUME NEW e \in Ending, reported' = Append(reported, e)
      PROVE  reported' # <<>>
  BY <1>1, <1>2, AppendProperties
<1> QED
  BY <1>2, ReportStep DEF SameReports, OneReport

LEMMA TrueAnswerStep ==
  ASSUME SystemInv, Places, ConsInv, [Next]_vars, NEW k \in Conn, TrueAnswer(k)
  PROVE  TrueAnswer(k)'
<1>1. Goodbyes(k) /\ Responses(k) /\ Moves(k) /\ CidsStay /\ ConType(k)
  BY EveryoneStep, CidsStep, ConTyped DEF ConsInv, EveryoneMoves
<1>2. ASSUME Registered(k), ~Registered(k)'
      PROVE  srvEnd'[k] = "shut" /\ reported' # <<>>
  <2>1. PICK c \in DOMAIN tcp : tcp[c] = k
    BY <1>2 DEF Registered
  <2>2. c \in 1..current_cid /\ c \notin PendingCids
    BY DEF SystemInv, ServerInv, Maps, CidOnce
  <2>3. c \notin DOMAIN tcp'
    BY <1>1, <1>2, <2>1, <2>2 DEF CidsStay, Registered
  <2> QED
    BY <2>1, <2>3, RemovedStep
<1>3. phase[k] # "idle" /\ srvEnd[k] = "shut" => srvEnd'[k] = "shut"
  BY <1>1 DEF Moves, ClientMoves, ServerMoves, Rests, Breaks, Opens, Refused, Tells,
       Hears, Departs, Reads, Loses, Leaves, Answers, Drops, Reaps, Writes, Disconnects, GoesDown
<1>4. ASSUME NEW r, Heard(k, r), r # NoResponse
      PROVE  phase[k] # "idle"
  BY <1>1, <1>4, SaysNothing DEF Heard, Goodbyes, Responses
<1>5. ASSUME Heard(k, Accepted)'
      PROVE  (Registered(k) \/ (srvEnd[k] = "shut" /\ reported # <<>>))'
  BY <1>1, <1>2, <1>3, <1>4, <1>5, HeardStep, ReportsStay, MIds DEF TrueAnswer
<1>6. ASSUME Heard(k, Rejected)'
      PROVE  ~Registered(k)' /\ ~Unanswered(k)' /\ srvEnd'[k] = "shut"
  <2>1. CASE Heard(k, Rejected)
    <3>1. phase[k] # "idle" /\ ~Registered(k) /\ ~Unanswered(k) /\ srvEnd'[k] = "shut"
      BY <1>3, <1>4, <2>1, MIds DEF TrueAnswer
    <3>2. ~Answers(k) /\ ~Opens(k)
      BY <3>1 DEF Answers, Opens
    <3>3. Stays(k)
      BY <1>1, <3>2 DEF Moves, ClientMoves, ServerMoves, Rests, Breaks, Refused, Tells,
         Hears, Departs, Reads, Loses, Leaves, Drops, Reaps, Writes, Disconnects, GoesDown
    <3> QED
      BY <3>1, <3>3 DEF Stays
  <2> QED
    BY <1>1, <1>6, <2>1, HeardStep
<1> QED
  BY <1>5, <1>6 DEF TrueAnswer

(* What the server tells a client is what it did, whichever handler the     *)
(* application calls: an accepted client is registered before it can hear   *)
(* of it, and stays so until its disconnect is reported; a rejected one     *)
(* never is (server.rs:338-373).                                            *)
THEOREM ResponseIsTrue == Spec => []ToldIsTrue
<1>1. Init => \A k \in Conn : TrueAnswer(k)
  <2> SUFFICES ASSUME Init, NEW k \in Conn
               PROVE  TrueAnswer(k)
    OBVIOUS
  <2>1. resp[k] = NoResponse /\ down[k] = <<>>
    BY DEF Init, SocketsInit, ClientInit
  <2> QED
    BY <2>1, SaysNothing, MIds DEF TrueAnswer, Heard
<1>2. /\ SystemInv /\ Places /\ ConsInv /\ (\A k \in Conn : TrueAnswer(k)) /\ [Next]_vars
      => (\A k \in Conn : TrueAnswer(k))'
  BY TrueAnswerStep
<1>3. (\A k \in Conn : TrueAnswer(k)) => ToldIsTrue
  BY DEF TrueAnswer, Heard, ToldIsTrue
<1> QED
  BY <1>1, <1>2, <1>3, ConsInvariant, PTL DEF Spec
-----------------------------------------------------------------------------
(* What a client receives.                                                  *)

(* What k may read next, of the messages with the MId m.                    *)
Incoming(k, m) ==
  {r \in [con : Conn, n : Nat] :
     \/ /\ m = UdpMsg
        /\ \E d \in dgrams :
             d.dir = "down" /\ d.addr = AddrOf[k] /\ r = [con |-> d.con, n |-> d.n]
     \/ down[k] # <<>> /\ Head(down[k]).mid = m /\ r.con = Head(down[k]).con}

(* A step keeps what it has received, or adds such a message, or clears it. *)
LEMMA ReceivedMoves ==
  ASSUME SystemInv, [Next]_vars, NEW k \in Conn, NEW m \in UserMsg
  PROVE  received'[k][m] \in {received[k][m], <<>>}
                             \cup {Append(received[k][m], r) : r \in Incoming(k, m)}
<1> DEFINE Goal == received'[k][m] \in {received[k][m], <<>>}
                                       \cup {Append(received[k][m], r) : r \in Incoming(k, m)}
<1>1. /\ received \in [Conn -> [UserMsg -> Seq([con : Conn, n : Nat])]]
      /\ down \in [Conn -> Seq(Msg)] /\ dgrams \subseteq Datagram
  BY DEF SystemInv, ServerInv, SocketsTypeOK, ClientTypeOK
<1>2. ASSUME received' = received
      PROVE  Goal
  BY <1>2
<1>3. ASSUME NEW j \in Conn, NEW p \in UserMsg, NEW con, NEW n, Keep(j, p, con, n),
             j = k /\ p = m => [con |-> con, n |-> n] \in Incoming(k, m)
      PROVE  Goal
  <2>1. received' = [received EXCEPT ![j] = [received[j] EXCEPT ![p] =
                                               Append(received[j][p], [con |-> con, n |-> n])]]
    BY <1>3 DEF Keep
  <2>2. CASE j = k /\ p = m
    <3>1. received'[k][m] = Append(received[k][m], [con |-> con, n |-> n])
      BY <1>1, <2>1, <2>2
    <3> QED
      BY <1>3, <2>2, <3>1
  <2>3. CASE ~(j = k /\ p = m)
    BY <1>1, <2>1, <2>3
  <2> QED
    BY <2>2, <2>3
<1>4. ASSUME NEW j \in Conn, ClientTcpYields(j)
      PROVE  Goal
  <2>1. PICK h : h = Head(down[j])
    OBVIOUS
  <2>2. h \in Msg /\ down[j] # <<>>
    BY <1>1, <1>4, <2>1, HeadTailProperties DEF ClientTcpYields
  <2>3. UNCHANGED received \/ (h.mid \in UserMsg /\ Keep(j, h.mid, h.con, h.n))
    BY <1>4, <2>1 DEF ClientTcpYields
  <2>4. j = k /\ h.mid = m => [con |-> h.con, n |-> h.n] \in Incoming(k, m)
    BY <2>1, <2>2 DEF Msg, Incoming
  <2> QED
    BY <1>2, <1>3, <2>3, <2>4
<1>5. ASSUME NEW j \in Conn, ClientRecvUdp(j)
      PROVE  Goal
  <2>1. PICK d \in dgrams : d.dir = "down" /\ d.addr = AddrOf[j] /\ Keep(j, UdpMsg, d.con, d.n)
    BY <1>5 DEF ClientRecvUdp
  <2>2. d.con \in Conn /\ d.n \in Nat /\ UdpMsg \in UserMsg
    BY <1>1 DEF Datagram, UserMsg
  <2>3. j = k /\ UdpMsg = m => [con |-> d.con, n |-> d.n] \in Incoming(k, m)
    BY <2>1, <2>2 DEF Incoming
  <2> QED
    BY <1>3, <2>1, <2>2, <2>3
<1>6. ASSUME NEW j \in Conn, ClientClearMsgs(j)
      PROVE  Goal
  BY <1>1, <1>6 DEF ClientClearMsgs, NothingReceived
<1>7. ASSUME NEW j \in Conn,
             \/ Connect(j) \/ SendConnection(j) \/ RecvResponse(j) \/ Fail(j)
             \/ SendTcp(j) \/ SendUdp(j) \/ ClientTcpFails(j)
             \/ ClientDisconnect(j) \/ DropClient(j)
      PROVE  Goal
  BY <1>2, <1>7 DEF Connect, SendConnection, RecvResponse, Fail, SendTcp, SendUdp,
     ClientTcpFails, ClientDisconnect, DropClient
<1>8. CASE ClientStep
  BY <1>4, <1>5, <1>6, <1>7, <1>8 DEF ClientStep, ClientNext
<1>9. CASE ServerStep \/ ShutDown \/ NetworkStep \/ UNCHANGED vars
  BY <1>2, <1>9 DEF ServerStep, ShutDown, NetworkStep, vars, clientVars
<1> QED
  BY <1>8, <1>9 DEF Next

LEMMA ReceivedFrom ==
  ASSUME SystemInv, [Next]_vars, NEW k \in Conn, NEW F,
         received[k] \in [UserMsg -> Seq(F)], \A m \in UserMsg : Incoming(k, m) \subseteq F
  PROVE  received'[k] \in [UserMsg -> Seq(F)]
<1>1. ASSUME NEW m \in UserMsg
      PROVE  received'[k][m] \in Seq(F)
  <2>1. received[k][m] \in Seq(F) /\ <<>> \in Seq(F)
    BY EmptySeq
  <2>2. \A r \in Incoming(k, m) : Append(received[k][m], r) \in Seq(F)
    BY <2>1, AppendProperties
  <2> QED
    BY <2>1, <2>2, ReceivedMoves
<1>2. ClientTypeOK'
  BY SystemStep DEF SystemInv
<1>3. received'[k] = [m \in UserMsg |-> received'[k][m]]
  BY <1>2 DEF ClientTypeOK
<1> QED
  BY <1>1, <1>3

(* All of it is for k.                                                      *)
ForMe(k) == [con : {k}, n : Nat]

OwnMail ==
  /\ Addressed("down")
  /\ \A k \in Conn : down[k] \in Seq(Own(k))
  /\ \A k \in Conn : received[k] \in [UserMsg -> Seq(ForMe(k))]

LEMMA OwnDownStep ==
  ASSUME SystemInv, NEW k \in Conn, down[k] \in Seq(Own(k)), Moves(k)
  PROVE  down'[k] \in Seq(Own(k))
<1>1. ConType(k) /\ down \in [Conn -> Seq(Msg)]
  BY ConTyped
<1>2. ASSUME down[k] # <<>>
      PROVE  Tail(down[k]) \in Seq(Own(k))
  BY <1>2, HeadTailProperties
<1>3. ASSUME NEW m \in Own(k), NEW e
      PROVE  Sent(down[k], m, e) \in Seq(Own(k))
  BY AppendProperties DEF Sent
<1>4. /\ DisconnectMsg(k) \in Own(k)
      /\ \A r \in {Accepted, Rejected} : ResponseMsg(k, r) \in Own(k)
      /\ \A n \in Nat : TcpData(k, n) \in Own(k)
  BY OwnMessages
  DEF Own, DisconnectMsg, ResponseMsg, TcpData, DISCONNECT_TYPE_MID, RESPONSE_TYPE_MID,
      TcpMsg, UdpMsg
<1>5. ASSUME NEW t \in Arrived(down, k)
      PROVE  t \in Seq(Own(k))
  BY PrefixOwn DEF Arrived
<1>6. CASE Rests(k)
  BY <1>6 DEF Rests
<1>7. CASE ClientMoves(k)
  BY <1>2, <1>7 DEF ClientMoves, Opens, Refused, Tells, Hears, Departs, Reads, Loses, Leaves
<1>8. CASE ServerMoves(k)
  BY <1>3, <1>4, <1>8 DEF ServerMoves, Answers, Drops, Reaps, Writes, Disconnects, GoesDown
<1>9. CASE Breaks(k)
  BY <1>5, <1>9 DEF Breaks
<1> QED
  BY <1>6, <1>7, <1>8, <1>9 DEF Moves

LEMMA OwnMailStep ==
  ASSUME OwnAddresses, SystemInv, Places, SocketAddresses, OwnMail, [Next]_vars
  PROVE  OwnMail'
<1>1. Addressed("down")'
  BY DatagramsStep DEF OwnMail, SocketAddresses
<1>2. \A k \in Conn : down'[k] \in Seq(Own(k))
  BY EveryoneStep, OwnDownStep DEF OwnMail, EveryoneMoves
<1>3. ASSUME NEW k \in Conn, NEW m \in UserMsg
      PROVE  Incoming(k, m) \subseteq ForMe(k)
  <2>1. down[k] # <<>> => Head(down[k]) \in Own(k)
    BY HeadTailProperties DEF OwnMail
  <2>2. \A d \in dgrams : d.dir = "down" /\ d.addr = AddrOf[k] => d.con = k
    BY DEF OwnMail, Addressed, OwnAddresses, SystemInv, ServerInv, SocketsTypeOK, Datagram
  <2> QED
    BY <2>1, <2>2 DEF Incoming, ForMe, Own
<1>4. \A k \in Conn : received'[k] \in [UserMsg -> Seq(ForMe(k))]
  BY <1>3, ReceivedFrom DEF OwnMail
<1>5. (\A k \in Conn : ForMe(k)' = ForMe(k)) /\ (\A k \in Conn : Own(k)' = Own(k))
  BY DEF ForMe, Own
<1> QED
  BY <1>1, <1>2, <1>4, <1>5 DEF OwnMail

(* A UDP message reaches the client whose CId it was sent to, also when it  *)
(* comes after the client's disconnect; if clients have addresses of their  *)
(* own (server.rs:430-437).                                                 *)
THEOREM UdpAddressed ==
  ASSUME OwnAddresses
  PROVE  Spec => []AddressedUdp
<1>1. Init => OwnMail
  <2> SUFFICES ASSUME Init
               PROVE  OwnMail
    OBVIOUS
  <2>1. /\ down = [k \in Conn |-> <<>>] /\ received = [k \in Conn |-> NothingReceived]
        /\ dgrams = {}
    BY DEF Init, SocketsInit, ClientInit
  <2> QED
    BY <2>1, EmptySeq DEF OwnMail, NothingReceived, Addressed
<1>2. SystemInv /\ Places /\ SocketAddresses /\ OwnMail /\ [Next]_vars => OwnMail'
  BY OwnMailStep
<1>3. OwnMail => AddressedUdp
  <2> SUFFICES ASSUME OwnMail, NEW k \in Conn, NEW i \in 1..Len(received[k][UdpMsg])
               PROVE  received[k][UdpMsg][i].con = k
    BY DEF AddressedUdp
  <2>1. received[k][UdpMsg] \in Seq(ForMe(k))
    BY DEF OwnMail, UserMsg
  <2>2. received[k][UdpMsg][i] \in ForMe(k)
    BY <2>1, ElementOfSeq
  <2> QED
    BY <2>2 DEF ForMe
<1> QED
  BY <1>1, <1>2, <1>3, AddressesInvariant, PTL DEF Spec
-----------------------------------------------------------------------------
(* The messages of one client that the server holds.                        *)

(* StreamIntact for one connection: b is the buffer, u the stream, n how    *)
(* many messages were sent, and live says that the connection works.        *)
Intact(b, u, k, n, live) ==
  /\ InOrder(b, u, k) /\ NoGaps(Numbers(b, u, k))
  /\ Numbers(b, u, k) \subseteq 1..n
  /\ Numbers(b, u, k) # {} /\ live => n \in Numbers(b, u, k)

(* Nothing is in the stream or the buffer that is of no interest.           *)
LEMMA HeldTypes ==
  ASSUME NEW b \in Seq(Received), NEW u \in Seq(Msg), NEW k
  PROVE  /\ \A i \in InBuffer(b, k) : i \in 1..Len(b) /\ b[i].con = k /\ b[i].n \in Nat
         /\ \A i \in Coming(u) : i \in 1..Len(u) /\ u[i].mid = TcpMsg /\ u[i].n \in Nat
         /\ Len(b) \in Nat /\ Len(u) \in Nat
<1>1. \A i \in 1..Len(b) : b[i] \in Received
  BY ElementOfSeq
<1>2. \A i \in 1..Len(u) : u[i] \in Msg
  BY ElementOfSeq
<1> QED
  BY <1>1, <1>2, LenProperties DEF InBuffer, Coming, Received, Msg

(* What happens to the buffer, or to the stream, does not concern k.        *)
LEMMA SameEntries ==
  ASSUME NEW b, NEW u, NEW k, NEW n, NEW live, NEW c, NEW v,
         Intact(b, u, k, n, live),
         InBuffer(c, k) = InBuffer(b, k), \A i \in InBuffer(b, k) : c[i].n = b[i].n,
         Coming(v) = Coming(u), \A i \in Coming(u) : v[i].n = u[i].n
  PROVE  Intact(c, v, k, n, live)
<1>1. Numbers(c, v, k) = Numbers(b, u, k)
  BY DEF Numbers
<1>2. InOrder(c, v, k)
  BY DEF Intact, InOrder
<1> QED
  BY <1>1, <1>2 DEF Intact

LEMMA OthersBuffered ==
  ASSUME NEW b \in Seq(Received), NEW e \in Received, NEW k, e.con # k
  PROVE  /\ InBuffer(Append(b, e), k) = InBuffer(b, k)
         /\ \A i \in InBuffer(b, k) : Append(b, e)[i] = b[i]
<1>1. PICK c : c = Append(b, e)
  OBVIOUS
<1>2. /\ Len(c) = Len(b) + 1 /\ Len(b) \in Nat /\ c[Len(b) + 1] = e
      /\ \A i \in 1..Len(b) : c[i] = b[i]
  BY <1>1, AppendProperties, LenProperties
<1>3. 1..Len(c) = 1..Len(b) \cup {Len(b) + 1}
  BY <1>2
<1> QED
  BY <1>1, <1>2, <1>3 DEF InBuffer

LEMMA ControlSent ==
  ASSUME NEW u \in Seq(Msg), NEW m \in Msg, m.mid # TcpMsg
  PROVE  /\ Coming(Append(u, m)) = Coming(u)
         /\ \A i \in Coming(u) : Append(u, m)[i] = u[i]
<1>1. PICK v : v = Append(u, m)
  OBVIOUS
<1>2. /\ Len(v) = Len(u) + 1 /\ Len(u) \in Nat /\ v[Len(u) + 1] = m
      /\ \A i \in 1..Len(u) : v[i] = u[i]
  BY <1>1, AppendProperties, LenProperties
<1>3. 1..Len(v) = 1..Len(u) \cup {Len(u) + 1}
  BY <1>2
<1> QED
  BY <1>1, <1>2, <1>3 DEF Coming

(* The reader takes the first message of the stream.                        *)
LEMMA TailComing ==
  ASSUME NEW u \in Seq(Msg), u # <<>>
  PROVE  /\ \A i : i \in Coming(Tail(u)) => i + 1 \in Coming(u) /\ Tail(u)[i] = u[i + 1]
         /\ \A i \in Coming(u) : i # 1 => i - 1 \in Coming(Tail(u)) /\ Tail(u)[i - 1] = u[i]
         /\ 1 \in Coming(u) <=> Head(u).mid = TcpMsg
         /\ Head(u) = u[1]
<1>1. PICK v : v = Tail(u)
  OBVIOUS
<1>2. /\ Len(v) = Len(u) - 1 /\ Len(u) \in Nat /\ Len(u) # 0 /\ Head(u) = u[1]
      /\ \A i \in 1..Len(v) : v[i] = u[i + 1]
  BY <1>1, HeadTailProperties, LenProperties, EmptySeq
<1>3. \A i \in 1..Len(v) : i \in Int /\ i + 1 \in 1..Len(u)
  BY <1>2
<1>4. \A i \in 1..Len(u) : i # 1 => i - 1 \in 1..Len(v) /\ (i - 1) + 1 = i
  BY <1>2
<1>5. 1 \in 1..Len(u)
  BY <1>2
<1> QED
  BY <1>1, <1>2, <1>3, <1>4, <1>5 DEF Coming

LEMMA ControlRead ==
  ASSUME NEW b \in Seq(Received), NEW u \in Seq(Msg), NEW k, NEW n, NEW live,
         Intact(b, u, k, n, live), u # <<>>, Head(u).mid # TcpMsg
  PROVE  Intact(b, Tail(u), k, n, live)
<1>1. PICK v : v = Tail(u)
  OBVIOUS
<1>2. /\ \A i \in Coming(v) : i + 1 \in Coming(u) /\ v[i] = u[i + 1]
      /\ \A i \in Coming(u) : i - 1 \in Coming(v) /\ v[i - 1] = u[i]
  BY <1>1, TailComing
<1>3. v \in Seq(Msg)
  BY <1>1, HeadTailProperties
<1>4. Numbers(b, v, k) = Numbers(b, u, k)
  BY <1>2 DEF Numbers
<1>5. \A i, j \in Coming(v) : i < j => i + 1 < j + 1
  BY <1>3, HeldTypes
<1>6. InOrder(b, v, k)
  BY <1>2, <1>5 DEF Intact, InOrder
<1> QED
  BY <1>1, <1>4, <1>6 DEF Intact

(* recv_msgs moves it to the end of the buffer.                             *)
LEMMA DataRead ==
  ASSUME NEW b \in Seq(Received), NEW u \in Seq(Msg), NEW k, NEW n, NEW live,
         Intact(b, u, k, n, live), u # <<>>, Head(u).mid = TcpMsg,
         NEW e \in Received, e.con = k, e.n = Head(u).n
  PROVE  Intact(Append(b, e), Tail(u), k, n, live)
<1>1. PICK v, c : v = Tail(u) /\ c = Append(b, e)
  OBVIOUS
<1>2. /\ \A i \in Coming(v) : i + 1 \in Coming(u) /\ v[i] = u[i + 1]
      /\ \A i \in Coming(u) : i # 1 => i - 1 \in Coming(v) /\ v[i - 1] = u[i]
      /\ 1 \in Coming(u) /\ e.n = u[1].n
  BY <1>1, TailComing
<1>3. v \in Seq(Msg) /\ c \in Seq(Received)
  BY <1>1, HeadTailProperties, AppendProperties
<1>4. PICK l : l = Len(b) + 1
  OBVIOUS
<1>5. /\ Len(c) = l /\ Len(b) \in Nat /\ l \in Nat /\ c[l] = e
      /\ \A i \in 1..Len(b) : c[i] = b[i] /\ i < l
  BY <1>1, <1>4, AppendProperties, LenProperties
<1>6. 1..Len(c) = 1..Len(b) \cup {l}
  BY <1>4, <1>5
<1>7. InBuffer(c, k) = InBuffer(b, k) \cup {l} /\ \A i \in InBuffer(b, k) : c[i] = b[i] /\ i < l
  BY <1>5, <1>6 DEF InBuffer
<1>8. Numbers(c, v, k) = Numbers(b, u, k)
  <2>1. \A i \in Coming(u) : u[i].n \in Numbers(c, v, k)
    BY <1>2, <1>5, <1>7 DEF Numbers
  <2>2. \A i \in InBuffer(b, k) : b[i].n \in Numbers(c, v, k)
    BY <1>7 DEF Numbers
  <2>3. \A i \in Coming(v) : v[i].n \in Numbers(b, u, k)
    BY <1>2 DEF Numbers
  <2>4. \A i \in InBuffer(c, k) : c[i].n \in Numbers(b, u, k)
    BY <1>2, <1>5, <1>7 DEF Numbers
  <2> QED
    BY <2>1, <2>2, <2>3, <2>4 DEF Numbers
<1>9. InOrder(c, v, k)
  <2>1. \A i \in Coming(v) : i \in Nat /\ i > 0 /\ i + 1 > 1
    <3>1. Len(v) \in Nat
      BY <1>3, LenProperties
    <3> QED
      BY <3>1 DEF Coming
  <2>2. \A i, j \in Coming(v) : i < j => v[i].n < v[j].n
    <3>1. \A i, j \in Coming(v) : i < j => i + 1 < j + 1
      BY <2>1
    <3> QED
      BY <1>2, <3>1 DEF Intact, InOrder
  <2>3. \A i, j \in InBuffer(c, k) : i < j => c[i].n < c[j].n
    <3>1. \A i \in InBuffer(b, k) : i \in Nat /\ ~(l < i)
      BY <1>5, <1>7, HeldTypes
    <3> QED
      BY <1>2, <1>5, <1>7, <3>1 DEF Intact, InOrder
  <2>4. ASSUME NEW i \in InBuffer(c, k), NEW j \in Coming(v)
        PROVE  c[i].n < v[j].n
    <3>1. j + 1 \in Coming(u) /\ v[j] = u[j + 1] /\ 1 < j + 1
      BY <1>2, <2>1
    <3>2. CASE i = l
      BY <1>2, <1>5, <3>1, <3>2 DEF Intact, InOrder
    <3>3. CASE i \in InBuffer(b, k)
      BY <1>7, <3>1, <3>3 DEF Intact, InOrder
    <3> QED
      BY <1>7, <3>2, <3>3
  <2> QED
    BY <2>2, <2>3, <2>4 DEF InOrder
<1> QED
  BY <1>1, <1>8, <1>9 DEF Intact

(* The end of the stream is lost, and the connection with it.               *)
LEMMA StreamCut ==
  ASSUME NEW b \in Seq(Received), NEW u \in Seq(Msg), NEW k, NEW n \in Nat, NEW live,
         Intact(b, u, k, n, live),
         NEW v \in Seq(Msg), Len(v) \in 0..Len(u), \A i \in 1..Len(v) : v[i] = u[i]
  PROVE  Intact(b, v, k, n, FALSE)
<1>1. Len(u) \in Nat
  BY LenProperties
<1>2. /\ \A i \in Coming(v) : i \in Coming(u) /\ v[i] = u[i] /\ i <= Len(v)
      /\ \A i \in Coming(u) : i \in Coming(v) \/ i > Len(v)
  BY <1>1 DEF Coming
<1>3. InOrder(b, v, k)
  BY <1>2 DEF Intact, InOrder
<1>4. Numbers(b, v, k) \subseteq Numbers(b, u, k)
  BY <1>2 DEF Numbers
<1>5. \A x \in Numbers(b, u, k) : x \in Int
  BY DEF Intact
<1>6. ASSUME NEW x \in Numbers(b, u, k), x \notin Numbers(b, v, k), NEW w \in Numbers(b, v, k)
      PROVE  w < x
  <2>1. PICK j \in Coming(u) : x = u[j].n /\ j > Len(v)
    BY <1>2, <1>6 DEF Numbers
  <2>2. CASE \E i \in InBuffer(b, k) : w = b[i].n
    BY <2>1, <2>2 DEF Intact, InOrder
  <2>3. CASE \E i \in Coming(v) : w = v[i].n
    <3>1. PICK i \in Coming(v) : w = v[i].n
      BY <2>3
    <3>2. i \in Coming(u) /\ w = u[i].n /\ i < j
      BY <1>1, <1>2, <2>1, <3>1, HeldTypes
    <3> QED
      BY <2>1, <3>2 DEF Intact, InOrder
  <2> QED
    BY <2>2, <2>3 DEF Numbers
<1>7. NoGaps(Numbers(b, v, k))
  <2> SUFFICES ASSUME NEW y \in Numbers(b, v, k), NEW w \in Numbers(b, v, k), NEW x \in y..w
               PROVE  x \in Numbers(b, v, k)
    BY DEF NoGaps
  <2>1. x \in Numbers(b, u, k)
    BY <1>4 DEF Intact, NoGaps
  <2> QED
    BY <1>4, <1>5, <1>6, <2>1
<1> QED
  BY <1>3, <1>4, <1>7 DEF Intact

(* clear_msgs: what is still in the stream goes on where the buffer ended.  *)
LEMMA BufferCleared ==
  ASSUME NEW b \in Seq(Received), NEW u \in Seq(Msg), NEW k, NEW n \in Nat, NEW live,
         Intact(b, u, k, n, live)
  PROVE  Intact(<<>>, u, k, n, live)
<1>1. InBuffer(<<>>, k) = {}
  BY EmptySeq DEF InBuffer
<1>2. InOrder(<<>>, u, k)
  BY <1>1 DEF Intact, InOrder
<1>3. Numbers(<<>>, u, k) = {u[i].n : i \in Coming(u)}
  BY <1>1 DEF Numbers
<1>4. Numbers(<<>>, u, k) \subseteq Numbers(b, u, k)
  BY <1>3 DEF Numbers
<1>5. \A x \in Numbers(b, u, k) : x \in Int /\ x <= n
  BY DEF Intact
<1>6. ASSUME NEW x \in Numbers(b, u, k), x \notin Numbers(<<>>, u, k),
             NEW w \in Numbers(<<>>, u, k)
      PROVE  x < w
  BY <1>3, <1>6 DEF Intact, InOrder, Numbers
<1>7. NoGaps(Numbers(<<>>, u, k))
  <2> SUFFICES ASSUME NEW y \in Numbers(<<>>, u, k), NEW w \in Numbers(<<>>, u, k),
                      NEW x \in y..w
               PROVE  x \in Numbers(<<>>, u, k)
    BY DEF NoGaps
  <2>1. x \in Numbers(b, u, k)
    BY <1>4 DEF Intact, NoGaps
  <2> QED
    BY <1>4, <1>5, <1>6, <2>1
<1>8. ASSUME NEW w \in Numbers(<<>>, u, k), live
      PROVE  n \in Numbers(<<>>, u, k)
  <2>1. n \in Numbers(b, u, k)
    BY <1>4, <1>8 DEF Intact
  <2> QED
    BY <1>4, <1>5, <1>6, <2>1
<1> QED
  BY <1>2, <1>4, <1>7, <1>8 DEF Intact

(* The next message is sent, on a connection that works.                    *)
LEMMA DataSent ==
  ASSUME NEW b \in Seq(Received), NEW u \in Seq(Msg), NEW k, NEW n \in Nat,
         Intact(b, u, k, n, TRUE),
         NEW m \in Msg, m.mid = TcpMsg, m.n = n + 1, NEW live
  PROVE  Intact(b, Append(u, m), k, n + 1, live)
<1>1. PICK v : v = Append(u, m)
  OBVIOUS
<1>2. PICK l : l = Len(u) + 1
  OBVIOUS
<1>3. /\ Len(v) = l /\ Len(u) \in Nat /\ l \in Nat /\ v[l] = m
      /\ \A i \in 1..Len(u) : v[i] = u[i] /\ i < l
  BY <1>1, <1>2, AppendProperties, LenProperties
<1>4. 1..Len(v) = 1..Len(u) \cup {l}
  BY <1>2, <1>3
<1>5. Coming(v) = Coming(u) \cup {l} /\ \A i \in Coming(u) : v[i] = u[i] /\ i < l /\ i \in Nat
  BY <1>3, <1>4 DEF Coming
<1>6. Numbers(b, v, k) = Numbers(b, u, k) \cup {n + 1}
  <2>1. {v[i].n : i \in Coming(v)} = {u[i].n : i \in Coming(u)} \cup {n + 1}
    BY <1>3, <1>5
  <2> QED
    BY <2>1 DEF Numbers
<1>7. \A x \in Numbers(b, u, k) : x \in Int /\ x <= n
  BY DEF Intact
<1>8. InOrder(b, v, k)
  <2>1. \A i \in InBuffer(b, k) : b[i].n < n + 1
    BY <1>7 DEF Numbers
  <2>2. ASSUME NEW i \in Coming(u)
        PROVE  u[i].n < n + 1 /\ ~(l < i)
    <3>1. u[i].n \in Numbers(b, u, k)
      BY DEF Numbers
    <3> QED
      BY <1>3, <1>5, <1>7, <3>1
  <2> QED
    BY <1>3, <1>5, <2>1, <2>2 DEF Intact, InOrder
<1>9. NoGaps(Numbers(b, v, k))
  <2> SUFFICES ASSUME NEW y \in Numbers(b, v, k), NEW w \in Numbers(b, v, k), NEW x \in y..w
               PROVE  x \in Numbers(b, v, k)
    BY DEF NoGaps
  <2>1. x \in Int /\ (x = n + 1 \/ x <= n)
    BY <1>6, <1>7
  <2>2. CASE x <= n
    <3>1. y \in Numbers(b, u, k) /\ n \in Numbers(b, u, k) /\ y <= x /\ y \in Int
      BY <1>6, <1>7, <2>1, <2>2 DEF Intact
    <3>2. x \in y..n
      BY <2>1, <2>2, <3>1
    <3> QED
      BY <1>6, <3>1, <3>2 DEF Intact, NoGaps
  <2> QED
    BY <1>6, <2>1, <2>2
<1>10. Numbers(b, v, k) \subseteq 1..(n + 1) /\ n + 1 \in Numbers(b, v, k)
  BY <1>6, <1>7 DEF Intact
<1> QED
  BY <1>1, <1>8, <1>9, <1>10 DEF Intact

(* What a step can be to the messages of k.  Its entries in the buffer are  *)
(* left alone and the stream moves on, or the buffer is cleared, or a       *)
(* message goes from the one to the other, or the client sends one.         *)
SameBuffer(k) ==
  /\ InBuffer(msg_buff'[TcpMsg], k) = InBuffer(msg_buff[TcpMsg], k)
  /\ \A i \in InBuffer(msg_buff[TcpMsg], k) : msg_buff'[TcpMsg][i].n = msg_buff[TcpMsg][i].n

StreamMoves(k) ==
  \/ up'[k] = up[k]
  \/ /\ up[k] # <<>> /\ up'[k] = Tail(up[k])
     /\ Unanswered(k) \/ Head(up[k]).mid # TcpMsg
  \/ \E m \in Msg : m.mid # TcpMsg /\ up'[k] = Sent(up[k], m, srvEnd[k])
  \/ up'[k] \in Arrived(up, k) /\ ~SrvCanWrite(k)'

Flows(k) == sent'[k][TcpMsg] = sent[k][TcpMsg] /\ SameBuffer(k) /\ StreamMoves(k)

Clears(k) ==
  /\ sent'[k][TcpMsg] = sent[k][TcpMsg] /\ up'[k] = up[k]
  /\ msg_buff'[TcpMsg] = <<>>

Files(k) ==
  /\ sent'[k][TcpMsg] = sent[k][TcpMsg]
  /\ up[k] # <<>> /\ Head(up[k]).mid = TcpMsg /\ up'[k] = Tail(up[k])
  /\ \E e \in Received : /\ e.con = k /\ e.n = Head(up[k]).n
                         /\ msg_buff'[TcpMsg] = Append(msg_buff[TcpMsg], e)

Speaks(k) ==
  /\ phase[k] = "ready" /\ CliCanWrite(k) /\ SameBuffer(k)
  /\ sent'[k][TcpMsg] = sent[k][TcpMsg] + 1
  /\ up'[k] = Sent(up[k], TcpData(k, sent'[k][TcpMsg]), srvEnd[k])

DataMoves(k) == Flows(k) \/ Clears(k) \/ Files(k) \/ Speaks(k)

LEMMA ClientDataMoves ==
  ASSUME SystemInv, UNCHANGED msg_buff, NEW k \in Conn,
         \/ Connect(k) \/ SendConnection(k) \/ RecvResponse(k) \/ Fail(k)
         \/ SendTcp(k) \/ SendUdp(k)
         \/ ClientTcpYields(k) \/ ClientTcpFails(k) \/ ClientRecvUdp(k)
         \/ ClientClearMsgs(k) \/ ClientDisconnect(k) \/ DropClient(k)
  PROVE  \A j \in Conn : DataMoves(j)
<1>1. /\ up \in [Conn -> Seq(Msg)] /\ sent \in [Conn -> [UserMsg -> Nat]]
      /\ TcpMsg \in UserMsg /\ UdpMsg \in UserMsg /\ TcpMsg # UdpMsg
  BY UserMIds DEF SystemInv, ServerInv, SocketsTypeOK, ClientTypeOK, UserMsg
<1>2. \A j : SameBuffer(j)
  BY DEF SameBuffer
<1>3. ASSUME UNCHANGED up, \A j \in Conn : sent'[j][TcpMsg] = sent[j][TcpMsg]
      PROVE  \A j \in Conn : DataMoves(j)
  BY <1>2, <1>3 DEF DataMoves, Flows, StreamMoves
<1>4. CASE SendConnection(k) \/ ClientDisconnect(k)
  <2>1. /\ ConnectionMsg(k) \in Msg /\ ConnectionMsg(k).mid # TcpMsg
        /\ DisconnectMsg(k) \in Msg /\ DisconnectMsg(k).mid # TcpMsg
    BY MessageTypes, MIds
    DEF ConnectionMsg, DisconnectMsg, CONNECTION_TYPE_MID, DISCONNECT_TYPE_MID, TcpMsg
  <2>2. sent' = sent /\ \E m \in Msg : m.mid # TcpMsg /\ up' = Delivered(up, k, srvEnd, m)
    BY <1>4, <2>1 DEF SendConnection, ClientDisconnect
  <2>3. \A j \in Conn : up'[j] = up[j] \/ \E m \in Msg : m.mid # TcpMsg /\ up'[j] = Sent(up[j], m, srvEnd[j])
    BY <1>1, <2>2 DEF Delivered, Sent
  <2> QED
    BY <1>2, <2>2, <2>3 DEF DataMoves, Flows, StreamMoves
<1>5. CASE SendTcp(k)
  <2>1. /\ sent'[k][TcpMsg] = sent[k][TcpMsg] + 1
        /\ \A j \in Conn \ {k} : sent'[j] = sent[j]
    BY <1>1, <1>5 DEF SendTcp
  <2>2. /\ up'[k] = Sent(up[k], TcpData(k, sent'[k][TcpMsg]), srvEnd[k])
        /\ \A j \in Conn \ {k} : up'[j] = up[j]
    BY <1>1, <1>5 DEF SendTcp, Delivered, Sent
  <2>3. Speaks(k)
    BY <1>2, <1>5, <2>1, <2>2 DEF SendTcp, Speaks
  <2>4. \A j \in Conn \ {k} : Flows(j)
    BY <1>2, <2>1, <2>2 DEF Flows, StreamMoves
  <2> QED
    BY <2>3, <2>4 DEF DataMoves
<1>6. CASE SendUdp(k)
  <2>1. up' = up /\ sent' = [sent EXCEPT ![k] = [sent[k] EXCEPT ![UdpMsg] = sent[k][UdpMsg] + 1]]
    BY <1>6 DEF SendUdp
  <2>2. \A j \in Conn : sent'[j][TcpMsg] = sent[j][TcpMsg]
    BY <1>1, <2>1
  <2> QED
    BY <1>3, <2>1, <2>2
<1>7. CASE ~(SendConnection(k) \/ ClientDisconnect(k) \/ SendTcp(k) \/ SendUdp(k))
  <2>1. UNCHANGED <<up, sent>>
    BY <1>7 DEF Connect, RecvResponse, Fail, ClientTcpYields, ClientTcpFails, ClientRecvUdp,
       ClientClearMsgs, DropClient, netVars
  <2> QED
    BY <1>3, <2>1
<1> QED
  BY <1>4, <1>5, <1>6, <1>7

LEMMA DataStep ==
  ASSUME SystemInv, Places, OwnStreams, [Next]_vars
  PROVE  \A k \in Conn : DataMoves(k)
<1>1. /\ SocketsTypeOK /\ ServerTypeOK
      /\ up \in [Conn -> Seq(Msg)] /\ msg_buff \in [MId -> Seq(Received)]
  BY DEF SystemInv, ServerInv, SocketsTypeOK, ServerTypeOK
<1>2. ASSUME NEW k, msg_buff'[TcpMsg] = msg_buff[TcpMsg]
      PROVE  SameBuffer(k)
  BY <1>2 DEF SameBuffer
<1>3. ASSUME msg_buff'[TcpMsg] = msg_buff[TcpMsg], UNCHANGED sent, \A k \in Conn : StreamMoves(k)
      PROVE  \A k \in Conn : DataMoves(k)
  BY <1>2, <1>3 DEF DataMoves, Flows
<1>4. ASSUME msg_buff'[TcpMsg] = msg_buff[TcpMsg], UNCHANGED <<up, sent>>
      PROVE  \A k \in Conn : DataMoves(k)
  BY <1>3, <1>4 DEF StreamMoves
<1>5. CASE ClientStep
  BY <1>5, ClientDataMoves DEF ClientStep, ClientNext, serverVars
<1>6. CASE NetworkStep
  <2>1. UNCHANGED <<msg_buff, sent>>
    BY <1>6 DEF NetworkStep, serverVars, clientVars
  <2>2. CASE LoseDatagram
    BY <1>4, <2>1, <2>2 DEF LoseDatagram
  <2>3. ASSUME NEW j \in Conn, Break(j)
        PROVE  \A k \in Conn : StreamMoves(k)
    <3>1. broken'[j] /\ \E s \in Arrived(up, j) : up' = [up EXCEPT ![j] = s]
      BY <1>1, <2>3 DEF Break, SocketsTypeOK
    <3> QED
      BY <1>1, <3>1 DEF StreamMoves, SrvCanWrite
  <2> QED
    BY <1>3, <1>6, <2>1, <2>2, <2>3 DEF NetworkStep
<1>7. CASE UNCHANGED vars \/ ShutDown
  BY <1>4, <1>7 DEF vars, netVars, serverVars, clientVars, ShutDown, DropServer
<1>8. CASE ServerStep
  <2>1. UNCHANGED sent
    BY <1>8 DEF ServerStep, clientVars
  <2>2. CASE HandleNewCon
    <3>1. msg_buff' = msg_buff
      BY <2>2 DEF HandleNewCon, HandleNew
    <3>2. \A k \in Conn : StreamMoves(k)
      BY <2>2, ScanReads DEF StreamMoves
    <3> QED
      BY <1>3, <2>1, <3>1, <3>2
  <2>3. ASSUME NEW c \in todo, TcpYields(c)
        PROVE  \A k \in Conn : DataMoves(k)
    <3>1. PICK j, m : j = tcp[c] /\ m = Head(up[j])
      OBVIOUS
    <3>2. j \in Conn /\ c \in CId
      BY <3>1 DEF SystemInv, ServerInv, ServerTypeOK, Maps
    <3>3. /\ up[j] # <<>> /\ up' = [up EXCEPT ![j] = Tail(up[j])]
          /\ \/ m.mid = DISCONNECT_TYPE_MID /\ UNCHANGED msg_buff
             \/ m.mid # DISCONNECT_TYPE_MID /\ Buffer(m.mid, c, m)
      BY <2>3, <3>1 DEF TcpYields
    <3>4. m \in Own(j)
      BY <3>1, <3>2, <3>3, TailOwn
    <3>5. m.mid \in MId /\ m.con = j /\ m.n \in Nat
      BY <3>4 DEF Own, Msg
    <3>6. up'[j] = Tail(up[j]) /\ \A k \in Conn \ {j} : up'[k] = up[k]
      BY <1>1, <3>2, <3>3
    <3>7. CASE m.mid # TcpMsg
      <4>1. msg_buff'[TcpMsg] = msg_buff[TcpMsg]
        BY <1>1, <3>3, <3>5, <3>7, UserMIds DEF Buffer
      <4>2. \A k \in Conn : StreamMoves(k)
        BY <3>1, <3>3, <3>6, <3>7 DEF StreamMoves
      <4> QED
        BY <1>3, <2>1, <4>1, <4>2
    <3>8. CASE m.mid = TcpMsg
      <4>1. PICK e : e = [cid |-> c, con |-> m.con, n |-> m.n]
        OBVIOUS
      <4>2. e \in Received /\ e.con = j /\ e.n = m.n
        BY <3>2, <3>5, <4>1 DEF Received
      <4>3. msg_buff'[TcpMsg] = Append(msg_buff[TcpMsg], e)
        BY <1>1, <3>3, <3>8, <4>1, UserMIds, MIds DEF Buffer
      <4>4. Files(j)
        BY <2>1, <3>1, <3>3, <3>6, <3>8, <4>2, <4>3 DEF Files
      <4>5. msg_buff[TcpMsg] \in Seq(Received)
        BY <1>1, UserMIds
      <4>6. ASSUME NEW k \in Conn, k # j
            PROVE  SameBuffer(k)
        <5>1. PICK b : b = msg_buff[TcpMsg]
          OBVIOUS
        <5>2. b \in Seq(Received) /\ e \in Received /\ e.con # k
          BY <4>2, <4>5, <4>6, <5>1
        <5>3. /\ InBuffer(Append(b, e), k) = InBuffer(b, k)
              /\ \A i \in InBuffer(b, k) : Append(b, e)[i] = b[i]
          BY <5>2, OthersBuffered
        <5> QED
          BY <4>3, <5>1, <5>3 DEF SameBuffer
      <4>7. \A k \in Conn \ {j} : Flows(k)
        BY <2>1, <3>6, <4>6 DEF Flows, StreamMoves
      <4> QED
        BY <4>4, <4>7 DEF DataMoves
    <3> QED
      BY <3>7, <3>8
  <2>4. CASE RecvUdp
    <3>1. msg_buff'[TcpMsg] = msg_buff[TcpMsg]
      BY <1>1, <2>4, UserMIds DEF RecvUdp, Buffer
    <3> QED
      BY <1>4, <2>1, <2>4, <3>1 DEF RecvUdp
  <2>5. CASE ClearMsgs
    <3>1. msg_buff'[TcpMsg] = <<>> /\ up' = up
      BY <2>5, UserMIds DEF ClearMsgs, Emptied, netVars
    <3> QED
      BY <2>1, <3>1 DEF DataMoves, Clears
  <2>6. ASSUME NEW c \in DOMAIN cid_addr, Disconnect(c)
        PROVE  \A k \in Conn : DataMoves(k)
    <3>1. PICK j : j = tcp[c]
      OBVIOUS
    <3>2. j \in Conn
      BY <3>1 DEF SystemInv, ServerInv, ServerTypeOK, Maps
    <3>3. /\ \E s \in Arrived(up, j) : up' = [up EXCEPT ![j] = s]
          /\ CloseTcp(j) \/ broken' = [broken EXCEPT ![j] = TRUE]
          /\ msg_buff' = msg_buff
      BY <2>6, <3>1 DEF Disconnect
    <3>4. ~SrvCanWrite(j)'
      BY <1>1, <3>2, <3>3 DEF CloseTcp, SrvCanWrite, SocketsTypeOK
    <3>5. \A k \in Conn : StreamMoves(k)
      BY <1>1, <3>2, <3>3, <3>4 DEF StreamMoves
    <3> QED
      BY <1>3, <2>1, <3>3, <3>5
  <2>7. CASE AcceptIncoming \/ RejectIncoming \/ DropDead \/ Elapse
    BY <1>4, <2>1, <2>7
    DEF AcceptIncoming, RejectIncoming, DropDead, Elapse, PanicWith, netVars
  <2>8. CASE RecvMsgs \/ HandleDisconnect \/ Reap
    BY <1>4, <2>1, <2>8 DEF RecvMsgs, HandleDisconnect, Reap, PanicWith, netVars
  <2>9. ASSUME NEW c \in todo, TcpFails(c) \/ TcpWouldBlock(c)
        PROVE  \A k \in Conn : DataMoves(k)
    BY <1>4, <2>1, <2>9 DEF TcpFails, TcpWouldBlock
  <2>10. ASSUME NEW S \in Matching, SendUdpSpec(S) \/ \E G \in SUBSET S : SendTcpSpec(S, G)
         PROVE  \A k \in Conn : DataMoves(k)
    BY <1>4, <2>1, <2>10 DEF SendUdpSpec, SendTcpSpec
  <2> QED
    BY <1>8, <2>2, <2>3, <2>4, <2>5, <2>6, <2>7, <2>8, <2>9, <2>10 DEF ServerStep, ServerNext
<1> QED
  BY <1>5, <1>6, <1>7, <1>8 DEF Next

(* The inductive invariant: a client that is not ready has sent nothing,    *)
(* so that the handshake cannot take a message of its user.                 *)
DataInv ==
  \A k \in Conn :
    /\ phase[k] \notin {"ready", "dropped"} => sent[k][TcpMsg] = 0
    /\ Intact(msg_buff[TcpMsg], up[k], k, sent[k][TcpMsg], SrvCanWrite(k))

LEMMA MoveForward ==
  ASSUME NEW k, Moves(k)
  PROVE  /\ phase'[k] \notin {"ready", "dropped"} => phase[k] \notin {"ready", "dropped"}
         /\ SrvCanWrite(k)' => SrvCanWrite(k) \/ phase[k] = "idle"
  BY DEF Moves, Rests, ClientMoves, Opens, Refused, Tells, Hears, Departs, Reads, Loses, Leaves,
     ServerMoves, Answers, Drops, Reaps, Writes, Disconnects, GoesDown, Breaks, SrvCanWrite,
     Handshaking

LEMMA IntactStep ==
  ASSUME SystemInv, ConsInv, OwnStreams, DataInv, NEW k \in Conn, Moves(k), DataMoves(k)
  PROVE  /\ phase'[k] \notin {"ready", "dropped"} => sent'[k][TcpMsg] = 0
         /\ Intact(msg_buff'[TcpMsg], up'[k], k, sent'[k][TcpMsg], SrvCanWrite(k)')
<1>1. PICK b, u, n, c, v, l :
        /\ b = msg_buff[TcpMsg] /\ u = up[k] /\ n = sent[k][TcpMsg]
        /\ c = msg_buff'[TcpMsg] /\ v = up'[k] /\ l = sent'[k][TcpMsg]
  OBVIOUS
<1>2. /\ b \in Seq(Received) /\ u \in Seq(Msg) /\ n \in Nat
      /\ up \in [Conn -> Seq(Msg)]
  BY <1>1, UserMIds
  DEF SystemInv, ServerInv, SocketsTypeOK, ServerTypeOK, ClientTypeOK, UserMsg
<1>3. PICK live \in BOOLEAN : live = SrvCanWrite(k)'
  BY DEF SrvCanWrite
<1>4. /\ phase'[k] \notin {"ready", "dropped"} => phase[k] \notin {"ready", "dropped"}
      /\ live => SrvCanWrite(k) \/ phase[k] = "idle"
  BY <1>3, MoveForward
<1>5. phase[k] \notin {"ready", "dropped"} => n = 0
  BY <1>1 DEF DataInv
<1>6. /\ InOrder(b, u, k) /\ NoGaps(Numbers(b, u, k)) /\ Numbers(b, u, k) \subseteq 1..n
      /\ Numbers(b, u, k) # {} /\ SrvCanWrite(k) => n \in Numbers(b, u, k)
  BY <1>1 DEF DataInv, Intact
<1>7. n = 0 => Numbers(b, u, k) = {}
  BY <1>6
<1>8. Intact(b, u, k, n, live)
  BY <1>4, <1>5, <1>6, <1>7 DEF Intact
<1>9. phase[k] \notin {"ready", "dropped"} => Coming(u) = {}
  BY <1>5, <1>7 DEF Numbers
<1>10. Unanswered(k) => phase[k] \notin {"ready", "dropped"}
  BY DEF ConsInv, Responses
<1>11. CASE Speaks(k)
  <2>1. /\ phase[k] = "ready" /\ l = n + 1 /\ ~broken[k]
        /\ InBuffer(c, k) = InBuffer(b, k) /\ \A i \in InBuffer(b, k) : c[i].n = b[i].n
        /\ v = Sent(u, TcpData(k, l), srvEnd[k])
    BY <1>1, <1>11 DEF Speaks, SameBuffer, CliCanWrite
  <2>2. phase'[k] \in {"ready", "dropped"}
    BY <1>4, <2>1
  <2>3. CASE srvEnd[k] = "open"
    <3>1. Intact(b, u, k, n, TRUE)
      BY <1>6, <2>1, <2>3 DEF Intact, SrvCanWrite
    <3>2. PICK m : m = TcpData(k, l)
      OBVIOUS
    <3>3. m \in Msg /\ m.mid = TcpMsg /\ m.n = n + 1
      <4>1. l \in Nat
        BY <1>2, <2>1
      <4> QED
        BY <2>1, <3>2, <4>1, OwnMessages DEF TcpData
    <3>4. v = Append(u, m)
      BY <2>1, <2>3, <3>2 DEF Sent
    <3>5. Intact(b, v, k, l, live)
      BY <1>2, <2>1, <3>1, <3>3, <3>4, DataSent
    <3>6. Intact(c, v, k, l, live)
      BY <2>1, <3>5, SameEntries
    <3> QED
      BY <1>1, <1>3, <2>2, <3>6 DEF Intact
  <2>4. CASE srvEnd[k] # "open"
    <3>1. v = u /\ ~live
      BY <1>4, <2>1, <2>4 DEF Sent, SrvCanWrite
    <3>2. Numbers(b, u, k) \subseteq 1..(n + 1)
      BY <1>2, <1>6
    <3>3. Intact(b, v, k, l, live)
      BY <1>6, <2>1, <3>1, <3>2 DEF Intact
    <3>4. Intact(c, v, k, l, live)
      BY <2>1, <3>3, SameEntries
    <3> QED
      BY <1>1, <1>3, <2>2, <3>4 DEF Intact
  <2> QED
    BY <2>3, <2>4
<1>12. ASSUME l = n, Intact(c, v, k, n, live)
       PROVE  /\ phase'[k] \notin {"ready", "dropped"} => sent'[k][TcpMsg] = 0
              /\ Intact(msg_buff'[TcpMsg], up'[k], k, sent'[k][TcpMsg], SrvCanWrite(k)')
  BY <1>1, <1>3, <1>4, <1>5, <1>12 DEF Intact
<1>13. CASE Clears(k)
  <2>1. l = n /\ c = <<>> /\ v = u
    BY <1>1, <1>13 DEF Clears
  <2> QED
    BY <1>2, <1>8, <1>12, <2>1, BufferCleared
<1>14. CASE Files(k)
  <2>1. PICK e \in Received : e.con = k /\ e.n = Head(u).n /\ c = Append(b, e)
    BY <1>1, <1>14 DEF Files
  <2>2. l = n /\ u # <<>> /\ Head(u).mid = TcpMsg /\ v = Tail(u)
    BY <1>1, <1>14 DEF Files
  <2> QED
    BY <1>2, <1>8, <1>12, <2>1, <2>2, DataRead
<1>15. CASE Flows(k)
  <2>1. /\ l = n /\ StreamMoves(k)
        /\ InBuffer(c, k) = InBuffer(b, k) /\ \A i \in InBuffer(b, k) : c[i].n = b[i].n
    BY <1>1, <1>15 DEF Flows, SameBuffer
  <2>2. ASSUME Intact(b, v, k, n, live)
        PROVE  Intact(c, v, k, n, live)
    BY <2>1, <2>2, SameEntries
  <2>3. CASE v = u
    BY <1>8, <1>12, <2>1, <2>2, <2>3
  <2>4. CASE u # <<>> /\ v = Tail(u) /\ (Unanswered(k) \/ Head(u).mid # TcpMsg)
    <3>1. Head(u).mid # TcpMsg
      BY <1>2, <1>9, <1>10, <2>4, TailComing
    <3>2. Intact(b, v, k, n, live)
      BY <1>2, <1>8, <2>4, <3>1, ControlRead
    <3> QED
      BY <1>12, <2>1, <2>2, <3>2
  <2>5. CASE \E m \in Msg : m.mid # TcpMsg /\ v = Sent(u, m, srvEnd[k])
    <3>1. PICK m \in Msg : m.mid # TcpMsg /\ v = Sent(u, m, srvEnd[k])
      BY <2>5
    <3>2. CASE v = Append(u, m)
      <4>1. Coming(v) = Coming(u) /\ \A i \in Coming(u) : v[i].n = u[i].n
        BY <1>2, <3>1, <3>2, ControlSent
      <4>2. Intact(c, v, k, n, live)
        BY <1>8, <2>1, <4>1, SameEntries
      <4> QED
        BY <1>12, <2>1, <4>2
    <3> QED
      BY <2>3, <3>1, <3>2 DEF Sent
  <2>6. CASE v \in Arrived(up, k) /\ ~live
    <3>1. v \in Seq(Msg) /\ Len(v) \in 0..Len(u) /\ \A i \in 1..Len(v) : v[i] = u[i]
      BY <1>1, <1>2, <2>6, AfterCut
    <3>2. Intact(b, v, k, n, FALSE)
      BY <1>2, <1>8, <3>1, StreamCut
    <3>3. live = FALSE
      BY <2>6
    <3> QED
      BY <1>12, <2>1, <2>2, <3>2, <3>3
  <2> QED
    BY <1>1, <1>3, <2>1, <2>3, <2>4, <2>5, <2>6 DEF StreamMoves
<1> QED
  BY <1>11, <1>13, <1>14, <1>15 DEF DataMoves

(* Of the messages a client sent on TCP the server holds, in its buffer and *)
(* then in the stream, a run without gaps and in order, up to the last one  *)
(* if the connection works: through the handshake, recv_msgs, clear_msgs, a *)
(* reset and a disconnect (server.rs:301, 642-651).                         *)
THEOREM StreamsStayIntact == Spec => []StreamIntact
<1>1. Init => OwnStreams /\ DataInv
  <2> SUFFICES ASSUME Init
               PROVE  OwnStreams /\ DataInv
    OBVIOUS
  <2>1. /\ up = [k \in Conn |-> <<>>] /\ msg_buff[TcpMsg] = <<>>
        /\ \A k \in Conn : sent[k][TcpMsg] = 0
    BY UserMIds DEF Init, SocketsInit, ServerInit, ClientInit, UserMsg
  <2>2. \A k : InBuffer(<<>>, k) = {} /\ Coming(<<>>) = {}
    BY EmptySeq DEF InBuffer, Coming
  <2>3. \A k, live : Intact(<<>>, <<>>, k, 0, live)
    BY <2>2 DEF Intact, InOrder, NoGaps, Numbers
  <2>4. OwnStreams
    BY <2>1, EmptySeq DEF OwnStreams
  <2>5. ASSUME NEW k \in Conn
        PROVE  Intact(msg_buff[TcpMsg], up[k], k, sent[k][TcpMsg], SrvCanWrite(k))
    BY <2>1, <2>3 DEF Intact
  <2> QED
    BY <2>1, <2>4, <2>5 DEF DataInv
<1>2. SystemInv /\ Places /\ ConsInv /\ OwnStreams /\ DataInv /\ [Next]_vars
        => OwnStreams' /\ DataInv'
  <2> SUFFICES ASSUME SystemInv, Places, ConsInv, OwnStreams, DataInv, [Next]_vars
               PROVE  OwnStreams' /\ DataInv'
    OBVIOUS
  <2>1. \A k \in Conn : Moves(k) /\ DataMoves(k)
    BY EveryoneStep, DataStep DEF EveryoneMoves
  <2>2. (msg_buff[TcpMsg])' = msg_buff'[TcpMsg]
    BY DEF TcpMsg
  <2>3. \A k : (sent[k][TcpMsg])' = sent'[k][TcpMsg]
    BY DEF TcpMsg
  <2>4. DataInv'
    BY <2>1, <2>2, <2>3, IntactStep DEF DataInv
  <2> QED
    BY <2>4, StreamStep
<1>3. DataInv => StreamIntact
  BY DEF DataInv, Intact, StreamIntact, SrvCanWrite
<1> QED
  BY <1>1, <1>2, <1>3, ConsInvariant, PTL DEF Spec
=============================================================================
