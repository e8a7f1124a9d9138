----------------------------- MODULE ChatProofs ------------------------------
(***************************************************************************)
(* Theorems about Chat.  A step of the example is a step of Session, or    *)
(* the application relays a message, or its unwrap panics; so what         *)
(* SessionProofs to StreamProofs show of one step of Session need only be  *)
(* completed by the other two.                                             *)
(***************************************************************************)
EXTENDS Chat, StreamProofs, FiniteSetTheorems

(* Where the loop is, and what the server is doing there.                   *)
Between == {"recv_msgs", "handle_disconnects", "handle_new_cons", "recv"}

LoopInv ==
  /\ pc \in Between \cup {"receiving", "reaping", "settling"}
  /\ next \in Nat \ {0}
  /\ kick \in Seq(Received)
  /\ op \notin Gone =>
       /\ pc \in Between => op = "idle"
       /\ pc = "receiving" => op \in {"tcp", "udp"}
       /\ pc = "reaping" => op = "reap_all"
       /\ pc = "settling" => op = "settle"

ChatInv == SystemInv /\ Places /\ LoopInv

(* The steps that are not Session's.                                        *)
Relays == ReadMessage /\ UNCHANGED clientVars
UnwrapPanics == op = "idle" /\ PanicWith("unwrap panic") /\ UNCHANGED clientVars

LEMMA LoopKinds ==
  ASSUME LoopInv, Loop
  PROVE  ServerStep \/ UNCHANGED vars \/ Relays \/ UnwrapPanics
<1>1. CASE RecvFrame \/ HandleDisconnects \/ ReapFrame \/ Settle \/ NextFrame
  BY <1>1
  DEF Loop, RecvFrame, HandleDisconnects, ReapFrame, Settle, NextFrame, ServerStep, ServerNext
<1>2. CASE Receive
  BY <1>2 DEF Loop, Receive, ServerStep, ServerNext
<1>3. CASE HandleNewCons
  <2>1. ASSUME NEW v \in [1..Len(new_cons \o Pulled) -> Verdict],
               HandleNew("handle_new_cons", v)
        PROVE  HandleNewCon
    BY <2>1 DEF HandleNewCon, HandleNew
  <2> QED
    BY <1>3, <2>1 DEF Loop, HandleNewCons, ServerStep, ServerNext, vars
<1>4. CASE DisconnectNext
  BY <1>4 DEF LoopInv, Between, Loop, DisconnectNext, Fails, Alive, UnwrapPanics,
     ServerStep, ServerNext
<1>5. CASE ReadMessage
  BY <1>5 DEF Loop, Relays
<1> QED
  BY <1>1, <1>2, <1>3, <1>4, <1>5 DEF Loop

LEMMA OutsideKinds ==
  ASSUME (\E k \in Conn : ChatClient(k)) \/ Reset \/ Timer \/ UNCHANGED chatVars
  PROVE  [Next]_vars /\ UNCHANGED loopVars
<1>1. ASSUME NEW k \in Conn, ChatClient(k)
      PROVE  ClientStep
  BY <1>1 DEF ChatClient, ClientStep, ClientNext
<1>2. CASE Reset
  BY <1>2 DEF Reset, NetworkStep, Next
<1>3. CASE Timer
  BY <1>3 DEF Timer, ServerStep, ServerNext, Next
<1> QED
  BY <1>1, <1>2, <1>3 DEF ChatClient, chatVars, Next

LEMMA ChatKinds ==
  ASSUME LoopInv, [ChatNext]_chatVars
  PROVE  [Next]_vars \/ Relays \/ UnwrapPanics
  BY LoopKinds, OutsideKinds DEF ChatNext, Next

(* What the loop is looking at.                                             *)
LEMMA MessageAt ==
  ASSUME SystemInv, LoopInv, ReadMessage
  PROVE  /\ next \in 1..Len(msg_buff[UdpMsg]) /\ msg_buff[UdpMsg][next] \in Received
         /\ Len(msg_buff[UdpMsg]) \in Nat
<1>1. msg_buff[UdpMsg] \in Seq(Received)
  BY UserMIds DEF SystemInv, ServerInv, ServerTypeOK
<1>2. next \in 1..Len(msg_buff[UdpMsg]) /\ Len(msg_buff[UdpMsg]) \in Nat
  BY <1>1, LenProperties DEF ReadMessage, AllRead, LoopInv
<1> QED
  BY <1>1, <1>2, ElementOfSeq

LEMMA LoopInvStep ==
  ASSUME SystemInv, LoopInv, [ChatNext]_chatVars
  PROVE  LoopInv'
<1>1. CASE RecvFrame /\ op \notin Gone
  BY <1>1 DEF LoopInv, Between, RecvFrame, RecvMsgs, Then
<1>2. CASE Receive /\ op \notin Gone
  <2>1. op' \in {"tcp", "udp", "idle"}
    BY <1>2 DEF LoopInv, Receive, RecvUdp, TcpYields, TcpFails, TcpWouldBlock, DoneWith
  <2> QED
    BY <1>2, <2>1 DEF LoopInv, Between, Receive, Then
<1>3. CASE HandleDisconnects
  BY <1>3 DEF LoopInv, Between, HandleDisconnects, AllReaped, Then
<1>4. CASE ReapFrame /\ op \notin Gone
  <2>1. op' \in {"idle", "reap_all"} \cup Gone
    BY <1>4 DEF LoopInv, ReapFrame, Reap, PanicWith, Gone, Panic
  <2> QED
    BY <1>4, <2>1 DEF LoopInv, Between, ReapFrame, Then
<1>5. CASE HandleNewCons /\ op \notin Gone
  <2>1. op' \in {"idle", "settle"}
    BY <1>5 DEF LoopInv, Between, HandleNewCons, HandleNew, serverVars
  <2> QED
    BY <1>5, <2>1 DEF LoopInv, Between, HandleNewCons, Then
<1>6. CASE Settle /\ op \notin Gone
  <2>1. op' \in {"idle", "settle"} \cup Gone
    BY <1>6 DEF Settle, AcceptIncoming, RejectIncoming, DropDead, PanicWith, Left, Gone, Panic
  <2> QED
    BY <1>6, <2>1 DEF LoopInv, Between, Settle, Then
<1>7. CASE ReadMessage
  <2>1. kick' \in Seq(Received)
    BY <1>7, MessageAt, AppendProperties DEF LoopInv, ReadMessage
  <2>2. next' \in Nat \ {0} /\ UNCHANGED <<pc, op>>
    BY <1>7 DEF LoopInv, ReadMessage, serverVars
  <2> QED
    BY <2>1, <2>2 DEF LoopInv
<1>8. CASE DisconnectNext
  <2>1. kick' \in Seq(Received)
    BY <1>8, HeadTailProperties DEF LoopInv, DisconnectNext
  <2>2. UNCHANGED <<pc, next>> /\ (op' \in Gone \/ op' = op)
    BY <1>8 DEF DisconnectNext, PanicWith, Disconnect, Gone, Panic
  <2> QED
    BY <2>1, <2>2 DEF LoopInv
<1>9. CASE NextFrame
  BY <1>9 DEF LoopInv, Between, NextFrame, ClearMsgs
<1>10. CASE (\E k \in Conn : ChatClient(k)) \/ Reset \/ Timer \/ UNCHANGED chatVars
  <2>1. UNCHANGED <<op, loopVars>>
    BY <1>10 DEF ChatClient, Reset, Timer, Elapse, chatVars, vars, serverVars
  <2> QED
    BY <2>1 DEF LoopInv, loopVars
<1> QED
  BY <1>1, <1>2, <1>3, <1>4, <1>5, <1>6, <1>7, <1>8, <1>9, <1>10 DEF ChatNext, Loop

LEMMA RelaySystem ==
  ASSUME SystemInv, LoopInv, Relays
  PROVE  SystemInv'
<1>1. ServerInv /\ ClientTypeOK /\ SocketsTypeOK /\ ServerTypeOK
  BY DEF SystemInv, ServerInv
<1> DEFINE m == msg_buff[UdpMsg][next]
<1>2. Relay(m) \subseteq Datagram
  BY <1>1, MessageAt DEF Relays, Relay, Matches, ServerTypeOK, Received, Datagram, Direction
<1> HIDE DEF m
<1>3. /\ dgrams' = dgrams \/ dgrams' = dgrams \cup Relay(m)
      /\ UNCHANGED <<listening, backlog, up, down, cliEnd, srvEnd, broken, serverVars, appVars>>
  BY DEF Relays, ReadMessage, m
<1>4. SocketsTypeOK'
  BY <1>1, <1>2, <1>3 DEF SocketsTypeOK
<1>5. ServerInv'
  BY <1>1, <1>3, <1>4, ServerFrame
<1>6. ClientTypeOK'
  BY <1>1 DEF Relays, clientVars, ClientTypeOK
<1> QED
  BY <1>5, <1>6 DEF SystemInv

LEMMA ChatStart == ChatInit => ChatInv
<1> SUFFICES ASSUME ChatInit
             PROVE  ChatInv
  OBVIOUS
<1>1. SystemInv /\ Places
  BY InitTypes, PlacesInit DEF ChatInit, SystemInv
<1>2. LoopInv
  BY EmptySeq DEF ChatInit, Init, ServerInit, LoopInv, Between
<1> QED
  BY <1>1, <1>2 DEF ChatInv

LEMMA ChatStep ==
  ASSUME ChatInv, [ChatNext]_chatVars
  PROVE  ChatInv'
<1>1. LoopInv'
  BY LoopInvStep DEF ChatInv
<1>2. CASE [Next]_vars
  BY <1>1, <1>2, SystemStep, PlacesStep DEF ChatInv
<1>3. CASE Relays
  <2>1. SystemInv'
    BY <1>3, RelaySystem DEF ChatInv
  <2>2. UNCHANGED <<tcp, new_cons, backlog, phase>>
    BY <1>3 DEF Relays, ReadMessage, clientVars, serverVars
  <2>3. Places'
    BY <2>2, Nowhere DEF ChatInv, Forward
  <2> QED
    BY <1>1, <2>1, <2>3 DEF ChatInv
<1>4. CASE UnwrapPanics
  <2>1. ServerInv' /\ ClientTypeOK'
    BY <1>4, PanicTypes DEF UnwrapPanics, ChatInv, SystemInv, Panic, clientVars, ClientTypeOK
  <2>2. UNCHANGED <<tcp, new_cons, phase>> /\ backlog' = <<>>
    BY <1>4 DEF UnwrapPanics, PanicWith, CloseAll, clientVars
  <2>3. Places'
    BY <2>2, BacklogLost DEF ChatInv, Forward
  <2> QED
    BY <1>1, <2>1, <2>3 DEF ChatInv, SystemInv
<1> QED
  BY <1>2, <1>3, <1>4, ChatKinds DEF ChatInv

LEMMA ChatInvariant == ChatSpec => []ChatInv
  BY ChatStart, ChatStep, PTL DEF ChatSpec

(* In the example too the pending list never outgrows max_con_handle        *)
(* (server.rs:323-335), for any number of clients.                          *)
THEOREM ChatPendingBounded == ChatSpec => []PendingBounded
<1>1. ChatInv => PendingBounded
  BY DEF ChatInv, SystemInv, ServerInv, Maps
<1> QED
  BY <1>1, ChatInvariant, PTL

(* And addr_cid leads only to registered connections with that address,     *)
(* also when the server ends in an unwrap of the application's              *)
(* (server.rs:780-795, examples/server.rs:102).                             *)
THEOREM ChatAddrCid == ChatSpec => []AddrCidSound
<1>1. ChatInv => AddrCidSound
  BY DEF ChatInv, SystemInv, ServerInv, Maps
<1> QED
  BY <1>1, ChatInvariant, PTL
-----------------------------------------------------------------------------
(* The queue of ended connections.                                          *)

(* Between the disconnects of a frame and the next recv_msgs, the queue     *)
(* holds what the application has disconnected, once each.                  *)
ClosedOnce ==
  /\ \A i \in 1..Len(disconnected) :
       LET c == disconnected[i].cid IN c \in DOMAIN tcp /\ srvEnd[tcp[c]] = "shut"
  /\ \A i, j \in 1..Len(disconnected) : i # j => disconnected[i].cid # disconnected[j].cid

(* recv_msgs queues a connection at most once, and handle_disconnects       *)
(* empties the queue.                                                       *)
QueueCount ==
  /\ pc = "receiving" => Len(disconnected) + Cardinality(todo) <= 2 * Cardinality(DOMAIN tcp)
  /\ pc = "handle_disconnects" => Len(disconnected) <= 2 * Cardinality(DOMAIN tcp)
  /\ pc \in {"handle_new_cons", "settling"} => disconnected = <<>>
  /\ pc \in {"recv", "recv_msgs"} => ClosedOnce

LEMMA MapFinite ==
  ASSUME SystemInv
  PROVE  /\ IsFiniteSet(DOMAIN tcp) /\ Cardinality(DOMAIN tcp) \in Nat
         /\ IsFiniteSet(todo) /\ Cardinality(todo) \in Nat
         /\ disconnected \in Seq(Ending) /\ Len(disconnected) \in Nat
<1>1. /\ DOMAIN tcp \subseteq 1..current_cid /\ current_cid \in Nat /\ todo \subseteq DOMAIN tcp
      /\ disconnected \in Seq(Ending)
  BY DEF SystemInv, ServerInv, ServerTypeOK, Maps, CidOnce
<1>2. IsFiniteSet(1..current_cid)
  BY <1>1, FS_Interval
<1>3. IsFiniteSet(DOMAIN tcp)
  BY <1>1, <1>2, FS_Subset
<1>4. IsFiniteSet(todo)
  BY <1>1, <1>3, FS_Subset
<1> QED
  BY <1>1, <1>3, <1>4, FS_CardinalityType, LenProperties

LEMMA ClosedOnceBounds ==
  ASSUME SystemInv, ClosedOnce
  PROVE  Len(disconnected) <= Cardinality(DOMAIN tcp)
<1> DEFINE n == Len(disconnected)
           f == [i \in 1..n |-> disconnected[i].cid]
<1>1. n \in Nat /\ IsFiniteSet(DOMAIN tcp) /\ Cardinality(DOMAIN tcp) \in Nat
  BY MapFinite
<1>2. f \in [1..n -> DOMAIN tcp] /\ \A i, j \in 1..n : i # j => f[i] # f[j]
  BY DEF ClosedOnce
<1> HIDE DEF f, n
<1>3. IsFiniteSet(1..n) /\ Cardinality(1..n) = n
  BY <1>1, FS_Interval
<1>4. ~(Cardinality(DOMAIN tcp) < Cardinality(1..n))
  BY <1>1, <1>2, <1>3, FS_PigeonHole
<1> QED
  BY <1>1, <1>3, <1>4 DEF n

LEMMA NothingQueued ==
  ASSUME disconnected = <<>>
  PROVE  ClosedOnce /\ Len(disconnected) = 0
  BY EmptySeq DEF ClosedOnce

(* An end of the server's that is shut stays so.                            *)
LEMMA ShutStays ==
  ASSUME NEW k, Moves(k), srvEnd[k] = "shut", phase[k] # "idle"
  PROVE  srvEnd'[k] = "shut"
  BY DEF Moves, Rests, ClientMoves, Opens, Refused, Tells, Hears, Departs, Reads, Loses, Leaves,
     ServerMoves, Answers, Drops, Reaps, Writes, Disconnects, GoesDown, Breaks

LEMMA ClosedStays ==
  ASSUME SystemInv, Places, ClosedOnce, UNCHANGED <<disconnected, tcp>>,
         [Next]_vars \/ Relays \/ UnwrapPanics
  PROVE  ClosedOnce'
<1>1. \A c \in DOMAIN tcp : srvEnd[tcp[c]] = "shut" => srvEnd'[tcp[c]] = "shut"
  <2> SUFFICES ASSUME NEW c \in DOMAIN tcp, srvEnd[tcp[c]] = "shut"
               PROVE  srvEnd'[tcp[c]] = "shut"
    OBVIOUS
  <2>1. tcp[c] \in Conn /\ phase[tcp[c]] # "idle"
    BY DEF SystemInv, ServerInv, ServerTypeOK, Places, RegisteredCons
  <2>2. CASE [Next]_vars
    BY <2>1, <2>2, EveryoneStep, ShutStays DEF EveryoneMoves
  <2>3. CASE Relays
    BY <2>3 DEF Relays, ReadMessage
  <2>4. CASE UnwrapPanics
    BY <2>1, <2>4 DEF UnwrapPanics, PanicWith, CloseAll
  <2> QED
    BY <2>2, <2>3, <2>4
<1> QED
  BY <1>1 DEF ClosedOnce

LEMMA ReceiveCount ==
  ASSUME SystemInv, LoopInv, QueueCount, Loop, Receive
  PROVE  QueueCount'
<1>1. UNCHANGED tcp /\ op \in {"tcp", "udp"} /\ pc = "receiving"
  BY DEF Loop, LoopInv, Receive, RecvUdp, TcpYields, TcpFails, TcpWouldBlock, RecvTcp
<1> DEFINE n == Cardinality(DOMAIN tcp)
<1>2. /\ Len(disconnected) + Cardinality(todo) <= 2 * n
      /\ n \in Nat /\ Len(disconnected) \in Nat /\ Cardinality(todo) \in Nat
  BY <1>1, MapFinite DEF QueueCount
<1>3. /\ Len(disconnected') + Cardinality(todo') <= 2 * n
      /\ Len(disconnected') \in Nat /\ Cardinality(todo') \in Nat
  <2>1. CASE UNCHANGED <<disconnected, todo>>
    BY <1>2, <2>1
  <2>2. ASSUME NEW c \in todo, TcpYields(c) \/ TcpFails(c) \/ TcpWouldBlock(c),
               ~UNCHANGED <<disconnected, todo>>
        PROVE  /\ Len(disconnected') + Cardinality(todo') <= 2 * n
               /\ Len(disconnected') \in Nat /\ Cardinality(todo') \in Nat
    <3>1. /\ todo' = todo \ {c}
          /\ disconnected' = disconnected \/ \E how \in Status : disconnected' = Ended(c, how)
      BY <2>2 DEF TcpYields, TcpFails, TcpWouldBlock, DoneWith, Status
    <3>2. Cardinality(todo') = Cardinality(todo) - 1
      BY <3>1, MapFinite, FS_RemoveElement
    <3>0. c \in CId /\ \A how \in Status : [cid |-> c, status |-> how] \in Ending
      BY <2>2, <1>2 DEF SystemInv, ServerInv, ServerTypeOK, Ending
    <3>3. Len(disconnected') \in {Len(disconnected), Len(disconnected) + 1}
      <4>1. disconnected \in Seq(Ending) /\ SystemInv
        BY MapFinite
      <4>2. ASSUME NEW how \in Status
            PROVE  Len(Ended(c, how)) = Len(disconnected) + 1
        <5>1. PICK e \in Ending : e = [cid |-> c, status |-> how]
          BY <3>0, <4>2
        <5> QED
          BY <4>1, <5>1, AppendProperties DEF Ended
      <4> QED
        BY <3>1, <4>2
    <3>4. Cardinality(todo') \in Nat
      BY <3>1, MapFinite, FS_RemoveElement, FS_CardinalityType
    <3> HIDE DEF n
    <3> QED
      BY <1>2, <3>2, <3>3, <3>4
  <2>3. CASE RecvUdp
    BY <2>1, <2>3 DEF RecvUdp
  <2> QED
    BY <2>1, <2>2, <2>3 DEF Receive
<1>4. n' = n
  BY <1>1
<1> HIDE DEF n
<1>5. Len(disconnected') <= 2 * n
  BY <1>2, <1>3
<1>6. pc' \in {"receiving", "handle_disconnects"} \/ (pc' = "handle_new_cons" /\ disconnected' = <<>>)
  BY DEF Receive, Then
<1> QED
  BY <1>3, <1>4, <1>5, <1>6 DEF QueueCount, n

LEMMA DisconnectCount ==
  ASSUME SystemInv, Places, LoopInv, QueueCount, DisconnectNext, ChatInv', [ChatNext]_chatVars
  PROVE  QueueCount'
<1>1. pc = "recv" /\ pc' = "recv" /\ ClosedOnce
  BY DEF DisconnectNext, QueueCount
<1>2. CASE UNCHANGED <<disconnected, tcp>>
  BY <1>1, <1>2, ClosedStays, ChatKinds DEF QueueCount
<1>3. ASSUME NEW c, Disconnect(c), ~UNCHANGED disconnected
      PROVE  ClosedOnce'
  <2>1. /\ c \in DOMAIN tcp /\ tcp[c] \in Conn
        /\ srvEnd \in [Conn -> EndState] /\ disconnected \in Seq(Ending)
    BY <1>3 DEF Disconnect, Alive, SystemInv, ServerInv, SocketsTypeOK, ServerTypeOK, Maps
  <2>2. /\ srvEnd[tcp[c]] = "open" /\ srvEnd' = [srvEnd EXCEPT ![tcp[c]] = "shut"]
        /\ disconnected' = Append(disconnected, [cid |-> c, status |-> "Closed"])
        /\ tcp' = tcp
    BY <1>3 DEF Disconnect, SayGoodbye, SrvCanWrite, CloseTcp, Ended
  <2>3. PICK l : l = Len(disconnected) + 1
    OBVIOUS
  <2>4. [cid |-> c, status |-> "Closed"] \in Ending
    BY <2>1 DEF Ending, Status, SystemInv, ServerInv, ServerTypeOK
  <2>5. /\ Len(disconnected') = l /\ disconnected'[l].cid = c /\ Len(disconnected) \in Nat
        /\ \A i \in 1..Len(disconnected) : disconnected'[i] = disconnected[i] /\ i # l
    BY <2>1, <2>2, <2>3, <2>4, AppendProperties, LenProperties
  <2>6. 1..Len(disconnected') = 1..Len(disconnected) \cup {l}
    BY <2>3, <2>5
  <2>7. \A i \in 1..Len(disconnected) :
          /\ disconnected[i].cid # c /\ disconnected[i].cid \in DOMAIN tcp
          /\ srvEnd'[tcp[disconnected[i].cid]] = "shut"
    BY <1>1, <2>1, <2>2 DEF ClosedOnce, SystemInv, ServerInv, ServerTypeOK
  <2>8. srvEnd'[tcp[c]] = "shut"
    BY <2>1, <2>2
  <2>9. \A i, j \in 1..Len(disconnected') : i # j => disconnected'[i].cid # disconnected'[j].cid
    BY <1>1, <2>5, <2>6, <2>7 DEF ClosedOnce
  <2>10. \A i \in 1..Len(disconnected') :
           disconnected'[i].cid \in DOMAIN tcp /\ srvEnd'[tcp[disconnected'[i].cid]] = "shut"
    BY <2>1, <2>5, <2>6, <2>7, <2>8
  <2> QED
    BY <2>2, <2>9, <2>10 DEF ClosedOnce
<1>4. UNCHANGED <<disconnected, tcp>> \/ \E c : Disconnect(c) /\ ~UNCHANGED disconnected
  BY DEF DisconnectNext, PanicWith, Disconnect
<1> QED
  BY <1>1, <1>2, <1>3, <1>4 DEF QueueCount

LEMMA QueueCountStep ==
  ASSUME ChatInv, QueueCount, [ChatNext]_chatVars
  PROVE  QueueCount'
<1>1. SystemInv /\ Places /\ LoopInv /\ ([Next]_vars \/ Relays \/ UnwrapPanics)
  BY ChatKinds DEF ChatInv
<1>2. ASSUME UNCHANGED <<disconnected, tcp>>, ClosedOnce, pc' \in {"recv", "recv_msgs"}
      PROVE  QueueCount'
  BY <1>1, <1>2, ClosedStays DEF QueueCount
<1>3. CASE Loop /\ RecvFrame
  <2>1. /\ pc' = "receiving" /\ todo' = DOMAIN tcp /\ UNCHANGED <<disconnected, tcp>>
        /\ ClosedOnce
    BY <1>1, <1>3
    DEF RecvFrame, RecvMsgs, Then, QueueCount, SystemInv, ServerInv, Maps
  <2>2. Len(disconnected) <= Cardinality(DOMAIN tcp)
    BY <1>1, <2>1, ClosedOnceBounds
  <2> QED
    BY <1>1, <2>1, <2>2, MapFinite DEF QueueCount
<1>4. CASE Loop /\ Receive
  BY <1>1, <1>4, ReceiveCount
<1>5. CASE Loop /\ HandleDisconnects
  <2>1. pc' = "reaping"
    BY <1>5 DEF HandleDisconnects, AllReaped, Then
  <2> QED
    BY <2>1 DEF QueueCount
<1>6. CASE Loop /\ ReapFrame
  <2>1. pc' = "reaping" \/ (pc' = "handle_new_cons" /\ op' = "idle")
    BY <1>6 DEF ReapFrame, Then
  <2>2. op = "reap_all"
    BY <1>1, <1>6 DEF LoopInv, Loop, ReapFrame
  <2>3. op' = "idle" => disconnected' = <<>>
    BY <1>6, <2>2 DEF ReapFrame, Reap, PanicWith
  <2> QED
    BY <2>1, <2>3 DEF QueueCount
<1>7. CASE Loop /\ (HandleNewCons \/ Settle)
  <2>1. UNCHANGED disconnected /\ disconnected = <<>> /\ pc' \in {"settling", "recv"}
    BY <1>7 DEF HandleNewCons, HandleNew, Settle, AcceptIncoming, RejectIncoming, DropDead,
       PanicWith, Then, QueueCount, serverVars
  <2>2. ClosedOnce'
    BY <2>1, EmptySeq DEF ClosedOnce
  <2> QED
    BY <2>1, <2>2 DEF QueueCount
<1>8. CASE Loop /\ (ReadMessage \/ NextFrame)
  <2>1. UNCHANGED <<disconnected, tcp>> /\ ClosedOnce /\ pc' \in {"recv", "recv_msgs"}
    BY <1>8 DEF ReadMessage, NextFrame, ClearMsgs, QueueCount, serverVars
  <2> QED
    BY <1>2, <2>1
<1>9. CASE Loop /\ DisconnectNext
  BY <1>1, <1>9, DisconnectCount, ChatStep
<1>10. CASE (\E k \in Conn : ChatClient(k)) \/ Reset \/ Timer \/ UNCHANGED chatVars
  <2>1. UNCHANGED <<pc, disconnected, tcp, todo>>
    BY <1>10 DEF ChatClient, Reset, Timer, Elapse, loopVars, chatVars, vars, serverVars
  <2>2. CASE pc \in {"recv", "recv_msgs"}
    BY <1>2, <2>1, <2>2 DEF QueueCount
  <2>3. CASE pc \notin {"recv", "recv_msgs"}
    BY <2>1, <2>3 DEF QueueCount
  <2> QED
    BY <2>2, <2>3
<1> QED
  BY <1>3, <1>4, <1>5, <1>6, <1>7, <1>8, <1>9, <1>10 DEF ChatNext, Loop

(* The queue does not grow over the frames: for any number of clients and    *)
(* whatever the queue held when recv_msgs was called, it holds at most one   *)
(* entry for each registered connection between frames and two when they    *)
(* are handled (server.rs:682-695, examples/server.rs:59).                  *)
THEOREM ChatQueueBounded == ChatSpec => []QueueBounded
<1>1. ChatInit => QueueCount
  <2> SUFFICES ASSUME ChatInit
               PROVE  QueueCount
    OBVIOUS
  <2>1. pc = "recv_msgs" /\ disconnected = <<>>
    BY DEF ChatInit, Init, ServerInit
  <2> QED
    BY <2>1, NothingQueued DEF QueueCount
<1>2. ChatInv /\ QueueCount /\ [ChatNext]_chatVars => QueueCount'
  BY QueueCountStep
<1>3. ChatInv /\ QueueCount => QueueBounded
  BY ClosedOnceBounds DEF ChatInv, QueueCount, QueueBounded
<1> QED
  BY <1>1, <1>2, <1>3, ChatInvariant, PTL DEF ChatSpec
-----------------------------------------------------------------------------
(* The messages the loop looks at, for clients with addresses of their own. *)

(* Their authors have been answered, and those that are still registered    *)
(* are so under the CId the message is filed under.                         *)
Mail == {m \in Filed : /\ ~Unanswered(m.con) /\ phase[m.con] # "idle"
                       /\ Registered(m.con) => m.cid \in DOMAIN tcp}
Requests == {m \in Mail : m.con \in Leavers}

MailInv ==
  /\ SocketAddresses /\ OwnStreams
  /\ msg_buff[UdpMsg] \in Seq(Mail)
  /\ kick \in Seq(Requests)

LEMMA MailAuthor ==
  ASSUME Places, NEW m \in Mail, Registered(m.con)
  PROVE  m.cid \in DOMAIN tcp /\ tcp[m.cid] = m.con
  BY DEF Mail, Filed

LEMMA NewMail ==
  ASSUME SystemInv, Places
  PROVE  Mine \subseteq Mail
<1> SUFFICES ASSUME NEW m \in Mine
             PROVE  m \in Mail
  OBVIOUS
<1>1. m \in Filed /\ m.cid \in DOMAIN tcp /\ tcp[m.cid] = m.con
  BY DEF Mine, Filed, SystemInv, ServerInv, Maps, CidOnce
<1>2. Registered(m.con) /\ m.con \in RegisteredCons
  BY <1>1 DEF Registered, RegisteredCons
<1>3. ~Unanswered(m.con) /\ phase[m.con] # "idle"
  BY <1>2, AnsweredOnce DEF Places
<1> QED
  BY <1>1, <1>3 DEF Mail

LEMMA MailStays ==
  ASSUME SystemInv, Places, [Next]_vars
  PROVE  Mail \subseteq Mail'
<1> SUFFICES ASSUME NEW m \in Mail
             PROVE  m \in Mail'
  OBVIOUS
<1>1. m \in Filed' /\ m \in Filed /\ m.con \in Conn /\ phase[m.con] # "idle"
      /\ ~Unanswered(m.con)
  BY FiledStep DEF Mail, Filed, Received
<1>2. PICK k \in Conn : k = m.con
  BY <1>1
<1>3. Stays(k)
  <2>1. Moves(k) /\ ~Opens(k) /\ ~Answers(k)
    BY <1>1, <1>2, EveryoneStep DEF EveryoneMoves, Opens, Answers
  <2> QED
    BY <2>1 DEF Moves, Rests, ClientMoves, ServerMoves, Breaks, Refused, Tells, Hears,
       Departs, Reads, Loses, Leaves, Drops, Reaps, Writes, Disconnects, GoesDown
<1>4. phase'[k] # "idle"
  BY <1>1, <1>2, PhaseStep DEF Forward
<1>5. ASSUME Registered(k)'
      PROVE  m.cid \in DOMAIN tcp'
  <2>1. Registered(k) /\ m.cid \in DOMAIN tcp /\ tcp[m.cid] = k
    BY <1>1, <1>2, <1>3, <1>5 DEF Stays, Mail, Filed
  <2>2. PICK c \in DOMAIN tcp' : tcp'[c] = k
    BY <1>5 DEF Registered
  <2>3. ASSUME NEW d \in DOMAIN tcp, MapsLose(d)
        PROVE  m.cid \in DOMAIN tcp'
    <3>1. tcp' = [x \in DOMAIN tcp \ {d} |-> tcp[x]]
      BY <2>3 DEF MapsLose, Delete, Restrict
    <3>2. c \in DOMAIN tcp /\ tcp[c] = k
      BY <2>2, <3>1
    <3>3. c = m.cid
      BY <2>1, <3>2 DEF Places
    <3> QED
      BY <2>2, <3>3
  <2>4. ASSUME NEW d \in CId, NEW j \in Conn, MapsGain(d, j)
        PROVE  m.cid \in DOMAIN tcp'
    BY <2>1, <2>4 DEF MapsGain, Insert
  <2> QED
    BY <2>1, <2>3, <2>4, MapsStep DEF MapsMove
<1> QED
  BY <1>1, <1>2, <1>3, <1>4, <1>5 DEF Mail, Stays

(* How cids_to_disconnect changes.                                          *)
KickMoves ==
  \/ kick' = kick
  \/ kick # <<>> /\ kick' = Tail(kick)
  \/ /\ ReadMessage /\ msg_buff[UdpMsg][next].con \in Leavers
     /\ kick' = Append(kick, msg_buff[UdpMsg][next])

LEMMA KickStep == ASSUME [ChatNext]_chatVars PROVE KickMoves
<1>1. CASE Loop
  BY <1>1 DEF Loop, RecvFrame, Receive, HandleDisconnects, ReapFrame, HandleNewCons, Settle,
     ReadMessage, DisconnectNext, NextFrame, Then, KickMoves
<1>2. CASE ~Loop
  BY <1>2, OutsideKinds DEF ChatNext, loopVars, KickMoves
<1> QED
  BY <1>1, <1>2

LEMMA MailStart == ChatInit => MailInv
<1> SUFFICES ASSUME ChatInit
             PROVE  MailInv
  OBVIOUS
<1>1. /\ tcp = <<>> /\ dgrams = {} /\ kick = <<>> /\ msg_buff[UdpMsg] = <<>>
      /\ up = [k \in Conn |-> <<>>]
  BY UserMIds DEF ChatInit, Init, SocketsInit, ServerInit
<1>2. <<>> \in Seq(Mail) /\ <<>> \in Seq(Requests) /\ \A k \in Conn : <<>> \in Seq(Own(k))
  BY EmptySeq
<1> QED
  BY <1>1, <1>2 DEF MailInv, SocketAddresses, Addressed, MapAddresses, OwnStreams

LEMMA MailStep ==
  ASSUME OwnAddresses, ChatInv, MailInv, [ChatNext]_chatVars
  PROVE  MailInv'
<1>1. SystemInv /\ Places /\ LoopInv /\ UdpMsg \in MId
  BY UserMIds DEF ChatInv
<1>2. /\ SocketAddresses' /\ OwnStreams' /\ Mail \subseteq Mail'
      /\ msg_buff'[UdpMsg] \in Seq(Mail')
  <2>1. CASE [Next]_vars
    <3>1. SocketAddresses'
      BY <1>1, <2>1, MapsStep, SocketMapsStep, DatagramsStep DEF MailInv, SocketAddresses
    <3>2. OwnStreams' /\ Mail \subseteq Mail' /\ Mine \subseteq Mail
      BY <1>1, <2>1, StreamStep, MailStays, NewMail DEF MailInv
    <3>3. msg_buff'[UdpMsg] \in {msg_buff[UdpMsg], <<>>}
                                  \cup {Append(msg_buff[UdpMsg], m) : m \in Mine}
      BY <1>1, <2>1, BufferMoves DEF MailInv
    <3> QED
      BY <3>1, <3>2, <3>3, BufferFrom DEF MailInv
  <2>2. CASE Relays
    <3>1. UNCHANGED <<tcp, cid_addr, new_cons, current_cid, backlog, up, phase, msg_buff>>
      BY <2>2 DEF Relays, ReadMessage, serverVars, clientVars
    <3>2. OwnStreams' /\ MapAddresses'
      BY <3>1 DEF OwnStreams, Own, MailInv, SocketAddresses, MapAddresses
    <3>4. UNCHANGED <<Filed, BacklogCons, PendingCons>> /\ \A j : Registered(j)' <=> Registered(j)
      BY <3>1 DEF Filed, PendingCids, BacklogCons, PendingCons, Registered
    <3>5. Mail' = Mail
      BY <3>1, <3>4 DEF Mail, Unanswered
    <3>3. Addressed("up")'
      BY <2>2 DEF Relays, ReadMessage, Relay, MailInv, SocketAddresses, Addressed
    <3> QED
      BY <3>1, <3>2, <3>3, <3>5 DEF MailInv, SocketAddresses
  <2>3. CASE UnwrapPanics
    <3>1. /\ UNCHANGED <<tcp, cid_addr, new_cons, current_cid, up, phase, msg_buff, dgrams>>
          /\ backlog' = <<>>
      BY <2>3 DEF UnwrapPanics, PanicWith, CloseAll, clientVars
    <3>2. BacklogCons' = {}
      BY <3>1, EmptySeq DEF BacklogCons
    <3>3. Mail \subseteq Mail'
      BY <3>1, <3>2 DEF Mail, Filed, PendingCids, Unanswered, PendingCons, Registered
    <3>4. SocketAddresses' /\ OwnStreams'
      BY <3>1 DEF MailInv, SocketAddresses, Addressed, MapAddresses, OwnStreams, Own
    <3>5. Seq(Mail) \subseteq Seq(Mail')
      BY <3>3, ElementOfSeq, SeqDef
    <3> QED
      BY <3>1, <3>3, <3>4, <3>5 DEF MailInv
  <2> QED
    BY <1>1, <2>1, <2>2, <2>3, ChatKinds
<1>3. kick' \in Seq(Requests)
  <2>1. ASSUME ReadMessage, msg_buff[UdpMsg][next].con \in Leavers
        PROVE  msg_buff[UdpMsg][next] \in Requests
    <3>1. next \in 1..Len(msg_buff[UdpMsg]) /\ msg_buff[UdpMsg] \in Seq(Mail)
      BY <1>1, <2>1, MessageAt DEF MailInv
    <3>2. msg_buff[UdpMsg][next] \in Mail
      BY <3>1, ElementOfSeq
    <3> QED
      BY <2>1, <3>2 DEF Requests
  <2>2. kick # <<>> => Tail(kick) \in Seq(Requests)
    BY HeadTailProperties DEF MailInv
  <2> QED
    BY <2>1, <2>2, KickStep, AppendProperties DEF KickMoves, MailInv
<1>4. Seq(Requests) \subseteq Seq(Requests')
  <2>1. Requests \subseteq Requests'
    BY <1>2 DEF Requests
  <2> QED
    BY <2>1, ElementOfSeq, SeqDef
<1> QED
  BY <1>2, <1>3, <1>4 DEF MailInv

LEMMA MailInvariant ==
  ASSUME OwnAddresses
  PROVE  ChatSpec => [](ChatInv /\ MailInv)
<1>1. ChatInit => MailInv
  BY MailStart
<1>2. ChatInv /\ MailInv /\ [ChatNext]_chatVars => MailInv'
  BY MailStep
<1> QED
  BY <1>1, <1>2, ChatInvariant, PTL DEF ChatSpec

(* In the example too a datagram is filed under the CId of the client that  *)
(* sent it, if clients have addresses of their own (server.rs:477-509).     *)
THEOREM ChatUdpAttributed ==
  ASSUME OwnAddresses
  PROVE  ChatSpec => []AttributedUdp
<1>1. MailInv => AttributedUdp
  <2>1. ASSUME MailInv
        PROVE  \A i \in 1..Len(msg_buff[UdpMsg]) : msg_buff[UdpMsg][i] \in Filed
    BY <2>1, ElementOfSeq DEF MailInv, Mail
  <2> QED
    BY <2>1 DEF AttributedUdp, Filed
<1> QED
  BY <1>1, MailInvariant, PTL
-----------------------------------------------------------------------------
(* What the clients of the example are told.                                *)

(* Nobody but a leaver is told that it is disconnected, and no user message *)
(* is sent to anybody on TCP.                                               *)
Words(k) == {m \in Msg : /\ m.mid \notin UserMsg
                         /\ m.mid = DISCONNECT_TYPE_MID => k \in Leavers}
Others(k) == [con : Conn \ (Leavers \cup {k}), n : Nat]

TalkInv ==
  /\ \A k \in Conn : down[k] \in Seq(Words(k))
  /\ \A d \in dgrams : d.dir = "down" => d.addr # AddrOf[d.con] /\ d.con \notin Leavers
  /\ OnlyAskersDisconnected
  /\ \A k \in Conn : received[k] \in [UserMsg -> Seq(Others(k))]

(* What a step can do to the stream towards k.                              *)
Talks(k) ==
  \/ down'[k] = down[k]
  \/ down[k] # <<>> /\ down'[k] = Tail(down[k])
  \/ down'[k] \in Arrived(down, k)
  \/ \E r \in {Accepted, Rejected} : down'[k] = Append(down[k], ResponseMsg(k, r))
  \/ /\ kick # <<>> /\ Head(kick).cid \in DOMAIN tcp /\ tcp[Head(kick).cid] = k
     /\ down'[k] = Append(down[k], DisconnectMsg(k))

LEMMA LoopTalks ==
  ASSUME SystemInv, Loop, NEW k \in Conn
  PROVE  Talks(k)
<1>1. /\ down \in [Conn -> Seq(Msg)] /\ new_cons \in Seq(Pending) /\ accepted \subseteq Nat
      /\ rejected \subseteq Nat /\ DOMAIN tcp = DOMAIN cid_addr /\ tcp \in [DOMAIN tcp -> Conn]
  BY DEF SystemInv, ServerInv, SocketsTypeOK, ServerTypeOK, CId, Maps, CidOnce
<1>2. ASSUME down' = down
      PROVE  Talks(k)
  BY <1>2 DEF Talks
<1>3. ASSUME NEW j \in Conn, NEW r \in {Accepted, Rejected}, Answer(j, r)
      PROVE  Talks(k)
  BY <1>1, <1>3 DEF Answer, Delivered, Talks
<1>4. CASE AcceptIncoming
  <2>1. PICK i \in accepted : AcceptIncoming!2!(i)
    BY <1>4 DEF AcceptIncoming
  <2>2. CASE PanicWith("index panic") \/ PanicWith("peer_addr panic")
    BY <1>2, <2>2 DEF PanicWith
  <2>3. CASE ~(i > Len(new_cons)) /\ ~broken[new_cons[i].con]
    <3>1. PICK j : j = new_cons[i].con
      OBVIOUS
    <3>2. j \in Conn
      BY <1>1, <2>3, <3>1, EntryTypes, LenProperties DEF SystemInv, ServerInv, ServerTypeOK, CId
    <3> QED
      BY <1>3, <2>1, <2>3, <3>1, <3>2
  <2> QED
    BY <2>1, <2>2, <2>3
<1>5. CASE RejectIncoming
  <2>1. PICK i \in rejected : RejectIncoming!2!(i)
    BY <1>5 DEF RejectIncoming
  <2>2. CASE PanicWith("index panic") \/ PanicWith("peer_addr panic")
    BY <1>2, <2>2 DEF PanicWith
  <2>3. CASE ~(i > Len(new_cons)) /\ ~broken[new_cons[i].con]
    <3>1. PICK j : j = new_cons[i].con
      OBVIOUS
    <3>2. j \in Conn
      BY <1>1, <2>3, <3>1, EntryTypes, LenProperties DEF SystemInv, ServerInv, ServerTypeOK, CId
    <3> QED
      BY <1>3, <2>1, <2>3, <3>1, <3>2
  <2> QED
    BY <2>1, <2>2, <2>3
<1>6. CASE DropDead
  BY <1>2, <1>6 DEF DropDead, PanicWith
<1>7. CASE RecvFrame \/ Receive \/ HandleDisconnects \/ ReapFrame
  BY <1>2, <1>7 DEF RecvFrame, RecvMsgs, Receive, RecvUdp, TcpYields, TcpFails, TcpWouldBlock,
     RecvTcp, HandleDisconnects, HandleDisconnect, ReapFrame, Reap, PanicWith, netVars
<1>8. CASE HandleNewCons \/ ReadMessage \/ NextFrame
  BY <1>2, <1>8 DEF HandleNewCons, HandleNew, ReadMessage, NextFrame, ClearMsgs, netVars
<1>9. CASE DisconnectNext
  <2>1. PICK c : c = Head(kick).cid
    OBVIOUS
  <2>2. CASE PanicWith("unwrap panic")
    BY <1>2, <2>2 DEF PanicWith
  <2>3. CASE Disconnect(c)
    <3>1. kick # <<>> /\ c \in DOMAIN tcp /\ tcp[c] \in Conn
      BY <1>1, <1>9, <2>3 DEF DisconnectNext, Disconnect, Alive
    <3>2. down' = Delivered(down, tcp[c], cliEnd, DisconnectMsg(tcp[c]))
      BY <2>3 DEF Disconnect, SayGoodbye
    <3> QED
      BY <1>1, <2>1, <3>1, <3>2 DEF Delivered, Talks
  <2> QED
    BY <1>9, <2>1, <2>2, <2>3 DEF DisconnectNext
<1> QED
  BY <1>4, <1>5, <1>6, <1>7, <1>8, <1>9 DEF Loop, Settle

LEMMA OutsideTalks ==
  ASSUME SystemInv, (\E j \in Conn : ChatClient(j)) \/ Reset \/ Timer \/ UNCHANGED chatVars,
         NEW k \in Conn
  PROVE  Talks(k)
<1>1. down \in [Conn -> Seq(Msg)]
  BY DEF SystemInv, ServerInv, SocketsTypeOK
<1>2. CASE Timer \/ UNCHANGED chatVars
  BY <1>2 DEF Timer, Elapse, chatVars, vars, netVars, Talks
<1>3. CASE Reset
  BY <1>1, <1>3 DEF Reset, Break, Talks
<1>4. ASSUME NEW j \in Conn, RecvResponse(j) \/ ClientTcpYields(j)
      PROVE  Talks(k)
  BY <1>1, <1>4 DEF RecvResponse, ClientTcpYields, Talks
<1>5. ASSUME NEW j \in Conn,
             \/ Connect(j) \/ SendConnection(j) \/ Fail(j) \/ SendUdp(j) \/ ClientTcpFails(j)
             \/ ClientRecvUdp(j) \/ ClientClearMsgs(j) \/ ClientDisconnect(j) \/ DropClient(j)
      PROVE  Talks(k)
  BY <1>5 DEF Connect, SendConnection, Fail, SendUdp, ClientTcpFails, ClientRecvUdp,
     ClientClearMsgs, ClientDisconnect, DropClient, netVars, Talks
<1> QED
  BY <1>2, <1>3, <1>4, <1>5 DEF ChatClient

LEMMA WordsStep ==
  ASSUME SystemInv, MailInv, NEW k \in Conn, down[k] \in Seq(Words(k)), Talks(k)
  PROVE  down'[k] \in Seq(Words(k))
<1>1. ASSUME NEW r \in {Accepted, Rejected}
      PROVE  ResponseMsg(k, r) \in Words(k)
  BY OwnMessages, MIds DEF Words, UserMsg, TcpMsg, UdpMsg, RESPONSE_TYPE_MID
<1>2. ASSUME kick # <<>>, Head(kick).cid \in DOMAIN tcp, tcp[Head(kick).cid] = k
      PROVE  DisconnectMsg(k) \in Words(k)
  <2>1. Head(kick) \in Requests
    BY <1>2, HeadTailProperties DEF MailInv
  <2>2. k \in Leavers
    BY <1>2, <2>1 DEF Requests, Mail, Filed
  <2> QED
    BY <2>2, OwnMessages, MIds DEF Words, UserMsg
<1>3. ASSUME NEW t \in Arrived(down, k)
      PROVE  t \in Seq(Words(k))
  BY <1>3, PrefixOwn DEF Arrived
<1>4. down[k] # <<>> => Tail(down[k]) \in Seq(Words(k))
  BY HeadTailProperties
<1>5. ASSUME NEW m \in Words(k)
      PROVE  Append(down[k], m) \in Seq(Words(k))
  BY AppendProperties
<1> HIDE DEF Words
<1> QED
  BY <1>1, <1>2, <1>3, <1>4, <1>5 DEF Talks

(* Datagrams towards clients are relayed messages.                          *)
LEMMA RelayedStep ==
  ASSUME OwnAddresses, ChatInv, MailInv, TalkInv, [ChatNext]_chatVars
  PROVE  \A d \in dgrams' : d.dir = "down" => d.addr # AddrOf[d.con] /\ d.con \notin Leavers
<1> SUFFICES ASSUME NEW d \in dgrams', d.dir = "down"
             PROVE  d.addr # AddrOf[d.con] /\ d.con \notin Leavers
  OBVIOUS
<1>1. CASE d \in dgrams
  BY <1>1 DEF TalkInv
<1>2. CASE d \notin dgrams /\ Loop /\ ReadMessage
  <2>1. PICK m : m = msg_buff[UdpMsg][next]
    OBVIOUS
  <2>2. m \in Mail
    <3>1. next \in 1..Len(msg_buff[UdpMsg])
      BY <1>2, MessageAt DEF ChatInv
    <3> QED
      BY <2>1, <3>1, ElementOfSeq DEF MailInv
  <2>3. m.con \notin Leavers /\ d \in Relay(m)
    BY <1>2, <2>1 DEF ReadMessage
  <2>4. PICK c \in Matches("Except", m.cid) : d.addr = cid_addr[c] /\ d.con = m.con
    BY <2>3 DEF Relay
  <2>5. c \in DOMAIN tcp /\ c # m.cid /\ tcp[c] \in Conn /\ m.con \in Conn
    BY <2>2, <2>4 DEF Matches, SpecMatches, ChatInv, SystemInv, ServerInv, ServerTypeOK, Maps,
       CidOnce, Mail, Filed, Received
  <2>6. tcp[c] # m.con
    <3> SUFFICES ASSUME tcp[c] = m.con
                 PROVE  FALSE
      OBVIOUS
    <3>1. m.cid \in DOMAIN tcp /\ tcp[m.cid] = m.con
      BY <2>2, <2>5, MailAuthor DEF Registered, ChatInv
    <3> QED
      BY <2>5, <3>1 DEF ChatInv, Places
  <2>7. d.addr = AddrOf[tcp[c]]
    BY <2>4, <2>5 DEF MailInv, SocketAddresses, MapAddresses
  <2> QED
    BY <2>3, <2>4, <2>5, <2>6, <2>7 DEF OwnAddresses
<1>3. CASE d \notin dgrams /\ Loop /\ ~ReadMessage
  <2>1. ~(RecvFrame \/ Receive \/ HandleDisconnects \/ ReapFrame)
    BY <1>3 DEF RecvFrame, RecvMsgs, Receive, RecvUdp, TcpYields, TcpFails, TcpWouldBlock,
       RecvTcp, HandleDisconnects, HandleDisconnect, ReapFrame, Reap, PanicWith, netVars
  <2>2. ~(HandleNewCons \/ Settle \/ NextFrame)
    BY <1>3 DEF HandleNewCons, HandleNew, Settle, AcceptIncoming, RejectIncoming, DropDead,
       NextFrame, ClearMsgs, PanicWith, netVars
  <2>3. ~DisconnectNext
    BY <1>3 DEF DisconnectNext, Disconnect, PanicWith
  <2> QED
    BY <1>3, <2>1, <2>2, <2>3 DEF Loop
<1>4. CASE d \notin dgrams /\ ~Loop
  <2>1. ~(Timer \/ Reset \/ UNCHANGED chatVars)
    BY <1>4 DEF Timer, Elapse, Reset, Break, chatVars, vars, netVars
  <2>2. ASSUME NEW k \in Conn, ChatClient(k)
        PROVE  SendUdp(k)
    BY <1>4, <2>2 DEF ChatClient, Connect, SendConnection, RecvResponse, Fail, ClientTcpYields,
       ClientTcpFails, ClientRecvUdp, ClientClearMsgs, ClientDisconnect, DropClient, netVars
  <2>3. \A k \in Conn : ~SendUdp(k)
    BY <1>4 DEF SendUdp
  <2> QED
    BY <1>4, <2>1, <2>2, <2>3 DEF ChatNext
<1> QED
  BY <1>1, <1>2, <1>3, <1>4

LEMMA TalkStart == ChatInit => TalkInv
<1> SUFFICES ASSUME ChatInit
             PROVE  TalkInv
  OBVIOUS
<1>1. /\ down = [k \in Conn |-> <<>>] /\ received = [k \in Conn |-> NothingReceived]
      /\ dgrams = {} /\ status = [k \in Conn |-> "Connected"]
  BY DEF ChatInit, Init, SocketsInit, ClientInit
<1>2. \A k \in Conn : <<>> \in Seq(Words(k)) /\ <<>> \in Seq(Others(k))
  BY EmptySeq
<1> QED
  BY <1>1, <1>2 DEF TalkInv, NothingReceived, OnlyAskersDisconnected

LEMMA TalkStep ==
  ASSUME OwnAddresses, ChatInv, MailInv, TalkInv, [ChatNext]_chatVars
  PROVE  TalkInv'
<1>1. SystemInv /\ Places /\ LoopInv
  BY DEF ChatInv
<1>2. \A k \in Conn : down'[k] \in Seq(Words(k))
  <2>1. \A k \in Conn : Talks(k)
    BY <1>1, LoopTalks, OutsideTalks DEF ChatNext
  <2> QED
    BY <1>1, <2>1, WordsStep DEF TalkInv
<1>3. OnlyAskersDisconnected'
  <2> SUFFICES ASSUME NEW k \in Conn, status'[k] = "Disconnected"
               PROVE  k \in Leavers
    BY DEF OnlyAskersDisconnected
  <2>1. CASE status'[k] = status[k]
    BY <2>1 DEF TalkInv, OnlyAskersDisconnected
  <2>2. CASE status'[k] # status[k] /\ [Next]_vars
    <3>1. Moves(k)
      BY <1>1, <2>2, EveryoneStep DEF EveryoneMoves
    <3>2. Reads(k)
      BY <2>2, <3>1 DEF Moves, Rests, ClientMoves, ServerMoves, Breaks, Opens, Refused, Tells,
         Hears, Departs, Loses, Leaves, Answers, Drops, Reaps, Writes, Disconnects, GoesDown
    <3>3. down[k] # <<>> /\ Head(down[k]).mid = DISCONNECT_TYPE_MID
      BY <2>2, <3>2 DEF Reads
    <3>4. Head(down[k]) \in Words(k)
      BY <3>3, HeadTailProperties DEF TalkInv
    <3> QED
      BY <3>3, <3>4 DEF Words
  <2>3. CASE Relays \/ UnwrapPanics
    BY <2>1, <2>3 DEF Relays, UnwrapPanics, clientVars
  <2> QED
    BY <1>1, <2>1, <2>2, <2>3, ChatKinds
<1>4. \A k \in Conn : received'[k] \in [UserMsg -> Seq(Others(k))]
  <2>1. CASE [Next]_vars
    <3>1. ASSUME NEW k \in Conn, NEW m \in UserMsg
          PROVE  Incoming(k, m) \subseteq Others(k)
      <4>1. ASSUME down[k] # <<>>
            PROVE  Head(down[k]).mid # m
        <5>1. Head(down[k]) \in Words(k)
          BY <4>1, HeadTailProperties DEF TalkInv
        <5> QED
          BY <5>1 DEF Words
      <4>2. \A d \in dgrams : d.dir = "down" /\ d.addr = AddrOf[k] =>
              d.con \in Conn \ (Leavers \cup {k}) /\ d.n \in Nat
        BY <1>1 DEF TalkInv, SystemInv, ServerInv, SocketsTypeOK, Datagram
      <4> QED
        BY <4>1, <4>2 DEF Incoming, Others
    <3> QED
      BY <1>1, <2>1, <3>1, ReceivedFrom DEF TalkInv
  <2>2. CASE Relays \/ UnwrapPanics
    BY <2>2 DEF Relays, UnwrapPanics, clientVars, TalkInv
  <2> QED
    BY <1>1, <2>1, <2>2, ChatKinds
<1>5. \A k \in Conn : Words(k)' = Words(k) /\ Others(k)' = Others(k)
  BY DEF Words, Others
<1> QED
  BY <1>2, <1>3, <1>4, <1>5, RelayedStep DEF TalkInv

(* "disconnect-me" (examples/server.rs:11-13): for any number of clients    *)
(* with addresses of their own, however messages, disconnects, departures   *)
(* and resets interleave, no such message reaches anybody, no message comes *)
(* back to its author, and nobody else is disconnected.                     *)
THEOREM ChatDisconnectMe ==
  ASSUME OwnAddresses
  PROVE  ChatSpec => []DisconnectMe
<1>1. ChatInit => TalkInv
  BY TalkStart
<1>2. ChatInv /\ MailInv /\ TalkInv /\ [ChatNext]_chatVars => TalkInv'
  BY TalkStep
<1>3. TalkInv => DisconnectMe
  <2> SUFFICES ASSUME TalkInv, NEW k \in Conn, NEW i \in DOMAIN received[k][UdpMsg]
               PROVE  received[k][UdpMsg][i].con \notin Leavers \cup {k}
    BY DEF TalkInv, DisconnectMe, RelayedToOthers
  <2>1. received[k][UdpMsg] \in Seq(Others(k))
    BY DEF TalkInv, UserMsg
  <2>2. received[k][UdpMsg][i] \in Others(k)
    BY <2>1, ElementOfSeq, LenProperties
  <2> QED
    BY <2>2 DEF Others
<1> QED
  BY <1>1, <1>2, <1>3, MailInvariant, PTL DEF ChatSpec
-----------------------------------------------------------------------------
(* The connections of the example, through every step of it.                *)

LEMMA ChatMoves ==
  ASSUME ChatInv, [ChatNext]_chatVars
  PROVE  EveryoneMoves /\ QueueMoves /\ CidsStay
<1>1. SystemInv /\ Places /\ LoopInv
  BY DEF ChatInv
<1>2. CASE [Next]_vars
  BY <1>1, <1>2, EveryoneStep, QueueStep, CidsStep
<1>3. CASE Relays
  <2>1. /\ UNCHANGED <<listening, backlog, up, down, cliEnd, srvEnd, broken>>
        /\ UNCHANGED <<current_cid, new_cons, disconnected, tcp, phase, resp, status>>
    BY <1>3 DEF Relays, ReadMessage, serverVars, clientVars
  <2>2. EveryoneMoves
    BY <2>1, EveryoneStays, EveryoneRests
  <2>3. CidsStay
    BY <1>1, <2>1, CidsFrame DEF PendingCids
  <2> QED
    BY <2>1, <2>2, <2>3 DEF QueueMoves
<1>4. CASE UnwrapPanics
  <2>1. /\ CloseAll /\ UNCHANGED clientVars
        /\ UNCHANGED <<up, down, cliEnd, broken, current_cid, new_cons, disconnected, tcp>>
    BY <1>4 DEF UnwrapPanics, PanicWith
  <2>2. EveryoneMoves
    BY <1>1, <2>1, GoneMoves
  <2>3. CidsStay
    BY <1>1, <2>1, CidsFrame DEF PendingCids
  <2> QED
    BY <2>1, <2>2, <2>3 DEF QueueMoves
<1> QED
  BY <1>1, <1>2, <1>3, <1>4, ChatKinds

LEMMA ChatQueueInvariant == ChatSpec => [](ChatInv /\ ConsInv /\ QueueInv)
<1>1. ChatInit => ConsInv /\ QueueInv
  BY ConsInit, QueueInit DEF ChatInit
<1>2. ChatInv /\ ConsInv /\ QueueInv /\ [ChatNext]_chatVars => ConsInv' /\ QueueInv'
  BY ChatMoves, ConsMoves, QueueInvMoves DEF ChatInv
<1> QED
  BY <1>1, <1>2, ChatInvariant, PTL DEF ChatSpec

LEMMA ChatRemoved ==
  ASSUME ChatInv, [ChatNext]_chatVars, NEW k \in Conn, Registered(k), ~Registered(k)'
  PROVE  Reaped(k)
<1>1. PICK c \in DOMAIN tcp : tcp[c] = k
  BY DEF Registered
<1>2. CASE Relays \/ UnwrapPanics
  <2>1. tcp' = tcp
    BY <1>2 DEF Relays, ReadMessage, UnwrapPanics, PanicWith, serverVars
  <2> QED
    BY <2>1 DEF Registered
<1>3. CASE [Next]_vars
  <2>1. c \notin DOMAIN tcp'
    <3> SUFFICES ASSUME c \in DOMAIN tcp'
                 PROVE  FALSE
      OBVIOUS
    <3>1. c \in 1..current_cid /\ c \notin PendingCids
      BY <1>1 DEF ChatInv, SystemInv, ServerInv, Maps, CidOnce
    <3>2. tcp'[c] = tcp[c]
      BY <3>1, ChatMoves DEF CidsStay
    <3> QED
      BY <1>1, <3>2 DEF Registered
  <2> QED
    BY <1>1, <1>3, <2>1, RemovedStep DEF ChatInv
<1> QED
  BY <1>2, <1>3, ChatKinds DEF ChatInv

(* The application disconnects k: its request is done with.                 *)
Kicked(k) ==
  /\ kick # <<>> /\ Head(kick).cid \in DOMAIN tcp /\ tcp[Head(kick).cid] = k
  /\ pc = "recv" /\ kick' = Tail(kick)
  /\ UNCHANGED <<next, dgrams, msg_buff, sent>>

(* Why the server's end of k changes.                                       *)
LEMMA EndMoves ==
  ASSUME ChatInv, [ChatNext]_chatVars, NEW k \in Conn, srvEnd'[k] # srvEnd[k]
  PROVE  phase[k] = "idle" \/ Unanswered(k) \/ ~listening' \/ Reaped(k) \/ Kicked(k)
<1> DEFINE Goal == phase[k] = "idle" \/ Unanswered(k) \/ ~listening' \/ Reaped(k) \/ Kicked(k)
<1>1. /\ SystemInv /\ LoopInv /\ srvEnd \in [Conn -> EndState] /\ tcp \in [DOMAIN tcp -> Conn]
      /\ DOMAIN tcp = DOMAIN cid_addr /\ accepted \subseteq CId /\ rejected \subseteq CId
      /\ dead \subseteq CId /\ new_cons \in Seq(Pending)
      /\ op \in {"reap_one", "reap_all"} => disconnected # <<>>
  BY DEF ChatInv, SystemInv, ServerInv, SocketsTypeOK, ServerTypeOK, Maps, CidOnce
<1>2. ASSUME NEW why, PanicWith(why)
      PROVE  Goal
  BY <1>2 DEF PanicWith, CloseAll
<1>3. ASSUME NEW i \in CId, ~(i > Len(new_cons)), CloseTcp(new_cons[i].con)
      PROVE  Goal
  <2>1. i \in 1..Len(new_cons)
    BY <1>1, <1>3, LenProperties DEF CId
  <2>2. new_cons[i].con = k
    BY <1>1, <1>3 DEF CloseTcp
  <2> QED
    BY <2>1, <2>2 DEF Unanswered, PendingCons
<1>4. CASE Loop /\ Settle
  <2>1. ~AcceptIncoming \/ \E why : PanicWith(why)
    BY DEF AcceptIncoming
  <2>2. CASE RejectIncoming
    BY <1>1, <1>2, <1>3, <2>2 DEF RejectIncoming
  <2>3. CASE DropDead
    BY <1>1, <1>2, <1>3, <2>3 DEF DropDead
  <2> QED
    BY <1>2, <1>4, <2>1, <2>2, <2>3 DEF Settle
<1>5. CASE Loop /\ ReapFrame
  <2>1. PICK c : c = Head(disconnected).cid
    OBVIOUS
  <2>2. CASE ~PanicWith("unwrap panic")
    <3>1. Alive(c) /\ CloseTcp(tcp[c]) /\ disconnected # <<>>
      BY <1>1, <1>5, <2>1, <2>2 DEF ReapFrame, Reap
    <3>2. c \in DOMAIN tcp /\ tcp[c] = k
      BY <1>1, <3>1 DEF Alive, CloseTcp
    <3> QED
      BY <2>1, <3>1, <3>2 DEF Reaped
  <2> QED
    BY <1>2, <2>2
<1>6. CASE Loop /\ DisconnectNext
  <2>1. PICK c : c = Head(kick).cid
    OBVIOUS
  <2>2. CASE ~PanicWith("unwrap panic")
    <3>1. /\ pc = "recv" /\ kick # <<>> /\ Disconnect(c) /\ next' = next
          /\ kick' = IF srvEnd' = srvEnd THEN kick ELSE Tail(kick)
      BY <1>6, <2>1, <2>2 DEF DisconnectNext
    <3>2. /\ c \in DOMAIN tcp /\ CloseTcp(tcp[c])
          /\ UNCHANGED <<dgrams, msg_buff, sent>>
      BY <1>1, <1>6, <3>1 DEF Loop, clientVars, Disconnect, Alive
    <3>3. tcp[c] = k
      BY <1>1, <3>2 DEF CloseTcp
    <3> QED
      BY <2>1, <3>1, <3>2, <3>3 DEF Kicked
  <2> QED
    BY <1>2, <2>2
<1>7. ~(RecvFrame \/ Receive \/ HandleDisconnects \/ HandleNewCons \/ ReadMessage \/ NextFrame)
  BY DEF RecvFrame, RecvMsgs, Receive, RecvUdp, TcpYields, TcpFails, TcpWouldBlock, RecvTcp,
     HandleDisconnects, HandleDisconnect, HandleNewCons, HandleNew, ReadMessage, NextFrame,
     ClearMsgs, netVars
<1>8. ~(Timer \/ Reset \/ UNCHANGED chatVars)
  BY DEF Timer, Elapse, Reset, Break, chatVars, vars, netVars
<1>9. ASSUME NEW j \in Conn, ChatClient(j)
      PROVE  Goal
  <2>1. Connect(j)
    BY <1>9 DEF ChatClient, SendConnection, RecvResponse, Fail, SendUdp, ClientTcpYields,
       ClientTcpFails, ClientRecvUdp, ClientClearMsgs, ClientDisconnect, DropClient, netVars
  <2> QED
    BY <1>1, <2>1 DEF Connect, OpenConnection
<1> QED
  BY <1>4, <1>5, <1>6, <1>7, <1>8, <1>9 DEF ChatNext, Loop
-----------------------------------------------------------------------------
(* The UDP messages of one client, by their numbers: each is in one place,  *)
(* in flight, in the buffer where the loop has not come to, or among the    *)
(* requests.                                                                *)
HeldIn(q, lo, k, n) == \E i \in lo..Len(q) : q[i].con = k /\ q[i].n = n
Distinct(q, lo) == \A i, j \in lo..Len(q) : i # j /\ q[i].con = q[j].con => q[i].n # q[j].n

Flying(k, n) == \E d \in dgrams : d.dir = "up" /\ d.con = k /\ d.n = n
Unread(k, n) == HeldIn(msg_buff[UdpMsg], next, k, n)
Asked(k, n) == HeldIn(kick, 1, k, n)
Outstanding(k, n) == Flying(k, n) \/ Unread(k, n) \/ Asked(k, n)

LEMMA HeldAppend ==
  ASSUME NEW q \in Seq(Received), NEW lo \in Nat \ {0}, NEW e \in Received, NEW q2,
         q2 = Append(q, e), lo <= Len(q) + 1
  PROVE  /\ \A k, n : HeldIn(q2, lo, k, n) <=> HeldIn(q, lo, k, n) \/ (k = e.con /\ n = e.n)
         /\ Distinct(q, lo) /\ ~HeldIn(q, lo, e.con, e.n) => Distinct(q2, lo)
<1>1. /\ Len(q) \in Nat /\ Len(q2) = Len(q) + 1 /\ q2[Len(q) + 1] = e
      /\ \A i \in 1..Len(q) : q2[i] = q[i]
  BY AppendProperties, LenProperties
<1>2. lo..Len(q2) = (lo..Len(q)) \cup {Len(q) + 1}
  BY <1>1
<1>3. \A i \in lo..Len(q) : q2[i] = q[i] /\ i # Len(q) + 1
  BY <1>1
<1>4. \A k, n : HeldIn(q2, lo, k, n) <=> HeldIn(q, lo, k, n) \/ (k = e.con /\ n = e.n)
  BY <1>1, <1>2, <1>3 DEF HeldIn
<1>5. Distinct(q, lo) /\ ~HeldIn(q, lo, e.con, e.n) => Distinct(q2, lo)
  BY <1>1, <1>2, <1>3 DEF HeldIn, Distinct
<1> QED
  BY <1>4, <1>5

LEMMA HeldNext ==
  ASSUME NEW q \in Seq(Received), NEW lo \in 1..Len(q), Distinct(q, lo)
  PROVE  /\ Distinct(q, lo + 1)
         /\ \A k, n : HeldIn(q, lo + 1, k, n) =>
              HeldIn(q, lo, k, n) /\ ~(k = q[lo].con /\ n = q[lo].n)
         /\ HeldIn(q, lo, q[lo].con, q[lo].n)
<1>1. Len(q) \in Nat /\ lo \in Nat
  BY LenProperties
<1>2. lo..Len(q) = ((lo + 1)..Len(q)) \cup {lo} /\ \A i \in (lo + 1)..Len(q) : i # lo
  BY <1>1
<1> QED
  BY <1>2 DEF HeldIn, Distinct

LEMMA HeldTail ==
  ASSUME NEW q \in Seq(Received), q # <<>>, Distinct(q, 1), NEW t, t = Tail(q)
  PROVE  /\ Distinct(t, 1)
         /\ \A k, n : HeldIn(t, 1, k, n) =>
              HeldIn(q, 1, k, n) /\ ~(k = Head(q).con /\ n = Head(q).n)
         /\ HeldIn(q, 1, Head(q).con, Head(q).n)
<1>1. /\ Len(q) \in Nat \ {0} /\ Len(t) = Len(q) - 1 /\ Head(q) = q[1]
      /\ \A i \in 1..Len(t) : t[i] = q[i + 1]
  BY HeadTailProperties, LenProperties, EmptySeq
<1>2. \A i \in 1..Len(t) : i + 1 \in 1..Len(q) /\ i + 1 # 1 /\ t[i] = q[i + 1]
  BY <1>1
<1>3. \A i, j \in 1..Len(t) : i # j => i + 1 # j + 1
  BY <1>1
<1>4. 1 \in 1..Len(q)
  BY <1>1
<1>5. Distinct(t, 1)
  BY <1>2, <1>3 DEF Distinct
<1>6. ASSUME NEW k, NEW n, HeldIn(t, 1, k, n)
      PROVE  HeldIn(q, 1, k, n) /\ ~(k = Head(q).con /\ n = Head(q).n)
  <2>1. PICK i \in 1..Len(t) : t[i].con = k /\ t[i].n = n
    BY <1>6 DEF HeldIn
  <2>2. PICK j \in 1..Len(q) : j = i + 1 /\ j # 1 /\ q[j].con = k /\ q[j].n = n
    BY <1>2, <2>1
  <2> QED
    BY <1>1, <1>4, <2>2 DEF HeldIn, Distinct
<1> QED
  BY <1>1, <1>4, <1>5, <1>6 DEF HeldIn

LEMMA HeldNone ==
  ASSUME NEW lo \in Nat \ {0}
  PROVE  Distinct(<<>>, lo) /\ \A k, n : ~HeldIn(<<>>, lo, k, n)
<1>1. lo..Len(<<>>) = {}
  BY EmptySeq
<1> QED
  BY <1>1 DEF Distinct, HeldIn

Apart ==
  /\ next <= Len(msg_buff[UdpMsg]) + 1
  /\ Distinct(msg_buff[UdpMsg], next) /\ Distinct(kick, 1)
  /\ \A k \in Conn, n \in Nat :
       /\ ~(Unread(k, n) /\ Asked(k, n)) /\ ~(Flying(k, n) /\ (Unread(k, n) \/ Asked(k, n)))
       /\ Outstanding(k, n) => n \in 1..sent[k][UdpMsg]

OnceInv == Apart /\ (pc # "recv" => next = 1 /\ kick = <<>>)

(* What a step can do to them.                                              *)
SameBooks == UNCHANGED <<next, kick>> /\ msg_buff'[UdpMsg] = msg_buff[UdpMsg]
SameCount == \A k \in Conn : sent'[k][UdpMsg] = sent[k][UdpMsg]
SameFlying == \A k, n : Flying(k, n)' <=> Flying(k, n)

Posts(j) ==
  /\ SameBooks
  /\ \A k \in Conn : sent'[k][UdpMsg] = IF k = j THEN sent[k][UdpMsg] + 1 ELSE sent[k][UdpMsg]
  /\ \A k, n : Flying(k, n)' <=> Flying(k, n) \/ (k = j /\ n = sent[j][UdpMsg] + 1)

Arrives(d) ==
  /\ d.dir = "up" /\ pc = "receiving" /\ UNCHANGED <<next, kick>> /\ SameCount
  /\ \/ msg_buff'[UdpMsg] = msg_buff[UdpMsg]
     \/ \E e \in Received : /\ e.con = d.con /\ e.n = d.n
                            /\ msg_buff'[UdpMsg] = Append(msg_buff[UdpMsg], e)
  /\ \A k, n : Flying(k, n)' <=> Flying(k, n) /\ ~(k = d.con /\ n = d.n)

LooksAt ==
  /\ next \in 1..Len(msg_buff[UdpMsg]) /\ next' = next + 1
  /\ kick' \in {kick, Append(kick, msg_buff[UdpMsg][next])}
  /\ msg_buff'[UdpMsg] = msg_buff[UdpMsg] /\ SameCount /\ SameFlying

Grants ==
  /\ kick # <<>> /\ kick' = Tail(kick)
  /\ next' = next /\ msg_buff'[UdpMsg] = msg_buff[UdpMsg] /\ SameCount /\ SameFlying

Starts ==
  /\ kick = <<>> /\ kick' = <<>> /\ next' = 1 /\ msg_buff'[UdpMsg] = <<>>
  /\ SameCount /\ SameFlying

LetterMoves ==
  \/ SameBooks /\ SameCount /\ SameFlying
  \/ \E j \in Conn : Posts(j)
  \/ \E d \in dgrams : Arrives(d)
  \/ LooksAt \/ Grants \/ Starts

(* No number comes back.                                                    *)
NoneReturns ==
  \A k \in Conn :
    /\ sent'[k][UdpMsg] >= sent[k][UdpMsg]
    /\ \A n \in 1..sent[k][UdpMsg] : Outstanding(k, n)' => Outstanding(k, n)

LEMMA BooksTyped ==
  ASSUME SystemInv, LoopInv
  PROVE  /\ msg_buff[UdpMsg] \in Seq(Received) /\ kick \in Seq(Received)
         /\ Len(msg_buff[UdpMsg]) \in Nat /\ next \in Nat \ {0}
         /\ \A k \in Conn : sent[k][UdpMsg] \in Nat
         /\ \A d \in dgrams : d.con \in Conn /\ d.n \in Nat
<1>1. msg_buff[UdpMsg] \in Seq(Received)
  BY UserMIds DEF SystemInv, ServerInv, ServerTypeOK
<1>2. \A k \in Conn : sent[k][UdpMsg] \in Nat
  BY DEF SystemInv, ClientTypeOK, UserMsg
<1>3. \A d \in dgrams : d.con \in Conn /\ d.n \in Nat
  BY DEF SystemInv, ServerInv, SocketsTypeOK, Datagram
<1> QED
  BY <1>1, <1>2, <1>3, LenProperties DEF LoopInv

LEMMA SameLetters ==
  ASSUME SystemInv, LoopInv, OnceInv, SameBooks,
         (SameCount /\ SameFlying) \/ (\E j \in Conn : Posts(j))
  PROVE  Apart' /\ NoneReturns
<1>1. /\ \A k, n : (Unread(k, n)' <=> Unread(k, n)) /\ (Asked(k, n)' <=> Asked(k, n))
      /\ next' <= Len(msg_buff'[UdpMsg]) + 1
      /\ Distinct(msg_buff'[UdpMsg], next') /\ Distinct(kick', 1)
  BY DEF SameBooks, Unread, Asked, HeldIn, OnceInv, Apart
<1>2. \A k \in Conn : sent[k][UdpMsg] \in Nat
  BY BooksTyped
<1>3. CASE SameCount /\ SameFlying
  <2>1. \A k, n : Outstanding(k, n)' <=> Outstanding(k, n)
    BY <1>1, <1>3 DEF SameFlying, Outstanding
  <2>2. \A k \in Conn : sent'[k][UdpMsg] = sent[k][UdpMsg]
    BY <1>3 DEF SameCount
  <2> QED
    BY <1>1, <1>2, <1>3, <2>1, <2>2 DEF SameFlying, Apart, OnceInv, NoneReturns
<1>4. ASSUME NEW j \in Conn, Posts(j)
      PROVE  Apart' /\ NoneReturns
  <2>1. \A k \in Conn : /\ sent'[k][UdpMsg] \in Nat /\ sent'[k][UdpMsg] >= sent[k][UdpMsg]
                        /\ k = j => sent'[k][UdpMsg] = sent[k][UdpMsg] + 1
    BY <1>2, <1>4 DEF Posts
  <2>2. \A k, n : Outstanding(k, n)' <=>
                    Outstanding(k, n) \/ (k = j /\ n = sent[j][UdpMsg] + 1)
    BY <1>1, <1>4 DEF Posts, Outstanding
  <2>3. \A n \in Nat : n = sent[j][UdpMsg] + 1 => ~Outstanding(j, n)
    BY <1>2 DEF OnceInv, Apart
  <2>4. ASSUME NEW k \in Conn, NEW n \in Nat
        PROVE  /\ ~(Unread(k, n)' /\ Asked(k, n)')
               /\ ~(Flying(k, n)' /\ (Unread(k, n)' \/ Asked(k, n)'))
               /\ Outstanding(k, n)' => n \in 1..sent'[k][UdpMsg]
    <3>1. /\ ~(Unread(k, n)' /\ Asked(k, n)')
          /\ ~(Flying(k, n)' /\ (Unread(k, n)' \/ Asked(k, n)'))
      BY <1>1, <1>4, <2>3 DEF Posts, OnceInv, Apart, Outstanding
    <3>2. Outstanding(k, n)' => n \in 1..sent'[k][UdpMsg]
      <4>1. CASE Outstanding(k, n)
        BY <1>2, <2>1, <4>1 DEF OnceInv, Apart
      <4>2. CASE k = j /\ n = sent[j][UdpMsg] + 1
        BY <1>2, <2>1, <4>2
      <4> QED
        BY <2>2, <4>1, <4>2
    <3> QED
      BY <3>1, <3>2
  <2>5. NoneReturns
    BY <1>2, <2>1, <2>2 DEF NoneReturns
  <2> QED
    BY <1>1, <2>4, <2>5 DEF Apart
<1> QED
  BY <1>3, <1>4

LEMMA LettersArrive ==
  ASSUME SystemInv, LoopInv, OnceInv, NEW d \in dgrams, Arrives(d)
  PROVE  Apart' /\ NoneReturns
<1>1. /\ next = 1 /\ kick = <<>> /\ next' = 1 /\ kick' = <<>>
      /\ \A k \in Conn : sent[k][UdpMsg] \in Nat /\ sent'[k][UdpMsg] = sent[k][UdpMsg]
  BY BooksTyped DEF Arrives, OnceInv, Apart, SameCount
<1>2. Flying(d.con, d.n) /\ d.con \in Conn /\ d.n \in Nat
  BY BooksTyped DEF Arrives, Flying
<1>3. ~Unread(d.con, d.n) /\ (\A k, n : ~Asked(k, n) /\ ~Asked(k, n)')
  BY <1>1, <1>2, HeldNone DEF OnceInv, Apart, Asked
<1>4. /\ \A k, n : Unread(k, n)' => Unread(k, n) \/ (k = d.con /\ n = d.n)
      /\ Distinct(msg_buff'[UdpMsg], 1) /\ 1 <= Len(msg_buff'[UdpMsg]) + 1
  <2>1. CASE msg_buff'[UdpMsg] = msg_buff[UdpMsg]
    BY <1>1, <2>1 DEF Unread, HeldIn, OnceInv, Apart
  <2>2. ASSUME NEW e \in Received, e.con = d.con, e.n = d.n,
               msg_buff'[UdpMsg] = Append(msg_buff[UdpMsg], e)
        PROVE  /\ \A k, n : Unread(k, n)' => Unread(k, n) \/ (k = d.con /\ n = d.n)
               /\ Distinct(msg_buff'[UdpMsg], 1) /\ 1 <= Len(msg_buff'[UdpMsg]) + 1
    <3>1. PICK q, q2 :
            /\ q \in Seq(Received) /\ q = msg_buff[UdpMsg]
            /\ q2 = msg_buff'[UdpMsg] /\ q2 = Append(q, e) /\ Len(q) \in Nat /\ Distinct(q, 1)
      BY <1>1, <2>2, BooksTyped DEF OnceInv, Apart
    <3>2. ~HeldIn(q, 1, e.con, e.n) /\ 1 \in Nat \ {0} /\ 1 <= Len(q) + 1
      BY <1>1, <1>3, <2>2, <3>1 DEF Unread
    <3>3. /\ \A k, n : HeldIn(q2, 1, k, n) <=> HeldIn(q, 1, k, n) \/ (k = e.con /\ n = e.n)
          /\ Distinct(q2, 1)
      BY <2>2, <3>1, <3>2, HeldAppend
    <3>4. Len(q2) = Len(q) + 1
      BY <3>1, AppendProperties
    <3>5. \A k, n : (Unread(k, n) <=> HeldIn(q, 1, k, n)) /\ (Unread(k, n)' <=> HeldIn(q2, 1, k, n))
      BY <1>1, <3>1 DEF Unread, HeldIn
    <3> QED
      BY <2>2, <3>1, <3>3, <3>4, <3>5
  <2> QED
    BY <2>1, <2>2 DEF Arrives
<1>5. \A k, n : Flying(k, n)' <=> Flying(k, n) /\ ~(k = d.con /\ n = d.n)
  BY DEF Arrives
<1>6. \A k, n : Outstanding(k, n)' => Outstanding(k, n)
  BY <1>2, <1>3, <1>4, <1>5 DEF Outstanding
<1>7. NoneReturns
  BY <1>1, <1>6 DEF NoneReturns
<1>8. \A k \in Conn, n \in Nat :
        /\ ~(Unread(k, n)' /\ Asked(k, n)')
        /\ ~(Flying(k, n)' /\ (Unread(k, n)' \/ Asked(k, n)'))
  BY <1>3, <1>4, <1>5 DEF OnceInv, Apart
<1>9. \A k \in Conn, n \in Nat : Outstanding(k, n)' => n \in 1..sent'[k][UdpMsg]
  BY <1>1, <1>6 DEF OnceInv, Apart
<1>10. Distinct(kick', 1)
  BY <1>1, HeldNone
<1> QED
  BY <1>1, <1>4, <1>7, <1>8, <1>9, <1>10 DEF Apart

LEMMA LettersRead ==
  ASSUME SystemInv, LoopInv, OnceInv, LooksAt
  PROVE  Apart' /\ NoneReturns
<1>1. /\ \A k \in Conn : sent[k][UdpMsg] \in Nat /\ sent'[k][UdpMsg] = sent[k][UdpMsg]
      /\ \A k, n : Flying(k, n)' <=> Flying(k, n)
  BY BooksTyped DEF LooksAt, SameCount, SameFlying
<1>2. PICK q \in Seq(Received), m \in Received :
        /\ q = msg_buff[UdpMsg] /\ q = msg_buff'[UdpMsg] /\ m = q[next]
        /\ Len(q) \in Nat /\ next \in 1..Len(q) /\ next' = next + 1 /\ Distinct(q, next)
  BY BooksTyped, ElementOfSeq DEF LooksAt, OnceInv, Apart
<1>3. /\ Distinct(q, next + 1)
      /\ \A k, n : HeldIn(q, next + 1, k, n) =>
           HeldIn(q, next, k, n) /\ ~(k = m.con /\ n = m.n)
      /\ HeldIn(q, next, m.con, m.n)
  BY <1>2, HeldNext
<1>4. /\ \A k, n : Unread(k, n)' => Unread(k, n) /\ ~(k = m.con /\ n = m.n)
      /\ Unread(m.con, m.n) /\ m.con \in Conn /\ m.n \in Nat
      /\ Distinct(msg_buff'[UdpMsg], next') /\ next' <= Len(msg_buff'[UdpMsg]) + 1
  <2>1. \A k, n : (Unread(k, n) <=> HeldIn(q, next, k, n))
                  /\ (Unread(k, n)' <=> HeldIn(q, next + 1, k, n))
    BY <1>2 DEF Unread, HeldIn
  <2> QED
    BY <1>2, <1>3, <2>1 DEF Received
<1>5. /\ \A k, n : Asked(k, n)' => Asked(k, n) \/ (k = m.con /\ n = m.n)
      /\ Distinct(kick', 1)
  <2>1. CASE kick' = kick
    BY <2>1 DEF Asked, HeldIn, OnceInv, Apart
  <2>2. CASE kick' = Append(kick, m)
    <3>1. kick \in Seq(Received) /\ Len(kick) \in Nat
      BY BooksTyped, LenProperties
    <3>2. ~HeldIn(kick, 1, m.con, m.n) /\ Distinct(kick, 1)
      BY <1>4 DEF OnceInv, Apart, Asked
    <3>3. PICK q2 : q2 = kick'
      OBVIOUS
    <3>4. q2 = Append(kick, m) /\ 1 \in Nat \ {0} /\ 1 <= Len(kick) + 1
      BY <2>2, <3>1, <3>3
    <3>5. /\ \A k, n : HeldIn(q2, 1, k, n) <=> HeldIn(kick, 1, k, n) \/ (k = m.con /\ n = m.n)
          /\ Distinct(q2, 1)
      BY <3>1, <3>2, <3>4, HeldAppend
    <3> QED
      BY <3>3, <3>5 DEF Asked
  <2> QED
    BY <1>2, <2>1, <2>2 DEF LooksAt
<1>6. \A k, n : Outstanding(k, n)' => Outstanding(k, n)
  BY <1>1, <1>4, <1>5 DEF Outstanding
<1>7. NoneReturns
  BY <1>1, <1>6 DEF NoneReturns
<1>8. \A k \in Conn, n \in Nat :
        /\ ~(Unread(k, n)' /\ Asked(k, n)')
        /\ ~(Flying(k, n)' /\ (Unread(k, n)' \/ Asked(k, n)'))
  BY <1>1, <1>4, <1>5 DEF OnceInv, Apart
<1>9. \A k \in Conn, n \in Nat : Outstanding(k, n)' => n \in 1..sent'[k][UdpMsg]
  BY <1>1, <1>6 DEF OnceInv, Apart
<1> QED
  BY <1>4, <1>5, <1>7, <1>8, <1>9 DEF Apart

LEMMA LetterGranted ==
  ASSUME SystemInv, LoopInv, OnceInv, Grants
  PROVE  Apart' /\ NoneReturns /\ \A m : m = Head(kick) => ~Outstanding(m.con, m.n)'
<1>1. /\ \A k \in Conn : sent[k][UdpMsg] \in Nat /\ sent'[k][UdpMsg] = sent[k][UdpMsg]
      /\ \A k, n : Flying(k, n)' <=> Flying(k, n)
      /\ \A k, n : Unread(k, n)' <=> Unread(k, n)
      /\ Distinct(msg_buff'[UdpMsg], next') /\ next' <= Len(msg_buff'[UdpMsg]) + 1
  BY BooksTyped DEF Grants, SameCount, SameFlying, Unread, HeldIn, OnceInv, Apart
<1>2. kick \in Seq(Received) /\ kick # <<>> /\ Distinct(kick, 1) /\ kick' = Tail(kick)
  BY BooksTyped DEF Grants, OnceInv, Apart
<1>3. PICK m \in Received : m = Head(kick)
  BY <1>2, HeadTailProperties
<1>4. /\ \A k, n : Asked(k, n)' => Asked(k, n) /\ ~(k = m.con /\ n = m.n)
      /\ Asked(m.con, m.n) /\ m.con \in Conn /\ m.n \in Nat /\ Distinct(kick', 1)
  BY <1>2, <1>3, HeldTail DEF Asked, Received
<1>5. \A k, n : Outstanding(k, n)' => Outstanding(k, n)
  BY <1>1, <1>4 DEF Outstanding
<1>6. ~Outstanding(m.con, m.n)'
  BY <1>1, <1>4 DEF Outstanding, OnceInv, Apart
<1>7. NoneReturns
  BY <1>1, <1>5 DEF NoneReturns
<1>8. \A k \in Conn, n \in Nat :
        /\ ~(Unread(k, n)' /\ Asked(k, n)')
        /\ ~(Flying(k, n)' /\ (Unread(k, n)' \/ Asked(k, n)'))
  BY <1>1, <1>4 DEF OnceInv, Apart
<1>9. \A k \in Conn, n \in Nat : Outstanding(k, n)' => n \in 1..sent'[k][UdpMsg]
  BY <1>1, <1>5 DEF OnceInv, Apart
<1> QED
  BY <1>1, <1>3, <1>4, <1>6, <1>7, <1>8, <1>9 DEF Apart

LEMMA LettersCleared ==
  ASSUME SystemInv, LoopInv, OnceInv, Starts
  PROVE  Apart' /\ NoneReturns
<1>1. /\ \A k \in Conn : sent[k][UdpMsg] \in Nat /\ sent'[k][UdpMsg] = sent[k][UdpMsg]
      /\ \A k, n : Flying(k, n)' <=> Flying(k, n)
      /\ msg_buff'[UdpMsg] = <<>> /\ kick' = <<>> /\ next' = 1
  BY BooksTyped DEF Starts, SameCount, SameFlying
<1>2. \A k, n : ~Unread(k, n)' /\ ~Asked(k, n)'
  BY <1>1, HeldNone DEF Unread, Asked
<1>3. Distinct(msg_buff'[UdpMsg], next') /\ Distinct(kick', 1)
      /\ next' <= Len(msg_buff'[UdpMsg]) + 1
  BY <1>1, HeldNone, EmptySeq
<1>4. \A k, n : Outstanding(k, n)' => Outstanding(k, n)
  BY <1>1, <1>2 DEF Outstanding
<1>5. NoneReturns
  BY <1>1, <1>4 DEF NoneReturns
<1>6. \A k \in Conn, n \in Nat : Outstanding(k, n)' => n \in 1..sent'[k][UdpMsg]
  BY <1>1, <1>4 DEF OnceInv, Apart
<1> QED
  BY <1>2, <1>3, <1>5, <1>6 DEF Apart

(* Every step of the example is one of these.                               *)
LEMMA FlyingStays == ASSUME UNCHANGED dgrams PROVE SameFlying
  BY DEF SameFlying, Flying

LEMMA CountStays == ASSUME UNCHANGED sent PROVE SameCount
  BY DEF SameCount

LEMMA ReceiveLetters ==
  ASSUME ChatInv, MailInv, Loop, Receive
  PROVE  LetterMoves
<1>1. pc = "receiving" /\ UNCHANGED <<next, kick, sent>>
  BY DEF Receive, Then, Loop, clientVars
<1>2. SystemInv /\ LoopInv /\ UdpMsg \in MId /\ msg_buff \in [MId -> Seq(Received)]
  BY UserMIds DEF ChatInv, SystemInv, ServerInv, ServerTypeOK
<1>3. CASE RecvUdp
  <2>1. CASE UNCHANGED <<dgrams, msg_buff>>
    BY <1>1, <2>1, FlyingStays, CountStays DEF LetterMoves, SameBooks
  <2>2. ASSUME NEW d \in dgrams, d.dir = "up", dgrams' = dgrams \ {d},
               UNCHANGED msg_buff \/ (\E c \in CId : Buffer(UdpMsg, c, d))
        PROVE  LetterMoves
    <3>1. \A e \in dgrams : e.dir = "up" /\ e.con = d.con /\ e.n = d.n => e = d
      <4>1. \A e \in dgrams : /\ e \in Datagram
                              /\ e = [dir |-> e.dir, addr |-> e.addr, con |-> e.con, n |-> e.n]
        BY <1>2 DEF SystemInv, ServerInv, SocketsTypeOK, Datagram
      <4>2. \A e \in dgrams : e.dir = "up" => e.addr = AddrOf[e.con]
        BY DEF MailInv, Mail, SocketAddresses, Addressed
      <4> QED
        BY <2>2, <4>1, <4>2
    <3>2. \A k, n : Flying(k, n)' <=> Flying(k, n) /\ ~(k = d.con /\ n = d.n)
      BY <2>2, <3>1 DEF Flying
    <3>3. \/ msg_buff'[UdpMsg] = msg_buff[UdpMsg]
          \/ \E e \in Received : /\ e.con = d.con /\ e.n = d.n
                                 /\ msg_buff'[UdpMsg] = Append(msg_buff[UdpMsg], e)
      <4>1. ASSUME NEW c \in CId, Buffer(UdpMsg, c, d)
            PROVE  \E e \in Received : /\ e.con = d.con /\ e.n = d.n
                                       /\ msg_buff'[UdpMsg] = Append(msg_buff[UdpMsg], e)
        <5>1. [cid |-> c, con |-> d.con, n |-> d.n] \in Received
          BY <1>2, BooksTyped DEF Received
        <5> QED
          BY <1>2, <4>1, <5>1 DEF Buffer
      <4> QED
        BY <2>2, <4>1
    <3> QED
      BY <1>1, <2>2, <3>2, <3>3, CountStays DEF Arrives, LetterMoves
  <2>3. \A a \in DOMAIN addr_cid : addr_cid[a] \in CId
    BY <1>2 DEF SystemInv, ServerInv, ServerTypeOK
  <2> QED
    BY <1>3, <2>1, <2>2, <2>3 DEF RecvUdp
<1>4. ASSUME NEW c \in todo, TcpYields(c) \/ TcpFails(c) \/ TcpWouldBlock(c)
      PROVE  LetterMoves
  <2>1. tcp[c] \in Conn
    BY <1>2 DEF SystemInv, ServerInv, ServerTypeOK, Maps
  <2>2. PICK m : m = Head(up[tcp[c]])
    OBVIOUS
  <2>3. TcpYields(c) => m.mid # UdpMsg
    BY <2>1, <2>2, TailOwn DEF TcpYields, MailInv, Own
  <2>4. msg_buff'[UdpMsg] = msg_buff[UdpMsg]
    BY <1>2, <1>4, <2>2, <2>3 DEF TcpYields, TcpFails, TcpWouldBlock, Buffer
  <2>5. UNCHANGED dgrams
    BY <1>4 DEF TcpYields, TcpFails, TcpWouldBlock, RecvTcp
  <2> QED
    BY <1>1, <2>4, <2>5, FlyingStays, CountStays DEF LetterMoves, SameBooks
<1> QED
  BY <1>3, <1>4 DEF Receive

LEMMA LoopLetters ==
  ASSUME ChatInv, MailInv, Loop
  PROVE  LetterMoves
<1>1. UNCHANGED sent /\ SameCount
  BY CountStays DEF Loop, clientVars
<1>2. ASSUME UNCHANGED <<next, kick, msg_buff, dgrams>>
      PROVE  LetterMoves
  BY <1>1, <1>2, FlyingStays DEF LetterMoves, SameBooks
<1>3. CASE RecvFrame \/ HandleDisconnects \/ ReapFrame
  BY <1>2, <1>3 DEF RecvFrame, RecvMsgs, HandleDisconnects, HandleDisconnect, ReapFrame, Reap,
     Then, PanicWith, netVars
<1>4. CASE HandleNewCons \/ Settle
  BY <1>2, <1>4 DEF HandleNewCons, HandleNew, Settle, AcceptIncoming, RejectIncoming, DropDead,
     Then, PanicWith, netVars, serverVars
<1>5. CASE DisconnectNext
  <2>1. UNCHANGED <<next, msg_buff, dgrams>> /\ kick # <<>> /\ kick' \in {kick, Tail(kick)}
    BY <1>5 DEF DisconnectNext, PanicWith, Disconnect
  <2> QED
    BY <1>1, <1>2, <2>1, FlyingStays DEF LetterMoves, Grants
<1>6. CASE ReadMessage
  <2>1. /\ next \in 1..Len(msg_buff[UdpMsg]) /\ next' = next + 1 /\ UNCHANGED msg_buff
        /\ kick' \in {kick, Append(kick, msg_buff[UdpMsg][next])}
    BY <1>6, MessageAt DEF ReadMessage, serverVars, ChatInv
  <2>2. SameFlying
    BY <1>6 DEF ReadMessage, Relay, SameFlying, Flying
  <2> QED
    BY <1>1, <2>1, <2>2 DEF LetterMoves, LooksAt
<1>7. CASE NextFrame
  <2>1. kick = <<>> /\ kick' = <<>> /\ next' = 1 /\ UNCHANGED dgrams /\ msg_buff'[UdpMsg] = <<>>
    BY <1>7, UserMIds DEF NextFrame, ClearMsgs, Emptied, netVars
  <2> QED
    BY <1>1, <2>1, FlyingStays DEF LetterMoves, Starts
<1> QED
  BY <1>3, <1>4, <1>5, <1>6, <1>7, ReceiveLetters DEF Loop

LEMMA OutsideLetters ==
  ASSUME ChatInv, (\E j \in Conn : ChatClient(j)) \/ Reset \/ Timer \/ UNCHANGED chatVars
  PROVE  LetterMoves
<1>1. UNCHANGED <<next, kick, msg_buff>>
  BY DEF ChatClient, Reset, Timer, Elapse, chatVars, vars, serverVars, loopVars
<1>2. ASSUME UNCHANGED <<dgrams, sent>>
      PROVE  LetterMoves
  BY <1>1, <1>2, FlyingStays, CountStays DEF LetterMoves, SameBooks
<1>3. CASE Reset \/ Timer \/ UNCHANGED chatVars
  BY <1>2, <1>3 DEF Reset, Break, Timer, Elapse, chatVars, vars, netVars, clientVars
<1>4. ASSUME NEW j \in Conn, SendUdp(j)
      PROVE  LetterMoves
  <2>1. PICK v : v = sent[j][UdpMsg] + 1
    OBVIOUS
  <2>2. /\ sent \in [Conn -> [UserMsg -> Nat]] /\ UdpMsg \in UserMsg
        /\ sent' = [sent EXCEPT ![j] = [sent[j] EXCEPT ![UdpMsg] = v]]
    BY <1>4, <2>1 DEF SendUdp, ChatInv, SystemInv, ClientTypeOK, UserMsg
  <2>3. \A k \in Conn :
          sent'[k][UdpMsg] = IF k = j THEN sent[k][UdpMsg] + 1 ELSE sent[k][UdpMsg]
    BY <2>1, <2>2
  <2>4. dgrams' = dgrams \cup {[dir |-> "up", addr |-> AddrOf[j], con |-> j, n |-> v]}
    BY <1>4, <2>1, <2>3 DEF SendUdp
  <2>5. \A k, n : Flying(k, n)' <=> Flying(k, n) \/ (k = j /\ n = v)
    <3>1. PICK d : d = [dir |-> "up", addr |-> AddrOf[j], con |-> j, n |-> v]
      OBVIOUS
    <3>2. d.dir = "up" /\ d.con = j /\ d.n = v
      BY <3>1
    <3>3. \A e : e \in dgrams' <=> e \in dgrams \/ e = d
      BY <2>4, <3>1
    <3> QED
      BY <3>2, <3>3 DEF Flying
  <2> QED
    BY <1>1, <2>1, <2>3, <2>5 DEF Posts, SameBooks, LetterMoves
<1>5. ASSUME NEW j \in Conn, ClientRecvUdp(j)
      PROVE  LetterMoves
  <2>1. UNCHANGED sent /\ \E d \in dgrams : d.dir = "down" /\ dgrams' = dgrams \ {d}
    BY <1>5 DEF ClientRecvUdp
  <2>2. SameFlying
    BY <2>1 DEF SameFlying, Flying
  <2> QED
    BY <1>1, <2>1, <2>2, CountStays DEF LetterMoves, SameBooks
<1>6. ASSUME NEW j \in Conn,
             \/ Connect(j) \/ SendConnection(j) \/ RecvResponse(j) \/ Fail(j)
             \/ ClientTcpYields(j) \/ ClientTcpFails(j) \/ ClientClearMsgs(j)
             \/ ClientDisconnect(j) \/ DropClient(j)
      PROVE  LetterMoves
  BY <1>2, <1>6 DEF Connect, SendConnection, RecvResponse, Fail, ClientTcpYields,
     ClientTcpFails, ClientClearMsgs, ClientDisconnect, DropClient, netVars
<1> QED
  BY <1>3, <1>4, <1>5, <1>6 DEF ChatClient

LEMMA OnceStep ==
  ASSUME ChatInv, MailInv, OnceInv, [ChatNext]_chatVars
  PROVE  OnceInv' /\ NoneReturns
<1>1. SystemInv /\ LoopInv /\ LetterMoves
  BY LoopLetters, OutsideLetters DEF ChatInv, ChatNext
<1>2. Apart' /\ NoneReturns
  <2>1. CASE SameBooks /\ SameCount /\ SameFlying
    BY <1>1, <2>1, SameLetters
  <2>2. ASSUME NEW j \in Conn, Posts(j)
        PROVE  Apart' /\ NoneReturns
    <3>1. SameBooks
      BY <2>2 DEF Posts
    <3> QED
      BY <1>1, <2>2, <3>1, SameLetters
  <2>3. CASE LooksAt
    BY <1>1, <2>3, LettersRead
  <2>4. CASE Grants
    BY <1>1, <2>4, LetterGranted
  <2>5. CASE Starts
    BY <1>1, <2>5, LettersCleared
  <2> QED
    BY <1>1, <2>1, <2>2, <2>3, <2>4, <2>5, LettersArrive DEF LetterMoves
<1>3. pc' # "recv" => next' = 1 /\ kick' = <<>>
  <2>1. CASE Loop /\ op \notin Gone
    BY <1>1, <2>1 DEF Loop, RecvFrame, Receive, HandleDisconnects, ReapFrame, HandleNewCons,
       Settle, ReadMessage, DisconnectNext, NextFrame, Then, OnceInv
  <2>2. CASE ~Loop
    <3>1. UNCHANGED loopVars
      BY <2>2, OutsideKinds DEF ChatNext
    <3> QED
      BY <3>1 DEF loopVars, OnceInv
  <2> QED
    BY <2>1, <2>2 DEF Loop
<1> QED
  BY <1>2, <1>3 DEF OnceInv

LEMMA OnceStart == ChatInit => OnceInv
<1> SUFFICES ASSUME ChatInit
             PROVE  OnceInv
  OBVIOUS
<1>1. next = 1 /\ kick = <<>> /\ msg_buff[UdpMsg] = <<>> /\ dgrams = {}
  BY UserMIds DEF ChatInit, Init, SocketsInit, ServerInit
<1>2. \A k, n : ~Outstanding(k, n) /\ ~Unread(k, n) /\ ~Flying(k, n)
  BY <1>1, HeldNone DEF Outstanding, Unread, Asked, Flying
<1> QED
  BY <1>1, <1>2, HeldNone, EmptySeq DEF OnceInv, Apart
-----------------------------------------------------------------------------
(* The panic in the loop over cids_to_disconnect.                           *)

(* The loop has, or had, to do with k; and why k may be gone: it ended      *)
(* itself, or a request of its was granted already.                         *)
Known(k) == \/ Registered(k)
            \/ \E n \in Nat : HeldIn(msg_buff[UdpMsg], 1, k, n) \/ Asked(k, n)
Spent(k) == \E n \in 1..sent[k][UdpMsg] : ~Outstanding(k, n)
Explained(k) == cliEnd[k] = "shut" \/ broken[k] \/ Spent(k)

Excuse == PanicExplained /\ (op = "unwrap panic" => kick # <<>>)

KnownInv ==
  /\ op \notin Gone => listening
  /\ \A k \in Conn :
       /\ Unanswered(k) /\ listening => srvEnd[k] = "open"
       /\ Known(k) /\ listening => (Registered(k) /\ srvEnd[k] = "open") \/ Explained(k)
  /\ Excuse

LEMMA KnownStart == ChatInit => KnownInv
<1> SUFFICES ASSUME ChatInit
             PROVE  KnownInv
  OBVIOUS
<1>1. /\ op = "idle" /\ listening = TRUE /\ tcp = <<>> /\ kick = <<>> /\ backlog = <<>>
      /\ new_cons = <<>> /\ msg_buff[UdpMsg] = <<>>
  BY UserMIds DEF ChatInit, Init, SocketsInit, ServerInit
<1>2. \A k \in Conn : ~Unanswered(k) /\ ~Registered(k)
  BY <1>1, EmptySeq DEF Unanswered, BacklogCons, PendingCons, Registered
<1>3. \A k, n : ~HeldIn(<<>>, 1, k, n)
  BY 1 \in Nat \ {0}, HeldNone
<1>4. \A k \in Conn : ~Known(k)
  BY <1>1, <1>2, <1>3 DEF Known, Asked
<1> QED
  BY <1>1, <1>2, <1>4 DEF KnownInv, Excuse, PanicExplained

LEMMA ListeningStep ==
  ASSUME ChatInv, op \notin Gone => listening, [ChatNext]_chatVars
  PROVE  op' \notin Gone => listening'
<1>1. ASSUME NEW why \in Panic, PanicWith(why)
      PROVE  op' \in Gone
  BY <1>1 DEF PanicWith, Gone
<1>2. "index panic" \in Panic /\ "peer_addr panic" \in Panic /\ "unwrap panic" \in Panic
  BY DEF Panic
<1>3. ASSUME Loop
      PROVE  UNCHANGED listening \/ op' \in Gone
  <2>1. CASE RecvFrame \/ HandleDisconnects \/ ReadMessage \/ NextFrame
    BY <1>3, <2>1 DEF Loop, RecvFrame, RecvMsgs, HandleDisconnects, HandleDisconnect,
       ReadMessage, NextFrame, ClearMsgs, netVars
  <2>4. CASE Receive
    BY <1>3, <2>4 DEF Loop, Receive, RecvUdp, TcpYields, TcpFails, TcpWouldBlock, RecvTcp
  <2>5. CASE HandleNewCons
    BY <1>3, <2>5 DEF Loop, HandleNewCons, HandleNew, netVars
  <2>2. CASE ReapFrame \/ DisconnectNext
    BY <1>1, <1>2, <1>3, <2>2 DEF Loop, ReapFrame, Reap, DisconnectNext, Disconnect
  <2>3. CASE Settle
    BY <1>1, <1>2, <1>3, <2>3 DEF Loop, Settle, AcceptIncoming, RejectIncoming, DropDead
  <2> QED
    BY <1>3, <2>1, <2>2, <2>3, <2>4, <2>5 DEF Loop
<1>4. ASSUME Reset \/ Timer \/ UNCHANGED chatVars
      PROVE  UNCHANGED <<op, listening>>
  BY <1>4 DEF Reset, Break, Timer, Elapse, chatVars, vars, netVars, serverVars
<1>5. ASSUME NEW k \in Conn, ChatClient(k)
      PROVE  UNCHANGED <<op, listening>>
  BY <1>5 DEF ChatClient, Connect, SendConnection, RecvResponse, Fail, SendUdp, ClientTcpYields,
     ClientTcpFails, ClientRecvUdp, ClientClearMsgs, ClientDisconnect, DropClient, netVars,
     OpenConnection, serverVars
<1>6. CASE UNCHANGED listening
  <2>1. op' \notin Gone => op \notin Gone
    BY <1>4, <1>5 DEF ChatNext, Loop
  <2> QED
    BY <1>6, <2>1
<1> QED
  BY <1>3, <1>4, <1>5, <1>6 DEF ChatNext

LEMMA UnansweredStep ==
  ASSUME ChatInv, EveryoneMoves, NEW k \in Conn, Unanswered(k)', listening',
         Unanswered(k) /\ listening => srvEnd[k] = "open"
  PROVE  srvEnd'[k] = "open"
<1>1. Moves(k) /\ listening
  BY DEF EveryoneMoves, StillClosed
<1>2. CASE Opens(k)
  BY <1>2 DEF Opens
<1>3. CASE ~Opens(k)
  <2>1. Unanswered(k)
    BY <1>1, <1>3 DEF Moves, ClientMoves, ServerMoves, Rests, Refused, Tells, Hears, Departs,
       Reads, Loses, Leaves, Answers, Drops, Reaps, Writes, Disconnects, GoesDown, Breaks, Stays
  <2>2. ~Registered(k) /\ ~Reaped(k)
    BY <2>1, AnsweredOnce DEF ChatInv, Reaped, Registered
  <2>3. srvEnd'[k] = srvEnd[k]
    BY <1>1, <1>3, <2>2 DEF Moves, ClientMoves, ServerMoves, Rests, Refused, Tells, Hears,
       Departs, Reads, Loses, Leaves, Answers, Drops, Reaps, Writes, Disconnects, GoesDown, Breaks
  <2> QED
    BY <1>1, <2>1, <2>3
<1> QED
  BY <1>2, <1>3

(* Whom the loop comes to know is registered.                               *)
LEMMA KnownGrows ==
  ASSUME OwnAddresses, ChatInv, MailInv, OnceInv, [ChatNext]_chatVars, NEW k \in Conn, Known(k)'
  PROVE  Known(k) \/ Registered(k)'
<1>1. SystemInv /\ LoopInv /\ UdpMsg \in MId
  BY UserMIds DEF ChatInv
<1>2. ASSUME NEW n \in Nat, HeldIn(msg_buff'[UdpMsg], 1, k, n)
      PROVE  Known(k)
  <2>1. msg_buff'[UdpMsg] \in {msg_buff[UdpMsg], <<>>}
                                \cup {Append(msg_buff[UdpMsg], m) : m \in Mine}
    <3>1. CASE [Next]_vars
      BY <1>1, <3>1, BufferMoves DEF MailInv
    <3>2. CASE Relays \/ UnwrapPanics
      BY <3>2 DEF Relays, ReadMessage, UnwrapPanics, PanicWith, serverVars
    <3> QED
      BY <1>1, <3>1, <3>2, ChatKinds
  <2>2. CASE msg_buff'[UdpMsg] = msg_buff[UdpMsg]
    BY <1>2, <2>2 DEF Known
  <2>3. CASE msg_buff'[UdpMsg] = <<>>
    BY <1>2, <2>3, HeldNone
  <2>4. ASSUME NEW m \in Mine, msg_buff'[UdpMsg] = Append(msg_buff[UdpMsg], m)
        PROVE  Known(k)
    <3>1. PICK q, q2 : /\ q \in Seq(Received) /\ q = msg_buff[UdpMsg]
                       /\ q2 = msg_buff'[UdpMsg] /\ q2 = Append(q, m) /\ Len(q) \in Nat
      BY <1>1, <2>4, BooksTyped
    <3>2. m \in Received /\ 1 \in Nat \ {0} /\ 1 <= Len(q) + 1
      BY <3>1 DEF Mine
    <3>3. \A j, i : HeldIn(q2, 1, j, i) <=> HeldIn(q, 1, j, i) \/ (j = m.con /\ i = m.n)
      BY <3>1, <3>2, HeldAppend
    <3>4. HeldIn(q, 1, k, n) \/ k = m.con
      BY <1>2, <3>1, <3>3
    <3> QED
      BY <2>4, <3>1, <3>4 DEF Known, Registered, Mine
  <2> QED
    BY <2>1, <2>2, <2>3, <2>4
<1>3. ASSUME NEW n \in Nat, HeldIn(kick', 1, k, n)
      PROVE  Known(k)
  <2>1. kick \in Seq(Received) /\ Distinct(kick, 1) /\ Len(kick) \in Nat
    BY <1>1, BooksTyped, LenProperties DEF OnceInv, Apart
  <2>2. CASE kick' = kick
    BY <1>3, <2>2 DEF Known, Asked
  <2>3. CASE kick # <<>> /\ kick' = Tail(kick)
    <3>1. HeldIn(kick, 1, k, n)
      BY <1>3, <2>1, <2>3, HeldTail
    <3> QED
      BY <3>1 DEF Known, Asked
  <2>4. CASE ReadMessage /\ kick' = Append(kick, msg_buff[UdpMsg][next])
    <3>1. PICK m \in Received : m = msg_buff[UdpMsg][next] /\ next \in 1..Len(msg_buff[UdpMsg])
      BY <1>1, <2>4, MessageAt
    <3>2. PICK q2 : q2 = kick' /\ q2 = Append(kick, m)
      BY <2>4, <3>1
    <3>3. 1 \in Nat \ {0} /\ 1 <= Len(kick) + 1
      BY <2>1
    <3>4. \A j, i : HeldIn(q2, 1, j, i) <=> HeldIn(kick, 1, j, i) \/ (j = m.con /\ i = m.n)
      BY <2>1, <3>2, <3>3, HeldAppend
    <3>5. HeldIn(kick, 1, k, n) \/ (k = m.con /\ n = m.n)
      BY <1>3, <3>2, <3>4
    <3>6. HeldIn(msg_buff[UdpMsg], 1, m.con, m.n)
      BY <3>1 DEF HeldIn
    <3> QED
      BY <3>5, <3>6 DEF Known, Asked
  <2> QED
    BY <2>2, <2>3, <2>4, KickStep DEF KickMoves
<1> QED
  BY <1>2, <1>3 DEF Known, Asked

LEMMA KnownOpened ==
  ASSUME ChatInv, MailInv, NEW k \in Conn, Known(k)
  PROVE  phase[k] # "idle"
<1>1. CASE Registered(k)
  BY <1>1 DEF Registered, RegisteredCons, ChatInv, Places
<1>2. ASSUME NEW n, HeldIn(msg_buff[UdpMsg], 1, k, n)
      PROVE  phase[k] # "idle"
  <2>1. PICK i \in 1..Len(msg_buff[UdpMsg]) : msg_buff[UdpMsg][i].con = k
    BY <1>2 DEF HeldIn
  <2>2. msg_buff[UdpMsg][i] \in Mail
    BY <2>1, ElementOfSeq DEF MailInv
  <2> QED
    BY <2>1, <2>2 DEF Mail
<1>3. ASSUME NEW n, HeldIn(kick, 1, k, n)
      PROVE  phase[k] # "idle"
  <2>1. PICK i \in 1..Len(kick) : kick[i].con = k
    BY <1>3 DEF HeldIn
  <2>2. kick[i] \in Requests
    BY <2>1, ElementOfSeq DEF MailInv
  <2> QED
    BY <2>1, <2>2 DEF Requests, Mail
<1> QED
  BY <1>1, <1>2, <1>3 DEF Known, Asked

LEMMA SpentStays ==
  ASSUME SystemInv, LoopInv, NEW k \in Conn, Spent(k), NoneReturns, sent'[k][UdpMsg] \in Nat
  PROVE  Spent(k)'
<1>1. PICK n \in 1..sent[k][UdpMsg] : ~Outstanding(k, n)
  BY DEF Spent
<1>2. sent[k][UdpMsg] \in Nat /\ sent'[k][UdpMsg] >= sent[k][UdpMsg]
  BY BooksTyped DEF NoneReturns
<1>3. n \in 1..sent'[k][UdpMsg] /\ ~Outstanding(k, n)'
  BY <1>1, <1>2 DEF NoneReturns
<1> QED
  BY <1>3 DEF Spent

LEMMA EndsStay ==
  ASSUME NEW k \in Conn, Moves(k), phase[k] # "idle"
  PROVE  /\ cliEnd[k] = "shut" => cliEnd'[k] = "shut"
         /\ broken[k] => broken'[k]
BY DEF Moves, ClientMoves, ServerMoves, Rests, Opens, Refused, Tells, Hears, Departs, Reads,
   Loses, Leaves, Answers, Drops, Reaps, Writes, Disconnects, GoesDown, Breaks

(* A request that was granted is spent.                                     *)
LEMMA KickedSpends ==
  ASSUME ChatInv, MailInv, OnceInv, NEW k \in Conn, Kicked(k)
  PROVE  Spent(k)'
<1>1. SystemInv /\ LoopInv /\ Grants
  BY FlyingStays, CountStays DEF ChatInv, Kicked, Grants
<1>2. /\ \A m : m = Head(kick) => ~Outstanding(m.con, m.n)'
      /\ kick \in Seq(Received) /\ kick # <<>> /\ Distinct(kick, 1)
  BY <1>1, LetterGranted, BooksTyped DEF OnceInv, Apart, Kicked
<1>3. PICK m \in Requests : m = Head(kick)
  BY <1>2, HeadTailProperties DEF MailInv
<1>4. m \in Received /\ m.con = k
  BY <1>3 DEF Kicked, Requests, Mail, Filed
<1>5. Asked(k, m.n) /\ m.n \in Nat
  BY <1>2, <1>3, <1>4, HeldTail DEF Asked, Received
<1>6. m.n \in 1..sent[k][UdpMsg]
  BY <1>5 DEF OnceInv, Apart, Outstanding
<1>7. m.n \in 1..sent'[k][UdpMsg]
  BY <1>6 DEF Kicked
<1>8. ~Outstanding(k, m.n)'
  BY <1>2, <1>3, <1>4
<1> QED
  BY <1>7, <1>8 DEF Spent

LEMMA KnownStep ==
  ASSUME OwnAddresses, ChatInv, QueueInv, MailInv, OnceInv, KnownInv, SystemInv',
         [ChatNext]_chatVars, NEW k \in Conn, Known(k)', listening'
  PROVE  (Registered(k)' /\ srvEnd'[k] = "open") \/ Explained(k)'
<1>1. /\ Moves(k) /\ listening /\ NoneReturns /\ OverWhenReaped(k)
      /\ SystemInv /\ LoopInv /\ Places /\ sent'[k][UdpMsg] \in Nat
  BY ChatMoves, OnceStep, QueueGives
  DEF EveryoneMoves, StillClosed, ChatInv, QueueInv, SystemInv, ClientTypeOK, UserMsg
<1>2. CASE Known(k)
  <2>1. phase[k] # "idle"
    BY <1>2, KnownOpened
  <2>2. ASSUME Explained(k)
        PROVE  Explained(k)'
    BY <1>1, <2>1, <2>2, EndsStay, SpentStays DEF Explained
  <2>3. CASE Registered(k) /\ srvEnd[k] = "open"
    <3>1. ASSUME Reaped(k)
          PROVE  Explained(k)'
      BY <1>1, <2>2, <2>3, <3>1 DEF OverWhenReaped, Explained
    <3>2. ASSUME ~Registered(k)'
          PROVE  Explained(k)'
      BY <2>3, <3>1, <3>2, ChatRemoved
    <3>3. ASSUME srvEnd'[k] # srvEnd[k]
          PROVE  Explained(k)'
      BY <1>1, <2>1, <2>3, <3>1, <3>3, AnsweredOnce, EndMoves, KickedSpends DEF Explained
    <3> QED
      BY <2>3, <3>2, <3>3
  <2> QED
    BY <1>1, <1>2, <2>2, <2>3 DEF KnownInv
<1>3. CASE ~Known(k)
  <2>1. Registered(k)' /\ ~Registered(k)
    BY <1>3, KnownGrows DEF Known
  <2>2. Answers(k)
    BY <1>1, <2>1 DEF Moves, ClientMoves, ServerMoves, Rests, Opens, Refused, Tells, Hears,
       Departs, Reads, Loses, Leaves, Drops, Reaps, Writes, Disconnects, GoesDown, Breaks, Stays
  <2>3. srvEnd[k] = "open" /\ srvEnd'[k] = srvEnd[k]
    BY <1>1, <2>1, <2>2 DEF Answers, KnownInv
  <2> QED
    BY <2>1, <2>3
<1> QED
  BY <1>2, <1>3

LEMMA PanicCause ==
  ASSUME ChatInv, op # "unwrap panic", op' = "unwrap panic", [ChatNext]_chatVars
  PROVE  /\ pc = "recv" /\ kick # <<>> /\ Fails(Head(kick).cid) /\ op \notin Gone
         /\ UNCHANGED <<kick, cliEnd, broken, sent>>
<1>1. DOMAIN tcp = DOMAIN cid_addr
  BY DEF ChatInv, SystemInv, ServerInv, Maps
<1>2. CASE Loop
  <2>1. CASE RecvFrame \/ HandleDisconnects \/ ReadMessage \/ NextFrame
    BY <2>1 DEF RecvFrame, RecvMsgs, HandleDisconnects, AllReaped, ReadMessage, NextFrame,
       ClearMsgs, serverVars
  <2>2. CASE Receive
    BY <2>2 DEF Receive, RecvUdp, TcpYields, TcpFails, TcpWouldBlock, DoneWith
  <2>3. CASE HandleNewCons
    BY <2>3 DEF HandleNewCons, HandleNew, serverVars
  <2>4. CASE ReapFrame
    BY <1>1, <2>4 DEF ReapFrame, Reap, Alive
  <2>5. CASE Settle
    BY <2>5 DEF Settle, AcceptIncoming, RejectIncoming, DropDead, PanicWith, Left
  <2>6. CASE DisconnectNext
    BY <1>2, <2>6 DEF Loop, DisconnectNext, Disconnect, PanicWith, clientVars
  <2> QED
    BY <1>2, <2>1, <2>2, <2>3, <2>4, <2>5, <2>6 DEF Loop
<1>3. CASE ~Loop
  BY <1>3 DEF ChatNext, ChatClient, Reset, Timer, Elapse, chatVars, vars, serverVars
<1> QED
  BY <1>2, <1>3

LEMMA MoreThanOne ==
  /\ \A v, w \in Nat : v > 1 /\ w >= v => w > 1
  /\ \A v \in Nat : \A i, j \in 1..v : i # j => v > 1
  OBVIOUS

LEMMA ExcuseStep ==
  ASSUME OwnAddresses, ChatInv, MailInv, OnceInv, KnownInv, SystemInv', [ChatNext]_chatVars
  PROVE  Excuse'
<1> SUFFICES ASSUME op' = "unwrap panic"
             PROVE  /\ kick' # <<>>
                    /\ \A k : k = Head(kick').con =>
                         cliEnd'[k] = "shut" \/ broken'[k] \/ sent'[k][UdpMsg] > 1
  BY DEF Excuse, PanicExplained
<1>1. SystemInv /\ LoopInv /\ Places /\ kick \in Seq(Requests)
  BY DEF ChatInv, MailInv
<1>2. CASE op = "unwrap panic"
  <2>1. ~Loop /\ kick # <<>>
    BY <1>2 DEF Loop, Gone, Panic, KnownInv, Excuse
  <2>2. kick' = kick
    BY <2>1, OutsideKinds DEF ChatNext, loopVars
  <2>3. PICK k \in Conn : k = Head(kick).con /\ phase[k] # "idle"
    <3>1. Head(kick) \in Requests
      BY <1>1, <2>1, HeadTailProperties
    <3> QED
      BY <3>1 DEF Requests, Mail, Filed, Received
  <2>4. Moves(k) /\ NoneReturns /\ sent[k][UdpMsg] \in Nat /\ sent'[k][UdpMsg] \in Nat
    BY <1>1, ChatMoves, OnceStep, BooksTyped DEF EveryoneMoves, SystemInv, ClientTypeOK, UserMsg
  <2>5. sent'[k][UdpMsg] >= sent[k][UdpMsg]
    BY <2>4 DEF NoneReturns
  <2>6. cliEnd[k] = "shut" \/ broken[k] \/ sent[k][UdpMsg] > 1
    BY <1>2, <2>3 DEF KnownInv, Excuse, PanicExplained
  <2>7. cliEnd'[k] = "shut" \/ broken'[k] \/ sent'[k][UdpMsg] > 1
    <3>1. CASE cliEnd[k] = "shut" \/ broken[k]
      BY <2>3, <2>4, <3>1, EndsStay
    <3>2. CASE sent[k][UdpMsg] > 1
      <4>1. PICK v \in Nat, w \in Nat : v = sent[k][UdpMsg] /\ w = sent'[k][UdpMsg]
        BY <2>4
      <4>2. v > 1 /\ w >= v
        BY <2>5, <3>2, <4>1
      <4>3. w > 1
        BY <4>1, <4>2, MoreThanOne
      <4> QED
        BY <4>1, <4>3
    <3> QED
      BY <2>6, <3>1, <3>2
  <2> QED
    BY <2>1, <2>2, <2>3, <2>7
<1>3. CASE op # "unwrap panic"
  <2>1. /\ kick # <<>> /\ Fails(Head(kick).cid) /\ op \notin Gone /\ listening
        /\ UNCHANGED <<kick, cliEnd, broken, sent>>
    BY <1>3, PanicCause DEF KnownInv
  <2>2. PICK m \in Requests : m = Head(kick)
    BY <1>1, <2>1, HeadTailProperties
  <2>3. PICK k \in Conn : k = m.con
    BY <2>2 DEF Requests, Mail, Filed, Received
  <2>4. Asked(k, m.n) /\ m.n \in Nat
    <3>1. kick \in Seq(Received) /\ Distinct(kick, 1) /\ m.n \in Nat
      BY <1>1, <2>2, BooksTyped DEF OnceInv, Apart, Requests, Mail, Filed, Received
    <3> QED
      BY <2>1, <2>2, <2>3, <3>1, HeldTail DEF Asked
  <2>5. sent[k][UdpMsg] \in Nat /\ m.n \in 1..sent[k][UdpMsg] /\ Outstanding(k, m.n)
    BY <1>1, <2>4, BooksTyped DEF OnceInv, Apart, Outstanding
  <2>6. (Registered(k) /\ srvEnd[k] = "open") \/ Explained(k)
    BY <2>1, <2>4 DEF KnownInv, Known
  <2>7. CASE Registered(k) /\ srvEnd[k] = "open"
    <3>1. m.cid \in DOMAIN tcp /\ tcp[m.cid] = k
      BY <1>1, <2>2, <2>3, <2>7, MailAuthor DEF Requests
    <3>2. broken[k]
      BY <1>1, <2>1, <2>2, <2>7, <3>1
      DEF Fails, Alive, SrvCanWrite, SystemInv, ServerInv, Maps
    <3> QED
      BY <2>1, <2>2, <2>3, <3>2
  <2>8. CASE Spent(k)
    <3>1. PICK n \in 1..sent[k][UdpMsg] : ~Outstanding(k, n)
      BY <2>8 DEF Spent
    <3>2. n # m.n
      BY <2>5, <3>1
    <3>3. sent[k][UdpMsg] > 1
      <4>1. PICK v \in Nat : v = sent[k][UdpMsg]
        BY <2>5
      <4>2. m.n \in 1..v /\ n \in 1..v /\ n # m.n
        BY <2>5, <3>1, <3>2, <4>1
      <4>3. v > 1
        BY <4>1, <4>2, MoreThanOne
      <4> QED
        BY <4>1, <4>3
    <3> QED
      BY <2>1, <2>2, <2>3, <3>3
  <2>9. CASE cliEnd[k] = "shut" \/ broken[k]
    BY <2>1, <2>2, <2>3, <2>9
  <2> QED
    BY <2>6, <2>7, <2>8, <2>9 DEF Explained
<1> QED
  BY <1>2, <1>3

LEMMA KnownInvStep ==
  ASSUME OwnAddresses, ChatInv, QueueInv, MailInv, OnceInv, KnownInv, SystemInv',
         [ChatNext]_chatVars
  PROVE  KnownInv'
<1>1. op' \notin Gone => listening'
  BY ListeningStep DEF KnownInv
<1>2. ASSUME NEW k \in Conn, Unanswered(k)', listening'
      PROVE  srvEnd'[k] = "open"
  BY <1>2, ChatMoves, UnansweredStep DEF KnownInv
<1>3. ASSUME NEW k \in Conn, Known(k)', listening'
      PROVE  (Registered(k)' /\ srvEnd'[k] = "open") \/ Explained(k)'
  BY <1>3, KnownStep
<1> QED
  BY <1>1, <1>2, <1>3, ExcuseStep DEF KnownInv

(* For any number of clients with addresses of their own: the unwrap of     *)
(* the loop over cids_to_disconnect fails only if the client that asked has *)
(* closed its end, its connection is broken, or it has asked more than once *)
(* (examples/server.rs:94-103).                                             *)
THEOREM ChatPanicExplained ==
  ASSUME OwnAddresses
  PROVE  ChatSpec => []PanicExplained
<1>1. ChatInit => OnceInv /\ KnownInv
  BY OnceStart, KnownStart
<1>2. /\ ChatInv /\ QueueInv /\ MailInv /\ OnceInv /\ KnownInv
      /\ ChatInv' /\ [ChatNext]_chatVars
      => OnceInv' /\ KnownInv'
  <2> SUFFICES ASSUME ChatInv, QueueInv, MailInv, OnceInv, KnownInv, ChatInv',
                      [ChatNext]_chatVars
               PROVE  OnceInv' /\ KnownInv'
    OBVIOUS
  <2>1. SystemInv'
    BY DEF ChatInv
  <2> QED
    BY <2>1, OnceStep, KnownInvStep
<1>3. KnownInv => PanicExplained
  BY DEF KnownInv, Excuse
<1> QED
  BY <1>1, <1>2, <1>3, ChatQueueInvariant, MailInvariant, PTL DEF ChatSpec
=============================================================================
