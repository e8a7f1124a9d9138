--------------------------- MODULE SessionProofs ----------------------------
(***************************************************************************)
(* Theorems about Session, for every set of connections and addresses and  *)
(* every value of max_con_handle and of the bounds.                        *)
(***************************************************************************)
EXTENDS Session, SequenceTheorems, TLAPS

USE SocketsAssumption, ServerAssumption, ClientAssumption

-----------------------------------------------------------------------------
(* Lemmas about the operators of the model.                                *)

(* HashMap::insert and HashMap::remove keep a map a map.                   *)
LEMMA InsertType ==
  ASSUME NEW D, NEW R, NEW f \in [D -> R], NEW x, NEW y \in R
  PROVE  /\ Insert(f, x, y) \in [D \cup {x} -> R]
         /\ DOMAIN Insert(f, x, y) = D \cup {x}
         /\ Insert(f, x, y)[x] = y
         /\ \A z \in D : z # x => Insert(f, x, y)[z] = f[z]
  BY DEF Insert

LEMMA DeleteType ==
  ASSUME NEW D, NEW R, NEW f \in [D -> R], NEW x
  PROVE  /\ Delete(f, x) \in [D \ {x} -> R]
         /\ DOMAIN Delete(f, x) = D \ {x}
         /\ \A z \in D \ {x} : Delete(f, x)[z] = f[z]
  BY DEF Delete, Restrict

(* Vec::remove drops one element and moves those after it.                 *)
LEMMA RemoveAtType ==
  ASSUME NEW S, NEW s \in Seq(S), NEW i \in 1..Len(s)
  PROVE  /\ RemoveAt(s, i) \in Seq(S)
         /\ Len(RemoveAt(s, i)) = Len(s) - 1
         /\ \A j \in 1..(Len(s) - 1) :
              RemoveAt(s, i)[j] = IF j < i THEN s[j] ELSE s[j + 1]
<1> DEFINE a == SubSeq(s, 1, i - 1)
           b == SubSeq(s, i + 1, Len(s))
<1>1. a \in Seq(S) /\ Len(a) = i - 1 /\ \A j \in 1..(i - 1) : a[j] = s[j]
  BY SubSeqProperties
<1>2. b \in Seq(S) /\ Len(b) = Len(s) - i /\ \A j \in 1..(Len(s) - i) : b[j] = s[i + j]
  BY SubSeqProperties
<1>3. /\ a \o b \in Seq(S)
      /\ Len(a \o b) = Len(a) + Len(b)
      /\ \A j \in 1..(Len(a) + Len(b)) :
           (a \o b)[j] = IF j <= Len(a) THEN a[j] ELSE b[j - Len(a)]
  BY <1>1, <1>2, ConcatProperties
<1>4. RemoveAt(s, i) = a \o b
  BY DEF RemoveAt
<1> HIDE DEF a, b
<1>5. Len(s) \in Nat /\ Len(a) + Len(b) = Len(s) - 1
  BY <1>1, <1>2
<1>6. ASSUME NEW j \in 1..(Len(s) - 1)
      PROVE  (a \o b)[j] = IF j < i THEN s[j] ELSE s[j + 1]
  <2>1. CASE j < i
    BY <1>1, <1>3, <1>5, <2>1
  <2>2. CASE i <= j
    <3>1. j - (i - 1) \in 1..(Len(s) - i) /\ i + (j - (i - 1)) = j + 1
      BY <1>5, <2>2
    <3>2. (a \o b)[j] = b[j - (i - 1)]
      BY <1>1, <1>3, <1>5, <2>2
    <3>3. b[j - (i - 1)] = s[i + (j - (i - 1))]
      BY <1>2, <3>1
    <3>4. (a \o b)[j] = s[j + 1]
      BY <3>1, <3>2, <3>3
    <3> QED
      BY <2>2, <3>4
  <2> QED
    BY <1>5, <2>1, <2>2
<1> QED
  BY <1>3, <1>4, <1>5, <1>6

(* A message the network delivers to a stream of messages.                 *)
LEMMA DeliveredType ==
  ASSUME NEW f \in [Conn -> Seq(Msg)], NEW k \in Conn, NEW e \in [Conn -> EndState],
         NEW m \in Msg
  PROVE  Delivered(f, k, e, m) \in [Conn -> Seq(Msg)]
  BY DEF Delivered

LEMMA BufferType ==
  ASSUME NEW I, NEW T, NEW f \in [I -> Seq(T)], NEW i \in I, NEW e \in T
  PROVE  [f EXCEPT ![i] = Append(@, e)] \in [I -> Seq(T)]
<1>1. Append(f[i], e) \in Seq(T)
  BY AppendProperties
<1> QED
  BY <1>1

LEMMA MessageTypes ==
  ASSUME NEW k \in Conn
  PROVE  /\ ConnectionMsg(k) \in Msg /\ DisconnectMsg(k) \in Msg
         /\ \A r \in Nat : ResponseMsg(k, r) \in Msg
         /\ \A n \in Nat : TcpData(k, n) \in Msg
  BY DEF ConnectionMsg, DisconnectMsg, ResponseMsg, TcpData, Msg, MId,
         CONNECTION_TYPE_MID, RESPONSE_TYPE_MID, DISCONNECT_TYPE_MID, TcpMsg, UdpMsg

LEMMA ArrivedType ==
  ASSUME NEW f \in [Conn -> Seq(Msg)], NEW k \in Conn, NEW s \in Arrived(f, k)
  PROVE  s \in Seq(Msg)
  BY DEF Arrived

-----------------------------------------------------------------------------
(* Types, and the maps of the server.                                      *)

(* No CId is used twice; addr_cid leads to live connections; recv_msgs only   *)
(* visits connections that are there; a disconnect loop has something to   *)
(* pop; and so no operation of rm_tcp_con can fail.                        *)
Maps ==
  /\ CidOnce
  /\ PendingBounded
  /\ DOMAIN tcp = DOMAIN cid_addr
  /\ AddrCidSound
  /\ todo \subseteq DOMAIN tcp
  /\ op # "tcp" => todo = {}
  /\ op \in {"reap_one", "reap_all"} => disconnected # <<>>

ServerInv == SocketsTypeOK /\ ServerTypeOK /\ Maps

LEMMA InitTypes == Init => ServerInv /\ ClientTypeOK
  BY DEF Init, SocketsInit, ServerInit, ClientInit, ServerInv, SocketsTypeOK, ServerTypeOK,
     ClientTypeOK, Maps, CidOnce, PendingBounded, ServerAssumption, PendingCids,
     ReportedCids, AddrCidSound, EndState, Op, NoCId, CId, Phase, NoResponse,
     NothingReceived, UserMsg, MId, TcpMsg, UdpMsg, Rejected, Accepted

(* What concerns only the CIds that were handed out.                       *)
cidVars == <<current_cid, new_cons, tcp, cid_addr, reported>>

LEMMA CidFrame ==
  ASSUME CidOnce, PendingBounded, UNCHANGED cidVars
  PROVE  CidOnce' /\ PendingBounded'
<1>1. PendingCids' = PendingCids /\ ReportedCids' = ReportedCids
  BY DEF PendingCids, ReportedCids, cidVars
<1> QED
  BY <1>1 DEF CidOnce, PendingBounded, cidVars

LEMMA PanicTypes ==
  ASSUME ServerInv, op # "tcp", NEW why \in Panic, PanicWith(why)
  PROVE  ServerInv'
<1>1. SocketsTypeOK'
  <2>1. srvEnd' \in [Conn -> EndState]
    BY DEF ServerInv, SocketsTypeOK, PanicWith, CloseAll, EndState
  <2>2. backlog' \in Seq(Conn) /\ listening' \in BOOLEAN
    BY EmptySeq DEF PanicWith, CloseAll
  <2>3. UNCHANGED <<up, down, cliEnd, broken, dgrams>>
    BY DEF PanicWith
  <2> QED
    BY <2>1, <2>2, <2>3 DEF ServerInv, SocketsTypeOK
<1>2. ServerTypeOK'
  BY DEF ServerInv, ServerTypeOK, PanicWith, Gone, Op, appVars
<1>3. Maps'
  BY CidFrame DEF ServerInv, Maps, AddrCidSound, PanicWith, Panic, cidVars, appVars
<1> QED
  BY <1>1, <1>2, <1>3 DEF ServerInv

LEMMA ElapseTypes ==
  ASSUME ServerInv, Elapse
  PROVE  ServerInv'
<1>1. PICK i \in 1..Len(new_cons) : new_cons' = [new_cons EXCEPT ![i].late = TRUE]
  BY DEF Elapse
<1>2. [new_cons[i] EXCEPT !.late = TRUE] \in Pending
  <2>1. new_cons[i] \in Pending
    BY ElementOfSeq DEF ServerInv, ServerTypeOK
  <2> QED
    BY <2>1 DEF Pending
<1>3. new_cons' \in Seq(Pending)
  BY <1>1, <1>2, ExceptSeq DEF ServerInv, ServerTypeOK
<1>4. CidOnce' /\ PendingBounded'
  <2>1. /\ Len(new_cons') = Len(new_cons)
        /\ \A j \in 1..Len(new_cons) : new_cons'[j].cid = new_cons[j].cid
    BY <1>1, ExceptSeq DEF ServerInv, ServerTypeOK
  <2>2. PendingCids' = PendingCids /\ ReportedCids' = ReportedCids
    BY <2>1 DEF PendingCids, ReportedCids, Elapse, appVars
  <2> QED
    BY <2>1, <2>2 DEF ServerInv, Maps, CidOnce, PendingBounded, Elapse, appVars
<1> QED
  BY <1>3, <1>4 DEF Elapse, ServerInv, SocketsTypeOK, ServerTypeOK, Maps, AddrCidSound,
     netVars, appVars

LEMMA RecvMsgsTypes ==
  ASSUME ServerInv, RecvMsgs
  PROVE  ServerInv'
  BY CidFrame
  DEF ServerInv, SocketsTypeOK, ServerTypeOK, Maps, AddrCidSound, RecvMsgs, Op, netVars,
     appVars, cidVars

LEMMA RecvUdpTypes ==
  ASSUME ServerInv, RecvUdp
  PROVE  ServerInv'
<1>1. SocketsTypeOK' /\ Maps'
  BY CidFrame DEF ServerInv, SocketsTypeOK, Maps, AddrCidSound, RecvUdp, cidVars, appVars
<1>2. op' \in Op
  BY DEF ServerInv, ServerTypeOK, RecvUdp, Op
<1>3. msg_buff' \in [MId -> Seq(Received)]
  <2>1. CASE UNCHANGED msg_buff
    BY <2>1 DEF ServerInv, ServerTypeOK
  <2>2. ASSUME NEW d \in dgrams, d.addr \in DOMAIN addr_cid,
               msg_buff' = [msg_buff EXCEPT ![UdpMsg] =
                 Append(@, [cid |-> addr_cid[d.addr], con |-> d.con, n |-> d.n])]
        PROVE  msg_buff' \in [MId -> Seq(Received)]
    <3>1. [cid |-> addr_cid[d.addr], con |-> d.con, n |-> d.n]
            \in Received
      BY <2>2 DEF ServerInv, SocketsTypeOK, ServerTypeOK, Datagram, Received
    <3>2. UdpMsg \in MId /\ msg_buff \in [MId -> Seq(Received)]
      BY DEF ServerInv, ServerTypeOK, MId, UdpMsg, CONNECTION_TYPE_MID
    <3> QED
      BY <2>2, <3>1, <3>2, BufferType
  <2> QED
    BY <2>1, <2>2 DEF RecvUdp, Buffer
<1> QED
  BY <1>1, <1>2, <1>3 DEF ServerInv, ServerTypeOK, RecvUdp, appVars

LEMMA ClearMsgsTypes ==
  ASSUME ServerInv, ClearMsgs
  PROVE  ServerInv'
  BY CidFrame
  DEF ServerInv, SocketsTypeOK, ServerTypeOK, Maps, AddrCidSound, ClearMsgs, Emptied, Op,
     netVars, appVars, cidVars

LEMMA HandleDisconnectTypes ==
  ASSUME ServerInv, HandleDisconnect
  PROVE  ServerInv'
  BY CidFrame
  DEF ServerInv, SocketsTypeOK, ServerTypeOK, Maps, AddrCidSound, HandleDisconnect, Op,
     netVars, appVars, cidVars

LEMMA EndedType ==
  ASSUME ServerTypeOK, NEW c \in CId, NEW how \in Status
  PROVE  Ended(c, how) \in Seq(Ending)
<1>1. [cid |-> c, status |-> how] \in Ending
  BY DEF Ending
<1> QED
  BY <1>1, AppendProperties DEF ServerTypeOK, Ended

LEMMA YieldsTypes ==
  ASSUME ServerInv, NEW c \in todo, TcpYields(c)
  PROVE  ServerInv'
<1>1. c \in CId /\ tcp[c] \in Conn
  BY DEF ServerInv, ServerTypeOK, Maps
<1>2. up[tcp[c]] \in Seq(Msg) /\ Head(up[tcp[c]]) \in Msg /\ Tail(up[tcp[c]]) \in Seq(Msg)
  BY <1>1, HeadTailProperties DEF ServerInv, SocketsTypeOK, TcpYields
<1>3. SocketsTypeOK'
  BY <1>1, <1>2 DEF ServerInv, SocketsTypeOK, TcpYields, RecvTcp
<1>4. CASE Head(up[tcp[c]]).mid = DISCONNECT_TYPE_MID
  <2>1. disconnected' \in Seq(Ending)
    BY <1>1, <1>4, EndedType DEF ServerInv, TcpYields, Status
  <2>2. /\ todo' = todo \ {c} /\ cur' = NoCId /\ UNCHANGED msg_buff
        /\ op' = IF todo' = {} THEN "udp" ELSE "tcp"
    BY <1>4 DEF TcpYields, DoneWith
  <2>3. ServerTypeOK'
    BY <2>1, <2>2 DEF ServerInv, ServerTypeOK, TcpYields, RecvTcp, Op, appVars
  <2>4. Maps'
    BY <2>2, CidFrame DEF ServerInv, Maps, AddrCidSound, TcpYields, RecvTcp, cidVars, appVars
  <2> QED
    BY <1>3, <2>3, <2>4 DEF ServerInv
<1>5. CASE Head(up[tcp[c]]).mid # DISCONNECT_TYPE_MID
  <2> DEFINE m == Head(up[tcp[c]])
  <2>1. m.mid \in MId /\ [cid |-> c, con |-> m.con, n |-> m.n] \in Received
    BY <1>1, <1>2 DEF Msg, Received
  <2>2. /\ msg_buff' = [msg_buff EXCEPT ![m.mid] = Append(@, [cid |-> c, con |-> m.con, n |-> m.n])]
        /\ cur' = c /\ UNCHANGED <<disconnected, todo, op>>
    BY <1>5 DEF TcpYields, Buffer
  <2> HIDE DEF m
  <2>3. msg_buff' \in [MId -> Seq(Received)]
    BY <2>1, <2>2, BufferType DEF ServerInv, ServerTypeOK
  <2>4. ServerTypeOK'
    BY <1>1, <2>2, <2>3 DEF ServerInv, ServerTypeOK, TcpYields, RecvTcp, appVars
  <2>5. Maps'
    BY <2>2, CidFrame DEF ServerInv, Maps, AddrCidSound, TcpYields, RecvTcp, cidVars, appVars
  <2> QED
    BY <1>3, <2>4, <2>5 DEF ServerInv
<1> QED
  BY <1>4, <1>5

LEMMA FailsTypes ==
  ASSUME ServerInv, NEW c \in todo, TcpFails(c) \/ TcpWouldBlock(c)
  PROVE  ServerInv'
<1>1. c \in CId
  BY DEF ServerInv, ServerTypeOK, Maps
<1>2. disconnected' \in Seq(Ending)
  BY <1>1, EndedType DEF ServerInv, ServerTypeOK, TcpFails, TcpWouldBlock, Status
<1>3. /\ todo' = todo \ {c} /\ cur' = NoCId /\ UNCHANGED <<up, msg_buff>>
      /\ op' = IF todo' = {} THEN "udp" ELSE "tcp"
      /\ RecvTcp(c)
  BY DEF TcpFails, TcpWouldBlock, DoneWith
<1>4. SocketsTypeOK'
  BY <1>3 DEF ServerInv, SocketsTypeOK, RecvTcp
<1>5. ServerTypeOK'
  BY <1>2, <1>3 DEF ServerInv, ServerTypeOK, RecvTcp, Op, appVars
<1>6. Maps'
  BY <1>3, CidFrame DEF ServerInv, Maps, AddrCidSound, RecvTcp, cidVars, appVars
<1> QED
  BY <1>4, <1>5, <1>6 DEF ServerInv

LEMMA ReapTypes ==
  ASSUME ServerInv, Reap
  PROVE  ServerInv'
<1> DEFINE c == Head(disconnected).cid
<1>1. /\ Head(disconnected) \in Ending
      /\ Tail(disconnected) \in Seq(Ending)
  BY HeadTailProperties DEF ServerInv, ServerTypeOK, Maps, Reap, Popped
<1>2. ~(Alive(c) /\ c \notin DOMAIN tcp) /\ todo = {} /\ op \in {"reap_one", "reap_all"}
  BY DEF ServerInv, Maps, Alive, Reap, Popped
<1>3. /\ disconnected' = Tail(disconnected)
      /\ UNCHANGED <<listening, backlog, up, down, cliEnd, broken, dgrams>>
      /\ UNCHANGED <<current_cid, new_cons, msg_buff, accepted, rejected, dead,
                     todo, cur, granted, refused, srvSent>>
  BY <1>2 DEF Reap, Popped
<1>6. op' = "idle" \/ (op' = op /\ disconnected' # <<>>)
  BY <1>2, <1>3 DEF Reap, Popped
<1>7. /\ tcp \in [DOMAIN tcp -> Conn] /\ cid_addr \in [DOMAIN cid_addr -> Addr]
      /\ addr_cid \in [DOMAIN addr_cid -> CId]
  BY DEF ServerInv, ServerTypeOK
<1>4. CASE Alive(c)
  <2>1. /\ reported' = Append(reported, Head(disconnected))
        /\ tcp' = Delete(tcp, c)
        /\ cid_addr' = Delete(cid_addr, c)
        /\ addr_cid' = Delete(addr_cid, cid_addr[c])
        /\ srvEnd' = [srvEnd EXCEPT ![tcp[c]] = "shut"]
    BY <1>2, <1>4 DEF Reap, Popped, RmTcpCon, CloseTcp
  <2>2. /\ tcp' \in [DOMAIN tcp \ {c} -> Conn] /\ DOMAIN tcp' = DOMAIN tcp \ {c}
        /\ \A d \in DOMAIN tcp' : tcp'[d] = tcp[d]
    BY <1>7, <2>1 DEF Delete, Restrict
  <2>3. /\ cid_addr' \in [DOMAIN cid_addr \ {c} -> Addr] /\ DOMAIN cid_addr' = DOMAIN cid_addr \ {c}
        /\ \A d \in DOMAIN cid_addr' : cid_addr'[d] = cid_addr[d]
    BY <1>7, <2>1 DEF Delete, Restrict
  <2>4. /\ addr_cid' \in [DOMAIN addr_cid \ {cid_addr[c]} -> CId]
        /\ DOMAIN addr_cid' = DOMAIN addr_cid \ {cid_addr[c]}
        /\ \A a \in DOMAIN addr_cid' : addr_cid'[a] = addr_cid[a]
    BY <1>7, <2>1 DEF Delete, Restrict
  <2>5. SocketsTypeOK'
    BY <1>3, <2>1 DEF ServerInv, SocketsTypeOK, EndState
  <2>6. reported' \in Seq(Ending)
    BY <1>1, <2>1 DEF ServerInv, ServerTypeOK
  <2>7. ServerTypeOK'
    BY <1>1, <1>3, <1>6, <2>2, <2>3, <2>4, <2>6 DEF ServerInv, ServerTypeOK, Op
  <2>8. AddrCidSound'
    BY <2>3, <2>4 DEF ServerInv, Maps, AddrCidSound
  <2>10. CidOnce'
    <3>1. c \in DOMAIN tcp /\ PendingCids' = PendingCids
      BY <1>2, <1>3, <1>4 DEF PendingCids
    <3>2. /\ Len(reported') = Len(reported) + 1
          /\ \A i \in 1..Len(reported) : reported'[i] = reported[i]
          /\ reported'[Len(reported) + 1].cid = c
      BY <1>1, <2>1, AppendProperties DEF ServerInv, ServerTypeOK
    <3>3. Len(reported) \in Nat
      BY LenProperties DEF ServerInv, ServerTypeOK
    <3>4. ReportedCids' = ReportedCids \cup {c}
      BY <3>2, <3>3 DEF ReportedCids
    <3>5. c \notin ReportedCids
      BY <3>1 DEF ServerInv, Maps, CidOnce
    <3>6. \A i, j \in 1..Len(reported') : i # j => reported'[i].cid # reported'[j].cid
      <4>1. \A i, j \in 1..Len(reported) : i # j => reported[i].cid # reported[j].cid
        BY DEF ServerInv, Maps, CidOnce
      <4>2. \A i \in 1..Len(reported) : reported[i].cid # c
        BY <3>5 DEF ReportedCids
      <4> HIDE DEF c
      <4>3. ASSUME NEW i \in 1..Len(reported), NEW j \in 1..Len(reported), i # j
            PROVE  reported'[i].cid # reported'[j].cid
        BY <3>2, <4>1, <4>3
      <4>4. ASSUME NEW i \in 1..Len(reported)
            PROVE  reported'[i].cid # reported'[Len(reported) + 1].cid
        BY <3>2, <4>2
      <4>5. 1..Len(reported') = 1..Len(reported) \cup {Len(reported) + 1}
        BY <3>2, <3>3
      <4> QED
        BY <4>3, <4>4, <4>5
    <3> HIDE DEF c
    <3>7. /\ DOMAIN tcp' = DOMAIN cid_addr' /\ DOMAIN tcp' \subseteq DOMAIN tcp
          /\ c \notin DOMAIN tcp' /\ c \notin PendingCids
      BY <2>2, <2>3, <3>1 DEF ServerInv, Maps, CidOnce
    <3>8. /\ PendingCids' \cup DOMAIN tcp' \cup ReportedCids' \subseteq 1..current_cid'
          /\ PendingCids' \cap DOMAIN tcp' = {}
          /\ ReportedCids' \cap (PendingCids' \cup DOMAIN tcp') = {}
      BY <1>3, <3>1, <3>4, <3>7 DEF ServerInv, Maps, CidOnce
    <3>9. \A i, j \in 1..Len(new_cons') : i # j => new_cons'[i].cid # new_cons'[j].cid
      BY <1>3 DEF ServerInv, Maps, CidOnce
    <3> QED
      BY <3>6, <3>7, <3>8, <3>9 DEF CidOnce
  <2>9. Maps'
    BY <1>2, <1>3, <1>4, <1>6, <2>2, <2>3, <2>8, <2>10 DEF ServerInv, Maps, Alive, PendingBounded
  <2> QED
    BY <2>5, <2>7, <2>9 DEF ServerInv
<1>5. CASE ~Alive(c)
  <2>1. UNCHANGED <<reported, tcp, cid_addr, addr_cid, srvEnd>>
    BY <1>5 DEF Reap, Popped
  <2> QED
    BY <1>1, <1>2, <1>3, <1>6, <2>1, CidFrame
    DEF ServerInv, SocketsTypeOK, ServerTypeOK, Maps, AddrCidSound, Op, cidVars
<1> QED
  BY <1>4, <1>5

LEMMA DisconnectTypes ==
  ASSUME ServerInv, NEW c \in DOMAIN cid_addr, Disconnect(c)
  PROVE  ServerInv'
<1> DEFINE k == tcp[c]
<1>1. c \in CId /\ k \in Conn
  BY DEF ServerInv, ServerTypeOK, Maps
<1>2. down' \in [Conn -> Seq(Msg)]
  BY <1>1, DeliveredType, MessageTypes DEF ServerInv, SocketsTypeOK, Disconnect, SayGoodbye
<1>3. up' \in [Conn -> Seq(Msg)]
  <2>1. PICK s \in Arrived(up, k) : up' = [up EXCEPT ![k] = s]
    BY DEF Disconnect
  <2> QED
    BY <1>1, <2>1, ArrivedType DEF ServerInv, SocketsTypeOK
<1>4. /\ srvEnd' \in [Conn -> EndState] /\ broken' \in [Conn -> BOOLEAN]
      /\ disconnected' \in Seq(Ending)
  <2>1. srvEnd' \in [Conn -> EndState] /\ broken' \in [Conn -> BOOLEAN]
    BY <1>1 DEF ServerInv, SocketsTypeOK, Disconnect, CloseTcp, EndState
  <2>2. CASE UNCHANGED disconnected
    BY <2>1, <2>2 DEF ServerInv, ServerTypeOK
  <2>3. CASE disconnected' = Ended(c, "Closed")
    BY <1>1, <2>1, <2>3, EndedType DEF ServerInv, Status
  <2> QED
    BY <2>2, <2>3 DEF Disconnect
<1>5. SocketsTypeOK'
  BY <1>2, <1>3, <1>4 DEF ServerInv, SocketsTypeOK, Disconnect
<1>6. ServerTypeOK'
  BY <1>4 DEF ServerInv, ServerTypeOK, Disconnect, appVars
<1>7. Maps'
  BY CidFrame DEF ServerInv, Maps, AddrCidSound, Disconnect, cidVars, appVars
<1> QED
  BY <1>5, <1>6, <1>7 DEF ServerInv

LEMMA SendTcpTypes ==
  ASSUME ServerInv, NEW S, NEW G, SendTcpSpec(S, G)
  PROVE  ServerInv'
<1>1. srvSent[TcpMsg] + 1 \in Nat /\ srvSent' \in [{TcpMsg, UdpMsg} -> Nat]
  BY DEF ServerInv, ServerTypeOK, SendTcpSpec
<1>2. down' \in [Conn -> Seq(Msg)]
  <2>1. ASSUME NEW k \in Conn
        PROVE  Append(down[k], TcpData(k, srvSent[TcpMsg] + 1)) \in Seq(Msg)
    BY <1>1, MessageTypes, AppendProperties DEF ServerInv, SocketsTypeOK
  <2> QED
    BY <2>1 DEF ServerInv, SocketsTypeOK, SendTcpSpec
<1>3. SocketsTypeOK'
  BY <1>2 DEF ServerInv, SocketsTypeOK, SendTcpSpec
<1>4. ServerTypeOK'
  BY <1>1 DEF ServerInv, ServerTypeOK, SendTcpSpec
<1>5. Maps'
  BY CidFrame DEF ServerInv, Maps, AddrCidSound, SendTcpSpec, cidVars
<1> QED
  BY <1>3, <1>4, <1>5 DEF ServerInv

LEMMA SendUdpTypes ==
  ASSUME ServerInv, NEW S \in Matching, SendUdpSpec(S)
  PROVE  ServerInv'
<1>1. S \subseteq DOMAIN cid_addr
  BY DEF Matching, Matches
<1>2. srvSent' \in [{TcpMsg, UdpMsg} -> Nat] /\ srvSent'[UdpMsg] \in Nat
  BY DEF ServerInv, ServerTypeOK, SendUdpSpec
<1>3. dgrams' \subseteq Datagram
  <2>1. ASSUME NEW c \in S
        PROVE  [dir |-> "down", addr |-> cid_addr[c], con |-> tcp[c], n |-> srvSent'[UdpMsg]]
                 \in Datagram
    BY <1>1, <1>2 DEF ServerInv, ServerTypeOK, Maps, Datagram, Direction
  <2> QED
    BY <2>1 DEF ServerInv, SocketsTypeOK, SendUdpSpec
<1>4. SocketsTypeOK'
  BY <1>3 DEF ServerInv, SocketsTypeOK, SendUdpSpec
<1>5. ServerTypeOK'
  BY <1>2 DEF ServerInv, ServerTypeOK, SendUdpSpec
<1>6. Maps'
  BY CidFrame DEF ServerInv, Maps, AddrCidSound, SendUdpSpec, cidVars
<1> QED
  BY <1>4, <1>5, <1>6 DEF ServerInv

LEMMA DropServerTypes ==
  ASSUME ServerInv, DropServer
  PROVE  ServerInv'
<1>1. SocketsTypeOK'
  <2>1. srvEnd' \in [Conn -> EndState]
    BY DEF ServerInv, SocketsTypeOK, DropServer, CloseAll, EndState
  <2>2. backlog' \in Seq(Conn) /\ listening' \in BOOLEAN
    BY EmptySeq DEF DropServer, CloseAll
  <2>3. UNCHANGED <<up, down, cliEnd, broken, dgrams>>
    BY DEF DropServer
  <2> QED
    BY <2>1, <2>2, <2>3 DEF ServerInv, SocketsTypeOK
<1>2. ServerTypeOK'
  BY DEF ServerInv, ServerTypeOK, DropServer, Gone, Op, appVars
<1>3. Maps'
  BY CidFrame DEF ServerInv, Maps, AddrCidSound, DropServer, cidVars, appVars
<1> QED
  BY <1>1, <1>2, <1>3 DEF ServerInv

(* The three removal loops.                                                *)
LEMMA LeftTypes ==
  ASSUME ServerInv, op = "settle", NEW a \in SUBSET CId, NEW r \in SUBSET CId,
         NEW d \in SUBSET CId, Left(a, r, d)
  PROVE  /\ accepted' \subseteq CId /\ rejected' \subseteq CId /\ dead' \subseteq CId
         /\ op' \in {"idle", "settle"}
  BY DEF Left

LEMMA EntryTypes ==
  ASSUME ServerTypeOK, NEW i \in CId, ~(i > Len(new_cons))
  PROVE  /\ new_cons[i].con \in Conn /\ new_cons[i].cid \in CId
         /\ RemoveAt(new_cons, i) \in Seq(Pending)
<1>1. i \in 1..Len(new_cons)
  BY LenProperties DEF CId, ServerTypeOK
<1>2. new_cons[i] \in Pending
  BY <1>1, ElementOfSeq DEF ServerTypeOK
<1> QED
  BY <1>1, <1>2, RemoveAtType DEF ServerTypeOK, Pending

(* A removal takes one CId off the list and leaves the others once on it.   *)
LEMMA RemovedCid ==
  ASSUME ServerTypeOK, CidOnce, NEW i \in 1..Len(new_cons),
         new_cons' = RemoveAt(new_cons, i)
  PROVE  /\ PendingCids' = PendingCids \ {new_cons[i].cid}
         /\ \A j, l \in 1..Len(new_cons') : j # l => new_cons'[j].cid # new_cons'[l].cid
         /\ PendingBounded => PendingBounded'
<1>1. /\ Len(new_cons) \in Nat /\ Len(new_cons') = Len(new_cons) - 1
      /\ \A j \in 1..(Len(new_cons) - 1) :
           new_cons'[j] = IF j < i THEN new_cons[j] ELSE new_cons[j + 1]
  BY RemoveAtType, LenProperties DEF ServerTypeOK
<1>2. \A j, l \in 1..Len(new_cons) : j # l => new_cons[j].cid # new_cons[l].cid
  BY DEF CidOnce
<1>3. ASSUME NEW j \in 1..Len(new_cons'), NEW l \in 1..Len(new_cons'), j # l
      PROVE  new_cons'[j].cid # new_cons'[l].cid
  <2> DEFINE old(n) == IF n < i THEN n ELSE n + 1
  <2>1. old(j) \in 1..Len(new_cons) /\ old(l) \in 1..Len(new_cons) /\ old(j) # old(l)
    BY <1>1, <1>3
  <2>2. new_cons'[j] = new_cons[old(j)] /\ new_cons'[l] = new_cons[old(l)]
    BY <1>1
  <2> HIDE DEF old
  <2> QED
    BY <1>2, <2>1, <2>2
<1>4. PendingCids' \subseteq PendingCids \ {new_cons[i].cid}
  BY <1>1, <1>2 DEF PendingCids
<1>5. ASSUME NEW j \in 1..Len(new_cons), j # i
      PROVE  new_cons[j].cid \in PendingCids'
  <2>1. CASE j < i
    BY <1>1, <2>1 DEF PendingCids
  <2>2. CASE j > i
    <3>1. j - 1 \in 1..Len(new_cons') /\ new_cons'[j - 1] = new_cons[j]
      BY <1>1, <2>2
    <3> QED
      BY <3>1 DEF PendingCids
  <2> QED
    BY <1>5, <2>1, <2>2
<1>6. \A c \in PendingCids : \E j \in 1..Len(new_cons) : c = new_cons[j].cid
  BY DEF PendingCids
<1>7. PendingCids \ {new_cons[i].cid} \subseteq PendingCids'
  BY <1>5, <1>6
<1>8. PendingBounded => PendingBounded'
  BY <1>1 DEF PendingBounded, ServerAssumption
<1> QED
  BY <1>3, <1>4, <1>7, <1>8

LEMMA AcceptTypes ==
  ASSUME ServerInv, AcceptIncoming
  PROVE  ServerInv'
<1>1. PICK i \in accepted : AcceptIncoming!2!(i)
  BY DEF AcceptIncoming
<1>2. CASE PanicWith("index panic") \/ PanicWith("peer_addr panic")
  BY <1>2, PanicTypes DEF AcceptIncoming, Panic
<1> DEFINE k == new_cons[i].con
           c == new_cons[i].cid
<1>3. ASSUME ~(i > Len(new_cons)), ~broken[k]
      PROVE  ServerInv'
  <2>1. i \in CId /\ op = "settle"
    BY DEF ServerInv, ServerTypeOK, AcceptIncoming
  <2>2. k \in Conn /\ c \in CId /\ RemoveAt(new_cons, i) \in Seq(Pending)
    BY <1>3, <2>1, EntryTypes DEF ServerInv
  <2>3. /\ new_cons' = RemoveAt(new_cons, i)
        /\ tcp' = Insert(tcp, c, k)
        /\ addr_cid' = Insert(addr_cid, AddrOf[k], c)
        /\ cid_addr' = Insert(cid_addr, c, AddrOf[k])
        /\ down' = IF SrvCanWrite(k)
                   THEN Delivered(down, k, cliEnd, ResponseMsg(k, Accepted))
                   ELSE down
        /\ Left(accepted \ {i}, rejected, dead)
        /\ UNCHANGED <<listening, backlog, up, cliEnd, srvEnd, broken, dgrams>>
        /\ UNCHANGED <<current_cid, disconnected, msg_buff, todo, cur, appVars>>
    BY <1>1, <1>3 DEF AddTcpCon, Answer
  <2> HIDE DEF k, c
  <2>4. /\ accepted' \subseteq CId /\ rejected' \subseteq CId /\ dead' \subseteq CId
        /\ op' \in {"idle", "settle"}
    BY <2>1, <2>3, LeftTypes DEF ServerInv, ServerTypeOK
  <2>5. AddrOf[k] \in Addr
    BY <2>2 DEF SocketsAssumption
  <2>6. /\ tcp' \in [DOMAIN tcp \cup {c} -> Conn] /\ DOMAIN tcp' = DOMAIN tcp \cup {c}
    BY <2>2, <2>3 DEF Insert, ServerInv, ServerTypeOK
  <2>7. /\ cid_addr' \in [DOMAIN cid_addr \cup {c} -> Addr]
        /\ DOMAIN cid_addr' = DOMAIN cid_addr \cup {c}
        /\ \A d \in DOMAIN cid_addr' : cid_addr'[d] = IF d = c THEN AddrOf[k] ELSE cid_addr[d]
    BY <2>3, <2>5 DEF Insert, ServerInv, ServerTypeOK
  <2>8. /\ addr_cid' \in [DOMAIN addr_cid \cup {AddrOf[k]} -> CId]
        /\ DOMAIN addr_cid' = DOMAIN addr_cid \cup {AddrOf[k]}
        /\ \A a \in DOMAIN addr_cid' : addr_cid'[a] = IF a = AddrOf[k] THEN c ELSE addr_cid[a]
    BY <2>2, <2>3 DEF Insert, ServerInv, ServerTypeOK
  <2>9. down' \in [Conn -> Seq(Msg)]
    BY <2>2, <2>3, DeliveredType, MessageTypes DEF ServerInv, SocketsTypeOK, Accepted
  <2>10. SocketsTypeOK'
    BY <2>3, <2>9 DEF ServerInv, SocketsTypeOK
  <2>11. ServerTypeOK'
    BY <2>2, <2>3, <2>4, <2>5, <2>6, <2>7, <2>8 DEF ServerInv, ServerTypeOK, Op, appVars
  <2>14. i \in 1..Len(new_cons) /\ c = new_cons[i].cid
    BY <1>3, <2>1, LenProperties DEF c, CId, ServerInv, ServerTypeOK
  <2>15. c \in PendingCids /\ c \notin DOMAIN cid_addr
    BY <2>14 DEF ServerInv, Maps, CidOnce, PendingCids
  <2>16. /\ PendingCids' = PendingCids \ {c}
         /\ \A j, l \in 1..Len(new_cons') : j # l => new_cons'[j].cid # new_cons'[l].cid
         /\ PendingBounded'
    BY <2>3, <2>14, RemovedCid DEF ServerInv, Maps
  <2>17. UNCHANGED <<reported, current_cid>> /\ ReportedCids' = ReportedCids
    BY <2>3 DEF appVars, ReportedCids
  <2>18. CidOnce'
    <3>1. /\ DOMAIN tcp' = DOMAIN cid_addr'
          /\ PendingCids' \cup DOMAIN tcp' \cup ReportedCids' \subseteq 1..current_cid'
          /\ PendingCids' \cap DOMAIN tcp' = {}
          /\ ReportedCids' \cap (PendingCids' \cup DOMAIN tcp') = {}
      <4>1. /\ DOMAIN tcp = DOMAIN cid_addr
            /\ PendingCids \cup DOMAIN tcp \cup ReportedCids \subseteq 1..current_cid
            /\ PendingCids \cap DOMAIN tcp = {}
            /\ ReportedCids \cap (PendingCids \cup DOMAIN tcp) = {}
        BY DEF ServerInv, Maps, CidOnce
      <4>2. DOMAIN tcp' = DOMAIN tcp \cup {c} /\ DOMAIN cid_addr' = DOMAIN cid_addr \cup {c}
        BY <2>6, <2>7
      <4>3. current_cid' = current_cid
        BY <2>17
      <4> QED
        BY <2>15, <2>16, <2>17, <4>1, <4>2, <4>3
    <3>2. \A j, l \in 1..Len(reported') : j # l => reported'[j].cid # reported'[l].cid
      BY <2>17 DEF ServerInv, Maps, CidOnce
    <3> QED
      BY <2>16, <3>1, <3>2 DEF CidOnce
  <2>12. AddrCidSound'
    BY <2>7, <2>8, <2>15 DEF ServerInv, Maps, AddrCidSound
  <2>13. Maps'
    BY <2>1, <2>3, <2>4, <2>6, <2>7, <2>12, <2>16, <2>18 DEF ServerInv, Maps
  <2> QED
    BY <2>10, <2>11, <2>13 DEF ServerInv
<1> QED
  BY <1>1, <1>2, <1>3

(* Nothing but the list of pending connections loses an entry.              *)
LEMMA RemovalOnly ==
  ASSUME ServerInv, op = "settle", NEW i \in CId, ~(i > Len(new_cons)),
         new_cons' = RemoveAt(new_cons, i),
         UNCHANGED <<current_cid, tcp, cid_addr, addr_cid, reported, todo>>,
         op' \in {"idle", "settle"}
  PROVE  Maps' /\ new_cons' \in Seq(Pending)
<1>1. i \in 1..Len(new_cons)
  BY LenProperties DEF CId, ServerInv, ServerTypeOK
<1> DEFINE c == new_cons[i].cid
<1>2. /\ PendingCids' = PendingCids \ {c}
      /\ \A j, l \in 1..Len(new_cons') : j # l => new_cons'[j].cid # new_cons'[l].cid
      /\ PendingBounded'
  BY <1>1, RemovedCid DEF ServerInv, Maps
<1>3. ReportedCids' = ReportedCids
  BY DEF ReportedCids
<1>4. CidOnce'
  BY <1>2, <1>3 DEF ServerInv, Maps, CidOnce
<1>5. new_cons' \in Seq(Pending)
  BY EntryTypes DEF ServerInv
<1> QED
  BY <1>2, <1>4, <1>5 DEF ServerInv, Maps, AddrCidSound

LEMMA RejectTypes ==
  ASSUME ServerInv, RejectIncoming
  PROVE  ServerInv'
<1>1. PICK i \in rejected : RejectIncoming!2!(i)
  BY DEF RejectIncoming
<1>2. CASE PanicWith("index panic") \/ PanicWith("peer_addr panic")
  BY <1>2, PanicTypes DEF RejectIncoming, Panic
<1> DEFINE k == new_cons[i].con
<1>3. ASSUME ~(i > Len(new_cons)), ~broken[k]
      PROVE  ServerInv'
  <2>1. i \in CId /\ op = "settle"
    BY DEF ServerInv, ServerTypeOK, RejectIncoming
  <2>2. k \in Conn
    BY <1>3, <2>1, EntryTypes DEF ServerInv
  <2>3. /\ new_cons' = RemoveAt(new_cons, i)
        /\ down' = IF SrvCanWrite(k)
                   THEN Delivered(down, k, cliEnd, ResponseMsg(k, Rejected))
                   ELSE down
        /\ srvEnd' = [srvEnd EXCEPT ![k] = "shut"]
        /\ Left(accepted, rejected \ {i}, dead)
        /\ UNCHANGED <<listening, backlog, up, cliEnd, broken, dgrams>>
        /\ UNCHANGED <<current_cid, disconnected, tcp, cid_addr, addr_cid,
                       msg_buff, todo, cur, appVars>>
    BY <1>1, <1>3 DEF Answer, CloseTcp
  <2> HIDE DEF k
  <2>4. /\ accepted' \subseteq CId /\ rejected' \subseteq CId /\ dead' \subseteq CId
        /\ op' \in {"idle", "settle"}
    BY <2>1, <2>3, LeftTypes DEF ServerInv, ServerTypeOK
  <2>5. Maps' /\ new_cons' \in Seq(Pending)
    BY <1>3, <2>1, <2>3, <2>4, RemovalOnly DEF appVars
  <2>6. down' \in [Conn -> Seq(Msg)] /\ srvEnd' \in [Conn -> EndState]
    BY <2>2, <2>3, DeliveredType, MessageTypes DEF ServerInv, SocketsTypeOK, Rejected, EndState
  <2>7. SocketsTypeOK'
    BY <2>3, <2>6 DEF ServerInv, SocketsTypeOK
  <2>8. ServerTypeOK'
    BY <2>3, <2>4, <2>5 DEF ServerInv, ServerTypeOK, Op, appVars
  <2> QED
    BY <2>5, <2>7, <2>8 DEF ServerInv
<1> QED
  BY <1>1, <1>2, <1>3

LEMMA DropDeadTypes ==
  ASSUME ServerInv, DropDead
  PROVE  ServerInv'
<1>1. PICK i \in dead : DropDead!2!(i)
  BY DEF DropDead
<1>2. CASE PanicWith("index panic")
  BY <1>2, PanicTypes DEF DropDead, Panic
<1>3. ASSUME ~(i > Len(new_cons))
      PROVE  ServerInv'
  <2>1. i \in CId /\ op = "settle"
    BY DEF ServerInv, ServerTypeOK, DropDead
  <2>2. new_cons[i].con \in Conn
    BY <1>3, <2>1, EntryTypes DEF ServerInv
  <2>3. /\ new_cons' = RemoveAt(new_cons, i)
        /\ srvEnd' = [srvEnd EXCEPT ![new_cons[i].con] = "shut"]
        /\ Left(accepted, rejected, dead \ {i})
        /\ UNCHANGED <<listening, backlog, up, down, cliEnd, broken, dgrams>>
        /\ UNCHANGED <<current_cid, disconnected, tcp, cid_addr, addr_cid,
                       msg_buff, todo, cur, appVars>>
    BY <1>1, <1>3 DEF CloseTcp
  <2>4. /\ accepted' \subseteq CId /\ rejected' \subseteq CId /\ dead' \subseteq CId
        /\ op' \in {"idle", "settle"}
    BY <2>1, <2>3, LeftTypes DEF ServerInv, ServerTypeOK
  <2>5. Maps' /\ new_cons' \in Seq(Pending)
    BY <1>3, <2>1, <2>3, <2>4, RemovalOnly DEF appVars
  <2>7. SocketsTypeOK'
    BY <2>2, <2>3 DEF ServerInv, SocketsTypeOK, EndState
  <2>8. ServerTypeOK'
    BY <2>3, <2>4, <2>5 DEF ServerInv, ServerTypeOK, Op, appVars
  <2> QED
    BY <2>5, <2>7, <2>8 DEF ServerInv
<1> QED
  BY <1>1, <1>2, <1>3

(* start_incoming: the connections it accepts get the next CIds and fit in  *)
(* the room that is left.                                                   *)
LEMMA PulledType ==
  ASSUME ServerInv
  PROVE  /\ Pulled \in Seq(Pending)
         /\ \A i \in 1..Len(Pulled) : Pulled[i].cid = current_cid + i
         /\ Len(new_cons) + Len(Pulled) <= MaxConHandle
         /\ Len(Pulled) <= Len(backlog)
<1> DEFINE n == PullCount
<1>1. n \in Nat /\ n <= Len(backlog) /\ Len(new_cons) + n <= MaxConHandle
  <2>1. Len(backlog) \in Nat /\ Len(new_cons) \in Nat
    BY LenProperties DEF ServerInv, SocketsTypeOK, ServerTypeOK
  <2>2. Len(new_cons) <= MaxConHandle /\ MaxConHandle \in Nat
    BY DEF ServerInv, Maps, PendingBounded, ServerAssumption
  <2> QED
    BY <2>1, <2>2 DEF PullCount
<1>2. Pulled = [i \in 1..n |-> [con |-> backlog[i], cid |-> current_cid + i, late |-> FALSE]]
  BY DEF Pulled, NewCid
<1> HIDE DEF n
<1>3. ASSUME NEW i \in 1..n
      PROVE  [con |-> backlog[i], cid |-> current_cid + i, late |-> FALSE] \in Pending
  <2>1. backlog[i] \in Conn
    BY <1>1, LenProperties, ElementOfSeq DEF ServerInv, SocketsTypeOK
  <2>2. current_cid + i \in CId
    <3>1. i \in Nat \ {0}
      BY <1>1
    <3>2. current_cid \in Nat
      BY DEF ServerInv, ServerTypeOK
    <3> QED
      BY <3>1, <3>2 DEF CId
  <2> QED
    BY <2>1, <2>2 DEF Pending
<1>4. Pulled \in [1..n -> Pending]
  BY <1>2, <1>3
<1>5. Pulled \in Seq(Pending)
  BY <1>1, <1>4, SeqDef
<1>6. Len(Pulled) = n
  BY <1>1, <1>4, <1>5, LenProperties
<1> QED
  BY <1>1, <1>2, <1>5, <1>6

(* A CId given before is none of the next ones.                             *)
LEMMA RangesApart ==
  \A m, b \in Nat : \A x \in 1..m : \A y \in (m + 1)..(m + b) : x # y
  OBVIOUS

(* The scan of handle_new_con(s) starts from a list without repetitions.    *)
LEMMA PendType ==
  ASSUME ServerInv, NEW pend, pend = new_cons \o Pulled
  PROVE  /\ pend \in Seq(Pending)
         /\ Len(pend) <= MaxConHandle
         /\ \A i, j \in 1..Len(pend) : i # j => pend[i].cid # pend[j].cid
         /\ \A i \in 1..Len(pend) :
              \/ pend[i].cid \in PendingCids
              \/ pend[i].cid \in (current_cid + 1)..(current_cid + Len(Pulled))
<1> DEFINE a == Len(new_cons)
           b == Len(Pulled)
<1>1. /\ new_cons \in Seq(Pending) /\ Pulled \in Seq(Pending)
      /\ a \in Nat /\ b \in Nat /\ current_cid \in Nat
  BY PulledType, LenProperties DEF ServerInv, ServerTypeOK
<1>2. /\ pend \in Seq(Pending) /\ Len(pend) = a + b
      /\ \A i \in 1..(a + b) : pend[i] = IF i <= a THEN new_cons[i] ELSE Pulled[i - a]
  BY <1>1, ConcatProperties
<1>3. Len(pend) <= MaxConHandle
  BY <1>2, PulledType
<1>4. \A i \in 1..b : Pulled[i].cid = current_cid + i
  BY PulledType
<1>5. \A i \in 1..a : new_cons[i].cid \in PendingCids /\ new_cons[i].cid \in 1..current_cid
  BY DEF PendingCids, ServerInv, Maps, CidOnce
<1>6. \A i, j \in 1..a : i # j => new_cons[i].cid # new_cons[j].cid
  BY DEF ServerInv, Maps, CidOnce
<1> HIDE DEF a, b
<1>7. a \in Nat /\ b \in Nat /\ current_cid \in Nat
  BY <1>1
<1>8. ASSUME NEW i \in 1..(a + b), i <= a
      PROVE  /\ pend[i].cid \in PendingCids /\ pend[i].cid \in 1..current_cid
             /\ i \in 1..a /\ pend[i].cid = new_cons[i].cid
  <2>1. i \in 1..a
    BY <1>7, <1>8
  <2>2. pend[i] = new_cons[i]
    BY <1>2, <1>8
  <2> QED
    BY <1>5, <2>1, <2>2
<1>9. ASSUME NEW i \in 1..(a + b), ~(i <= a)
      PROVE  /\ pend[i].cid = current_cid + (i - a)
             /\ pend[i].cid \in (current_cid + 1)..(current_cid + b)
  <2>1. i - a \in 1..b
    BY <1>7, <1>9
  <2>2. pend[i] = Pulled[i - a]
    BY <1>2, <1>9
  <2>3. pend[i].cid = current_cid + (i - a)
    BY <1>4, <2>1, <2>2
  <2> QED
    BY <1>7, <2>1, <2>3
<1>10. ASSUME NEW i \in 1..(a + b), NEW j \in 1..(a + b), i # j
       PROVE  pend[i].cid # pend[j].cid
  <2>1. CASE i <= a /\ j <= a
    BY <1>6, <1>8, <1>10, <2>1
  <2>2. CASE i <= a /\ ~(j <= a)
    <3>1. pend[i].cid \in 1..current_cid
      BY <1>8, <2>2
    <3>2. pend[j].cid \in (current_cid + 1)..(current_cid + b)
      BY <1>9, <2>2
    <3> QED
      BY <1>7, <3>1, <3>2, RangesApart
  <2>3. CASE ~(i <= a) /\ j <= a
    <3>1. pend[j].cid \in 1..current_cid
      BY <1>8, <2>3
    <3>2. pend[i].cid \in (current_cid + 1)..(current_cid + b)
      BY <1>9, <2>3
    <3> QED
      BY <1>7, <3>1, <3>2, RangesApart
  <2>4. CASE ~(i <= a) /\ ~(j <= a)
    <3>1. pend[i].cid = current_cid + (i - a) /\ pend[j].cid = current_cid + (j - a)
      BY <1>9, <2>4
    <3> QED
      BY <1>7, <1>10, <3>1
  <2> QED
    BY <2>1, <2>2, <2>3, <2>4
<1>11. ASSUME NEW i \in 1..(a + b)
       PROVE  \/ pend[i].cid \in PendingCids
              \/ pend[i].cid \in (current_cid + 1)..(current_cid + b)
  BY <1>8, <1>9
<1>12. Len(pend) = a + b
  BY <1>2
<1>13. \A i, j \in 1..Len(pend) : i # j => pend[i].cid # pend[j].cid
  BY <1>10, <1>12
<1>14. \A i \in 1..Len(pend) :
         \/ pend[i].cid \in PendingCids
         \/ pend[i].cid \in (current_cid + 1)..(current_cid + Len(Pulled))
  BY <1>11, <1>12 DEF b
<1>15. pend \in Seq(Pending)
  BY <1>2
<1> QED
  BY <1>3, <1>13, <1>14, <1>15

LEMMA HandleNewTypes ==
  ASSUME ServerInv, HandleNewCon
  PROVE  ServerInv'
<1> DEFINE pend == new_cons \o Pulled
<1>1. PICK fn \in Api, v \in [1..Len(pend) -> Verdict] : HandleNew(fn, v)
  BY DEF HandleNewCon
<1> DEFINE With(x) == {i \in 1..Len(pend) : v[i] = x}
<1>2. /\ new_cons' = pend
      /\ current_cid' = current_cid + Len(Pulled)
      /\ backlog' = SubSeq(backlog, Len(Pulled) + 1, Len(backlog))
      /\ up' = [k \in Conn |->
                  IF \E i \in 1..Len(pend) : pend[i].con = k /\ Consumes(v, pend, i)
                  THEN Tail(up[k]) ELSE up[k]]
      /\ accepted' = With("accept") /\ rejected' = With("reject") /\ dead' = With("dead")
      /\ op' \in {"idle", "settle"}
      /\ granted' = granted \cup {pend[i].cid : i \in With("accept")}
      /\ refused' = refused \cup {pend[i].cid : i \in With("reject")}
      /\ UNCHANGED <<listening, down, cliEnd, srvEnd, broken, dgrams>>
      /\ UNCHANGED <<disconnected, tcp, cid_addr, addr_cid, msg_buff, todo, cur,
                     reported, srvSent>>
      /\ op = "idle"
  BY <1>1 DEF HandleNew
<1>3. /\ pend \in Seq(Pending) /\ Len(pend) <= MaxConHandle
      /\ \A i, j \in 1..Len(pend) : i # j => pend[i].cid # pend[j].cid
      /\ \A i \in 1..Len(pend) :
           \/ pend[i].cid \in PendingCids
           \/ pend[i].cid \in (current_cid + 1)..(current_cid + Len(Pulled))
  BY PendType
<1>4. Len(pend) \in Nat /\ Len(Pulled) \in Nat /\ current_cid \in Nat
  BY <1>3, PulledType, LenProperties DEF ServerInv, ServerTypeOK
<1>5. \A x : With(x) \subseteq 1..Len(pend)
  OBVIOUS
<1> HIDE DEF With
<1>6. up' \in [Conn -> Seq(Msg)]
  <2>1. ASSUME NEW k \in Conn, \E i \in 1..Len(pend) : pend[i].con = k /\ Consumes(v, pend, i)
        PROVE  Tail(up[k]) \in Seq(Msg)
    <3>1. up[k] \in Seq(Msg) /\ up[k] # <<>>
      BY <2>1 DEF Consumes, ServerInv, SocketsTypeOK
    <3> QED
      BY <3>1, HeadTailProperties
  <2> QED
    BY <1>2, <2>1 DEF ServerInv, SocketsTypeOK
<1>7. backlog' \in Seq(Conn)
  <2>1. \A i \in (Len(Pulled) + 1)..Len(backlog) : backlog[i] \in Conn
    BY <1>4, ElementOfSeq, LenProperties DEF ServerInv, SocketsTypeOK
  <2> QED
    BY <1>2, <1>4, <2>1, SubSeqProperties, LenProperties DEF ServerInv, SocketsTypeOK
<1> HIDE DEF pend
<1>8. SocketsTypeOK'
  BY <1>2, <1>6, <1>7 DEF ServerInv, SocketsTypeOK
<1>9. accepted' \subseteq CId /\ rejected' \subseteq CId /\ dead' \subseteq CId
  BY <1>2, <1>4, <1>5 DEF CId
<1>10. granted' \subseteq CId /\ refused' \subseteq CId
  <2>1. ASSUME NEW i \in 1..Len(pend)
        PROVE  pend[i].cid \in CId
    <3>1. pend[i] \in Pending
      BY <1>3, ElementOfSeq
    <3> QED
      BY <3>1 DEF Pending
  <2> QED
    BY <1>2, <1>5, <2>1 DEF ServerInv, ServerTypeOK
<1>11. ServerTypeOK'
  <2>1. current_cid' \in Nat /\ new_cons' \in Seq(Pending) /\ op' \in Op
    BY <1>2, <1>3, <1>4 DEF Op
  <2>2. UNCHANGED <<disconnected, tcp, cid_addr, addr_cid, msg_buff, todo, cur,
                    reported, srvSent>>
    BY <1>2
  <2> QED
    BY <1>9, <1>10, <2>1, <2>2 DEF ServerInv, ServerTypeOK
<1>12. CidOnce'
  <2>1. ReportedCids' = ReportedCids /\ UNCHANGED <<tcp, cid_addr, reported>>
    BY <1>2 DEF ReportedCids
  <2>2. PendingCids' \subseteq
          PendingCids \cup ((current_cid + 1)..(current_cid + Len(Pulled)))
    BY <1>2, <1>3 DEF PendingCids
  <2>3. /\ DOMAIN tcp = DOMAIN cid_addr
        /\ PendingCids \cup DOMAIN tcp \cup ReportedCids \subseteq 1..current_cid
        /\ PendingCids \cap DOMAIN tcp = {}
        /\ ReportedCids \cap (PendingCids \cup DOMAIN tcp) = {}
        /\ \A i, j \in 1..Len(reported) : i # j => reported[i].cid # reported[j].cid
    BY DEF ServerInv, Maps, CidOnce
  <2>4. current_cid' = current_cid + Len(Pulled)
    BY <1>2
  <2>5. PendingCids' \cup DOMAIN tcp \cup ReportedCids \subseteq 1..current_cid'
    BY <1>4, <2>2, <2>3, <2>4
  <2>6. PendingCids' \cap DOMAIN tcp = {} /\ ReportedCids \cap (PendingCids' \cup DOMAIN tcp) = {}
    BY <1>4, <2>2, <2>3
  <2>7. \A i, j \in 1..Len(new_cons') : i # j => new_cons'[i].cid # new_cons'[j].cid
    BY <1>2, <1>3
  <2> QED
    BY <2>1, <2>3, <2>5, <2>6, <2>7 DEF CidOnce
<1>13. Maps'
  BY <1>2, <1>3, <1>12 DEF ServerInv, Maps, AddrCidSound, PendingBounded
<1> QED
  BY <1>8, <1>11, <1>13 DEF ServerInv

-----------------------------------------------------------------------------
(* What a client or the network does keeps the types, and the server as it  *)
(* is.                                                                      *)
LEMMA KeepType ==
  ASSUME ClientTypeOK, NEW k \in Conn, NEW m \in UserMsg, NEW con \in Conn, NEW n \in Nat,
         Keep(k, m, con, n)
  PROVE  received' \in [Conn -> [UserMsg -> Seq([con : Conn, n : Nat])]]
<1> DEFINE T == [con : Conn, n : Nat]
           e == [con |-> con, n |-> n]
<1>1. received[k] \in [UserMsg -> Seq(T)] /\ e \in T
  BY DEF ClientTypeOK
<1>2. /\ received \in [Conn -> [UserMsg -> Seq(T)]]
      /\ received' = [received EXCEPT ![k] = [received[k] EXCEPT ![m] = Append(received[k][m], e)]]
  BY DEF Keep, ClientTypeOK
<1> HIDE DEF T, e
<1>3. [received[k] EXCEPT ![m] = Append(received[k][m], e)] \in [UserMsg -> Seq(T)]
  BY <1>1, BufferType
<1>4. received' \in [Conn -> [UserMsg -> Seq(T)]]
  BY <1>2, <1>3
<1> QED
  BY <1>4 DEF T

LEMMA OpeningTypes ==
  ASSUME SocketsTypeOK, ClientTypeOK, NEW k \in Conn,
         Connect(k) \/ SendConnection(k) \/ RecvResponse(k) \/ Fail(k)
  PROVE  SocketsTypeOK' /\ ClientTypeOK'
<1>1. CASE Connect(k)
  <2>1. phase' \in [Conn -> Phase]
    BY <1>1 DEF Connect, ClientTypeOK, Phase
  <2>2. SocketsTypeOK'
    <3>1. CASE OpenConnection(k)
      <4>1. Append(backlog, k) \in Seq(Conn)
        BY AppendProperties DEF SocketsTypeOK
      <4> QED
        BY <1>1, <3>1, <4>1 DEF Connect, OpenConnection, SocketsTypeOK, EndState
    <3>2. CASE UNCHANGED <<backlog, cliEnd, srvEnd>>
      BY <1>1, <3>2 DEF Connect, SocketsTypeOK
    <3> QED
      BY <1>1, <3>1, <3>2 DEF Connect
  <2> QED
    BY <1>1, <2>1, <2>2 DEF Connect, ClientTypeOK
<1>2. CASE SendConnection(k)
  <2>1. up' \in [Conn -> Seq(Msg)]
    BY <1>2, DeliveredType, MessageTypes DEF SendConnection, SocketsTypeOK
  <2>2. phase' \in [Conn -> Phase]
    BY <1>2 DEF SendConnection, ClientTypeOK, Phase
  <2> QED
    BY <1>2, <2>1, <2>2 DEF SendConnection, SocketsTypeOK, ClientTypeOK
<1>3. CASE RecvResponse(k)
  <2>1. down[k] \in Seq(Msg) /\ Head(down[k]) \in Msg /\ Tail(down[k]) \in Seq(Msg)
    BY <1>3, HeadTailProperties DEF RecvResponse, SocketsTypeOK
  <2>2. down' \in [Conn -> Seq(Msg)]
    BY <1>3, <2>1 DEF RecvResponse, SocketsTypeOK
  <2>3. phase' \in [Conn -> Phase] /\ resp' \in [Conn -> Nat \cup {NoResponse}]
    BY <1>3, <2>1 DEF RecvResponse, ClientTypeOK, Phase, Msg
  <2> QED
    BY <1>3, <2>2, <2>3 DEF RecvResponse, SocketsTypeOK, ClientTypeOK
<1>4. CASE Fail(k)
  BY <1>4 DEF Fail, SocketsTypeOK, ClientTypeOK, EndState, Phase
<1> QED
  BY <1>1, <1>2, <1>3, <1>4

LEMMA SentType ==
  ASSUME ClientTypeOK, NEW k \in Conn, NEW m \in UserMsg,
         sent' = [sent EXCEPT ![k][m] = @ + 1]
  PROVE  sent' \in [Conn -> [UserMsg -> Nat]] /\ sent'[k][m] \in Nat
<1>1. sent \in [Conn -> [UserMsg -> Nat]]
  BY DEF ClientTypeOK
<1> QED
  BY <1>1

LEMMA ClientSendTypes ==
  ASSUME SocketsTypeOK, ClientTypeOK, NEW k \in Conn,
         SendTcp(k) \/ SendUdp(k) \/ ClientDisconnect(k) \/ DropClient(k)
  PROVE  SocketsTypeOK' /\ ClientTypeOK'
<1>1. CASE SendTcp(k)
  <2>1. sent' \in [Conn -> [UserMsg -> Nat]] /\ sent'[k][TcpMsg] \in Nat
    BY <1>1, SentType DEF SendTcp, UserMsg
  <2>2. up' \in [Conn -> Seq(Msg)]
    BY <1>1, <2>1, DeliveredType, MessageTypes DEF SendTcp, SocketsTypeOK
  <2> QED
    BY <1>1, <2>1, <2>2 DEF SendTcp, SocketsTypeOK, ClientTypeOK
<1>2. CASE SendUdp(k)
  <2>1. sent' \in [Conn -> [UserMsg -> Nat]] /\ sent'[k][UdpMsg] \in Nat
    BY <1>2, SentType DEF SendUdp, UserMsg
  <2>2. AddrOf[k] \in Addr
    BY DEF SocketsAssumption
  <2>3. [dir |-> "up", addr |-> AddrOf[k], con |-> k, n |-> sent'[k][UdpMsg]] \in Datagram
    BY <2>1, <2>2 DEF Datagram, Direction
  <2> QED
    BY <1>2, <2>1, <2>3 DEF SendUdp, SocketsTypeOK, ClientTypeOK
<1>3. CASE ClientDisconnect(k)
  <2>1. up' \in [Conn -> Seq(Msg)]
    BY <1>3, DeliveredType, MessageTypes DEF ClientDisconnect, SocketsTypeOK
  <2>2. cliEnd' \in [Conn -> EndState] /\ broken' \in [Conn -> BOOLEAN]
    BY <1>3 DEF ClientDisconnect, SocketsTypeOK, EndState
  <2>3. status' \in [Conn -> {"Connected", "Disconnected", "Closed", "Dropped"}]
    BY <1>3 DEF ClientDisconnect, ClientTypeOK
  <2> QED
    BY <1>3, <2>1, <2>2, <2>3 DEF ClientDisconnect, SocketsTypeOK, ClientTypeOK
<1>4. CASE DropClient(k)
  BY <1>4 DEF DropClient, SocketsTypeOK, ClientTypeOK, EndState, Phase
<1> QED
  BY <1>1, <1>2, <1>3, <1>4

LEMMA ClientRecvTypes ==
  ASSUME SocketsTypeOK, ClientTypeOK, NEW k \in Conn,
         \/ ClientTcpYields(k) \/ ClientTcpFails(k)
         \/ ClientRecvUdp(k) \/ ClientClearMsgs(k)
  PROVE  SocketsTypeOK' /\ ClientTypeOK'
<1>1. CASE ClientTcpYields(k)
  <2> DEFINE m == Head(down[k])
  <2>1. down[k] \in Seq(Msg) /\ m \in Msg /\ Tail(down[k]) \in Seq(Msg)
    BY <1>1, HeadTailProperties DEF ClientTcpYields, SocketsTypeOK
  <2>2. down' \in [Conn -> Seq(Msg)]
    BY <1>1, <2>1 DEF ClientTcpYields, SocketsTypeOK
  <2>3. \/ UNCHANGED received /\ status' = [status EXCEPT ![k] = "Disconnected"]
        \/ UNCHANGED status /\ m.mid \in UserMsg /\ Keep(k, m.mid, m.con, m.n)
    BY <1>1 DEF ClientTcpYields
  <2>4. m.con \in Conn /\ m.n \in Nat
    BY <2>1 DEF Msg
  <2> HIDE DEF m
  <2>5. received' \in [Conn -> [UserMsg -> Seq([con : Conn, n : Nat])]]
    <3>1. CASE UNCHANGED received
      BY <3>1 DEF ClientTypeOK
    <3>2. CASE m.mid \in UserMsg /\ Keep(k, m.mid, m.con, m.n)
      BY <2>4, <3>2, KeepType
    <3> QED
      BY <2>3, <3>1, <3>2
  <2>6. status' \in [Conn -> {"Connected", "Disconnected", "Closed", "Dropped"}]
    BY <2>3 DEF ClientTypeOK
  <2> QED
    BY <1>1, <2>2, <2>5, <2>6 DEF ClientTcpYields, SocketsTypeOK, ClientTypeOK
<1>2. CASE ClientTcpFails(k)
  BY <1>2 DEF ClientTcpFails, Lost, SocketsTypeOK, ClientTypeOK, netVars
<1>3. CASE ClientRecvUdp(k)
  <2>1. PICK d \in dgrams : dgrams' = dgrams \ {d} /\ Keep(k, UdpMsg, d.con, d.n)
    BY <1>3 DEF ClientRecvUdp
  <2>2. d.con \in Conn /\ d.n \in Nat
    BY DEF SocketsTypeOK, Datagram
  <2>3. received' \in [Conn -> [UserMsg -> Seq([con : Conn, n : Nat])]]
    BY <2>1, <2>2, KeepType DEF UserMsg
  <2> QED
    BY <1>3, <2>1, <2>3 DEF ClientRecvUdp, SocketsTypeOK, ClientTypeOK
<1>4. CASE ClientClearMsgs(k)
  <2>1. NothingReceived \in [UserMsg -> Seq([con : Conn, n : Nat])]
    BY EmptySeq DEF NothingReceived
  <2> QED
    BY <1>4, <2>1 DEF ClientClearMsgs, SocketsTypeOK, ClientTypeOK, netVars
<1> QED
  BY <1>1, <1>2, <1>3, <1>4

LEMMA NetworkTypes ==
  ASSUME SocketsTypeOK, LoseDatagram \/ \E k \in Conn : Break(k)
  PROVE  SocketsTypeOK'
<1>1. CASE LoseDatagram
  BY <1>1 DEF LoseDatagram, SocketsTypeOK
<1>2. ASSUME NEW k \in Conn, Break(k)
      PROVE  SocketsTypeOK'
  <2>1. up' \in [Conn -> Seq(Msg)]
    <3>1. PICK s \in Arrived(up, k) : up' = [up EXCEPT ![k] = s]
      BY <1>2 DEF Break
    <3>2. s \in Seq(Msg)
      BY ArrivedType DEF SocketsTypeOK
    <3> QED
      BY <3>1, <3>2 DEF SocketsTypeOK
  <2>2. down' \in [Conn -> Seq(Msg)]
    <3>1. PICK s \in Arrived(down, k) : down' = [down EXCEPT ![k] = s]
      BY <1>2 DEF Break
    <3>2. s \in Seq(Msg)
      BY ArrivedType DEF SocketsTypeOK
    <3> QED
      BY <3>1, <3>2 DEF SocketsTypeOK
  <2> QED
    BY <1>2, <2>1, <2>2 DEF Break, SocketsTypeOK
<1> QED
  BY <1>1, <1>2

-----------------------------------------------------------------------------
(* Every step of the system.                                                *)
SystemInv == ServerInv /\ ClientTypeOK

LEMMA ServerFrame ==
  ASSUME ServerInv, SocketsTypeOK', UNCHANGED <<serverVars, appVars>>
  PROVE  ServerInv'
  BY CidFrame DEF ServerInv, ServerTypeOK, Maps, AddrCidSound, serverVars, appVars, cidVars

LEMMA ServerNextTypes ==
  ASSUME ServerInv, ServerNext
  PROVE  ServerInv'
  BY HandleNewTypes, AcceptTypes, RejectTypes, DropDeadTypes, ElapseTypes, RecvMsgsTypes,
     YieldsTypes, FailsTypes, RecvUdpTypes, ClearMsgsTypes, HandleDisconnectTypes,
     ReapTypes, DisconnectTypes, SendTcpTypes, SendUdpTypes
  DEF ServerNext

LEMMA ClientNextTypes ==
  ASSUME SocketsTypeOK, ClientTypeOK, ClientNext
  PROVE  SocketsTypeOK' /\ ClientTypeOK'
  BY OpeningTypes, ClientSendTypes, ClientRecvTypes DEF ClientNext

LEMMA SystemStep == SystemInv /\ [Next]_vars => SystemInv'
<1> SUFFICES ASSUME SystemInv, [Next]_vars
             PROVE  SystemInv'
  OBVIOUS
<1>1. ServerInv /\ ClientTypeOK /\ SocketsTypeOK
  BY DEF SystemInv, ServerInv
<1>2. CASE ServerStep \/ ShutDown
  <2>1. ServerInv'
    BY <1>1, <1>2, ServerNextTypes, DropServerTypes DEF ServerStep, ShutDown
  <2>2. ClientTypeOK'
    BY <1>1, <1>2 DEF ServerStep, ShutDown, clientVars, ClientTypeOK
  <2> QED
    BY <2>1, <2>2 DEF SystemInv
<1>3. CASE ClientStep
  <2>1. SocketsTypeOK' /\ ClientTypeOK'
    BY <1>1, <1>3, ClientNextTypes DEF ClientStep
  <2> QED
    BY <1>1, <1>3, <2>1, ServerFrame DEF ClientStep, SystemInv
<1>4. CASE NetworkStep
  <2>1. SocketsTypeOK'
    BY <1>1, <1>4, NetworkTypes DEF NetworkStep
  <2>2. ClientTypeOK'
    BY <1>1, <1>4 DEF NetworkStep, clientVars, ClientTypeOK
  <2> QED
    BY <1>1, <1>4, <2>1, <2>2, ServerFrame DEF NetworkStep, SystemInv
<1>5. CASE UNCHANGED vars
  <2>1. SocketsTypeOK' /\ ClientTypeOK'
    BY <1>1, <1>5 DEF vars, netVars, clientVars, SocketsTypeOK, ClientTypeOK
  <2> QED
    BY <1>1, <1>5, <2>1, ServerFrame DEF vars, SystemInv
<1> QED
  BY <1>2, <1>3, <1>4, <1>5 DEF Next

LEMMA SystemInvariant == Spec => []SystemInv
<1>1. Init => SystemInv
  BY InitTypes DEF SystemInv
<1> QED
  BY <1>1, SystemStep, PTL DEF Spec

(* Every variable keeps its type.                                           *)
THEOREM TypeCorrect == Spec => []TypeOK
<1>1. SystemInv => TypeOK
  BY DEF SystemInv, ServerInv, TypeOK
<1> QED
  BY <1>1, SystemInvariant, PTL

(* A CId is given to one connection, which is pending, registered or        *)
(* reported, and never two of these: through every batch, removal by index  *)
(* and stale entry of the disconnect queue (server.rs:184-195, 383-393).    *)
THEOREM CidsOnce == Spec => []CidOnce
<1>1. SystemInv => CidOnce
  BY DEF SystemInv, ServerInv, Maps
<1> QED
  BY <1>1, SystemInvariant, PTL

(* However many connections wait in the kernel, start_incoming keeps the    *)
(* pending list within max_con_handle (server.rs:323-335).                  *)
THEOREM PendingStaysBounded == Spec => []PendingBounded
<1>1. SystemInv => PendingBounded
  BY DEF SystemInv, ServerInv, Maps
<1> QED
  BY <1>1, SystemInvariant, PTL

(* addr_cid leads only to registered connections, with that address, even   *)
(* when addresses are used again (server.rs:780-795).                       *)
THEOREM AddrCidCorrect == Spec => []AddrCidSound
<1>1. SystemInv => AddrCidSound
  BY DEF SystemInv, ServerInv, Maps
<1> QED
  BY <1>1, SystemInvariant, PTL

(* A CId that is alive in one map is in all three, so that rm_tcp_con finds *)
(* it.                                                                      *)
LEMMA UnwrapStep ==
  ASSUME SystemInv, NoUnwrapPanic, [Next]_vars
  PROVE  NoUnwrapPanic'
<1> USE DEF NoUnwrapPanic
<1>1. CASE Reap
  <2>1. PICK c : c = Head(disconnected).cid
    OBVIOUS
  <2>2. ~(Alive(c) /\ c \notin DOMAIN tcp)
    BY DEF SystemInv, ServerInv, Maps, Alive
  <2> QED
    BY <1>1, <2>1, <2>2 DEF Reap
<1>2. CASE HandleNewCon \/ AcceptIncoming \/ RejectIncoming \/ DropDead \/ Elapse
  BY <1>2 DEF HandleNewCon, HandleNew, AcceptIncoming, RejectIncoming, DropDead, Elapse,
     PanicWith, Left
<1>3. CASE RecvMsgs \/ RecvUdp \/ ClearMsgs \/ HandleDisconnect
  BY <1>3 DEF RecvMsgs, RecvUdp, ClearMsgs, HandleDisconnect
<1>4. ASSUME NEW c \in todo, TcpYields(c) \/ TcpFails(c) \/ TcpWouldBlock(c)
      PROVE  NoUnwrapPanic'
  BY <1>4 DEF TcpYields, TcpFails, TcpWouldBlock, DoneWith
<1>5. ASSUME NEW c \in DOMAIN cid_addr, Disconnect(c)
      PROVE  NoUnwrapPanic'
  BY <1>5 DEF Disconnect
<1>6. ASSUME NEW S \in Matching, SendUdpSpec(S) \/ \E G \in SUBSET S : SendTcpSpec(S, G)
      PROVE  NoUnwrapPanic'
  BY <1>6 DEF SendUdpSpec, SendTcpSpec
<1>7. CASE UNCHANGED vars \/ ShutDown \/ ClientStep \/ NetworkStep
  BY <1>7 DEF vars, serverVars, ShutDown, DropServer, ClientStep, NetworkStep
<1> QED
  BY <1>1, <1>2, <1>3, <1>4, <1>5, <1>6, <1>7 DEF Next, ServerStep, ServerNext

(* The unwrap of rm_tcp_con's result never fails (server.rs:390, 412).      *)
THEOREM UnwrapSafe == Spec => []NoUnwrapPanic
<1>1. Init => NoUnwrapPanic
  BY DEF Init, ServerInit, NoUnwrapPanic
<1>2. SystemInv /\ NoUnwrapPanic /\ [Next]_vars => NoUnwrapPanic'
  BY UnwrapStep
<1> QED
  BY <1>1, <1>2, SystemInvariant, PTL DEF Spec

-----------------------------------------------------------------------------
(* What one step does to the list of reports and to the map of connections. *)
SameReports ==
  reported' = reported /\ DOMAIN tcp \subseteq DOMAIN tcp'

OneReport ==
  \E e \in Ending :
    /\ reported' = Append(reported, e)
    /\ e.cid \in DOMAIN tcp
    /\ DOMAIN tcp' = DOMAIN tcp \ {e.cid}

LEMMA ReportStep ==
  ASSUME SystemInv, [Next]_vars
  PROVE  SameReports \/ OneReport
<1>1. ServerInv /\ ServerTypeOK
  BY DEF SystemInv, ServerInv
<1>2. CASE ClientStep \/ NetworkStep \/ UNCHANGED vars
  BY <1>2 DEF ClientStep, NetworkStep, vars, serverVars, appVars, SameReports
<1>3. CASE ShutDown
  BY <1>3 DEF ShutDown, DropServer, appVars, SameReports
<1>4. CASE HandleNewCon
  BY <1>4 DEF HandleNewCon, HandleNew, SameReports
<1>5. CASE AcceptIncoming
  <2>1. PICK i \in accepted : AcceptIncoming!2!(i)
    BY <1>5 DEF AcceptIncoming
  <2>2. CASE PanicWith("index panic") \/ PanicWith("peer_addr panic")
    BY <2>2 DEF PanicWith, appVars, SameReports
  <2>3. CASE ~(i > Len(new_cons)) /\ ~broken[new_cons[i].con]
    <3>1. tcp' = Insert(tcp, new_cons[i].cid, new_cons[i].con) /\ reported' = reported
      BY <2>1, <2>3 DEF AddTcpCon, appVars
    <3> QED
      BY <3>1 DEF Insert, SameReports
  <2> QED
    BY <2>1, <2>2, <2>3
<1>6. CASE RejectIncoming \/ DropDead
  BY <1>6 DEF RejectIncoming, DropDead, PanicWith, appVars, SameReports
<1>7. CASE Elapse \/ RecvMsgs \/ RecvUdp \/ ClearMsgs \/ HandleDisconnect
  BY <1>7 DEF Elapse, RecvMsgs, RecvUdp, ClearMsgs, Emptied, HandleDisconnect, appVars, SameReports
<1>8. ASSUME NEW c \in todo, TcpYields(c) \/ TcpFails(c) \/ TcpWouldBlock(c)
      PROVE  SameReports
  BY <1>8 DEF TcpYields, TcpFails, TcpWouldBlock, RecvTcp, appVars, SameReports
<1>9. CASE Reap
  <2> DEFINE e == Head(disconnected)
  <2>1. e \in Ending
    BY <1>1, <1>9, HeadTailProperties DEF ServerInv, ServerTypeOK, Maps, Reap, Popped
  <2>2. ~(Alive(e.cid) /\ e.cid \notin DOMAIN tcp)
    BY <1>1 DEF ServerInv, Maps, Alive
  <2>3. CASE Alive(e.cid)
    <3>1. reported' = Append(reported, e) /\ tcp' = Delete(tcp, e.cid)
      BY <1>9, <2>2, <2>3 DEF Reap, Popped, RmTcpCon
    <3>2. DOMAIN tcp' = DOMAIN tcp \ {e.cid}
      BY <3>1 DEF Delete, Restrict
    <3> QED
      BY <2>1, <2>2, <2>3, <3>1, <3>2 DEF OneReport
  <2>4. CASE ~Alive(e.cid)
    BY <1>9, <2>4 DEF Reap, Popped, SameReports
  <2> QED
    BY <2>3, <2>4
<1>10. ASSUME NEW c \in DOMAIN cid_addr, Disconnect(c)
       PROVE  SameReports
  BY <1>10 DEF Disconnect, appVars, SameReports
<1>11. ASSUME NEW S \in Matching, SendUdpSpec(S) \/ \E G \in SUBSET S : SendTcpSpec(S, G)
       PROVE  SameReports
  BY <1>11 DEF SendUdpSpec, SendTcpSpec, SameReports
<1> QED
  BY <1>2, <1>3, <1>4, <1>5, <1>6, <1>7, <1>8, <1>9, <1>10, <1>11
  DEF Next, ServerStep, ServerNext

(* A connection leaves the server's map in the very step in which the       *)
(* disconnect hook is called for it, and the hook is called for nothing     *)
(* else (server.rs:383-393, 402-415).                                       *)
THEOREM RemovalsReported == Spec => ReportedWhenRemoved
<1>1. ASSUME SystemInv, [Next]_vars
      PROVE  /\ Len(reported') <= Len(reported) + 1
             /\ DOMAIN tcp \ DOMAIN tcp' =
                  {reported'[i].cid : i \in (Len(reported) + 1)..Len(reported')}
  <2>1. reported \in Seq(Ending) /\ Len(reported) \in Nat
    BY <1>1, LenProperties DEF SystemInv, ServerInv, ServerTypeOK
  <2>2. CASE SameReports
    BY <2>1, <2>2 DEF SameReports
  <2>3. CASE OneReport
    <3>1. PICK e \in Ending :
            /\ reported' = Append(reported, e)
            /\ e.cid \in DOMAIN tcp
            /\ DOMAIN tcp' = DOMAIN tcp \ {e.cid}
      BY <2>3 DEF OneReport
    <3>2. /\ Len(reported') = Len(reported) + 1
          /\ reported'[Len(reported) + 1] = e
      BY <2>1, <3>1, AppendProperties
    <3>3. (Len(reported) + 1)..Len(reported') = {Len(reported) + 1}
      BY <2>1, <3>2
    <3>4. {reported'[i].cid : i \in (Len(reported) + 1)..Len(reported')} = {e.cid}
      BY <3>2, <3>3
    <3> QED
      BY <2>1, <3>1, <3>2, <3>4
  <2> QED
    BY <1>1, <2>2, <2>3, ReportStep
<1> QED
  BY <1>1, SystemInvariant, PTL DEF Spec, ReportedWhenRemoved

-----------------------------------------------------------------------------
(* handle_new_con: the one entry its scan collects for acceptance is still  *)
(* where it was, and is one the hook said yes to, when it is removed.       *)
HookInv ==
  /\ AcceptedByHook
  /\ \A i, j \in accepted : i = j
  /\ \A i \in accepted : i \in 1..Len(new_cons) /\ new_cons[i].cid \in granted

LEMMA HookFrame ==
  ASSUME HookInv, UNCHANGED <<new_cons, accepted, granted>>, DOMAIN tcp' \subseteq DOMAIN tcp
  PROVE  HookInv'
  BY DEF HookInv, AcceptedByHook

LEMMA HookHandleNew ==
  ASSUME ServerInv, HookInv, HandleNewCon, Api \subseteq {"handle_new_con"}
  PROVE  HookInv'
<1> DEFINE pend == new_cons \o Pulled
<1>1. PICK fn \in Api, v \in [1..Len(pend) -> Verdict] : HandleNew(fn, v)
  BY DEF HandleNewCon
<1> DEFINE Yes == {i \in 1..Len(pend) : v[i] = "accept"}
<1>2. /\ new_cons' = pend /\ accepted' = Yes
      /\ granted' = granted \cup {pend[i].cid : i \in Yes}
      /\ UNCHANGED tcp
      /\ \A i \in 1..Len(pend) : ~Examined(fn, v, i) => v[i] = "wait"
  BY <1>1 DEF HandleNew
<1>3. fn = "handle_new_con"
  OBVIOUS
<1>4. ASSUME NEW i \in Yes, NEW j \in Yes, j < i
      PROVE  FALSE
  <2>1. Len(pend) \in Nat
    BY PendType, LenProperties
  <2>2. j \in 1..(i - 1)
    BY <1>4, <2>1
  <2>3. ~Examined(fn, v, i)
    BY <1>3, <2>2 DEF Examined
  <2> QED
    BY <1>2, <2>3
<1>5. \A i, j \in Yes : i = j
  <2>1. Len(pend) \in Nat
    BY PendType, LenProperties
  <2>2. \A i \in Yes : i \in Int
    BY <2>1
  <2> HIDE DEF Yes
  <2> QED
    BY <1>4, <2>2
<1> HIDE DEF pend
<1> QED
  BY <1>2, <1>5 DEF HookInv, AcceptedByHook

LEMMA HookAccept ==
  ASSUME ServerInv, HookInv, AcceptIncoming
  PROVE  HookInv'
<1>1. PICK i \in accepted : AcceptIncoming!2!(i)
  BY DEF AcceptIncoming
<1>2. CASE PanicWith("index panic") \/ PanicWith("peer_addr panic")
  BY <1>2, HookFrame DEF PanicWith, appVars
<1>3. CASE ~(i > Len(new_cons)) /\ ~broken[new_cons[i].con]
  <2>1. /\ tcp' = Insert(tcp, new_cons[i].cid, new_cons[i].con)
        /\ accepted' = accepted \ {i}
        /\ granted' = granted
    BY <1>1, <1>3 DEF AddTcpCon, Left, appVars
  <2>2. accepted' = {}
    BY <2>1 DEF HookInv
  <2>3. DOMAIN tcp' = DOMAIN tcp \cup {new_cons[i].cid}
    BY <2>1 DEF Insert
  <2> QED
    BY <2>1, <2>2, <2>3 DEF HookInv, AcceptedByHook
<1> QED
  BY <1>1, <1>2, <1>3

LEMMA HookElapse ==
  ASSUME ServerInv, HookInv, Elapse
  PROVE  HookInv'
<1>1. PICK i \in 1..Len(new_cons) : new_cons' = [new_cons EXCEPT ![i].late = TRUE]
  BY DEF Elapse
<1>2. [new_cons[i] EXCEPT !.late = TRUE] \in Pending
  <2>1. new_cons[i] \in Pending
    BY ElementOfSeq DEF ServerInv, ServerTypeOK
  <2> QED
    BY <2>1 DEF Pending
<1>3. /\ Len(new_cons') = Len(new_cons)
      /\ \A j \in 1..Len(new_cons) : new_cons'[j].cid = new_cons[j].cid
  BY <1>1, <1>2, ExceptSeq DEF ServerInv, ServerTypeOK
<1> QED
  BY <1>3 DEF Elapse, appVars, HookInv, AcceptedByHook

LEMMA HookStep ==
  ASSUME SystemInv, HookInv, [Next]_vars, Api \subseteq {"handle_new_con"}
  PROVE  HookInv'
<1>1. ServerInv /\ ServerTypeOK
  BY DEF SystemInv, ServerInv
<1>2. CASE ClientStep \/ NetworkStep \/ UNCHANGED vars \/ ShutDown
  BY <1>2, HookFrame
  DEF ClientStep, NetworkStep, ShutDown, DropServer, vars, serverVars, appVars
<1>3. CASE HandleNewCon \/ AcceptIncoming \/ Elapse
  BY <1>1, <1>3, HookHandleNew, HookAccept, HookElapse
<1>4. CASE RejectIncoming \/ DropDead
  <2>1. /\ accepted = {} /\ accepted' = {}
        /\ granted' = granted /\ tcp' = tcp
    BY <1>4 DEF RejectIncoming, DropDead, PanicWith, Left, appVars
  <2> QED
    BY <2>1 DEF HookInv, AcceptedByHook
<1>5. CASE RecvMsgs \/ RecvUdp \/ ClearMsgs \/ HandleDisconnect
  BY <1>5, HookFrame DEF RecvMsgs, RecvUdp, ClearMsgs, Emptied, HandleDisconnect, appVars
<1>6. ASSUME NEW c \in todo, TcpYields(c) \/ TcpFails(c) \/ TcpWouldBlock(c)
      PROVE  HookInv'
  BY <1>6, HookFrame DEF TcpYields, TcpFails, TcpWouldBlock, RecvTcp, appVars
<1>7. CASE Reap
  <2>1. DOMAIN tcp' \subseteq DOMAIN tcp /\ UNCHANGED <<new_cons, accepted, granted>>
    BY <1>7 DEF Reap, Popped, PanicWith, RmTcpCon, Delete, Restrict, appVars
  <2> QED
    BY <2>1, HookFrame
<1>8. ASSUME NEW c \in DOMAIN cid_addr, Disconnect(c)
      PROVE  HookInv'
  BY <1>8, HookFrame DEF Disconnect, appVars
<1>9. ASSUME NEW S \in Matching, SendUdpSpec(S) \/ \E G \in SUBSET S : SendTcpSpec(S, G)
      PROVE  HookInv'
  BY <1>9, HookFrame DEF SendUdpSpec, SendTcpSpec
<1> QED
  BY <1>2, <1>3, <1>4, <1>5, <1>6, <1>7, <1>8, <1>9 DEF Next, ServerStep, ServerNext

(* An application that accepts with handle_new_con has only connections in  *)
(* the map that its hook accepted (server.rs:153-197), however many are     *)
(* pending; with handle_new_cons this is not so.                            *)
THEOREM OnlyAcceptedRegistered ==
  ASSUME Api \subseteq {"handle_new_con"}
  PROVE  Spec => []AcceptedByHook
<1>1. Init => HookInv
  BY DEF Init, ServerInit, HookInv, AcceptedByHook
<1>2. SystemInv /\ HookInv /\ [Next]_vars => HookInv'
  BY HookStep
<1>3. HookInv => AcceptedByHook
  BY DEF HookInv
<1> QED
  BY <1>1, <1>2, <1>3, SystemInvariant, PTL DEF Spec

-----------------------------------------------------------------------------
(* CIdSpec: the operators broadcasts and receives choose connections with.  *)

(* overlaps decides by cases what it means for two specs to overlap, for    *)
(* CIds of any width that has at least three of them; CId is u32 (net.rs:   *)
(* 134-149).                                                                *)
THEOREM OverlapsExact ==
  ASSUME NEW MaxCId \in Nat, MaxCId >= 2,
         NEW kind1 \in SpecKinds, NEW kind2 \in SpecKinds,
         NEW o1 \in 0..MaxCId, NEW o2 \in 0..MaxCId
  PROVE  Overlaps(kind1, o1, kind2, o2)
           <=> \E c \in 0..MaxCId : SpecMatches(kind1, o1, c) /\ SpecMatches(kind2, o2, c)
<1>1. CASE "None" \in {kind1, kind2}
  BY <1>1 DEF Overlaps, SpecMatches
<1>2. CASE kind1 = "All" /\ kind2 # "None"
  <2>1. \E c \in 0..MaxCId : SpecMatches(kind2, o2, c)
    <3>1. CASE kind2 = "All" \/ kind2 = "Only"
      BY <3>1 DEF SpecMatches
    <3>2. CASE kind2 = "Except"
      <4>1. \E c \in {0, 1} : c # o2
        OBVIOUS
      <4>2. {0, 1} \subseteq 0..MaxCId
        OBVIOUS
      <4> QED
        BY <3>2, <4>1, <4>2 DEF SpecMatches
    <3> QED
      BY <1>2, <3>1, <3>2 DEF SpecKinds
  <2> QED
    BY <1>2, <2>1 DEF Overlaps, SpecMatches
<1>3. CASE kind2 = "All" /\ kind1 # "None"
  <2>1. \E c \in 0..MaxCId : SpecMatches(kind1, o1, c)
    <3>1. CASE kind1 = "All" \/ kind1 = "Only"
      BY <3>1 DEF SpecMatches
    <3>2. CASE kind1 = "Except"
      <4>1. \E c \in {0, 1} : c # o1
        OBVIOUS
      <4>2. {0, 1} \subseteq 0..MaxCId
        OBVIOUS
      <4> QED
        BY <3>2, <4>1, <4>2 DEF SpecMatches
    <3> QED
      BY <1>3, <3>1, <3>2 DEF SpecKinds
  <2> QED
    BY <1>3, <2>1 DEF Overlaps, SpecMatches
<1>4. CASE kind1 = "Except" /\ kind2 = "Except"
  <2>1. \E c \in {0, 1, 2} : c # o1 /\ c # o2
    OBVIOUS
  <2>2. {0, 1, 2} \subseteq 0..MaxCId
    OBVIOUS
  <2>3. \A c : SpecMatches(kind1, o1, c) /\ SpecMatches(kind2, o2, c) <=> c # o1 /\ c # o2
    BY <1>4 DEF SpecMatches
  <2>4. Overlaps(kind1, o1, kind2, o2)
    BY <1>4 DEF Overlaps
  <2> QED
    BY <2>1, <2>2, <2>3, <2>4
<1>5. CASE kind1 = "Only" /\ kind2 = "Only"
  BY <1>5 DEF Overlaps, SpecMatches
<1>6. CASE kind1 = "Only" /\ kind2 = "Except"
  BY <1>6 DEF Overlaps, SpecMatches
<1>7. CASE kind1 = "Except" /\ kind2 = "Only"
  BY <1>7 DEF Overlaps, SpecMatches
<1> QED
  BY <1>1, <1>2, <1>3, <1>4, <1>5, <1>6, <1>7 DEF SpecKinds
=============================================================================
