------------------------------- MODULE Server -------------------------------
(***************************************************************************)
(* carrier_pigeon::Server (src/server.rs).                                 *)
(*                                                                         *)
(* The operations take &mut self, so one runs at a time, but clients and   *)
(* the network move while it runs.  op says which operation is in progress *)
(* and at which of its loops; the operations that loop over connections or *)
(* over the disconnect queue take one step per iteration.                  *)
(***************************************************************************)
EXTENDS Sockets, CIdSpecs, SequencesExt, Functions

CONSTANTS
  MaxConHandle,  \* config.max_con_handle
  Api,           \* which of the two connection handlers the application calls
  MaxQueue,      \* bound: entries the disconnect queue may reach
  Specs,         \* the kinds of CIdSpec it sends with: broadcast's is "All"
  MaxSrvTcp, MaxSrvUdp  \* bounds: user messages sent on each transport

HandleFns == {"handle_new_con", "handle_new_cons"}

ASSUME ServerAssumption ==
  /\ MaxConHandle \in Nat \ {0}
  /\ Api \subseteq HandleFns
  /\ MaxQueue \in Nat
  /\ Specs \subseteq SpecKinds
  /\ MaxSrvTcp \in Nat /\ MaxSrvUdp \in Nat

(* Names of the form Operator_What are mutants: what Operator would be with *)
(* a bug in the code it models.  Nothing uses them but the mutation tests   *)
(* of the properties.                                                       *)

VARIABLES
  current_cid,   \* the CId given last
  new_cons,      \* pending connections, with the CId each has been given
  disconnected,  \* connections known to have ended, not yet handled
  tcp,           \* HashMap<CId, TcpCon>
  cid_addr,      \* HashMap<CId, SocketAddr>
  addr_cid,      \* HashMap<SocketAddr, CId>
  msg_buff,      \* received messages, one vector per MId
  op,            \* the operation in progress
  accepted, rejected, dead,  \* handle_new_con(s): indices still to be removed
  todo, cur      \* recv_msgs: CIds still to be read, and the one being read

serverVars == <<current_cid, new_cons, disconnected, tcp, cid_addr, addr_cid,
                msg_buff, op, accepted, rejected, dead, todo, cur>>

(* What the application has seen, kept for the properties: the answers its  *)
(* connection hook gave, the calls of its disconnect hook, and how many     *)
(* user messages it has sent.                                               *)
VARIABLES granted, refused, reported, srvSent

appVars == <<granted, refused, reported, srvSent>>

CId == Nat \ {0}
NoCId == 0
Status == {"Disconnected", "Closed", "Dropped"}
Verdict == {"wait", "accept", "reject", "dead"}
Pending == [con : Conn, cid : CId, late : BOOLEAN]
Ending == [cid : CId, status : Status]
Received == [cid : CId, con : Conn, n : Nat]
Panic == {"index panic", "peer_addr panic", "unwrap panic"}
Gone == Panic \cup {"dropped"}
Op == {"idle", "settle", "tcp", "udp", "reap_one", "reap_all"} \cup Gone

ServerTypeOK ==
  /\ current_cid \in Nat
  /\ new_cons \in Seq(Pending)
  /\ disconnected \in Seq(Ending)
  /\ tcp \in [DOMAIN tcp -> Conn] /\ DOMAIN tcp \subseteq CId
  /\ cid_addr \in [DOMAIN cid_addr -> Addr] /\ DOMAIN cid_addr \subseteq CId
  /\ addr_cid \in [DOMAIN addr_cid -> CId] /\ DOMAIN addr_cid \subseteq Addr
  /\ msg_buff \in [MId -> Seq(Received)]
  /\ op \in Op
  /\ accepted \subseteq CId /\ rejected \subseteq CId /\ dead \subseteq CId
  /\ todo \subseteq CId
  /\ cur \in CId \cup {NoCId}
  /\ granted \subseteq CId /\ refused \subseteq CId
  /\ reported \in Seq(Ending)
  /\ srvSent \in [{TcpMsg, UdpMsg} -> Nat]

ServerInit ==
  /\ current_cid = 0
  /\ new_cons = <<>>
  /\ disconnected = <<>>
  /\ tcp = <<>> /\ cid_addr = <<>> /\ addr_cid = <<>>
  /\ msg_buff = [m \in MId |-> <<>>]
  /\ op = "idle"
  /\ accepted = {} /\ rejected = {} /\ dead = {}
  /\ todo = {} /\ cur = NoCId
  /\ granted = {} /\ refused = {} /\ reported = <<>>
  /\ srvSent = [m \in {TcpMsg, UdpMsg} |-> 0]

-----------------------------------------------------------------------------
(* HashMap::insert and HashMap::remove. *)
Insert(f, x, y) == [z \in DOMAIN f \cup {x} |-> IF z = x THEN y ELSE f[z]]
Delete(f, x) == Restrict(f, DOMAIN f \ {x})

Alive_Always(c) == TRUE
Alive(c) == c \in DOMAIN cid_addr

(* add_tcp_con_cid and rm_tcp_con: the three maps, and nothing else, hold   *)
(* the connections; removing one drops its TcpCon, which closes the stream. *)
AddTcpCon_Forgotten(c, k) == UNCHANGED <<tcp, addr_cid, cid_addr>>
AddTcpCon_AnyPort(c, k) ==
  /\ tcp' = Insert(tcp, c, k)
  /\ addr_cid' = [a \in Addr |-> c]
  /\ cid_addr' = Insert(cid_addr, c, AddrOf[k])
AddTcpCon_OneAddr(c, k) ==
  /\ tcp' = Insert(tcp, c, k)
  /\ addr_cid' = Insert(addr_cid, AddrOf[k], c)
  /\ cid_addr' = [d \in DOMAIN cid_addr \cup {c} |-> AddrOf[k]]
AddTcpCon(c, k) ==
  /\ tcp' = Insert(tcp, c, k)
  /\ addr_cid' = Insert(addr_cid, AddrOf[k], c)
  /\ cid_addr' = Insert(cid_addr, c, AddrOf[k])

RmTcpCon_KeepsAddr(c) ==
  tcp' = Delete(tcp, c) /\ cid_addr' = Delete(cid_addr, c) /\ UNCHANGED addr_cid
RmTcpCon(c) ==
  /\ tcp' = Delete(tcp, c)
  /\ cid_addr' = Delete(cid_addr, c)
  /\ addr_cid' = Delete(addr_cid, cid_addr[c])

(* A TcpCon of the server is closed or dropped. *)
CloseTcp_FlushOnly(k) == UNCHANGED srvEnd
CloseTcp(k) == srvEnd' = [srvEnd EXCEPT ![k] = "shut"]

Answer(k, r) ==
  down' = IF SrvCanWrite(k) THEN Delivered(down, k, cliEnd, ResponseMsg(k, r)) ELSE down

(* The disconnect message is sent, and must be. *)
SayGoodbye_Forgotten(k) == SrvCanWrite(k) /\ UNCHANGED down
SayGoodbye(k) ==
  /\ SrvCanWrite(k)
  /\ down' = Delivered(down, k, cliEnd, DisconnectMsg(k))

Buffer(mid, c, m) ==
  msg_buff' = [msg_buff EXCEPT ![mid] = Append(@, [cid |-> c, con |-> m.con, n |-> m.n])]

(* The Server is gone: every socket it owned, the listener's included, is   *)
(* closed.  A panic unwinds through the owner of the Server.                *)
CloseAll ==
  /\ srvEnd' = [k \in Conn |-> IF srvEnd[k] = "open" THEN "shut" ELSE srvEnd[k]]
  /\ backlog' = <<>>
  /\ listening' = FALSE

PanicWith(why) ==
  /\ op' = why
  /\ CloseAll
  /\ UNCHANGED <<up, down, cliEnd, broken, dgrams>>
  /\ UNCHANGED <<current_cid, new_cons, disconnected, tcp, cid_addr, addr_cid,
                 msg_buff, accepted, rejected, dead, todo, cur, appVars>>

-----------------------------------------------------------------------------
(* new_cid, the i-th time it is called here. *)
NewCid_FromZero(i) == current_cid + i - 1
NewCid_PerCall(i) == current_cid + 1
NewCid_Reuses(i) == Cardinality(DOMAIN tcp) + Len(new_cons) + i
NewCid(i) == current_cid + i

(* start_incoming: fill new_cons up to max_con_handle. *)
PullCount_PerCall ==
  IF MaxConHandle < Len(backlog) THEN MaxConHandle ELSE Len(backlog)
PullCount ==
  LET room == MaxConHandle - Len(new_cons)
  IN  IF room < Len(backlog) THEN room ELSE Len(backlog)

Pulled ==
  [i \in 1..PullCount |-> [con |-> backlog[i], cid |-> NewCid(i), late |-> FALSE]]

(* handle_con_helper and the hook: what can become of one pending entry.    *)
(* Data in the stream may not have arrived yet; what the hook answers is up *)
(* to the application.                                                      *)
Verdicts_NoTimeout(e) ==
  (IF SrvCanWrite(e.con) THEN {"wait"} ELSE {})
    \cup (IF SrvAborted(e.con) THEN {"dead"} ELSE {})
    \cup (IF up[e.con] = <<>> THEN {} ELSE {"accept", "reject"})
Verdicts(e) ==
  IF e.late THEN {"dead"}
  ELSE (IF SrvCanWrite(e.con) THEN {"wait"} ELSE {})
         \cup (IF SrvAborted(e.con) THEN {"dead"} ELSE {})
         \cup (IF up[e.con] = <<>> THEN {}
               ELSE IF Head(up[e.con]).mid = CONNECTION_TYPE_MID
               THEN {"accept", "reject"} ELSE {"dead"})

(* handle_new_con stops looking after the first entry the hook was called   *)
(* for; handle_new_cons looks at every one.                                 *)
Examined_All(fn, v, i) == TRUE
Examined(fn, v, i) ==
  fn = "handle_new_cons" \/ \A j \in 1..(i - 1) : v[j] \notin {"accept", "reject"}

Consumes(v, pend, i) == ~pend[i].late /\ v[i] # "wait" /\ up[pend[i].con] # <<>>

(* handle_new_con / handle_new_cons, up to the end of the scan over         *)
(* new_cons.  The scan leaves the indices to remove in three lists.         *)
HandleNew(fn, v) ==
  LET pend == new_cons \o Pulled
      With(x) == {i \in 1..Len(pend) : v[i] = x}
  IN
  /\ op = "idle" /\ fn \in Api /\ pend # <<>>
  /\ \A i \in 1..Len(pend) :
       v[i] \in IF Examined(fn, v, i) THEN Verdicts(pend[i]) ELSE {"wait"}
  /\ new_cons' = pend
  /\ current_cid' = current_cid + Len(Pulled)
  /\ backlog' = SubSeq(backlog, Len(Pulled) + 1, Len(backlog))
  /\ up' = [k \in Conn |->
              IF \E i \in 1..Len(pend) : pend[i].con = k /\ Consumes(v, pend, i)
              THEN Tail(up[k]) ELSE up[k]]
  /\ accepted' = With("accept") /\ rejected' = With("reject") /\ dead' = With("dead")
  /\ op' = IF With("wait") = 1..Len(pend) THEN "idle" ELSE "settle"
  /\ granted' = granted \cup {pend[i].cid : i \in With("accept")}
  /\ refused' = refused \cup {pend[i].cid : i \in With("reject")}
  /\ UNCHANGED <<listening, down, cliEnd, srvEnd, broken, dgrams>>
  /\ UNCHANGED <<disconnected, tcp, cid_addr, addr_cid, msg_buff, todo, cur,
                 reported, srvSent>>

HandleNewCon ==
  \E fn \in Api, v \in [1..Len(new_cons \o Pulled) -> Verdict] : HandleNew(fn, v)

(* A removal is done and the three lists have these indices left. *)
Left(a, r, d) ==
  /\ accepted' = a /\ rejected' = r /\ dead' = d
  /\ op' = IF a = {} /\ r = {} /\ d = {} THEN "idle" ELSE "settle"

(* The loop over `accepted`: new_cons.remove(idx), then accept_incoming,    *)
(* which registers the connection before it sends the response and only     *)
(* logs a failure to send.                                                  *)
AcceptIncoming ==
  /\ op = "settle"
  /\ \E i \in accepted :
       /\ \A j \in accepted : i <= j
       /\ IF i > Len(new_cons) THEN PanicWith("index panic")
          ELSE IF broken[new_cons[i].con] THEN PanicWith("peer_addr panic")
          ELSE LET k == new_cons[i].con
                   c == new_cons[i].cid
               IN
               /\ new_cons' = RemoveAt(new_cons, i)
               /\ AddTcpCon(c, k)
               /\ Answer(k, Accepted)
               /\ Left(accepted \ {i}, rejected, dead)
               /\ UNCHANGED <<listening, backlog, up, cliEnd, srvEnd, broken, dgrams>>
               /\ UNCHANGED <<current_cid, disconnected, msg_buff, todo, cur, appVars>>

(* The loop over `rejected`: reject_incoming answers on the stream and      *)
(* drops it.                                                                *)
RejectIncoming ==
  /\ op = "settle" /\ accepted = {}
  /\ \E i \in rejected :
       /\ \A j \in rejected : i <= j
       /\ IF i > Len(new_cons) THEN PanicWith("index panic")
          ELSE IF broken[new_cons[i].con] THEN PanicWith("peer_addr panic")
          ELSE LET k == new_cons[i].con IN
               /\ new_cons' = RemoveAt(new_cons, i)
               /\ Answer(k, Rejected)
               /\ CloseTcp(k)
               /\ Left(accepted, rejected \ {i}, dead)
               /\ UNCHANGED <<listening, backlog, up, cliEnd, broken, dgrams>>
               /\ UNCHANGED <<current_cid, disconnected, tcp, cid_addr, addr_cid,
                              msg_buff, todo, cur, appVars>>

(* The loop over `dead`: the connection is removed and dropped.             *)
DropDead ==
  /\ op = "settle" /\ accepted = {} /\ rejected = {}
  /\ \E i \in dead :
       /\ \A j \in dead : i <= j
       /\ IF i > Len(new_cons) THEN PanicWith("index panic")
          ELSE /\ CloseTcp(new_cons[i].con)
               /\ new_cons' = RemoveAt(new_cons, i)
               /\ Left(accepted, rejected, dead \ {i})
               /\ UNCHANGED <<listening, backlog, up, down, cliEnd, broken, dgrams>>
               /\ UNCHANGED <<current_cid, disconnected, tcp, cid_addr, addr_cid,
                              msg_buff, todo, cur, appVars>>

(* The clock: config.timeout has elapsed since entry i was accepted.        *)
Elapse ==
  /\ op \notin Gone
  /\ \E i \in 1..Len(new_cons) :
       /\ ~new_cons[i].late
       /\ new_cons' = [new_cons EXCEPT ![i].late = TRUE]
  /\ UNCHANGED netVars
  /\ UNCHANGED <<current_cid, disconnected, tcp, cid_addr, addr_cid, msg_buff, op,
                 accepted, rejected, dead, todo, cur, appVars>>

-----------------------------------------------------------------------------
(* recv_msgs: collects the CIds, then reads each connection until it has    *)
(* nothing more to yield, then the UDP socket.                              *)
RecvMsgs ==
  /\ op = "idle"
  /\ Len(disconnected) + Cardinality(DOMAIN tcp) <= MaxQueue
  /\ todo' = DOMAIN cid_addr
  /\ op' = IF DOMAIN cid_addr = {} THEN "udp" ELSE "tcp"
  /\ UNCHANGED netVars
  /\ UNCHANGED <<current_cid, new_cons, disconnected, tcp, cid_addr, addr_cid,
                 msg_buff, accepted, rejected, dead, cur, appVars>>

(* The connection c yields nothing more in this call. *)
DoneWith(c) ==
  /\ todo' = todo \ {c}
  /\ cur' = NoCId
  /\ op' = IF todo' = {} THEN "udp" ELSE "tcp"

(* recv_tcp and handle_tcp_msg: one iteration of the inner loop for c.      *)
RecvTcp(c) ==
  /\ op = "tcp" /\ c \in todo /\ cur \in {NoCId, c}
  /\ UNCHANGED <<listening, backlog, down, cliEnd, srvEnd, broken, dgrams>>
  /\ UNCHANGED <<current_cid, new_cons, tcp, cid_addr, addr_cid,
                 accepted, rejected, dead, appVars>>

Ended_Dropped(c, how) == Append(disconnected, [cid |-> c, status |-> "Dropped"])
Ended_Forgotten(c, how) == disconnected
Ended(c, how) == Append(disconnected, [cid |-> c, status |-> how])

(* A message, Ok((mid, msg)).                                               *)
TcpYields(c) ==
  /\ RecvTcp(c)
  /\ up[tcp[c]] # <<>>
  /\ up' = [up EXCEPT ![tcp[c]] = Tail(@)]
  /\ LET m == Head(up[tcp[c]]) IN
       IF m.mid = DISCONNECT_TYPE_MID
       THEN disconnected' = Ended(c, "Disconnected") /\ DoneWith(c) /\ UNCHANGED msg_buff
       ELSE /\ Buffer(m.mid, c, m)
            /\ cur' = c
            /\ UNCHANGED <<disconnected, todo, op>>

(* An error.                                                                *)
TcpFails(c) ==
  /\ RecvTcp(c)
  /\ SrvAborted(tcp[c])
  /\ disconnected' = Ended(c, "Dropped")
  /\ DoneWith(c)
  /\ UNCHANGED <<up, msg_buff>>

TcpWouldBlock(c) ==
  /\ RecvTcp(c)
  /\ SrvCanWrite(tcp[c])
  /\ DoneWith(c)
  /\ UNCHANGED <<up, disconnected, msg_buff>>

(* recv_udp and handle_udp_msg: one iteration.  A datagram from an address  *)
(* nobody is registered under is an error, and an error ends the loop.      *)
RecvUdp ==
  /\ op = "udp"
  /\ \/ \E d \in dgrams :
          /\ d.dir = "up"
          /\ dgrams' = dgrams \ {d}
          /\ IF d.addr \in DOMAIN addr_cid /\ Alive(addr_cid[d.addr])
             THEN Buffer(UdpMsg, addr_cid[d.addr], d) /\ UNCHANGED op
             ELSE op' = "idle" /\ UNCHANGED msg_buff
     \/ /\ op' = "idle"     \* WouldBlock
        /\ UNCHANGED <<dgrams, msg_buff>>
  /\ UNCHANGED <<listening, backlog, up, down, cliEnd, srvEnd, broken>>
  /\ UNCHANGED <<current_cid, new_cons, disconnected, tcp, cid_addr, addr_cid,
                 accepted, rejected, dead, todo, cur, appVars>>

Emptied_Not == UNCHANGED msg_buff
Emptied == msg_buff' = [m \in MId |-> <<>>]

ClearMsgs ==
  /\ op = "idle"
  /\ Emptied
  /\ UNCHANGED netVars
  /\ UNCHANGED <<current_cid, new_cons, disconnected, tcp, cid_addr, addr_cid, op,
                 accepted, rejected, dead, todo, cur, appVars>>

-----------------------------------------------------------------------------
(* handle_disconnect and handle_disconnects. *)
HandleDisconnect ==
  /\ op = "idle" /\ disconnected # <<>>
  /\ op' \in {"reap_one", "reap_all"}
  /\ UNCHANGED netVars
  /\ UNCHANGED <<current_cid, new_cons, disconnected, tcp, cid_addr, addr_cid,
                 msg_buff, accepted, rejected, dead, todo, cur, appVars>>

Popped(c) == disconnected' = Tail(disconnected)

(* One iteration of their loop: pop an entry; unless it is stale, call the  *)
(* hook and rm_tcp_con, whose result is unwrapped.                          *)
Reap ==
  /\ op \in {"reap_one", "reap_all"}
  /\ LET c == Head(disconnected).cid IN
     IF Alive(c) /\ c \notin DOMAIN tcp THEN PanicWith("unwrap panic")
     ELSE
     /\ Popped(c)
     /\ op' = IF disconnected' = <<>> \/ (Alive(c) /\ op = "reap_one") THEN "idle" ELSE op
     /\ IF Alive(c)
        THEN /\ reported' = Append(reported, Head(disconnected))
             /\ RmTcpCon(c)
             /\ CloseTcp(tcp[c])
        ELSE UNCHANGED <<reported, tcp, cid_addr, addr_cid, srvEnd>>
     /\ UNCHANGED <<listening, backlog, up, down, cliEnd, broken, dgrams>>
     /\ UNCHANGED <<current_cid, new_cons, msg_buff, accepted, rejected, dead,
                    todo, cur, granted, refused, srvSent>>

(* disconnect: send the message, close the stream, queue the connection.    *)
(* Either of the first two may fail and end the call; the stream can be     *)
(* reset between them.                                                      *)
Disconnect(c) ==
  /\ op = "idle" /\ Alive(c) /\ Len(disconnected) < MaxQueue
  /\ LET k == tcp[c] IN
     /\ SayGoodbye(k)
     /\ \E s \in Arrived(up, k) : up' = [up EXCEPT ![k] = s]
     /\ \/ /\ CloseTcp(k)
           /\ disconnected' = Ended(c, "Closed")
           /\ UNCHANGED broken
        \/ /\ k \in Unreliable \/ cliEnd[k] = "shut"
           /\ broken' = [broken EXCEPT ![k] = TRUE]
           /\ UNCHANGED <<srvEnd, disconnected>>
  /\ UNCHANGED <<listening, backlog, cliEnd, dgrams>>
  /\ UNCHANGED <<current_cid, new_cons, tcp, cid_addr, addr_cid, msg_buff, op,
                 accepted, rejected, dead, todo, cur, appVars>>

-----------------------------------------------------------------------------
(* The registered connections that a CIdSpec matches; o is the CId inside. *)
Matches(spec, o) == {c \in DOMAIN cid_addr : SpecMatches(spec, o, c)}

Matching == {Matches(spec, o) : spec \in Specs, o \in 0..current_cid}

(* The CIds a call to send_to for each of S reaches: the map's order is     *)
(* arbitrary and the first failure ends the call.                           *)
Reaches(S, G) ==
  LET Good == {c \in S : SrvCanWrite(tcp[c])} IN
  G \subseteq Good /\ (S = Good => G = S)

(* broadcast, send_spec and send_to for a TCP message.  The payload carries *)
(* the addressee's connection, so that misdelivery would show.              *)
SendTcpSpec(S, G) ==
  LET n == srvSent[TcpMsg] + 1
      To == {tcp[c] : c \in G} IN
  /\ op = "idle" /\ srvSent[TcpMsg] < MaxSrvTcp
  /\ S \in Matching /\ G \subseteq S /\ Reaches(S, G)
  /\ srvSent' = [srvSent EXCEPT ![TcpMsg] = n]
  /\ down' = [k \in Conn |-> IF k \in To /\ cliEnd[k] = "open"
                             THEN Append(down[k], TcpData(k, n)) ELSE down[k]]
  /\ UNCHANGED <<listening, backlog, up, cliEnd, srvEnd, broken, dgrams>>
  /\ UNCHANGED <<current_cid, new_cons, disconnected, tcp, cid_addr, addr_cid,
                 msg_buff, op, accepted, rejected, dead, todo, cur,
                 granted, refused, reported>>

(* The same for a UDP message, which goes to the address in cid_addr.       *)
SendUdpSpec(S) ==
  /\ op = "idle" /\ srvSent[UdpMsg] < MaxSrvUdp
  /\ S \in Matching
  /\ srvSent' = [srvSent EXCEPT ![UdpMsg] = @ + 1]
  /\ dgrams' = dgrams \cup
       {[dir |-> "down", addr |-> cid_addr[c], con |-> tcp[c], n |-> srvSent'[UdpMsg]] : c \in S}
  /\ UNCHANGED <<listening, backlog, up, down, cliEnd, srvEnd, broken>>
  /\ UNCHANGED <<current_cid, new_cons, disconnected, tcp, cid_addr, addr_cid,
                 msg_buff, op, accepted, rejected, dead, todo, cur,
                 granted, refused, reported>>

(* The application drops the Server. *)
DropServer ==
  /\ op = "idle"
  /\ op' = "dropped"
  /\ CloseAll
  /\ UNCHANGED <<up, down, cliEnd, broken, dgrams>>
  /\ UNCHANGED <<current_cid, new_cons, disconnected, tcp, cid_addr, addr_cid,
                 msg_buff, accepted, rejected, dead, todo, cur, appVars>>

ServerNext ==
  \/ HandleNewCon \/ AcceptIncoming \/ RejectIncoming \/ DropDead \/ Elapse
  \/ RecvMsgs
  \/ \E c \in todo : TcpYields(c) \/ TcpFails(c) \/ TcpWouldBlock(c)
  \/ RecvUdp \/ ClearMsgs
  \/ HandleDisconnect \/ Reap
  \/ \E c \in DOMAIN cid_addr : Disconnect(c)
  \/ \E S \in Matching : SendUdpSpec(S) \/ \E G \in SUBSET S : SendTcpSpec(S, G)

=============================================================================
