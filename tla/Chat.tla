-------------------------------- MODULE Chat ---------------------------------
(***************************************************************************)
(* The chatroom example: the frame loop of its server (src/examples/       *)
(* server.rs) over the operations of module Server, and its clients        *)
(* (src/examples/client.rs).  Unlike in Session, the operations of the     *)
(* server come in the one order the loop calls them in.                    *)
(***************************************************************************)
EXTENDS Session

CONSTANTS
  Leavers,    \* the clients whose message is "disconnect-me"
  Quitters,   \* the clients whose user may type "disconnect", to leave
  Impatient,  \* the clients that may be killed, or time out while they connect
  Lines       \* bound: messages each client's user types

ASSUME ChatAssumption ==
  /\ Leavers \subseteq Conn /\ Quitters \subseteq Conn /\ Impatient \subseteq Conn
  /\ Lines \in [Conn -> 0..MaxUdp]

VARIABLES
  pc,    \* what the loop does next, or is doing: "recv_msgs", "receiving",
         \* "handle_disconnects", "reaping", "handle_new_cons", "settling", "recv"
  next,  \* which message of the buffer it looks at next
  kick   \* cids_to_disconnect, with the messages the CIds are from

loopVars == <<pc, next, kick>>
chatVars == <<vars, loopVars>>

ChatInit == Init /\ pc = "recv_msgs" /\ next = 1 /\ kick = <<>>

-----------------------------------------------------------------------------
(* A call of the server, which has returned when op is idle again.          *)
Then(now, following) ==
  /\ pc' = IF op' = "idle" THEN following ELSE now
  /\ UNCHANGED <<next, kick>>

RecvFrame == pc = "recv_msgs" /\ RecvMsgs /\ Then("receiving", "receiving")

Receive ==
  /\ pc = "receiving"
  /\ RecvUdp \/ \E c \in todo : TcpYields(c) \/ TcpFails(c) \/ TcpWouldBlock(c)
  /\ Then("receiving", IF disconnected' = <<>> THEN "handle_new_cons" ELSE "handle_disconnects")

AllReaped_OnlyOne == op' = "reap_one"
AllReaped == op' = "reap_all"

HandleDisconnects ==
  /\ pc = "handle_disconnects"
  /\ HandleDisconnect /\ AllReaped
  /\ Then("reaping", "handle_new_cons")

ReapFrame == pc = "reaping" /\ Reap /\ Then("reaping", "handle_new_cons")

(* The hook accepts whom it does not find in its list: either answer here.  *)
HandleNewCons ==
  /\ pc = "handle_new_cons"
  /\ \/ new_cons \o Pulled = <<>> /\ UNCHANGED <<netVars, serverVars, appVars>>
     \/ \E v \in [1..Len(new_cons \o Pulled) -> Verdict] : HandleNew("handle_new_cons", v)
  /\ Then("settling", "recv")

Settle ==
  /\ pc = "settling"
  /\ AcceptIncoming \/ RejectIncoming \/ DropDead
  /\ Then("settling", "recv")

(* The loop over server.recv::<Msg>(): a message is relayed with            *)
(* CIdSpec::Except(its CId), or its CId is remembered.                      *)
Relay_ToAll(m) ==
  {[dir |-> "down", addr |-> cid_addr[c], con |-> m.con, n |-> m.n] : c \in Matches("All", m.cid)}
Relay(m) ==
  {[dir |-> "down", addr |-> cid_addr[c], con |-> m.con, n |-> m.n] : c \in Matches("Except", m.cid)}

AllRead == next > Len(msg_buff[UdpMsg])

ReadMessage ==
  /\ pc = "recv" /\ ~AllRead
  /\ LET m == msg_buff[UdpMsg][next] IN
     IF m.con \in Leavers
     THEN kick' = Append(kick, m) /\ UNCHANGED dgrams
     ELSE dgrams' = dgrams \cup Relay(m) /\ UNCHANGED kick
  /\ next' = next + 1
  /\ UNCHANGED pc
  /\ UNCHANGED <<listening, backlog, up, down, cliEnd, srvEnd, broken, serverVars, appVars>>

(* The loop over cids_to_disconnect.  The result of disconnect is           *)
(* unwrapped: it is an error if the CId is not registered any more, if the  *)
(* message cannot be written, or if close() fails, and then the entry stays *)
(* for the panic, which comes next, since nothing can be written any more.  *)
Fails(c) == ~Alive(c) \/ ~SrvCanWrite(tcp[c])

DisconnectNext ==
  /\ pc = "recv" /\ AllRead /\ kick # <<>>
  /\ LET c == Head(kick).cid IN
     IF Fails(c) THEN PanicWith("unwrap panic") /\ UNCHANGED kick
     ELSE Disconnect(c) /\ kick' = IF srvEnd' = srvEnd THEN kick ELSE Tail(kick)
  /\ UNCHANGED <<pc, next>>

(* The frame is over, and the next one begins with clear_msgs.              *)
NextFrame ==
  /\ pc = "recv" /\ AllRead /\ kick = <<>>
  /\ ClearMsgs
  /\ pc' = "recv_msgs" /\ next' = 1
  /\ UNCHANGED kick

Loop ==
  /\ op \notin Gone
  /\ \/ RecvFrame \/ Receive \/ HandleDisconnects \/ ReapFrame
     \/ HandleNewCons \/ Settle \/ ReadMessage \/ DisconnectNext \/ NextFrame
  /\ UNCHANGED clientVars

Timer == Elapse /\ UNCHANGED <<clientVars, loopVars>>

-----------------------------------------------------------------------------
(* The client: it stops if it was rejected, otherwise it receives and sends *)
(* until it is not open; the process of an impatient one may be killed.     *)
Chats(k) == resp[k] = Accepted

Over(k) == resp[k] = Rejected \/ status[k] # "Connected"

ChatClient(k) ==
  /\ \/ Connect(k) \/ SendConnection(k) \/ RecvResponse(k)
     \/ (k \in Impatient \/ CliAborted(k)) /\ Fail(k)
     \/ Chats(k) /\ \/ sent[k][UdpMsg] < Lines[k] /\ SendUdp(k)
                    \/ ClientTcpYields(k) \/ ClientTcpFails(k) \/ ClientRecvUdp(k)
                    \/ ClientClearMsgs(k)
                    \/ k \in Quitters /\ ClientDisconnect(k)
     \/ (k \in Impatient \/ Over(k)) /\ DropClient(k)
  /\ UNCHANGED <<serverVars, appVars, loopVars>>

(* The network's step.  A datagram that is lost is one that stays in flight *)
(* for ever: nothing here assumes that they arrive.                         *)
Reset ==
  /\ \E k \in Conn : Break(k)
  /\ UNCHANGED <<serverVars, appVars, clientVars, loopVars>>

ChatNext ==
  \/ Loop \/ Timer
  \/ \E k \in Conn : ChatClient(k)
  \/ Reset

ChatSpec == ChatInit /\ [][ChatNext]_chatVars

-----------------------------------------------------------------------------
(* The unwrap in the loop over cids_to_disconnect panics only if the client *)
(* that asked is going or gone by itself, or has asked twice: nothing that  *)
(* other clients do between its message and the disconnect brings the       *)
(* server down (examples/server.rs:94-103).                                 *)
PanicExplained ==
  op = "unwrap panic" =>
    LET k == Head(kick).con IN
    cliEnd[k] = "shut" \/ broken[k] \/ sent[k][UdpMsg] > 1

(* "If a client sends a message saying `disconnect-me`, they will be        *)
(* disconnected, and their message will not be broadcast to the other       *)
(* clients" (examples/server.rs:11-13): a message reaches other clients     *)
(* than its author's only, none of those messages reaches anyone, and only  *)
(* who asked is disconnected.                                               *)
RelayedToOthers ==
  /\ \A d \in dgrams : d.dir = "down" => d.addr # AddrOf[d.con] /\ d.con \notin Leavers
  /\ \A k \in Conn : \A i \in DOMAIN received[k][UdpMsg] :
       received[k][UdpMsg][i].con \notin Leavers \cup {k}

OnlyAskersDisconnected ==
  \A k \in Conn : status[k] = "Disconnected" => k \in Leavers

DisconnectMe == RelayedToOthers /\ OnlyAskersDisconnected

(* The queue of ended connections does not grow over the frames, although   *)
(* recv_msgs queues a connection at each call: at most one entry for each   *)
(* registered one between frames, and two when they are handled             *)
(* (server.rs:682-695, examples/server.rs:59).                              *)
QueueBounded ==
  /\ pc = "recv_msgs" => Len(disconnected) <= Cardinality(DOMAIN tcp)
  /\ pc = "handle_disconnects" => Len(disconnected) <= 2 * Cardinality(DOMAIN tcp)

-----------------------------------------------------------------------------
(* The loop runs, and time passes.                                          *)
ChatFairness == WF_chatVars(Loop) /\ WF_chatVars(Timer)

FairChatSpec == ChatSpec /\ ChatFairness

(* A client whose request has been received is disconnected.                *)
AskerLeaves ==
  \A k \in Leavers :
    (\E i \in DOMAIN msg_buff[UdpMsg] : msg_buff[UdpMsg][i].con = k)
      ~> (~Registered(k) \/ op \in Gone)

=============================================================================
