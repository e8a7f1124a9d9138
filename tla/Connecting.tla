----------------------------- MODULE Connecting -----------------------------
(***************************************************************************)
(* Session with what surrounds a Client until its owner has it (src/       *)
(* client.rs): Client::new runs new_blocking on a thread of its own and    *)
(* hands the caller a PendingClient, the receiver of a channel of one      *)
(* place.  A PendingClient can be turned into an OptionPendingClient,      *)
(* whose take only borrows it.                                             *)
(***************************************************************************)
EXTENDS Session

VARIABLES
  thread,   \* new_blocking's thread: "sent" from its send to the drop of client_tx
  channel,  \* what is in the channel: a Client with its response, or an error
  handle,   \* the receiving end, as the caller holds it
  given     \* the results the caller has received

handleVars == <<thread, channel, handle, given>>
connectingVars == <<vars, handleVars>>

Result == {"client", "error"}
Thread == {"none", "running", "sent", "ended", "panicked"}
Handle == {"none", "PendingClient", "OptionPendingClient", "blocked", "gone", "panicked"}

ConnectingTypeOK ==
  /\ thread \in [Conn -> Thread]
  /\ channel \in [Conn -> Result \cup {"empty"}]
  /\ handle \in [Conn -> Handle]
  /\ given \in [Conn -> {<<>>} \cup {<<r>> : r \in Result}]

ConnectingInit ==
  /\ Init
  /\ thread = [k \in Conn |-> "none"]
  /\ channel = [k \in Conn |-> "empty"]
  /\ handle = [k \in Conn |-> "none"]
  /\ given = [k \in Conn |-> <<>>]

(* The Client k is dropped if there is one. *)
ClientGone(k) ==
  IF phase[k] = "ready" THEN DropClient(k) ELSE UNCHANGED <<netVars, clientVars>>

ServerAside == UNCHANGED <<serverVars, appVars>>

-----------------------------------------------------------------------------
(* Client::new, and its thread. *)
New(k) ==
  /\ thread[k] = "none"
  /\ thread' = [thread EXCEPT ![k] = "running"]
  /\ handle' = [handle EXCEPT ![k] = "PendingClient"]
  /\ UNCHANGED <<vars, channel, given>>

NewBlocking(k) ==
  /\ thread[k] = "running"
  /\ Connect(k) \/ SendConnection(k) \/ RecvResponse(k) \/ Fail(k)
  /\ ServerAside /\ UNCHANGED handleVars

(* peer_addr() fails once the connection was reset, and its result is       *)
(* unwrapped after the connect (client.rs:76) and, if the log's level is    *)
(* debug, after the response (client.rs:122).  Everything the thread owns   *)
(* is dropped, client_tx included, and nothing was sent.                    *)
NewBlockingPanics(k) ==
  /\ thread[k] = "running" /\ phase[k] \in {"connecting", "ready"} /\ broken[k]
  /\ thread' = [thread EXCEPT ![k] = "panicked"]
  /\ phase' = [phase EXCEPT ![k] = "failed"]
  /\ cliEnd' = [cliEnd EXCEPT ![k] = "shut"]
  /\ UNCHANGED <<listening, backlog, up, down, srvEnd, broken, dgrams>>
  /\ UNCHANGED <<resp, status, received, sent>>
  /\ ServerAside /\ UNCHANGED <<channel, handle, given>>

HasReceiver(k) == handle[k] \in {"PendingClient", "OptionPendingClient", "blocked"}

(* client_tx.send(..).  Without a receiver it returns what it was given,    *)
(* and the closure drops it.                                                *)
Deposit_OnSuccess(k) ==
  channel' = IF phase[k] = "ready" THEN [channel EXCEPT ![k] = "client"] ELSE channel
Deposit(k) ==
  channel' = [channel EXCEPT ![k] = IF phase[k] = "ready" THEN "client" ELSE "error"]

Undelivered_Forgotten(k) == UNCHANGED <<netVars, clientVars>>
Undelivered(k) == ClientGone(k)

ReportResult(k) ==
  /\ thread[k] = "running" /\ phase[k] \in {"ready", "failed"}
  /\ thread' = [thread EXCEPT ![k] = "sent"]
  /\ IF HasReceiver(k) THEN Deposit(k) /\ UNCHANGED <<netVars, clientVars>>
     ELSE Undelivered(k) /\ UNCHANGED channel
  /\ ServerAside /\ UNCHANGED <<handle, given>>

EndThread(k) ==
  /\ thread[k] = "sent"
  /\ thread' = [thread EXCEPT ![k] = "ended"]
  /\ UNCHANGED <<vars, channel, handle, given>>

-----------------------------------------------------------------------------
(* The caller's side. *)

(* is_ready: a receive would not block, if only because the channel is      *)
(* disconnected.                                                            *)
IsReady_Message(k) == channel[k] # "empty"
IsReady(k) == channel[k] # "empty" \/ thread[k] \in {"ended", "panicked"}

(* channel.recv().unwrap(). A panic unwinds through the owner of the handle *)
(* and of the Client, if that was taken before.                             *)
Empty_Not(k) == UNCHANGED channel
Empty(k) == channel' = [channel EXCEPT ![k] = "empty"]

Receive(k, left) ==
  /\ IsReady(k)
  /\ \/ /\ channel[k] # "empty"
        /\ given' = [given EXCEPT ![k] = Append(@, channel[k])]
        /\ Empty(k)
        /\ handle' = [handle EXCEPT ![k] = left]
        /\ UNCHANGED <<netVars, clientVars>>
     \/ /\ channel[k] = "empty"
        /\ handle' = [handle EXCEPT ![k] = "panicked"]
        /\ ClientGone(k)
        /\ UNCHANGED <<given, channel>>
  /\ ServerAside /\ UNCHANGED thread

(* take of a PendingClient consumes it if it is done and gives it back if   *)
(* not; take of an OptionPendingClient leaves it as it is.                  *)
Take(k) == handle[k] = "PendingClient" /\ Receive(k, "gone")
OptionTake(k) == handle[k] = "OptionPendingClient" /\ Receive(k, "OptionPendingClient")

Become(k, from, to) ==
  /\ handle[k] \in from
  /\ handle' = [handle EXCEPT ![k] = to]
  /\ UNCHANGED <<vars, thread, channel, given>>

Option(k) == Become(k, {"PendingClient"}, "OptionPendingClient")
Block(k) == Become(k, {"PendingClient", "OptionPendingClient"}, "blocked")
BlockReturn(k) == handle[k] = "blocked" /\ Receive(k, "gone")

(* The handle is dropped, with what is in the channel. *)
DropHandle(k) ==
  /\ handle[k] \in {"PendingClient", "OptionPendingClient"}
  /\ handle' = [handle EXCEPT ![k] = "gone"]
  /\ channel' = [channel EXCEPT ![k] = "empty"]
  /\ IF channel[k] = "client" THEN ClientGone(k) ELSE UNCHANGED <<netVars, clientVars>>
  /\ ServerAside /\ UNCHANGED <<thread, given>>

(* The Client, once taken. *)
Use(k) ==
  /\ given[k] = <<"client">> /\ handle[k] # "blocked"
  /\ \/ SendTcp(k) \/ SendUdp(k)
     \/ ClientTcpYields(k) \/ ClientTcpFails(k) \/ ClientRecvUdp(k)
     \/ ClientClearMsgs(k) \/ ClientDisconnect(k) \/ DropClient(k)
  /\ ServerAside /\ UNCHANGED handleVars

ConnectingNext ==
  \/ (ServerStep \/ ShutDown \/ NetworkStep) /\ UNCHANGED handleVars
  \/ \E k \in Conn :
       \/ New(k) \/ NewBlocking(k) \/ NewBlockingPanics(k)
       \/ ReportResult(k) \/ EndThread(k)
       \/ Take(k) \/ OptionTake(k) \/ Option(k) \/ Block(k) \/ BlockReturn(k)
       \/ DropHandle(k) \/ Use(k)

ConnectingSpec == ConnectingInit /\ [][ConnectingNext]_connectingVars

-----------------------------------------------------------------------------
(* One result comes out of a call of Client::new, once, and a Client is in  *)
(* one place: with the thread, in the channel, or with the caller.  No path *)
(* of the two threads leaves one connected that nobody owns, whoever drops  *)
(* his end of the channel first (client.rs:54-60).                          *)
Owners(k) ==
  {o \in {"thread", "channel", "caller"} :
     \/ o = "thread" /\ thread[k] = "running"
     \/ o = "channel" /\ channel[k] = "client"
     \/ o = "caller" /\ given[k] = <<"client">>}

OneResult ==
  \A k \in Conn :
    /\ Len(given[k]) + (IF channel[k] = "empty" THEN 0 ELSE 1) <= 1
    /\ phase[k] = "ready" => Cardinality(Owners(k)) = 1

(* "This will yield a value if done() returned true" (client.rs:395, 468),  *)
(* unless the value was given before or the thread panicked: no error of    *)
(* new_blocking leaves the channel empty.                                   *)
FirstTakeYields ==
  \A k \in Conn :
    handle[k] = "panicked" =>
      given[k] # <<>> \/ thread[k] = "panicked"

-----------------------------------------------------------------------------
(* The thread runs. Its read timeout is not relied on, and neither is the   *)
(* caller: it may keep a handle and never look.                             *)
ByThread(k, A) == thread[k] = "running" /\ A /\ ServerAside /\ UNCHANGED handleVars

ConnectingFairness ==
  /\ HandshakeFairness /\ ReceiveFairness
  /\ \A k \in Conn :
       /\ WF_connectingVars(ByThread(k, Connect(k)))
       /\ WF_connectingVars(ByThread(k, SendConnection(k)))
       /\ WF_connectingVars(ByThread(k, RecvResponse(k)))
       /\ WF_connectingVars(ByThread(k, CliAborted(k) /\ Fail(k)))
       /\ WF_connectingVars(ReportResult(k)) /\ WF_connectingVars(EndThread(k))
       /\ WF_connectingVars(BlockReturn(k))

FairConnectingSpec == ConnectingSpec /\ ConnectingFairness

(* block() returns or panics, however the connection ends (client.rs:411).  *)
BlockReturns == \A k \in Conn : handle[k] = "blocked" ~> handle[k] # "blocked"

(* A caller that loses interest leaves nothing behind: the connection its   *)
(* thread goes on to make is closed, and the server gets rid of it.         *)
AbandonedLeaves ==
  \A k \in Conn :
    handle[k] \in {"gone", "panicked"} /\ given[k] = <<>> ~>
      [](~Registered(k) \/ op \in Gone)
=============================================================================
