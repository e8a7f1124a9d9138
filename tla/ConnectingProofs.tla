-------------------------- MODULE ConnectingProofs ---------------------------
(***************************************************************************)
(* Theorems about Connecting: one result comes out of Client::new, the     *)
(* Client has one owner, and the first take yields.  Nothing of the server *)
(* matters here: its steps, and the network's, leave alone what the        *)
(* invariant speaks of.                                                    *)
(***************************************************************************)
EXTENDS Connecting, FiniteSetTheorems, TLAPS

(* How far the call for k has come at both ends of the channel.             *)
Sane(k) ==
  /\ thread[k] = "none" => phase[k] = "idle"
  /\ handle[k] = "none" => thread[k] = "none"
  /\ thread[k] \in {"none", "running", "panicked"} => channel[k] = "empty" /\ given[k] = <<>>
  /\ thread[k] = "panicked" => phase[k] = "failed"
  /\ channel[k] = "empty" \/ given[k] = <<>>
  /\ channel[k] = "client" => phase[k] = "ready"
  /\ thread[k] \in {"sent", "ended"} /\ phase[k] = "ready" =>
       channel[k] = "client" \/ given[k] = <<"client">>
  /\ thread[k] \in {"sent", "ended"} =>
       channel[k] # "empty" \/ given[k] # <<>> \/ handle[k] = "gone"
  /\ handle[k] = "panicked" => given[k] # <<>> \/ thread[k] = "panicked"

ConnectingInv ==
  /\ ConnectingTypeOK
  /\ phase \in [Conn -> Phase]
  /\ \A k \in Conn : Sane(k)

LEMMA ConnectingStart == ConnectingInit => ConnectingInv
  BY DEF ConnectingInit, Init, ClientInit, ConnectingInv, ConnectingTypeOK, Sane, Thread,
     Handle, Result, Phase

-----------------------------------------------------------------------------
(* What the invariant says of the properties.                               *)

LEMMA OneOwnerOf ==
  ASSUME ConnectingInv, NEW k \in Conn, phase[k] = "ready"
  PROVE  Cardinality(Owners(k)) = 1
<1>1. Sane(k) /\ thread[k] \in Thread
  BY DEF ConnectingInv, ConnectingTypeOK
<1>2. CASE thread[k] = "running"
  <2>1. Owners(k) = {"thread"}
    BY <1>1, <1>2 DEF Owners, Sane
  <2> QED
    BY <2>1, FS_Singleton
<1>3. CASE thread[k] \in {"sent", "ended"} /\ channel[k] = "client"
  <2>1. given[k] = <<>>
    BY <1>1, <1>3 DEF Sane
  <2>2. given[k] # <<"client">>
    BY <2>1
  <2>3. Owners(k) = {"channel"}
    BY <1>1, <1>3, <2>2 DEF Owners, Sane
  <2> QED
    BY <2>3, FS_Singleton
<1>4. CASE thread[k] \in {"sent", "ended"} /\ channel[k] # "client"
  <2>1. Owners(k) = {"caller"}
    BY <1>1, <1>4 DEF Owners, Sane
  <2> QED
    BY <2>1, FS_Singleton
<1> QED
  BY <1>1, <1>2, <1>3, <1>4 DEF Thread, Sane

LEMMA OneResultHolds == ConnectingInv => OneResult
<1> SUFFICES ASSUME ConnectingInv, NEW k \in Conn
             PROVE  /\ Len(given[k]) + (IF channel[k] = "empty" THEN 0 ELSE 1) <= 1
                    /\ phase[k] = "ready" => Cardinality(Owners(k)) = 1
  BY DEF OneResult
<1>1. given[k] = <<>> \/ \E r \in Result : given[k] = <<r>>
  BY DEF ConnectingInv, ConnectingTypeOK
<1>2. given[k] = <<>> \/ channel[k] = "empty"
  BY DEF ConnectingInv, Sane
<1>3. Len(given[k]) + (IF channel[k] = "empty" THEN 0 ELSE 1) <= 1
  <2>1. CASE given[k] = <<>>
    BY <2>1
  <2>2. CASE \E r \in Result : given[k] = <<r>>
    <3>1. Len(given[k]) = 1 /\ given[k] # <<>>
      BY <2>2
    <3> QED
      BY <1>2, <3>1
  <2> QED
    BY <1>1, <2>1, <2>2
<1> QED
  BY <1>3, OneOwnerOf

LEMMA TakeHolds == ConnectingInv => FirstTakeYields
  BY DEF ConnectingInv, Sane, FirstTakeYields

-----------------------------------------------------------------------------
(* The steps.                                                               *)

(* A step of k: what there is of the other calls stays.                     *)
LEMMA Elsewhere ==
  ASSUME ConnectingInv, ConnectingTypeOK', phase' \in [Conn -> Phase], NEW k \in Conn, Sane(k)',
         \A j \in Conn \ {k} :
           /\ thread'[j] = thread[j] /\ channel'[j] = channel[j] /\ handle'[j] = handle[j]
           /\ given'[j] = given[j] /\ phase'[j] = phase[j]
  PROVE  ConnectingInv'
<1>1. \A j \in Conn \ {k} : Sane(j)'
  BY DEF ConnectingInv, Sane
<1> QED
  BY <1>1 DEF ConnectingInv

LEMMA ClientGoneStep ==
  ASSUME phase \in [Conn -> Phase], NEW k \in Conn, ClientGone(k)
  PROVE  /\ phase' \in [Conn -> Phase]
         /\ phase'[k] # "ready"
         /\ phase'[k] = phase[k] \/ (phase[k] = "ready" /\ phase'[k] = "dropped")
         /\ \A j \in Conn \ {k} : phase'[j] = phase[j]
  BY DEF ClientGone, DropClient, clientVars, Phase

LEMMA NewStep ==
  ASSUME ConnectingInv, NEW k \in Conn, New(k)
  PROVE  ConnectingInv'
<1>1. /\ thread' = [thread EXCEPT ![k] = "running"]
      /\ handle' = [handle EXCEPT ![k] = "PendingClient"]
      /\ thread[k] = "none" /\ UNCHANGED <<phase, channel, given>>
  BY DEF New, vars, clientVars
<1>2. ConnectingTypeOK'
  BY <1>1 DEF ConnectingInv, ConnectingTypeOK, Thread, Handle
<1>3. Sane(k)'
  BY <1>1 DEF ConnectingInv, ConnectingTypeOK, Sane
<1> QED
  BY <1>1, <1>2, <1>3, Elsewhere DEF ConnectingInv, ConnectingTypeOK

LEMMA NewBlockingStep ==
  ASSUME ConnectingInv, NEW k \in Conn, NewBlocking(k)
  PROVE  ConnectingInv'
<1>1. thread[k] = "running" /\ UNCHANGED <<thread, channel, handle, given>>
  BY DEF NewBlocking, handleVars
<1>2. \E s \in {"connecting", "failed", "waiting", "ready"} : phase' = [phase EXCEPT ![k] = s]
  BY DEF NewBlocking, Connect, SendConnection, RecvResponse, Fail
<1>3. phase' \in [Conn -> Phase] /\ \A j \in Conn \ {k} : phase'[j] = phase[j]
  BY <1>2 DEF ConnectingInv, Phase
<1>4. ConnectingTypeOK'
  BY <1>1 DEF ConnectingInv, ConnectingTypeOK
<1>5. Sane(k)'
  BY <1>1 DEF ConnectingInv, Sane
<1> QED
  BY <1>1, <1>3, <1>4, <1>5, Elsewhere

LEMMA NewBlockingPanicsStep ==
  ASSUME ConnectingInv, NEW k \in Conn, NewBlockingPanics(k)
  PROVE  ConnectingInv'
<1>1. /\ thread' = [thread EXCEPT ![k] = "panicked"] /\ phase' = [phase EXCEPT ![k] = "failed"]
      /\ thread[k] = "running" /\ UNCHANGED <<channel, handle, given>>
  BY DEF NewBlockingPanics
<1>2. ConnectingTypeOK' /\ phase' \in [Conn -> Phase]
  BY <1>1 DEF ConnectingInv, ConnectingTypeOK, Thread, Phase
<1>3. Sane(k)'
  BY <1>1 DEF ConnectingInv, ConnectingTypeOK, Sane
<1> QED
  BY <1>1, <1>2, <1>3, Elsewhere DEF ConnectingInv, ConnectingTypeOK

LEMMA ReportResultStep ==
  ASSUME ConnectingInv, NEW k \in Conn, ReportResult(k)
  PROVE  ConnectingInv'
<1>1. /\ thread[k] = "running" /\ phase[k] \in {"ready", "failed"}
      /\ thread' = [thread EXCEPT ![k] = "sent"]
      /\ UNCHANGED <<handle, given>>
      /\ channel[k] = "empty" /\ given[k] = <<>> /\ handle[k] # "panicked"
  BY DEF ReportResult, ConnectingInv, Sane
<1>2. CASE HasReceiver(k)
  <2>1. /\ channel' = [channel EXCEPT ![k] = IF phase[k] = "ready" THEN "client" ELSE "error"]
        /\ phase' = phase
    BY <1>2 DEF ReportResult, Deposit, clientVars
  <2>2. ConnectingTypeOK' /\ phase' \in [Conn -> Phase]
    BY <1>1, <2>1 DEF ConnectingInv, ConnectingTypeOK, Thread, Result
  <2>3. Sane(k)'
    BY <1>1, <2>1 DEF ConnectingInv, ConnectingTypeOK, Sane
  <2> QED
    BY <1>1, <2>1, <2>2, <2>3, Elsewhere DEF ConnectingInv, ConnectingTypeOK
<1>3. CASE ~HasReceiver(k)
  <2>1. ClientGone(k) /\ channel' = channel
    BY <1>3 DEF ReportResult, Undelivered
  <2>2. /\ phase' \in [Conn -> Phase] /\ phase'[k] # "ready"
        /\ phase'[k] = phase[k] \/ (phase[k] = "ready" /\ phase'[k] = "dropped")
        /\ \A j \in Conn \ {k} : phase'[j] = phase[j]
    BY <2>1, ClientGoneStep DEF ConnectingInv
  <2>3. ConnectingTypeOK'
    BY <1>1, <2>1 DEF ConnectingInv, ConnectingTypeOK, Thread
  <2>4. handle[k] = "gone"
    BY <1>1, <1>3 DEF HasReceiver, ConnectingInv, ConnectingTypeOK, Handle, Sane
  <2>5. Sane(k)'
    BY <1>1, <2>1, <2>2, <2>4 DEF ConnectingInv, ConnectingTypeOK, Sane
  <2> QED
    BY <1>1, <2>1, <2>2, <2>3, <2>5, Elsewhere DEF ConnectingInv, ConnectingTypeOK
<1> QED
  BY <1>2, <1>3

LEMMA EndThreadStep ==
  ASSUME ConnectingInv, NEW k \in Conn, EndThread(k)
  PROVE  ConnectingInv'
<1>1. /\ thread[k] = "sent" /\ thread' = [thread EXCEPT ![k] = "ended"]
      /\ UNCHANGED <<phase, channel, handle, given>>
  BY DEF EndThread, vars, clientVars
<1>2. ConnectingTypeOK'
  BY <1>1 DEF ConnectingInv, ConnectingTypeOK, Thread
<1>3. Sane(k)'
  BY <1>1 DEF ConnectingInv, ConnectingTypeOK, Sane
<1> QED
  BY <1>1, <1>2, <1>3, Elsewhere DEF ConnectingInv, ConnectingTypeOK

(* take, and the return of block: left is what becomes of the handle.       *)
LEMMA ReceiveStep ==
  ASSUME ConnectingInv, NEW k \in Conn, NEW left \in {"gone", "OptionPendingClient"},
         handle[k] # "gone", Receive(k, left)
  PROVE  ConnectingInv'
<1>1. UNCHANGED thread
  BY DEF Receive
<1>2. CASE channel[k] # "empty"
  <2>1. /\ given' = [given EXCEPT ![k] = Append(@, channel[k])]
        /\ channel' = [channel EXCEPT ![k] = "empty"]
        /\ handle' = [handle EXCEPT ![k] = left]
        /\ phase' = phase
    BY <1>2 DEF Receive, Empty, clientVars
  <2>2. given[k] = <<>> /\ channel[k] \in Result /\ thread[k] \in {"sent", "ended"}
    BY <1>2 DEF ConnectingInv, ConnectingTypeOK, Sane, Thread
  <2>3. Append(given[k], channel[k]) = <<channel[k]>>
    BY <2>2
  <2>4. given' = [given EXCEPT ![k] = <<channel[k]>>]
    BY <2>1, <2>3
  <2>5. ConnectingTypeOK'
    BY <1>1, <2>1, <2>2, <2>4 DEF ConnectingInv, ConnectingTypeOK, Handle
  <2>6. given'[k] = <<channel[k]>> /\ given'[k] # <<>>
    BY <2>4 DEF ConnectingInv, ConnectingTypeOK
  <2>7. Sane(k)'
    BY <1>1, <2>1, <2>2, <2>6 DEF ConnectingInv, ConnectingTypeOK, Sane
  <2> QED
    BY <1>1, <2>1, <2>4, <2>5, <2>7, Elsewhere DEF ConnectingInv, ConnectingTypeOK
<1>3. CASE channel[k] = "empty"
  <2>1. /\ handle' = [handle EXCEPT ![k] = "panicked"]
        /\ ClientGone(k) /\ UNCHANGED <<given, channel>>
    BY <1>3 DEF Receive
  <2>2. thread[k] \in {"ended", "panicked"}
    BY <1>3 DEF Receive, IsReady
  <2>3. /\ phase' \in [Conn -> Phase] /\ phase'[k] # "ready"
        /\ phase'[k] = phase[k] \/ (phase[k] = "ready" /\ phase'[k] = "dropped")
        /\ \A j \in Conn \ {k} : phase'[j] = phase[j]
    BY <2>1, ClientGoneStep DEF ConnectingInv
  <2>4. ConnectingTypeOK'
    BY <1>1, <2>1 DEF ConnectingInv, ConnectingTypeOK, Handle
  <2>5. Sane(k)'
    BY <1>1, <1>3, <2>1, <2>2, <2>3 DEF ConnectingInv, ConnectingTypeOK, Sane
  <2> QED
    BY <1>1, <2>1, <2>3, <2>4, <2>5, Elsewhere DEF ConnectingInv, ConnectingTypeOK
<1> QED
  BY <1>2, <1>3

LEMMA BecomeStep ==
  ASSUME ConnectingInv, NEW k \in Conn, Option(k) \/ Block(k)
  PROVE  ConnectingInv'
<1>1. \E to \in {"OptionPendingClient", "blocked"} : handle' = [handle EXCEPT ![k] = to]
  BY DEF Option, Block, Become
<1>2. /\ handle[k] \in {"PendingClient", "OptionPendingClient"}
      /\ UNCHANGED <<thread, channel, given, phase>>
  BY DEF Option, Block, Become, vars, clientVars
<1>3. ConnectingTypeOK'
  BY <1>1, <1>2 DEF ConnectingInv, ConnectingTypeOK, Handle
<1>4. Sane(k)'
  BY <1>1, <1>2 DEF ConnectingInv, ConnectingTypeOK, Sane
<1> QED
  BY <1>1, <1>2, <1>3, <1>4, Elsewhere DEF ConnectingInv, ConnectingTypeOK

LEMMA DropHandleStep ==
  ASSUME ConnectingInv, NEW k \in Conn, DropHandle(k)
  PROVE  ConnectingInv'
<1>1. /\ handle[k] \in {"PendingClient", "OptionPendingClient"}
      /\ handle' = [handle EXCEPT ![k] = "gone"]
      /\ channel' = [channel EXCEPT ![k] = "empty"]
      /\ UNCHANGED <<thread, given>>
  BY DEF DropHandle
<1>2. /\ phase' \in [Conn -> Phase] /\ \A j \in Conn \ {k} : phase'[j] = phase[j]
      /\ \/ channel[k] # "client" /\ phase'[k] = phase[k]
         \/ channel[k] = "client" /\ phase'[k] = "dropped"
  <2>1. CASE channel[k] = "client"
    <3>1. ClientGone(k) /\ phase[k] = "ready"
      BY <2>1 DEF DropHandle, ConnectingInv, Sane
    <3> QED
      BY <2>1, <3>1, ClientGoneStep DEF ConnectingInv
  <2>2. CASE channel[k] # "client"
    BY <2>2 DEF DropHandle, ConnectingInv, clientVars
  <2> QED
    BY <2>1, <2>2
<1>3. ConnectingTypeOK'
  BY <1>1 DEF ConnectingInv, ConnectingTypeOK, Handle
<1>4. /\ handle'[k] = "gone" /\ channel'[k] = "empty"
      /\ thread'[k] = thread[k] /\ given'[k] = given[k] /\ Sane(k)
  BY <1>1 DEF ConnectingInv, ConnectingTypeOK
<1>5. Sane(k)'
  <2>1. CASE channel[k] # "client" /\ phase'[k] = phase[k]
    BY <1>4, <2>1 DEF Sane
  <2>2. CASE phase'[k] = "dropped" /\ channel[k] = "client"
    BY <1>4, <2>2 DEF Sane
  <2> QED
    BY <1>2, <2>1, <2>2
<1> QED
  BY <1>1, <1>2, <1>3, <1>5, Elsewhere DEF ConnectingInv, ConnectingTypeOK

LEMMA UseStep ==
  ASSUME ConnectingInv, NEW k \in Conn, Use(k)
  PROVE  ConnectingInv'
<1>1. given[k] = <<"client">> /\ UNCHANGED <<thread, channel, handle, given>>
  BY DEF Use, handleVars
<1>2. phase[k] = "ready" => phase' = phase \/ phase' = [phase EXCEPT ![k] = "dropped"]
  BY DEF Use, SendTcp, SendUdp, ClientTcpYields, ClientTcpFails, ClientRecvUdp,
     ClientClearMsgs, ClientDisconnect, DropClient
<1>3. phase[k] = "ready"
  BY DEF Use, SendTcp, SendUdp, ClientTcpYields, ClientTcpFails, ClientRecvUdp,
     ClientClearMsgs, ClientDisconnect, DropClient, Receiving
<1>4. phase' \in [Conn -> Phase] /\ \A j \in Conn \ {k} : phase'[j] = phase[j]
  BY <1>2, <1>3 DEF ConnectingInv, Phase
<1>5. ConnectingTypeOK'
  BY <1>1 DEF ConnectingInv, ConnectingTypeOK
<1>6. given[k] # <<>>
  BY <1>1
<1>7. Sane(k)'
  BY <1>1, <1>6 DEF ConnectingInv, Sane
<1> QED
  BY <1>1, <1>4, <1>5, <1>7, Elsewhere

LEMMA ConnectingStep ==
  ASSUME ConnectingInv, [ConnectingNext]_connectingVars
  PROVE  ConnectingInv'
<1>1. ASSUME UNCHANGED <<phase, handleVars>>
      PROVE  ConnectingInv'
  BY <1>1 DEF handleVars, ConnectingInv, ConnectingTypeOK, Sane
<1>2. CASE UNCHANGED connectingVars
  BY <1>1, <1>2 DEF connectingVars, vars, clientVars
<1>3. CASE (ServerStep \/ ShutDown \/ NetworkStep) /\ UNCHANGED handleVars
  BY <1>1, <1>3 DEF ServerStep, ShutDown, NetworkStep, clientVars
<1>4. ASSUME NEW k \in Conn, Take(k) \/ OptionTake(k) \/ BlockReturn(k)
      PROVE  ConnectingInv'
  BY <1>4, ReceiveStep DEF Take, OptionTake, BlockReturn
<1> QED
  BY <1>2, <1>3, <1>4, NewStep, NewBlockingStep, NewBlockingPanicsStep, ReportResultStep,
     EndThreadStep, BecomeStep, DropHandleStep, UseStep
  DEF ConnectingNext

LEMMA ConnectingInvariant == ConnectingSpec => []ConnectingInv
  BY ConnectingStart, ConnectingStep, PTL DEF ConnectingSpec

-----------------------------------------------------------------------------
(* The states of thread, channel and handle are those listed, and at most   *)
(* one result is given (client.rs:48-60, 373-487).                          *)
THEOREM ConnectingTypes == ConnectingSpec => []ConnectingTypeOK
<1>1. ConnectingInv => ConnectingTypeOK
  BY DEF ConnectingInv
<1> QED
  BY <1>1, ConnectingInvariant, PTL

(* Of every call of Client::new comes one result, and the Client is with    *)
(* the thread, in the channel or with the caller, whoever drops his end of  *)
(* the channel when (client.rs:54-60).                                      *)
THEOREM OneResultAlways == ConnectingSpec => []OneResult
  BY ConnectingInvariant, OneResultHolds, PTL

(* The first take that done() or block() promises a value for yields one,   *)
(* unless new_blocking's thread panicked (client.rs:395, 411, 468).         *)
THEOREM FirstTakeAlways == ConnectingSpec => []FirstTakeYields
  BY ConnectingInvariant, TakeHolds, PTL
=============================================================================
