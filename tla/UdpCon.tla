------------------------------- MODULE UdpCon -------------------------------
(***************************************************************************)
(* Datagrams between peers: UdpCon (src/udp.rs) with its header            *)
(* (src/header.rs), the time stamp of 16 bits (src/time.rs), and the part  *)
(* of recv_udp that goes from an MId to a message.  The tables are those   *)
(* of module MsgTables.                                                    *)
(***************************************************************************)
EXTENDS MsgTables

CONSTANTS
  Low,         \* 2^16: what MId and time are cut to in the header
  Full,        \* 2^32: what unix_millis is cut to
  Skews,       \* by how much each peer's clock may differ from true time
  Sender,      \* who sends: the two directions do not interact
  Start,       \* the true time at which datagrams begin to flow
  Duration,    \* bound: how long they do
  Size,        \* payload sizes
  MaxMsgSize,  \* per peer: config.max_msg_size
  MaxPackets   \* bound: datagrams in flight at once

ASSUME UdpAssumption ==
  /\ Low \in Nat \ {0} /\ Full \in Nat \ {0} /\ Full % Low = 0
  /\ Skews \subseteq [Peer -> Int] /\ Start \in Nat /\ Duration \in Nat
  /\ Sender \subseteq Peer
  /\ MaxMsgSize \in [Peer -> Nat]

VARIABLES
  now,      \* true time, in milliseconds
  skew,     \* per peer
  packets,  \* in flight
  got,      \* per peer: the message read since clear_msgs, at most one (a bound)
  fate      \* per peer: "alive", or how a panic ended it

udpVars == <<now, skew, packets, got, fate>>
allVars == <<tableVars, udpVars>>

Nothing == [read |-> "nothing"]

(* unix_millis, before it is cut to 32 bits. *)
Clock(p) == now + skew[p]

(* reconstruct_millis_inner.  For Low of every Full milliseconds the upper  *)
(* bits are zero; to subtract from them panics in a build that checks for   *)
(* overflow and wraps around in one that does not.                          *)
Later_OrEqual(lsb, nowLsb) == lsb >= nowLsb
Later(lsb, nowLsb) == lsb > nowLsb

Underflows(t, lsb) == t < Low /\ Later(lsb, t % Low)
Reconstruct(t, lsb) ==
  LET msb == t - (t % Low)
  IN  (IF Later(lsb, t % Low) THEN (msb - Low) % Full ELSE msb) + lsb

UdpInit ==
  /\ TablesInit
  /\ now = Start
  /\ skew \in Skews
  /\ packets = {}
  /\ got = [p \in Peer |-> Nothing]
  /\ fate = [p \in Peer |-> "alive"]

(* A bound: datagrams flow, and time passes, only where all peers have      *)
(* built their tables from the same registrations, as the docs ask.         *)
Deployed == \A p, q \in Peer : SameRegistrations(p, q)

Tick ==
  /\ Deployed
  /\ now < Start + Duration
  /\ now' = now + 1
  /\ UNCHANGED <<tableVars, skew, packets, got, fate>>

(* The cast to the 16 bits of a field of the header. *)
Cut(x) == x % Low

(* send_to / send, and send_shared: a message over max_msg_size is an error *)
(* and is not sent.  type, size and at are those of the message, kept for   *)
(* the properties; the header carries mid and time.                         *)
Send(p, tid, size) ==
  /\ Deployed
  /\ fate[p] = "alive" /\ Cardinality(packets) < MaxPackets
  /\ ValidTid(p, tid) /\ parts[p].transports[TidMap(p, tid) + 1] = "UDP"
  /\ size <= MaxMsgSize[p]
  /\ packets' = packets \cup
       {[from |-> p, mid |-> Cut(TidMap(p, tid)), time |-> Cut(Clock(p) % Full),
         type |-> tid, size |-> size, at |-> Clock(p)]}
  /\ UNCHANGED <<tableVars, now, skew, got, fate>>

(* recv / recv_from and the rest of recv_udp: the header, valid_mid, the    *)
(* index into deser, the deserializer.  The kernel cuts a datagram to the   *)
(* buffer, and the bytes of another type are anything: a message or not.    *)
Outcome(p, d, type) ==
  [read |-> type, time |-> Reconstruct(Clock(p) % Full, d.time),
   type |-> d.type, at |-> d.at, from |-> d.from, by |-> Clock(p)]

Read(p, d) ==
  IF d.size > MaxMsgSize[p] THEN {Nothing}
  ELSE LET type == parts[p].types[d.mid + 1]
       IN  {Outcome(p, d, type)} \cup (IF type = d.type THEN {} ELSE {Nothing})

Recv(p, d) ==
  /\ fate[p] = "alive" /\ d.from # p /\ got[p] = Nothing
  /\ packets' \in {packets, packets \ {d}}  \* the network may deliver a copy
  /\ \/ /\ Underflows(Clock(p) % Full, d.time)
        /\ fate' = [fate EXCEPT ![p] = "overflow panic"]
        /\ UNCHANGED got
     \/ /\ ~ValidMid(p, d.mid)
        /\ UNCHANGED <<got, fate>>
     \/ /\ d.mid = MidCount(p)
        /\ fate' = [fate EXCEPT ![p] = "index panic"]
        /\ UNCHANGED got
     \/ /\ d.mid < MidCount(p)
        /\ \E m \in Read(p, d) : got' = [got EXCEPT ![p] = m]
        /\ UNCHANGED fate
  /\ UNCHANGED <<tableVars, now, skew>>

ClearMsgs(p) ==
  /\ got[p] # Nothing
  /\ got' = [got EXCEPT ![p] = Nothing]
  /\ UNCHANGED <<tableVars, now, skew, packets, fate>>

Lose ==
  /\ \E d \in packets : packets' = packets \ {d}
  /\ UNCHANGED <<tableVars, now, skew, got, fate>>

UdpNext ==
  \/ TablesNext /\ UNCHANGED udpVars
  \/ Tick \/ Lose
  \/ \E p \in Sender, tid \in {e.tid : e \in Entry}, size \in Size : Send(p, tid, size)
  \/ \E p \in Peer : ClearMsgs(p) \/ \E d \in packets : Recv(p, d)

UdpSpec == UdpInit /\ [][UdpNext]_allVars

-----------------------------------------------------------------------------
(* A datagram is read as the type it was sent as, whatever the two peers    *)
(* did to build their tables, and no MId leads past the table (valid_mid    *)
(* accepts one that does): provided that the registrations are the same and *)
(* that the MIds fit into the header (header.rs:73, message_table.rs:358).  *)
ReadAsSent ==
  \A p \in Peer :
    MidCount(p) <= Low =>
      /\ fate[p] # "index panic"
      /\ got[p] # Nothing => got[p].read = got[p].type

(* The time read is the time of sending, unless the datagram took Low       *)
(* milliseconds or more, or seems to arrive before it was sent: late ones,  *)
(* copies and the two wrap-arounds included (time.rs:3-4).                  *)
TimeRecovered ==
  \A p \in Peer :
    got[p] # Nothing /\ got[p].by - got[p].at \in 0..(Low - 1) =>
      got[p].time = got[p].at % Full
=============================================================================
