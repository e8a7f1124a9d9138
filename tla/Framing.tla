------------------------------ MODULE Framing -------------------------------
(***************************************************************************)
(* TcpCon (src/tcp.rs): how messages become bytes and bytes messages.  One *)
(* direction of one connection; the stream is non-blocking, as it is once  *)
(* the handshake is over.                                                  *)
(*                                                                         *)
(* A byte is named by the message it belongs to, its place in it and the   *)
(* length its sender put in the header.  What the header fields say when   *)
(* the four bytes read as a header are not one is left open.               *)
(***************************************************************************)
EXTENDS Integers, Sequences

CONSTANTS
  Sender,     \* threads that share a reference to the sending TcpCon
  MaxMsgSize, \* config.max_msg_size, the same at both ends
  Width,      \* how many lengths a header can tell apart: 65536
  Room,       \* bytes the kernel buffers between the two processes
  MaxSends    \* bound: calls of send that get the lock

TCP_HEADER_LEN == 4
NoSender == "none"

ASSUME FramingAssumption ==
  /\ NoSender \notin Sender
  /\ MaxMsgSize \in Nat /\ Width \in Nat \ {0} /\ Room \in Nat /\ MaxSends \in Nat

(* Names of the form Operator_What are mutants: what Operator would be with *)
(* a bug in the code it models.                                             *)

VARIABLES
  lock,      \* who holds the RwLock for writing
  out,       \* per sender: the part of buff that write_all has still to write
  calls,     \* sends so far: numbers the messages
  sent,      \* messages written whole: their send returned Ok
  stream,    \* bytes written and not read
  here,      \* how many of them have arrived
  closed,    \* the sender has closed its end
  got,       \* what recv returned: the message, or Garbage
  fate,      \* how recv ended for good, if it did
  cut        \* a write_all or a read_exact gave up within a message

framingVars == <<lock, out, calls, sent, stream, here, closed, got, fate, cut>>

Byte == [msg : Nat \ {0}, at : Nat \ {0}, len : Nat]
Garbage == 0
Fate == {"open", "aborted", "oversize"}

FramingTypeOK ==
  /\ lock \in Sender \cup {NoSender}
  /\ out \in [Sender -> Seq(Byte)]
  /\ calls \in Nat
  /\ sent \in Seq(Nat)
  /\ stream \in Seq(Byte)
  /\ here \in 0..Len(stream)
  /\ closed \in BOOLEAN /\ cut \in BOOLEAN
  /\ got \in Seq(Nat)
  /\ fate \in Fate

FramingInit ==
  /\ lock = NoSender
  /\ out = [s \in Sender |-> <<>>]
  /\ calls = 0
  /\ sent = <<>>
  /\ stream = <<>> /\ here = 0
  /\ closed = FALSE /\ cut = FALSE
  /\ got = <<>>
  /\ fate = "open"

-----------------------------------------------------------------------------
(* send. *)

Frame(m, len) ==
  [p \in 1..(TCP_HEADER_LEN + len) |-> [msg |-> m, at |-> p, len |-> len]]

Fits_PlusOne(len) == len <= MaxMsgSize + 1
Fits(len) == len + TCP_HEADER_LEN <= MaxMsgSize + TCP_HEADER_LEN

(* The lock is free, and is taken for writing. *)
Free_ReadLock == TRUE
Free == lock = NoSender

(* The message is built and the lock taken.  A message over the maximum     *)
(* size is refused before that and changes nothing.                         *)
BeginSend(s, len) ==
  /\ ~closed /\ calls < MaxSends
  /\ Fits(len)
  /\ Free /\ out[s] = <<>>
  /\ lock' = s
  /\ calls' = calls + 1
  /\ out' = [out EXCEPT ![s] = Frame(calls', len)]
  /\ UNCHANGED <<sent, stream, here, closed, got, fate, cut>>

(* write_all: the kernel takes as much as it has room for ...               *)
Write(s) ==
  /\ out[s] # <<>>
  /\ \E n \in 1..Len(out[s]) :
       /\ Len(stream) + n <= Room
       /\ stream' = stream \o SubSeq(out[s], 1, n)
       /\ out' = [out EXCEPT ![s] = SubSeq(@, n + 1, Len(@))]
  /\ IF out'[s] = <<>>
     THEN lock' = NoSender /\ sent' = Append(sent, out[s][1].msg)
     ELSE UNCHANGED <<lock, sent>>
  /\ UNCHANGED <<calls, here, closed, got, fate, cut>>

(* ... and with no room at all the write fails.  What was written stays.    *)
WriteFails(s) ==
  /\ out[s] # <<>> /\ Len(stream) >= Room
  /\ lock' = NoSender
  /\ cut' = (cut \/ out[s][1].at # 1)
  /\ out' = [out EXCEPT ![s] = <<>>]
  /\ UNCHANGED <<calls, sent, stream, here, closed, got, fate>>

(* close, which needs the TcpCon for itself. *)
Close ==
  /\ ~closed /\ Free
  /\ closed' = TRUE
  /\ UNCHANGED <<lock, out, calls, sent, stream, here, got, fate, cut>>

(* The network: more bytes arrive, in segments of its own choice. *)
Arrive ==
  /\ here' \in (here + 1)..Len(stream)
  /\ UNCHANGED <<lock, out, calls, sent, stream, closed, got, fate, cut>>

-----------------------------------------------------------------------------
(* recv.  Its WouldBlock before read_exact changes nothing.                 *)

(* peek finds a whole header. *)
HeaderHere_Longer == here > TCP_HEADER_LEN
HeaderHere == here >= TCP_HEADER_LEN

(* The payload length in the header that peek finds. *)
PeekedLen ==
  IF \A p \in 1..TCP_HEADER_LEN : stream[p].at = p /\ stream[p].msg = stream[1].msg
  THEN {stream[1].len % Width} ELSE 0..(Width - 1)

Consume_Uncounted(n) ==
  /\ stream' = SubSeq(stream, n + 1, Len(stream))
  /\ UNCHANGED here
Consume(n) ==
  /\ stream' = SubSeq(stream, n + 1, Len(stream))
  /\ here' = here - n

Recv ==
  /\ fate = "open" /\ HeaderHere
  /\ \E len \in PeekedLen :
       LET total == len + TCP_HEADER_LEN IN
       IF len > MaxMsgSize
       THEN /\ fate' = "oversize"
            /\ UNCHANGED <<stream, here, got, cut>>
       ELSE IF here >= total
       THEN LET m == stream[1].msg IN
            /\ Consume(total)
            /\ got' = Append(got, IF SubSeq(stream, 1, total) = Frame(m, len) THEN m ELSE Garbage)
            /\ UNCHANGED <<fate, cut>>
       ELSE /\ Consume(here)     \* read_exact keeps nothing of what it read
            /\ cut' = TRUE
            /\ fate' = IF closed /\ here = Len(stream) THEN "aborted" ELSE fate
            /\ UNCHANGED got
  /\ UNCHANGED <<lock, out, calls, sent, closed>>

(* peek finds the end of the stream: it returns 0. *)
AtEnd_Waits == FALSE
AtEnd == stream = <<>> /\ closed

RecvEnd ==
  /\ fate = "open" /\ AtEnd
  /\ fate' = "aborted"
  /\ UNCHANGED <<lock, out, calls, sent, stream, here, closed, got, cut>>

FramingNext ==
  \/ \E s \in Sender : Write(s) \/ WriteFails(s) \/ \E len \in 0..(MaxMsgSize + 1) : BeginSend(s, len)
  \/ Close \/ Arrive \/ Recv \/ RecvEnd

FramingSpec == FramingInit /\ [][FramingNext]_framingVars

(* send runs to its end; bytes arrive; the owner calls recv again and again. *)
FramingFairness ==
  /\ \A s \in Sender : WF_framingVars(Write(s)) /\ WF_framingVars(WriteFails(s))
  /\ WF_framingVars(Arrive)
  /\ WF_framingVars(Recv) /\ WF_framingVars(RecvEnd)

FairFramingSpec == FramingSpec /\ FramingFairness

-----------------------------------------------------------------------------
(* The messages received are the messages sent, in their order, each whole  *)
(* and once, until a transfer is cut short: concurrent senders do not mix   *)
(* their bytes and a partial header is left where it is (tcp.rs:70-71,      *)
(* 81-97).                                                                  *)
Promise == INSTANCE Channel WITH spoiled <- cut
KeepsPromise == Promise!ChanSpec

(* "carrier-pigeon never sends a message greater than this" (tcp.rs:106):   *)
(* recv gives up the connection for its size only after a cut transfer.     *)
NoFalseOversize == fate = "oversize" => cut

(* Every message that was sent is received unless a transfer is cut short.  *)
AllDelivered ==
  \A n \in 1..MaxSends : Len(sent) >= n ~> (Len(got) >= n \/ cut)

(* The end of the connection is noticed, after all that was sent, unless    *)
(* a transfer is cut short (tcp.rs:84-89).                                  *)
EndNoticed == closed ~> (fate = "aborted" \/ cut)

(* "If a message is not available yet, this will yield an error with the    *)
(* kind `WouldBlock`" (tcp.rs:77): a message that has arrived in part is    *)
(* received when the rest is there.                                         *)
Lossless == got = SubSeq(sent, 1, Len(got))

(* "`len` and `mid` are sent as big endian u16s.  This means they have a    *)
(* max value of 65535.  This shouldn't pose any real issues" (header.rs:    *)
(* 12-14): what recv returns is a message, unless a transfer is cut short.  *)
NoGarbage == cut \/ \A i \in 1..Len(got) : got[i] # Garbage
=============================================================================
