---------------------------- MODULE FramingProofs ----------------------------
(***************************************************************************)
(* Theorems about Framing: the byte stream of a TcpCon keeps the promise   *)
(* of module Channel, for every number of senders, message and buffer size *)
(* and every segmentation, provided that a length fits into the header.    *)
(***************************************************************************)
EXTENDS Framing, SequenceTheorems, TLAPS

LEMMA Sizes == MaxMsgSize \in Nat /\ Width \in Nat \ {0} /\ NoSender \notin Sender
BY FramingAssumption

USE Sizes

(* The send in progress, what is on its way, and what has been sent or is   *)
(* being sent, in the order of the numbers.                                 *)
Held == IF lock = NoSender THEN <<>> ELSE out[lock]
Pending == stream \o Held
Line == IF lock = NoSender THEN sent ELSE Append(sent, calls)

(* What the byte at i says.                                                 *)
Msg(q, i) == q[i].msg
At(q, i) == q[i].at
Size(q, i) == q[i].len

(* Byte i of q is byte p of message m.                                      *)
Is(q, i, m, p, len) == Msg(q, i) = m /\ At(q, i) = p /\ Size(q, i) = len
Same(q2, i2, q, i) == Is(q2, i2, Msg(q, i), At(q, i), Size(q, i))

(* q2 is q and a frame of message m; line2 is line and m.                   *)
Adds(q2, q, l, m, len) ==
  /\ Len(q) = l /\ Len(q2) = l + (4 + len)
  /\ \A i \in 1..l : Same(q2, i, q, i)
  /\ \A i \in (l + 1)..(l + (4 + len)) : Is(q2, i, m, i - l, len)
Longer(line2, line, z, m) ==
  /\ Len(line) = z /\ Len(line2) = z + 1 /\ line2[z + 1] = m
  /\ \A x \in 1..z : line2[x] = line[x]

(* q2 is what is left of q when its first t bytes are gone.                 *)
Without(q2, q, l, t) ==
  /\ Len(q) = l /\ Len(q2) = l - t
  /\ \A i \in 1..(l - t) : Same(q2, i, q, i + t)

Rest(s, n) == SubSeq(s, n + 1, Len(s))

Numbers(q, l) ==
  \A i \in 1..l :
    Msg(q, i) \in Nat \ {0} /\ At(q, i) \in Nat \ {0} /\ Size(q, i) \in Nat

(* What is left of a frame of message m, all but its first k bytes.         *)
RestOf(o, m, len, k) ==
  /\ len \in 0..MaxMsgSize /\ k \in 0..(3 + len) /\ Len(o) = 4 + len - k
  /\ \A i \in 1..Len(o) : Is(o, i, m, i + k, len)

Increasing(q) == \A i, j \in 1..Len(q) : i < j => q[i] < q[j]

LockInv ==
  /\ \A s \in Sender : s # lock => out[s] = <<>>
  /\ lock # NoSender => \E len, k \in Nat : RestOf(out[lock], calls, len, k)
  /\ Line \in Seq(1..calls) /\ Increasing(Line)

(* Whole frames, one after the other.                                       *)
Framed(q) ==
  /\ \A i \in 1..Len(q) :
       /\ Size(q, i) \in 0..MaxMsgSize /\ At(q, i) \in 1..(4 + Size(q, i))
       /\ At(q, i) + (Len(q) - i) >= 4 + Size(q, i)
  /\ \A i, j \in 1..Len(q) :
       i <= j /\ At(q, i) + (j - i) <= 4 + Size(q, i) =>
         Is(q, j, Msg(q, i), At(q, i) + (j - i), Size(q, i))

(* They are the messages of line after the first n.                         *)
LinedUp(q, line, n) ==
  /\ \A i \in 1..(Len(q) - 1) :
       At(q, i) = 4 + Size(q, i) =>
         /\ At(q, i + 1) = 1
         /\ \E x \in 1..(Len(line) - 1) : Msg(q, i) = line[x] /\ Msg(q, i + 1) = line[x + 1]
  /\ Len(q) # 0 => /\ At(q, 1) = 1 /\ n < Len(line) /\ Msg(q, 1) = line[n + 1]
                   /\ Msg(q, Len(q)) = line[Len(line)]
  /\ Len(q) = 0 => n = Len(line)

(* The message length fits into the header, as header.rs:12-14 takes for    *)
(* granted.                                                                 *)
LengthFits == MaxMsgSize < Width

FramingInv ==
  /\ FramingTypeOK /\ LockInv
  /\ LengthFits => /\ NoFalseOversize
                   /\ ~cut => Framed(Pending) /\ LinedUp(Pending, Line, Len(got))

-----------------------------------------------------------------------------
(* Bytes.                                                                   *)

LEMMA SameByte ==
  ASSUME NEW q, NEW i, NEW q2, NEW i2, q2[i2] = q[i]
  PROVE  Same(q2, i2, q, i)
BY DEF Same, Is, Msg, At, Size

LEMMA SameEqual ==
  ASSUME NEW q, NEW i, NEW q2, NEW i2, Same(q2, i2, q, i)
  PROVE  Msg(q2, i2) = Msg(q, i) /\ At(q2, i2) = At(q, i) /\ Size(q2, i2) = Size(q, i)
BY DEF Same, Is

LEMMA ByteTypes ==
  ASSUME NEW q \in Seq(Byte), NEW i \in 1..Len(q)
  PROVE  Msg(q, i) \in Nat \ {0} /\ At(q, i) \in Nat \ {0} /\ Size(q, i) \in Nat
<1>1. q[i] \in Byte
  BY ElementOfSeq
<1> QED
  BY <1>1 DEF Byte, Msg, At, Size

LEMMA BytesEqual ==
  ASSUME NEW b \in Byte, NEW c \in Byte, b.msg = c.msg, b.at = c.at, b.len = c.len
  PROVE  b = c
BY DEF Byte

LEMMA ByteIs ==
  ASSUME NEW q, NEW i, NEW m, NEW p, NEW len, q[i] = [msg |-> m, at |-> p, len |-> len]
  PROVE  Is(q, i, m, p, len)
BY DEF Is, Msg, At, Size

LEMMA FrameType ==
  ASSUME NEW m \in Nat \ {0}, NEW len \in Nat
  PROVE  /\ Frame(m, len) \in Seq(Byte) /\ Len(Frame(m, len)) = 4 + len
         /\ \A i \in 1..(4 + len) : Is(Frame(m, len), i, m, i, len)
<1>1. /\ 4 + len \in Nat
      /\ Frame(m, len) = [p \in 1..(4 + len) |-> [msg |-> m, at |-> p, len |-> len]]
  BY DEF Frame, TCP_HEADER_LEN
<1>2. \A p \in 1..(4 + len) : [msg |-> m, at |-> p, len |-> len] \in Byte
  BY DEF Byte
<1>3. Frame(m, len) \in Seq(Byte) /\ Len(Frame(m, len)) = 4 + len
  BY <1>1, <1>2
<1>4. \A i \in 1..(4 + len) : Frame(m, len)[i] = [msg |-> m, at |-> i, len |-> len]
  BY <1>1
<1>5. \A i \in 1..(4 + len) : Is(Frame(m, len), i, m, i, len)
  BY <1>4, ByteIs
<1> QED
  BY <1>3, <1>5

-----------------------------------------------------------------------------
(* Frames.                                                                  *)

(* A frame is added at the end.                                             *)
LEMMA FrameAdded ==
  ASSUME NEW q, NEW l \in Nat, NEW line, NEW z \in Nat, NEW n \in Nat,
         Framed(q), LinedUp(q, line, n), Numbers(q, l),
         NEW m \in Nat, NEW len \in 0..MaxMsgSize,
         NEW q2, Adds(q2, q, l, m, len), NEW line2, Longer(line2, line, z, m)
  PROVE  Framed(q2) /\ LinedUp(q2, line2, n)
<1> USE DEF Adds, Longer, Numbers
<1>1. PICK l2 \in Nat : l2 = l + (4 + len) /\ l2 = Len(q2) /\ l < l2
  OBVIOUS
<1>2. \A i \in 1..l : /\ Msg(q2, i) = Msg(q, i) /\ At(q2, i) = At(q, i)
                      /\ Size(q2, i) = Size(q, i)
                      /\ Msg(q, i) \in Nat /\ At(q, i) \in Nat /\ Size(q, i) \in Nat
  BY SameEqual
<1>3. \A i \in (l + 1)..l2 : Msg(q2, i) = m /\ At(q2, i) = i - l /\ Size(q2, i) = len
  BY <1>1 DEF Is
<1>4. /\ \A i \in 1..l : /\ Size(q, i) \in 0..MaxMsgSize /\ At(q, i) \in 1..(4 + Size(q, i))
                         /\ At(q, i) + (l - i) >= 4 + Size(q, i)
      /\ \A i, j \in 1..l : i <= j /\ At(q, i) + (j - i) <= 4 + Size(q, i) =>
           /\ Msg(q, j) = Msg(q, i) /\ At(q, j) = At(q, i) + (j - i)
           /\ Size(q, j) = Size(q, i)
  BY DEF Framed, Is
<1>5. /\ \A i \in 1..(l - 1) : At(q, i) = 4 + Size(q, i) =>
           /\ At(q, i + 1) = 1
           /\ \E x \in 1..(z - 1) : Msg(q, i) = line[x] /\ Msg(q, i + 1) = line[x + 1]
      /\ l # 0 => At(q, 1) = 1 /\ n < z /\ Msg(q, 1) = line[n + 1] /\ Msg(q, l) = line[z]
      /\ l = 0 => n = z
  BY DEF LinedUp
<1>6. Framed(q2)
  <2>1. ASSUME NEW i \in 1..l2
        PROVE  /\ Size(q2, i) \in 0..MaxMsgSize /\ At(q2, i) \in 1..(4 + Size(q2, i))
               /\ At(q2, i) + (l2 - i) >= 4 + Size(q2, i)
    <3>1. CASE i \in 1..l
      BY <1>1, <1>2, <1>4, <3>1
    <3>2. CASE i \in (l + 1)..l2
      BY <1>1, <1>3, <3>2
    <3> QED
      BY <3>1, <3>2
  <2>2. ASSUME NEW i \in 1..l2, NEW j \in 1..l2, i <= j,
               At(q2, i) + (j - i) <= 4 + Size(q2, i)
        PROVE  /\ Msg(q2, j) = Msg(q2, i) /\ At(q2, j) = At(q2, i) + (j - i)
               /\ Size(q2, j) = Size(q2, i)
    <3>1. CASE i \in 1..l /\ j \in 1..l
      BY <1>2, <1>4, <2>2, <3>1
    <3>2. CASE i \in 1..l /\ j \in (l + 1)..l2
      BY <1>2, <1>4, <2>2, <3>2
    <3>3. CASE i \in (l + 1)..l2
      BY <1>1, <1>3, <2>2, <3>3
    <3> QED
      BY <3>1, <3>2, <3>3
  <2> QED
    BY <1>1, <2>1, <2>2 DEF Framed, Is
<1>7. LinedUp(q2, line2, n)
  <2>1. ASSUME NEW i \in 1..(l2 - 1), At(q2, i) = 4 + Size(q2, i)
        PROVE  /\ At(q2, i + 1) = 1
               /\ \E x \in 1..z : Msg(q2, i) = line2[x] /\ Msg(q2, i + 1) = line2[x + 1]
    <3>1. CASE i < l
      <4>1. i \in 1..(l - 1) /\ i \in 1..l /\ i + 1 \in 1..l
        BY <3>1
      <4>2. PICK x \in 1..(z - 1) : Msg(q, i) = line[x] /\ Msg(q, i + 1) = line[x + 1]
        BY <1>2, <1>5, <2>1, <4>1
      <4>3. x \in 1..z /\ x + 1 \in 1..z
        OBVIOUS
      <4> QED
        BY <1>2, <1>5, <2>1, <4>1, <4>2, <4>3
    <3>2. CASE i = l
      <4>1. i + 1 \in (l + 1)..l2 /\ l \in 1..l /\ z \in 1..z
        BY <1>1, <1>5, <3>2
      <4>2. At(q2, i + 1) = 1 /\ Msg(q2, i + 1) = m /\ Msg(q2, i) = line2[z]
        BY <1>2, <1>3, <1>5, <3>2, <4>1
      <4> QED
        BY <4>1, <4>2
    <3>3. CASE i > l
      BY <1>1, <1>3, <2>1, <3>3
    <3> QED
      BY <3>1, <3>2, <3>3
  <2>2. Msg(q2, l2) = line2[z + 1]
    BY <1>1, <1>3
  <2>3. At(q2, 1) = 1 /\ n < z + 1 /\ Msg(q2, 1) = line2[n + 1]
    <3>1. CASE l = 0
      BY <1>1, <1>3, <1>5, <3>1
    <3>2. CASE l # 0
      <4>1. 1 \in 1..l /\ n + 1 \in 1..z
        BY <1>5, <3>2
      <4> QED
        BY <1>2, <1>5, <3>2, <4>1
    <3> QED
      BY <3>1, <3>2
  <2> QED
    BY <1>1, <2>1, <2>2, <2>3 DEF LinedUp
<1> QED
  BY <1>6, <1>7

(* Nothing follows the last message of line.                                *)
LEMMA LastIsLast ==
  ASSUME NEW q, NEW l \in Nat, Len(q) = l, NEW line, NEW z \in Nat, Len(line) = z,
         NEW n \in Nat, Framed(q), LinedUp(q, line, n), Increasing(line),
         \A x \in 1..z : line[x] \in Nat,
         NEW i \in 1..(l - 1), At(q, i) = 4 + Size(q, i)
  PROVE  Msg(q, i) # line[z]
<1>1. PICK x \in 1..(z - 1) : Msg(q, i) = line[x]
  BY DEF LinedUp
<1>2. x \in 1..z /\ z \in 1..z /\ x < z
  OBVIOUS
<1>3. line[x] < line[z]
  BY <1>2 DEF Increasing
<1> QED
  BY <1>1, <1>2, <1>3

(* The first frame is whole, and what follows is in order after it.         *)
LEMMA FrameTaken ==
  ASSUME NEW q, NEW l \in Nat, Len(q) = l, l # 0, NEW line, NEW z \in Nat, Len(line) = z,
         NEW n \in Nat, Framed(q), LinedUp(q, line, n), Numbers(q, l)
  PROVE  /\ Size(q, 1) \in 0..MaxMsgSize /\ 4 + Size(q, 1) <= l
         /\ n < z /\ Msg(q, 1) = line[n + 1]
         /\ \A i \in 1..(4 + Size(q, 1)) : Is(q, i, Msg(q, 1), i, Size(q, 1))
<1> USE DEF Numbers
<1>1. 1 \in 1..l /\ At(q, 1) = 1 /\ n < z /\ Msg(q, 1) = line[n + 1]
  BY DEF LinedUp
<1>2. Size(q, 1) \in 0..MaxMsgSize /\ At(q, 1) + (l - 1) >= 4 + Size(q, 1)
  BY <1>1 DEF Framed
<1>3. PICK len \in Nat : Size(q, 1) = len /\ len \in 0..MaxMsgSize /\ 4 + len <= l
  BY <1>1, <1>2
<1>4. ASSUME NEW i \in 1..(4 + len)
      PROVE  Is(q, i, Msg(q, 1), i, len)
  <2>1. i \in 1..l /\ 1 <= i /\ 1 + (i - 1) = i /\ i <= 4 + len
    BY <1>3
  <2>2. Is(q, i, Msg(q, 1), At(q, 1) + (i - 1), Size(q, 1))
    BY <1>1, <1>3, <2>1 DEF Framed
  <2> QED
    BY <1>1, <1>3, <2>1, <2>2
<1> QED
  BY <1>1, <1>3, <1>4

LEMMA FrameAway ==
  ASSUME NEW q, NEW l \in Nat, NEW line, NEW z \in Nat, Len(line) = z, line \in Seq(Nat),
         NEW n \in Nat, Framed(q), LinedUp(q, line, n), Increasing(line), Numbers(q, l),
         NEW t \in 1..l, At(q, t) = 4 + Size(q, t), Msg(q, t) = line[n + 1], n < z,
         NEW q2, Without(q2, q, l, t)
  PROVE  Framed(q2) /\ LinedUp(q2, line, n + 1)
<1> USE DEF Without, Numbers
<1>0. \A x \in 1..z : line[x] \in Nat
  BY ElementOfSeq
<1>1. t <= l /\ n + 1 \in 1..z /\ l \in 1..l
  OBVIOUS
<1>2. PICK l2 \in Nat : l - t = l2 /\ Len(q2) = l2
  BY <1>1
<1>3. \A i \in 1..l2 : /\ i + t \in 1..l
                       /\ Msg(q2, i) = Msg(q, i + t) /\ At(q2, i) = At(q, i + t)
                       /\ Size(q2, i) = Size(q, i + t)
  <2> SUFFICES ASSUME NEW i \in 1..l2
               PROVE  /\ i + t \in 1..l
                      /\ Msg(q2, i) = Msg(q, i + t) /\ At(q2, i) = At(q, i + t)
                      /\ Size(q2, i) = Size(q, i + t)
    OBVIOUS
  <2>1. i + t \in 1..l /\ i \in 1..(l - t)
    BY <1>1, <1>2
  <2>2. Same(q2, i, q, i + t)
    BY <2>1
  <2> QED
    BY <2>1, <2>2, SameEqual
<1>4. /\ \A i \in 1..l : /\ Size(q, i) \in 0..MaxMsgSize /\ At(q, i) \in 1..(4 + Size(q, i))
                         /\ At(q, i) + (l - i) >= 4 + Size(q, i)
      /\ \A i, j \in 1..l : i <= j /\ At(q, i) + (j - i) <= 4 + Size(q, i) =>
           /\ Msg(q, j) = Msg(q, i) /\ At(q, j) = At(q, i) + (j - i)
           /\ Size(q, j) = Size(q, i)
  BY DEF Framed, Is
<1>5. /\ \A i \in 1..(l - 1) : At(q, i) = 4 + Size(q, i) =>
           /\ At(q, i + 1) = 1
           /\ \E x \in 1..(z - 1) : Msg(q, i) = line[x] /\ Msg(q, i + 1) = line[x + 1]
      /\ Msg(q, l) = line[z]
  BY DEF LinedUp
<1>6. Framed(q2)
  <2>1. ASSUME NEW i \in 1..l2
        PROVE  /\ Size(q2, i) \in 0..MaxMsgSize /\ At(q2, i) \in 1..(4 + Size(q2, i))
               /\ At(q2, i) + (l2 - i) >= 4 + Size(q2, i)
    <3>1. PICK j \in 1..l : i + t = j /\ l2 - i = l - j
      BY <1>2, <1>3
    <3> QED
      BY <1>3, <1>4, <3>1
  <2>2. ASSUME NEW i \in 1..l2, NEW j \in 1..l2, i <= j,
               At(q2, i) + (j - i) <= 4 + Size(q2, i)
        PROVE  /\ Msg(q2, j) = Msg(q2, i) /\ At(q2, j) = At(q2, i) + (j - i)
               /\ Size(q2, j) = Size(q2, i)
    <3>1. PICK i3 \in 1..l : i + t = i3
      BY <1>3
    <3>2. PICK j3 \in 1..l : j + t = j3
      BY <1>3
    <3>3. i3 <= j3 /\ j3 - i3 = j - i
      BY <2>2, <3>1, <3>2
    <3>4. At(q, i3) + (j3 - i3) <= 4 + Size(q, i3)
      BY <1>3, <2>2, <3>1, <3>3
    <3>5. /\ Msg(q, j3) = Msg(q, i3) /\ At(q, j3) = At(q, i3) + (j3 - i3)
          /\ Size(q, j3) = Size(q, i3)
      BY <1>4, <3>3, <3>4
    <3> QED
      BY <1>3, <3>1, <3>2, <3>3, <3>5
  <2> QED
    BY <1>2, <2>1, <2>2 DEF Framed, Is
<1>7. ASSUME NEW x \in 1..z, line[x] = line[n + 1]
      PROVE  x = n + 1
  <2>1. n + 1 \in 1..z
    BY <1>1
  <2>2. PICK a \in Nat : line[x] = a /\ line[n + 1] = a
    BY <1>0, <1>7, <2>1
  <2>3. x < n + 1 => line[x] < line[n + 1]
    BY <2>1 DEF Increasing
  <2>4. n + 1 < x => line[n + 1] < line[x]
    BY <2>1 DEF Increasing
  <2>5. ~(x < n + 1) /\ ~(n + 1 < x)
    BY <2>2, <2>3, <2>4
  <2> QED
    BY <2>1, <2>5
<1>8. LinedUp(q2, line, n + 1)
  <2>1. ASSUME NEW i \in 1..(l2 - 1), At(q2, i) = 4 + Size(q2, i)
        PROVE  /\ At(q2, i + 1) = 1
               /\ \E x \in 1..(z - 1) : Msg(q2, i) = line[x] /\ Msg(q2, i + 1) = line[x + 1]
    <3>1. PICK j \in 1..(l - 1) : i + t = j /\ (i + 1) + t = j + 1
      BY <1>2, <1>3
    <3>2. i \in 1..l2 /\ i + 1 \in 1..l2
      BY <1>2
    <3>3. At(q, j) = 4 + Size(q, j)
      BY <1>3, <2>1, <3>1, <3>2
    <3>4. /\ At(q, j + 1) = 1
          /\ \E x \in 1..(z - 1) : Msg(q, j) = line[x] /\ Msg(q, j + 1) = line[x + 1]
      BY <1>5, <3>3
    <3>5. /\ Msg(q2, i) = Msg(q, j) /\ Msg(q2, i + 1) = Msg(q, j + 1)
          /\ At(q2, i + 1) = At(q, j + 1)
      BY <1>3, <3>1, <3>2
    <3> QED
      BY <3>4, <3>5
  <2>2. CASE l2 = 0
    <3>1. l = t /\ z \in 1..z /\ line[z] = line[n + 1]
      BY <1>1, <1>2, <1>5, <2>2
    <3>2. z = n + 1
      BY <1>7, <3>1
    <3> QED
      BY <1>2, <2>1, <2>2, <3>2 DEF LinedUp
  <2>3. CASE l2 # 0
    <3>1. t \in 1..(l - 1) /\ 1 \in 1..l2 /\ l2 \in 1..l2 /\ l2 + t = l /\ 1 + t = t + 1
      BY <1>1, <1>2, <2>3
    <3>2. PICK x \in 1..(z - 1) : Msg(q, t) = line[x] /\ Msg(q, t + 1) = line[x + 1]
      BY <1>1, <1>5, <3>1
    <3>3. x \in 1..z /\ x = n + 1
      BY <1>1, <1>7, <3>2
    <3>4. At(q2, 1) = At(q, t + 1) /\ Msg(q2, 1) = Msg(q, t + 1) /\ Msg(q2, l2) = Msg(q, l)
      BY <1>3, <3>1
    <3>5. At(q, t + 1) = 1
      BY <1>5, <3>1
    <3>6. At(q2, 1) = 1 /\ n + 1 < z /\ Msg(q2, 1) = line[(n + 1) + 1]
      BY <3>2, <3>3, <3>4, <3>5
    <3>7. Msg(q2, l2) = line[z]
      BY <1>5, <3>4
    <3> QED
      BY <1>2, <2>1, <2>3, <3>6, <3>7 DEF LinedUp
  <2> QED
    BY <2>2, <2>3
<1> QED
  BY <1>6, <1>8

(* A frame of which nothing is written is given up.                         *)
LEMMA FrameDropped ==
  ASSUME NEW s, NEW l \in Nat, Len(s) = l, NEW q, NEW lq \in Nat, Len(q) = lq, l < lq,
         NEW line, NEW z \in Nat, NEW m \in Nat, NEW line2, Longer(line2, line, z, m),
         line2 \in Seq(Nat), NEW n \in Nat, Framed(q), LinedUp(q, line2, n),
         Increasing(line2), Numbers(q, lq), \A i \in 1..l : Same(s, i, q, i),
         At(q, l + 1) = 1, Msg(q, l + 1) = m
  PROVE  Framed(s) /\ LinedUp(s, line, n)
<1> USE DEF Longer, Numbers
<1>0. (\A x \in 1..(z + 1) : line2[x] \in Nat) /\ Msg(q, l + 1) = line2[z + 1]
  BY ElementOfSeq
<1>1. \A i \in 1..l : /\ Msg(s, i) = Msg(q, i) /\ At(s, i) = At(q, i)
                      /\ Size(s, i) = Size(q, i) /\ i \in 1..(lq - 1) /\ i \in 1..lq
                      /\ Msg(q, i) \in Nat /\ At(q, i) \in Nat \ {0} /\ Size(q, i) \in Nat
  BY SameEqual
<1>2. /\ \A i \in 1..lq : /\ Size(q, i) \in 0..MaxMsgSize /\ At(q, i) \in 1..(4 + Size(q, i))
      /\ \A i, j \in 1..lq : i <= j /\ At(q, i) + (j - i) <= 4 + Size(q, i) =>
           /\ Msg(q, j) = Msg(q, i) /\ At(q, j) = At(q, i) + (j - i)
           /\ Size(q, j) = Size(q, i)
  BY DEF Framed, Is
<1>3. /\ \A i \in 1..(lq - 1) : At(q, i) = 4 + Size(q, i) =>
           /\ At(q, i + 1) = 1
           /\ \E x \in 1..z : Msg(q, i) = line2[x] /\ Msg(q, i + 1) = line2[x + 1]
      /\ n < z + 1 /\ At(q, 1) = 1 /\ Msg(q, 1) = line2[n + 1]
  BY DEF LinedUp
(* No byte's frame runs over the end of s.                                  *)
<1>4. ASSUME NEW i \in 1..l
      PROVE  At(q, i) + (l - i) >= 4 + Size(q, i)
  <2> SUFFICES ASSUME ~(At(q, i) + (l - i) >= 4 + Size(q, i))
               PROVE  FALSE
    OBVIOUS
  <2>1. PICK a \in Nat \ {0}, b \in Nat : At(q, i) = a /\ Size(q, i) = b
    BY <1>1
  <2>2. i \in 1..lq /\ l + 1 \in 1..lq /\ i <= l + 1 /\ a + ((l + 1) - i) <= 4 + b
    BY <1>1, <2>1
  <2>3. At(q, l + 1) = a + ((l + 1) - i)
    BY <1>2, <2>1, <2>2
  <2> QED
    BY <2>2, <2>3
<1>5. Framed(s)
  BY <1>1, <1>2, <1>4 DEF Framed, Is
(* A message that begins within s ends within s, so another one follows.    *)
<1>6. ASSUME NEW i \in 1..l, At(q, i) = 1
      PROVE  Msg(q, i) # line2[z + 1]
  <2>1. PICK b \in Nat : Size(q, i) = b /\ 1 + (l - i) >= 4 + b
    BY <1>1, <1>4, <1>6
  <2>2. PICK e \in 1..l : i + (3 + b) = e /\ i <= e /\ 1 + (e - i) = 4 + b
    BY <2>1
  <2>3. i \in 1..lq /\ e \in 1..lq /\ 1 + (e - i) <= 4 + b /\ e \in 1..(lq - 1)
    BY <1>1, <2>2
  <2>4. Msg(q, e) = Msg(q, i) /\ At(q, e) = 1 + (e - i) /\ Size(q, e) = b
    BY <1>2, <1>6, <2>1, <2>2, <2>3
  <2>5. At(q, e) = 4 + Size(q, e)
    BY <2>2, <2>4
  <2>6. PICK x \in 1..z : Msg(q, e) = line2[x]
    BY <1>3, <2>3, <2>5
  <2>7. x \in 1..(z + 1) /\ z + 1 \in 1..(z + 1) /\ x < z + 1
    OBVIOUS
  <2>8. line2[x] < line2[z + 1] /\ line2[x] \in Nat
    BY <1>0, <2>7 DEF Increasing
  <2> QED
    BY <2>4, <2>6, <2>8
<1>7. \A x \in 1..(z + 1) : line2[x] = line2[z + 1] => x = z + 1
  <2> SUFFICES ASSUME NEW x \in 1..(z + 1), x # z + 1
               PROVE  line2[x] # line2[z + 1]
    OBVIOUS
  <2>1. z + 1 \in 1..(z + 1) /\ x < z + 1
    OBVIOUS
  <2>2. line2[x] < line2[z + 1] /\ line2[x] \in Nat /\ line2[z + 1] \in Nat
    BY <1>0, <2>1 DEF Increasing
  <2> QED
    BY <2>2
<1>8. LinedUp(s, line, n)
  <2>1. ASSUME NEW i \in 1..(l - 1), At(s, i) = 4 + Size(s, i)
        PROVE  /\ At(s, i + 1) = 1
               /\ \E x \in 1..(z - 1) : Msg(s, i) = line[x] /\ Msg(s, i + 1) = line[x + 1]
    <3>1. i \in 1..l /\ i + 1 \in 1..l /\ At(q, i) = 4 + Size(q, i) /\ i \in 1..(lq - 1)
      BY <1>1, <2>1
    <3>2. PICK x \in 1..z : Msg(q, i) = line2[x] /\ Msg(q, i + 1) = line2[x + 1]
      BY <1>3, <3>1
    <3>3. At(q, i + 1) = 1 /\ Msg(q, i + 1) # line2[z + 1]
      BY <1>3, <1>6, <3>1
    <3>4. x \in 1..(z - 1) /\ x \in 1..z /\ x + 1 \in 1..z
      BY <3>2, <3>3
    <3> QED
      BY <1>1, <3>1, <3>2, <3>3, <3>4
  <2>2. CASE l = 0
    <3>1. line2[n + 1] = line2[z + 1] /\ n + 1 \in 1..(z + 1)
      BY <1>3, <2>2
    <3>2. n + 1 = z + 1
      BY <1>7, <3>1
    <3> QED
      BY <2>1, <2>2, <3>2 DEF LinedUp
  <2>3. CASE l # 0
    <3>1. 1 \in 1..l /\ l \in 1..l /\ l \in 1..(lq - 1) /\ l \in 1..lq
      BY <2>3
    <3>2. n + 1 # z + 1
      BY <1>3, <1>6, <3>1
    <3>3. n + 1 \in 1..z /\ n < z
      BY <1>3, <3>2
    <3>4. At(q, l) = 4 + Size(q, l)
      <4>1. At(q, l) + (l - l) >= 4 + Size(q, l) /\ At(q, l) \in 1..(4 + Size(q, l))
        BY <1>2, <1>4, <3>1
      <4>2. PICK a \in Nat, b \in Nat : At(q, l) = a /\ Size(q, l) = b
        BY <1>1, <3>1
      <4> QED
        BY <4>1, <4>2
    <3>5. PICK x \in 1..z : Msg(q, l) = line2[x] /\ Msg(q, l + 1) = line2[x + 1]
      BY <1>3, <3>1, <3>4
    <3>6. x = z /\ z \in 1..z
      BY <1>0, <1>7, <3>5
    <3> QED
      BY <1>1, <1>3, <2>1, <2>3, <3>1, <3>3, <3>5, <3>6 DEF LinedUp
  <2> QED
    BY <2>2, <2>3
<1> QED
  BY <1>5, <1>8

-----------------------------------------------------------------------------
(* Sequences.                                                               *)

LEMMA ConcatSame ==
  ASSUME NEW s \in Seq(Byte), NEW t \in Seq(Byte)
  PROVE  /\ s \o t \in Seq(Byte) /\ Len(s \o t) = Len(s) + Len(t)
         /\ \A i \in 1..Len(s) : Same(s \o t, i, s, i)
         /\ \A i \in 1..Len(t) : Same(s \o t, Len(s) + i, t, i)
<1>1. PICK l \in Nat, k \in Nat : Len(s) = l /\ Len(t) = k
  BY LenProperties
<1>2. /\ s \o t \in Seq(Byte) /\ Len(s \o t) = l + k
      /\ \A i \in 1..(l + k) : (s \o t)[i] = IF i <= l THEN s[i] ELSE t[i - l]
  BY <1>1, ConcatProperties
<1>3. ASSUME NEW i \in 1..l
      PROVE  (s \o t)[i] = s[i]
  BY <1>2
<1>4. ASSUME NEW i \in 1..k
      PROVE  (s \o t)[l + i] = t[i]
  <2>1. l + i \in 1..(l + k) /\ ~(l + i <= l) /\ (l + i) - l = i
    OBVIOUS
  <2> QED
    BY <1>2, <2>1
<1> QED
  BY <1>1, <1>2, <1>3, <1>4, SameByte

(* What is left after the first n elements.                                 *)
LEMMA RestSame ==
  ASSUME NEW s \in Seq(Byte), NEW n \in 0..Len(s), NEW l \in Nat, Len(s) = l
  PROVE  /\ SubSeq(s, n + 1, l) \in Seq(Byte) /\ Len(SubSeq(s, n + 1, l)) = l - n
         /\ \A i \in 1..(l - n) : Same(SubSeq(s, n + 1, l), i, s, i + n)
<1> DEFINE u == SubSeq(s, n + 1, l)
<1>1. n + 1 \in Int /\ l \in Int /\ n \in 0..l
  OBVIOUS
<1>2. \A i \in (n + 1)..l : s[i] \in Byte
  <2> SUFFICES ASSUME NEW i \in (n + 1)..l
               PROVE  s[i] \in Byte
    OBVIOUS
  <2>1. i \in 1..Len(s)
    BY <1>1
  <2> QED
    BY <2>1, ElementOfSeq
<1>3. /\ u \in Seq(Byte) /\ Len(u) = IF n + 1 <= l THEN l - (n + 1) + 1 ELSE 0
      /\ \A i \in 1..(l - (n + 1) + 1) : u[i] = s[(n + 1) + i - 1]
  BY <1>1, <1>2, SubSeqProperties
<1> HIDE DEF u
<1>4. l - (n + 1) + 1 = l - n /\ (~(n + 1 <= l) => l - n = 0)
  BY <1>1
<1>5. ASSUME NEW i \in 1..(l - n)
      PROVE  u[i] = s[i + n]
  <2>1. (n + 1) + i - 1 = i + n
    BY <1>1
  <2> QED
    BY <1>3, <1>4, <2>1
<1>6. Len(u) = l - n
  BY <1>3, <1>4
<1>7. \A i \in 1..(l - n) : Same(u, i, s, i + n)
  BY <1>5, SameByte
<1> QED
  BY <1>3, <1>6, <1>7 DEF u

LEMMA Halves ==
  ASSUME NEW s \in Seq(Byte), NEW t \in Seq(Byte), NEW n \in 1..Len(t)
  PROVE  /\ SubSeq(t, 1, n) \in Seq(Byte) /\ SubSeq(t, n + 1, Len(t)) \in Seq(Byte)
         /\ (s \o SubSeq(t, 1, n)) \o SubSeq(t, n + 1, Len(t)) = s \o t
<1>1. PICK k \in Nat : Len(t) = k
  BY LenProperties
<1>2. SubSeq(t, 1, n) \in Seq(Byte)
  <2>1. \A i \in 1..n : t[i] \in Byte
    BY <1>1, ElementOfSeq
  <2> QED
    BY <2>1, SubSeqProperties
<1>3. SubSeq(t, n + 1, Len(t)) \in Seq(Byte)
  BY <1>1, RestSame
<1>4. SubSeq(t, 1, n) \o SubSeq(t, n + 1, Len(t)) = SubSeq(t, 1, Len(t))
  <2>1. 1 \in 1..(Len(t) + 1) /\ n \in (1 - 1)..Len(t) /\ Len(t) \in n..Len(t)
    BY <1>1
  <2> QED
    BY <2>1, ConcatAdjacentSubSeq
<1>5. SubSeq(t, 1, Len(t)) = t
  BY SubSeqFull
<1> DEFINE a == SubSeq(t, 1, n)
           b == SubSeq(t, n + 1, Len(t))
<1>6. a \in Seq(Byte) /\ b \in Seq(Byte) /\ a \o b = t
  BY <1>2, <1>3, <1>4, <1>5
<1> HIDE DEF a, b
<1>7. (s \o a) \o b = s \o (a \o b)
  <2>1. a \in Seq(Byte) /\ b \in Seq(Byte)
    BY <1>6
  <2> QED
    BY <2>1, ConcatAssociative
<1> QED
  BY <1>6, <1>7 DEF a, b

(* The rest of a concatenation whose first n bytes are in its first half.   *)
LEMMA RestOfConcat ==
  ASSUME NEW s \in Seq(Byte), NEW t \in Seq(Byte), NEW n \in 0..Len(s), NEW lq, Len(s \o t) = lq
  PROVE  Without(Rest(s, n) \o t, s \o t, lq, n)
<1> DEFINE q2 == Rest(s, n) \o t
<1>1. PICK l \in Nat, k \in Nat : Len(s) = l /\ Len(t) = k
  BY LenProperties
<1>2. PICK u : u = Rest(s, n)
  OBVIOUS
<1>3. u \in Seq(Byte) /\ Len(u) = l - n /\ \A i \in 1..(l - n) : Same(u, i, s, i + n)
  BY <1>1, <1>2, RestSame DEF Rest
<1>4. PICK d \in Nat : l - n = d
  BY <1>1
<1>5. /\ q2 \in Seq(Byte) /\ Len(q2) = d + k
      /\ \A i \in 1..d : Same(q2, i, u, i)
      /\ \A i \in 1..k : Same(q2, d + i, t, i)
  BY <1>1, <1>2, <1>3, <1>4, ConcatSame
<1> HIDE DEF q2
<1>6. /\ Len(s \o t) = l + k
      /\ \A i \in 1..l : Same(s \o t, i, s, i)
      /\ \A i \in 1..k : Same(s \o t, l + i, t, i)
  BY <1>1, ConcatSame
<1>7. (l + k) - n = d + k
  BY <1>4
<1>8. ASSUME NEW i \in 1..(d + k)
      PROVE  Same(q2, i, s \o t, i + n)
  <2>1. CASE i \in 1..d
    <3>1. i + n \in 1..l /\ i \in 1..(l - n)
      BY <1>4, <2>1
    <3>2. Same(q2, i, u, i) /\ Same(u, i, s, i + n) /\ Same(s \o t, i + n, s, i + n)
      BY <1>3, <1>5, <1>6, <2>1, <3>1
    <3> QED
      BY <3>2 DEF Same, Is
  <2>2. CASE i \notin 1..d
    <3>1. PICK j \in 1..k : d + j = i /\ l + j = i + n
      <4>1. i - d \in 1..k /\ d + (i - d) = i /\ l + (i - d) = i + n
        BY <1>4, <2>2
      <4> QED
        BY <4>1
    <3>2. Same(q2, i, t, j) /\ Same(s \o t, i + n, t, j)
      BY <1>5, <1>6, <3>1
    <3> QED
      BY <3>2 DEF Same, Is
  <2> QED
    BY <2>1, <2>2
<1> QED
  BY <1>5, <1>6, <1>7, <1>8 DEF Without, q2

LEMMA IncreasingAppend ==
  ASSUME NEW c \in Nat, NEW q \in Seq(1..c), Increasing(q)
  PROVE  Append(q, c + 1) \in Seq(1..(c + 1)) /\ Increasing(Append(q, c + 1))
<1> DEFINE a == Append(q, c + 1)
<1>1. PICK l \in Nat : Len(q) = l
  BY LenProperties
<1>2. q \in Seq(1..(c + 1)) /\ c + 1 \in 1..(c + 1)
  BY SeqMonotonic
<1>3. /\ a \in Seq(1..(c + 1)) /\ Len(a) = l + 1
      /\ \A i \in 1..l : a[i] = q[i]
      /\ a[l + 1] = c + 1
  BY <1>1, <1>2, AppendProperties
<1>4. \A i \in 1..l : q[i] \in 1..c
  BY <1>1, ElementOfSeq
<1> HIDE DEF a
<1>5. ASSUME NEW i \in 1..(l + 1), NEW j \in 1..(l + 1), i < j
      PROVE  a[i] < a[j]
  <2>1. CASE j = l + 1
    <3>1. i \in 1..l
      BY <1>5, <2>1
    <3> QED
      BY <1>3, <1>4, <2>1, <3>1
  <2>2. CASE j \in 1..l
    <3>1. i \in 1..l
      BY <1>5, <2>2
    <3> QED
      BY <1>1, <1>3, <1>5, <2>2, <3>1 DEF Increasing
  <2> QED
    BY <2>1, <2>2
<1> QED
  BY <1>3, <1>5 DEF Increasing, a

LEMMA IncreasingFront ==
  ASSUME NEW c \in Nat, NEW q \in Seq(Nat), NEW m \in Nat, Increasing(Append(q, m)),
         Append(q, m) \in Seq(1..c)
  PROVE  /\ q \in Seq(1..c) /\ Increasing(q)
         /\ \A i \in 1..Len(q) : q[i] # m
<1> DEFINE a == Append(q, m)
<1>1. PICK l \in Nat : Len(q) = l
  BY LenProperties
<1>2. Len(a) = l + 1 /\ (\A i \in 1..l : a[i] = q[i]) /\ a[l + 1] = m
  BY <1>1, AppendProperties
<1>3. \A i \in 1..(l + 1) : a[i] \in 1..c
  BY <1>2, ElementOfSeq
<1> HIDE DEF a
<1>4. \A i \in 1..l : q[i] \in 1..c
  BY <1>2, <1>3
<1>5. q \in Seq(1..c)
  <2>1. q \in [1..l -> Nat]
    BY <1>1, LenProperties
  <2>2. q \in [1..l -> 1..c]
    BY <1>4, <2>1
  <2> QED
    BY <2>2
<1>6. \A i, j \in 1..(l + 1) : i < j => a[i] < a[j]
  BY <1>2 DEF Increasing, a
<1>7. Increasing(q)
  BY <1>1, <1>2, <1>6 DEF Increasing
<1>8. ASSUME NEW i \in 1..l
      PROVE  q[i] # m
  <2>1. i \in 1..(l + 1) /\ l + 1 \in 1..(l + 1) /\ i < l + 1
    OBVIOUS
  <2>2. q[i] < m /\ q[i] \in 1..c
    BY <1>2, <1>4, <1>6, <2>1
  <2> QED
    BY <2>2
<1> QED
  BY <1>1, <1>5, <1>7, <1>8

-----------------------------------------------------------------------------
(* The state.                                                               *)

LEMMA Parts ==
  ASSUME FramingTypeOK, LockInv
  PROVE  /\ stream \in Seq(Byte) /\ Held \in Seq(Byte) /\ Line \in Seq(Nat)
         /\ \A x \in 1..Len(Line) : Line[x] \in Nat
         /\ Pending \in Seq(Byte) /\ Len(Pending) \in Nat
         /\ Len(Pending) = Len(stream) + Len(Held)
         /\ Len(stream) \in Nat /\ Len(Held) \in Nat /\ Len(Line) \in Nat
         /\ \A i \in 1..Len(stream) : Same(Pending, i, stream, i)
         /\ \A i \in 1..Len(Held) : Same(Pending, Len(stream) + i, Held, i)
         /\ \A i \in 1..Len(Pending) : /\ Msg(Pending, i) \in Nat \ {0}
                                       /\ At(Pending, i) \in Nat \ {0}
                                       /\ Size(Pending, i) \in Nat
<1>1. stream \in Seq(Byte)
  BY DEF FramingTypeOK
<1>2. Held \in Seq(Byte)
  BY EmptySeq DEF FramingTypeOK, Held
<1>3. Line \in Seq(Nat)
  <2>1. Line \in Seq(1..calls) /\ calls \in Nat
    BY DEF LockInv, FramingTypeOK
  <2> QED
    BY <2>1, SeqMonotonic
<1>4. \A x \in 1..Len(Line) : Line[x] \in Nat
  BY <1>3, ElementOfSeq
<1>5. Len(stream) \in Nat /\ Len(Held) \in Nat /\ Len(Line) \in Nat
  BY <1>1, <1>2, <1>3, LenProperties
<1>6. /\ Pending \in Seq(Byte) /\ Len(Pending) = Len(stream) + Len(Held)
      /\ \A i \in 1..Len(stream) : Same(Pending, i, stream, i)
      /\ \A i \in 1..Len(Held) : Same(Pending, Len(stream) + i, Held, i)
  BY <1>1, <1>2, ConcatSame DEF Pending
<1>7. Len(Pending) \in Nat
  BY <1>6, LenProperties
<1> QED
  BY <1>1, <1>2, <1>3, <1>4, <1>5, <1>6, <1>7, ByteTypes

(* Of all senders only the holder of the lock has something to write.       *)
LEMMA Holder ==
  ASSUME FramingTypeOK, LockInv, NEW s \in Sender, out[s] # <<>>
  PROVE  /\ lock = s /\ lock # NoSender /\ Held = out[s] /\ Line = Append(sent, calls)
         /\ sent \in Seq(Nat) /\ calls \in Nat /\ out[s] \in Seq(Byte)
         /\ \E len, k \in Nat : RestOf(out[s], calls, len, k)
<1>1. lock = s
  BY DEF LockInv
<1>2. lock # NoSender
  BY <1>1
<1> QED
  BY <1>1, <1>2 DEF LockInv, Held, Line, FramingTypeOK

LEMMA InitInv ==
  ASSUME FramingInit
  PROVE  FramingInv
<1>1. /\ lock = NoSender /\ out = [s \in Sender |-> <<>>] /\ calls = 0 /\ sent = <<>>
      /\ stream = <<>> /\ here = 0 /\ closed = FALSE /\ cut = FALSE /\ got = <<>>
      /\ fate = "open"
  BY DEF FramingInit
<1>2. /\ <<>> \in Seq(Byte) /\ <<>> \in Seq(Nat) /\ <<>> \in Seq(1..0) /\ Len(<<>>) = 0
  BY EmptySeq
<1>3. FramingTypeOK
  <2>1. here \in 0..Len(stream)
    BY <1>1, <1>2
  <2>2. stream \in Seq(Byte) /\ sent \in Seq(Nat) /\ got \in Seq(Nat) /\ calls \in Nat
    BY <1>1, <1>2
  <2>3. out \in [Sender -> Seq(Byte)]
    BY <1>1, <1>2
  <2> QED
    BY <1>1, <2>1, <2>2, <2>3 DEF FramingTypeOK, Fate
<1>4. Held = <<>> /\ Line = <<>>
  BY <1>1 DEF Held, Line
<1>5. Pending = <<>>
  BY <1>1, <1>2, <1>4, ConcatEmptySeq DEF Pending
<1>6. LockInv
  BY <1>1, <1>2, <1>4 DEF LockInv, Increasing
<1>7. Framed(<<>>) /\ LinedUp(<<>>, <<>>, 0)
  BY <1>2 DEF Framed, LinedUp
<1> QED
  BY <1>1, <1>2, <1>3, <1>4, <1>5, <1>6, <1>7 DEF FramingInv, NoFalseOversize

LEMMA BeginSendInv ==
  ASSUME FramingInv, NEW s \in Sender, NEW len \in 0..(MaxMsgSize + 1), BeginSend(s, len)
  PROVE  FramingInv'
<1>1. /\ lock = NoSender /\ lock' = s /\ calls' = calls + 1
      /\ out' = [out EXCEPT ![s] = Frame(calls', len)]
      /\ sent' = sent /\ stream' = stream /\ here' = here /\ closed' = closed
      /\ got' = got /\ fate' = fate /\ cut' = cut
  BY DEF BeginSend, Free
<1>2. FramingTypeOK /\ LockInv
  BY DEF FramingInv
<1>3. len \in 0..MaxMsgSize /\ len \in Nat
  BY DEF BeginSend, Fits, TCP_HEADER_LEN
<1>4. PICK m \in Nat \ {0} : calls' = m /\ calls + 1 = m /\ calls \in Nat
  <2>1. calls \in Nat
    BY <1>2 DEF FramingTypeOK
  <2> QED
    BY <1>1, <2>1
<1>5. PICK f : /\ f = Frame(m, len) /\ f \in Seq(Byte) /\ Len(f) = 4 + len
               /\ \A i \in 1..(4 + len) : Is(f, i, m, i, len)
  BY <1>3, FrameType
<1>6. out' = [out EXCEPT ![s] = f] /\ out \in [Sender -> Seq(Byte)]
  BY <1>1, <1>2, <1>4, <1>5 DEF FramingTypeOK
<1>7. out'[s] = f /\ \A t \in Sender : t # s => out'[t] = out[t]
  BY <1>6
<1>8. FramingTypeOK'
  <2>1. out' \in [Sender -> Seq(Byte)]
    BY <1>5, <1>6
  <2> QED
    BY <1>1, <1>2, <1>4, <2>1 DEF FramingTypeOK
<1>9. Line = sent /\ Held = <<>> /\ Line' = Append(sent, m) /\ Held' = f
  BY <1>1, <1>4, <1>7 DEF Line, Held
<1>10. sent \in Seq(1..calls) /\ Increasing(sent)
  BY <1>2, <1>9 DEF LockInv
<1>11. Append(sent, m) \in Seq(1..m) /\ Increasing(Append(sent, m))
  BY <1>4, <1>10, IncreasingAppend
<1>12. LockInv'
  <2>1. RestOf(f, m, len, 0)
    BY <1>3, <1>5 DEF RestOf
  <2>2. \A t \in Sender : t # lock' => out'[t] = <<>>
    BY <1>1, <1>2, <1>7 DEF LockInv
  <2>3. \E l, k \in Nat : RestOf(out'[lock'], calls', l, k)
    BY <1>1, <1>3, <1>4, <1>7, <2>1
  <2>4. Line' \in Seq(1..calls') /\ Increasing(Line)'
    BY <1>4, <1>9, <1>11 DEF Increasing
  <2> QED
    BY <2>2, <2>3, <2>4 DEF LockInv
<1>13. ASSUME ~cut, LengthFits
       PROVE  Framed(Pending') /\ LinedUp(Pending', Line', Len(got'))
  <2>1. Framed(Pending) /\ LinedUp(Pending, Line, Len(got))
    BY <1>13 DEF FramingInv
  <2>2. Pending = stream /\ Pending' = stream \o f /\ stream \in Seq(Byte)
    BY <1>1, <1>2, <1>9, ConcatEmptySeq DEF Pending, FramingTypeOK
  <2>3. PICK l \in Nat, z \in Nat, n \in Nat : /\ Len(stream) = l /\ Len(sent) = z
                                               /\ Len(got) = n
    BY <1>2, LenProperties DEF FramingTypeOK
  <2>4. PICK q2, line2 : q2 = Pending' /\ line2 = Append(sent, m)
    OBVIOUS
  <2>5. /\ Len(stream) = l /\ Len(q2) = l + (4 + len)
        /\ \A i \in 1..l : Same(q2, i, stream, i)
        /\ \A i \in 1..(4 + len) : Same(q2, l + i, f, i)
    BY <1>5, <2>2, <2>3, <2>4, ConcatSame
  <2>6. ASSUME NEW i \in (l + 1)..(l + (4 + len))
        PROVE  Is(q2, i, m, i - l, len)
    <3>1. PICK j \in 1..(4 + len) : i - l = j /\ l + j = i
      BY <1>3
    <3>2. Same(q2, i, f, j) /\ Is(f, j, m, j, len)
      BY <1>5, <2>5, <3>1
    <3> QED
      BY <3>1, <3>2 DEF Same, Is
  <2>7. Numbers(stream, l)
    BY <2>2, <2>3, ByteTypes DEF Numbers
  <2>8. Longer(line2, sent, z, m)
    BY <1>2, <1>4, <2>3, <2>4, AppendProperties DEF FramingTypeOK, Longer
  <2>9. Framed(stream) /\ LinedUp(stream, sent, n)
    BY <1>9, <2>1, <2>2, <2>3
  <2>10. Adds(q2, stream, l, m, len)
    BY <2>5, <2>6 DEF Adds
  <2>11. Framed(q2) /\ LinedUp(q2, line2, n)
    BY <1>3, <2>7, <2>8, <2>9, <2>10, FrameAdded
  <2> QED
    BY <1>1, <1>9, <2>3, <2>4, <2>11
<1> QED
  BY <1>1, <1>2, <1>8, <1>12, <1>13
  DEF FramingInv, NoFalseOversize, Framed, LinedUp, Is, Msg, At, Size

(* The kernel takes a part of the frame: it only moves from the sender to   *)
(* the stream.                                                              *)
LEMMA WriteInv ==
  ASSUME FramingInv, NEW s \in Sender, Write(s)
  PROVE  /\ FramingInv' /\ Line' = Line
         /\ sent' = sent \/ sent' = Append(sent, calls)
         /\ lock = s /\ lock # NoSender
<1>1. PICK n \in 1..Len(out[s]) :
        /\ stream' = stream \o SubSeq(out[s], 1, n)
        /\ out' = [out EXCEPT ![s] = SubSeq(@, n + 1, Len(@))]
  BY DEF Write
<1>2. /\ out[s] # <<>> /\ calls' = calls /\ here' = here /\ closed' = closed
      /\ got' = got /\ fate' = fate /\ cut' = cut
      /\ IF out'[s] = <<>>
         THEN lock' = NoSender /\ sent' = Append(sent, out[s][1].msg)
         ELSE lock' = lock /\ sent' = sent
  BY DEF Write
<1>3. FramingTypeOK /\ LockInv
  BY DEF FramingInv
<1>4. /\ lock = s /\ lock # NoSender /\ Held = out[s] /\ Line = Append(sent, calls)
      /\ sent \in Seq(Nat) /\ calls \in Nat /\ out[s] \in Seq(Byte)
  BY <1>2, <1>3, Holder
<1>5. PICK len \in Nat, k \in Nat : RestOf(out[s], calls, len, k)
  BY <1>2, <1>3, Holder
<1>6. PICK o \in Seq(Byte) : o = out[s]
  BY <1>4
<1>7. PICK l \in Nat : Len(o) = l
  BY LenProperties
<1>8. PICK u : u = SubSeq(o, n + 1, l)
  OBVIOUS
<1>9. n \in 1..l /\ n \in 0..l
  BY <1>1, <1>6, <1>7
<1>10. /\ SubSeq(o, 1, n) \in Seq(Byte) /\ u \in Seq(Byte)
       /\ (stream \o SubSeq(o, 1, n)) \o u = stream \o o
  BY <1>3, <1>7, <1>8, <1>9, Halves DEF FramingTypeOK
<1>11. Len(u) = l - n /\ \A i \in 1..(l - n) : Same(u, i, o, i + n)
  BY <1>7, <1>8, <1>9, RestSame
<1>12. /\ out'[s] = u /\ \A t \in Sender : t # s => out'[t] = out[t]
       /\ out' \in [Sender -> Seq(Byte)]
  <2>1. out' = [out EXCEPT ![s] = u] /\ out \in [Sender -> Seq(Byte)]
    BY <1>1, <1>3, <1>6, <1>7, <1>8 DEF FramingTypeOK
  <2> QED
    BY <1>10, <2>1
<1>13. stream' \in Seq(Byte) /\ Len(stream) \in Nat /\ Len(stream') >= Len(stream)
  <2>1. stream \in Seq(Byte) /\ stream' = stream \o SubSeq(o, 1, n)
    BY <1>1, <1>3, <1>6 DEF FramingTypeOK
  <2>2. PICK a \in Nat, b \in Nat : Len(stream) = a /\ Len(SubSeq(o, 1, n)) = b
    BY <1>10, <2>1, LenProperties
  <2>3. stream' \in Seq(Byte) /\ Len(stream') = a + b
    BY <1>10, <2>1, <2>2, ConcatProperties
  <2> QED
    BY <2>2, <2>3
<1>14. here' \in 0..Len(stream')
  <2>1. PICK a \in Nat, b \in Nat : Len(stream) = a /\ Len(stream') = b /\ b >= a
    BY <1>13, LenProperties
  <2>2. here \in 0..a
    BY <1>3, <2>1 DEF FramingTypeOK
  <2> QED
    BY <1>2, <2>1, <2>2
<1>15. out[s][1].msg = calls
  <2>1. Is(o, 1, calls, 1 + k, len)
    BY <1>5, <1>6, <1>7, <1>9 DEF RestOf
  <2> QED
    BY <1>6, <2>1 DEF Is, Msg
<1>16. Line' = Line /\ Held' = u
  <2>1. CASE u = <<>>
    BY <1>2, <1>4, <1>12, <1>15, <2>1 DEF Line, Held
  <2>2. CASE u # <<>>
    BY <1>2, <1>4, <1>12, <2>2 DEF Line, Held
  <2> QED
    BY <2>1, <2>2
<1>17. Pending' = Pending
  BY <1>1, <1>4, <1>6, <1>10, <1>16 DEF Pending
<1>18. FramingTypeOK'
  <2>1. sent' \in Seq(Nat) /\ lock' \in Sender \cup {NoSender}
    <3>1. Append(sent, calls) \in Seq(Nat)
      BY <1>4, AppendProperties
    <3> QED
      BY <1>2, <1>3, <1>4, <1>15, <3>1 DEF FramingTypeOK
  <2> QED
    BY <1>2, <1>3, <1>12, <1>13, <1>14, <2>1 DEF FramingTypeOK
<1>19. LockInv'
  <2>1. \A t \in Sender : t # lock' => out'[t] = <<>>
    BY <1>2, <1>3, <1>4, <1>12 DEF LockInv
  <2>2. ASSUME lock' # NoSender
        PROVE  \E l3, k3 \in Nat : RestOf(out'[lock'], calls', l3, k3)
    <3>1. lock' = s /\ u # <<>>
      BY <1>2, <1>4, <1>12, <2>2
    <3>2. PICK d \in Nat : l - n = d /\ Len(u) = d
      BY <1>9, <1>11
    <3>3. d # 0
      BY <1>10, <3>1, <3>2, EmptySeq
    <3>4. len \in 0..MaxMsgSize /\ k \in 0..(3 + len) /\ l = 4 + len - k
      BY <1>5, <1>6, <1>7 DEF RestOf
    <3>5. k + n \in 0..(3 + len) /\ d = 4 + len - (k + n)
      BY <1>9, <3>2, <3>3, <3>4
    <3>6. ASSUME NEW i \in 1..d
          PROVE  Is(u, i, calls, i + (k + n), len)
      <4>1. i + n \in 1..l /\ (i + n) + k = i + (k + n) /\ i \in 1..(l - n)
        BY <1>9, <3>2
      <4>2. Is(o, i + n, calls, (i + n) + k, len)
        BY <1>5, <1>6, <1>7, <4>1 DEF RestOf
      <4>3. Same(u, i, o, i + n)
        BY <1>11, <4>1
      <4> QED
        BY <4>1, <4>2, <4>3 DEF Same, Is
    <3>7. RestOf(u, calls, len, k + n)
      BY <3>2, <3>4, <3>5, <3>6 DEF RestOf
    <3>8. k + n \in Nat
      BY <1>9
    <3> QED
      BY <1>2, <1>12, <3>1, <3>7, <3>8
  <2>3. Line' \in Seq(1..calls') /\ Increasing(Line')
    BY <1>2, <1>3, <1>16 DEF LockInv
  <2> QED
    BY <2>1, <2>2, <2>3 DEF LockInv, Increasing
<1>20. LengthFits /\ ~cut' => Framed(Pending') /\ LinedUp(Pending', Line', Len(got'))
  BY <1>2, <1>16, <1>17 DEF FramingInv
<1>21. FramingInv'
  <2>1. LengthFits /\ ~cut' => Framed(Pending)' /\ LinedUp(Pending, Line, Len(got))'
    BY <1>20 DEF Framed, LinedUp, Is, Msg, At, Size
  <2> QED
    BY <1>2, <1>3, <1>18, <1>19, <2>1 DEF FramingInv, NoFalseOversize
<1> QED
  BY <1>2, <1>4, <1>15, <1>16, <1>21

(* The sender gives up: between two messages nothing is lost.               *)
LEMMA WriteFailsInv ==
  ASSUME FramingInv, NEW s \in Sender, WriteFails(s)
  PROVE  FramingInv'
<1>1. /\ out[s] # <<>> /\ lock' = NoSender /\ cut' = (cut \/ out[s][1].at # 1)
      /\ out' = [out EXCEPT ![s] = <<>>]
      /\ calls' = calls /\ sent' = sent /\ stream' = stream /\ here' = here
      /\ closed' = closed /\ got' = got /\ fate' = fate
  BY DEF WriteFails
<1>2. FramingTypeOK /\ LockInv
  BY DEF FramingInv
<1>3. /\ lock = s /\ lock # NoSender /\ Held = out[s] /\ Line = Append(sent, calls)
      /\ sent \in Seq(Nat) /\ calls \in Nat /\ out[s] \in Seq(Byte)
  BY <1>1, <1>2, Holder
<1>4. Line' = sent /\ Held' = <<>>
  BY <1>1 DEF Line, Held
<1>5. /\ out' \in [Sender -> Seq(Byte)] /\ \A t \in Sender : out'[t] = <<>>
  <2>1. out \in [Sender -> Seq(Byte)] /\ <<>> \in Seq(Byte)
    BY <1>2, EmptySeq DEF FramingTypeOK
  <2>2. \A t \in Sender : t # s => out[t] = <<>>
    BY <1>2, <1>3 DEF LockInv
  <2> QED
    BY <1>1, <2>1, <2>2
<1>6. FramingTypeOK'
  BY <1>1, <1>2, <1>5 DEF FramingTypeOK
<1>7. sent \in Seq(1..calls) /\ Increasing(sent)
  BY <1>2, <1>3, IncreasingFront DEF LockInv
<1>8. LockInv'
  BY <1>1, <1>4, <1>5, <1>7 DEF LockInv, Increasing
<1>9. ASSUME ~cut', LengthFits
      PROVE  Framed(Pending') /\ LinedUp(Pending', Line', Len(got'))
  <2>1. Framed(Pending) /\ LinedUp(Pending, Line, Len(got)) /\ out[s][1].at = 1
    BY <1>1, <1>9 DEF FramingInv
  <2>2. PICK len \in Nat, k \in Nat : RestOf(out[s], calls, len, k)
    BY <1>1, <1>2, Holder
  <2>3. PICK q, line2 : q = Pending /\ line2 = Line
    OBVIOUS
  <2>4. PICK l \in Nat, z \in Nat, n \in Nat : /\ Len(stream) = l /\ Len(sent) = z
                                               /\ Len(got) = n
    BY <1>2, LenProperties DEF FramingTypeOK
  <2>5. PICK h \in Nat \ {0} : Len(Held) = h
    BY <1>1, <1>3, EmptySeq
  <2>6. PICK lq \in Nat : Len(q) = lq /\ lq = l + h /\ l < lq
    BY <1>2, <2>3, <2>4, <2>5, Parts
  <2>7. /\ \A i \in 1..l : Same(q, i, stream, i)
        /\ Same(q, l + 1, Held, 1) /\ Numbers(q, lq)
    <3>1. \A i \in 1..l : Same(q, i, stream, i)
      BY <1>2, <2>3, <2>4, Parts
    <3>2. 1 \in 1..h /\ \A i \in 1..h : Same(q, l + i, Held, i)
      BY <1>2, <2>3, <2>4, <2>5, Parts
    <3>3. Numbers(q, lq)
      BY <1>2, <2>3, <2>6, Parts DEF Numbers
    <3> QED
      BY <3>1, <3>2, <3>3
  <2>8. \A i \in 1..l : Same(stream, i, q, i)
    BY <2>7 DEF Same, Is
  <2>9. Longer(line2, sent, z, calls)
    BY <1>3, <2>3, <2>4, AppendProperties DEF Longer
  <2>10. At(q, l + 1) = 1 /\ Msg(q, l + 1) = calls
    <3>1. Is(out[s], 1, calls, 1 + k, len)
      BY <1>3, <2>2, <2>5 DEF RestOf
    <3> QED
      BY <1>3, <2>1, <2>7, <3>1 DEF Same, Is, Msg, At
  <2>11. line2 \in Seq(Nat) /\ Increasing(line2)
    BY <1>2, <2>3, Parts DEF LockInv
  <2>12. Framed(q) /\ LinedUp(q, line2, n)
    BY <2>1, <2>3, <2>4
  <2>13. Framed(stream) /\ LinedUp(stream, sent, n)
    BY <1>3, <2>4, <2>6, <2>7, <2>8, <2>9, <2>10, <2>11, <2>12, FrameDropped
  <2>14. Pending' = stream
    BY <1>1, <1>2, <1>4, ConcatEmptySeq DEF Pending, FramingTypeOK
  <2> QED
    BY <1>1, <1>4, <2>4, <2>13, <2>14
<1>10. LengthFits /\ ~cut' => Framed(Pending)' /\ LinedUp(Pending, Line, Len(got))'
  BY <1>9 DEF Framed, LinedUp, Is, Msg, At, Size
<1> QED
  BY <1>1, <1>2, <1>6, <1>8, <1>10 DEF FramingInv, NoFalseOversize

(* Until a transfer is cut short what peek finds is a header, its length is *)
(* the one the sender meant, and the message is the next one in line; when  *)
(* it is there whole it was also sent.                                      *)
LEMMA Received ==
  ASSUME LengthFits, FramingInv, ~cut, HeaderHere,
         NEW len \in PeekedLen, NEW m, stream[1].msg = m
  PROVE  /\ len \in 0..MaxMsgSize /\ m \in Nat
         /\ 4 + len <= here => /\ SubSeq(stream, 1, 4 + len) = Frame(m, len)
                               /\ Len(got) < Len(sent) /\ m = sent[Len(got) + 1]
                               /\ Framed(SubSeq(stream, 4 + len + 1, Len(stream)) \o Held)
                               /\ LinedUp(SubSeq(stream, 4 + len + 1, Len(stream)) \o Held,
                                          Line, Len(got) + 1)
<1>1. /\ FramingTypeOK /\ LockInv /\ Framed(Pending) /\ LinedUp(Pending, Line, Len(got))
      /\ Increasing(Line)
  BY DEF FramingInv, LockInv
<1>2. PICK q, line : q = Pending /\ line = Line
  OBVIOUS
<1>3. PICK l \in Nat, h \in Nat, z \in Nat, n \in Nat :
        Len(stream) = l /\ Len(Held) = h /\ Len(line) = z /\ Len(got) = n
  BY <1>1, <1>2, Parts, LenProperties DEF FramingTypeOK
<1>4. PICK lq \in Nat : Len(q) = lq /\ l + h = lq
  BY <1>1, <1>2, <1>3, Parts
<1>5. here \in 4..l
  BY <1>1, <1>3 DEF FramingTypeOK, HeaderHere, TCP_HEADER_LEN
<1>6. lq # 0 /\ 1 \in 1..l
  BY <1>4, <1>5
<1>7. \A i \in 1..l : Same(q, i, stream, i)
  BY <1>1, <1>2, <1>3, Parts
<1>8. Numbers(q, lq)
  BY <1>1, <1>2, <1>4, Parts DEF Numbers
<1>9. Framed(q) /\ LinedUp(q, line, n)
  BY <1>1, <1>2, <1>3
<1>10. /\ Size(q, 1) \in 0..MaxMsgSize /\ 4 + Size(q, 1) <= lq
       /\ n < z /\ Msg(q, 1) = line[n + 1]
       /\ \A i \in 1..(4 + Size(q, 1)) : Is(q, i, Msg(q, 1), i, Size(q, 1))
  BY <1>3, <1>4, <1>6, <1>8, <1>9, FrameTaken
<1>11. Msg(q, 1) = m /\ Size(q, 1) = stream[1].len
  BY <1>6, <1>7 DEF Same, Is, Msg, Size
<1>12. PICK size \in 0..MaxMsgSize : Size(q, 1) = size /\ stream[1].len = size
  BY <1>10, <1>11
<1>13. size % Width = size
  <2>1. size \in Nat /\ size < Width
    BY <1>12 DEF LengthFits
  <2> QED
    BY <2>1
<1>14. \A i \in 1..(4 + size) : Is(q, i, m, i, size)
  BY <1>10, <1>11, <1>12
<1>15. \A i \in 1..l : i \in 1..(4 + size) => Is(stream, i, m, i, size)
  BY <1>7, <1>14 DEF Same, Is
<1>16. \A p \in 1..4 : stream[p].at = p /\ stream[p].msg = stream[1].msg
  <2> SUFFICES ASSUME NEW p \in 1..4
               PROVE  stream[p].at = p /\ stream[p].msg = stream[1].msg
    OBVIOUS
  <2>1. p \in 1..l /\ p \in 1..(4 + size)
    BY <1>5, <1>12
  <2>2. Is(stream, p, m, p, size)
    BY <1>15, <2>1
  <2> QED
    BY <2>2 DEF Is, Msg, At
<1>17. len = size
  BY <1>12, <1>13, <1>16 DEF PeekedLen, TCP_HEADER_LEN
<1>18. m \in Nat \ {0}
  <2>1. 1 \in 1..lq
    BY <1>4, <1>6
  <2> QED
    <3>1. Msg(q, 1) \in Nat \ {0}
      BY <1>8, <2>1 DEF Numbers
    <3> QED
      BY <1>11, <3>1
<1>19. ASSUME 4 + len <= here
       PROVE  /\ SubSeq(stream, 1, 4 + len) = Frame(m, len)
              /\ Len(got) < Len(sent) /\ m = sent[Len(got) + 1]
              /\ Framed(SubSeq(stream, 4 + len + 1, Len(stream)) \o Held)
              /\ LinedUp(SubSeq(stream, 4 + len + 1, Len(stream)) \o Held, Line, Len(got) + 1)
  <2>1. PICK t \in 1..l : 4 + size = t /\ 4 + len = t
    BY <1>5, <1>12, <1>17, <1>19
  <2>2. /\ stream \in Seq(Byte) /\ Held \in Seq(Byte) /\ line \in Seq(Nat)
        /\ \A i \in 1..z : line[i] \in Nat
    BY <1>1, <1>2, <1>3, Parts
  <2>3. At(q, t) = 4 + Size(q, t) /\ Msg(q, t) = line[n + 1] /\ n < z /\ t \in 1..lq
    <3>1. t \in 1..(4 + size) /\ t \in 1..lq
      BY <1>4, <2>1
    <3>2. Is(q, t, m, t, size)
      BY <1>14, <3>1
    <3> QED
      BY <1>10, <1>11, <2>1, <3>1, <3>2 DEF Is
  <2>4. SubSeq(stream, 1, t) = Frame(m, len)
    <3>1. \A i \in 1..t : stream[i] \in Byte
      BY <1>3, <2>2, ElementOfSeq
    <3>2. /\ SubSeq(stream, 1, t) \in Seq(Byte) /\ Len(SubSeq(stream, 1, t)) = t
          /\ \A i \in 1..t : SubSeq(stream, 1, t)[i] = stream[i]
      BY <3>1, SubSeqProperties
    <3>3. PICK a : a = SubSeq(stream, 1, t)
      OBVIOUS
    <3>4. PICK f : /\ f = Frame(m, len) /\ f \in Seq(Byte) /\ Len(f) = t
                   /\ \A i \in 1..t : Is(f, i, m, i, size)
      <4>1. size \in Nat
        BY <1>12
      <4>2. /\ Frame(m, size) \in Seq(Byte) /\ Len(Frame(m, size)) = 4 + size
            /\ \A i \in 1..(4 + size) : Is(Frame(m, size), i, m, i, size)
        BY <1>18, <4>1, FrameType
      <4> QED
        BY <1>17, <2>1, <4>2
    <3>5. ASSUME NEW i \in 1..t
          PROVE  a[i] = f[i]
      <4>1. a[i] \in Byte /\ f[i] \in Byte
        BY <3>1, <3>2, <3>3, <3>4, ElementOfSeq
      <4>2. Is(a, i, m, i, size) /\ Is(f, i, m, i, size)
        <5>1. i \in 1..l /\ i \in 1..(4 + size) /\ a[i] = stream[i]
          BY <2>1, <3>2, <3>3
        <5>2. Is(stream, i, m, i, size)
          BY <1>15, <5>1
        <5> QED
          BY <3>4, <5>1, <5>2 DEF Is, Msg, At, Size
      <4> QED
        BY <4>1, <4>2, BytesEqual DEF Is, Msg, At, Size
    <3>6. a \in Seq(Byte) /\ Len(a) = t
      BY <3>2, <3>3
    <3>7. a = f
      BY <3>4, <3>5, <3>6, SeqEqual
    <3> QED
      BY <3>3, <3>4, <3>7
  <2>5. Len(got) < Len(sent) /\ m = sent[Len(got) + 1]
    <3>1. CASE lock = NoSender
      BY <1>2, <1>3, <1>10, <1>11, <3>1 DEF Line
    <3>2. CASE lock # NoSender
      <4>1. PICK k \in Nat : Len(sent) = k
        BY <1>1, LenProperties DEF FramingTypeOK
      <4>2. /\ line = Append(sent, calls) /\ Len(line) = k + 1
            /\ \A x \in 1..k : line[x] = sent[x]
        BY <1>1, <1>2, <3>2, <4>1, AppendProperties DEF Line, FramingTypeOK
      <4>3. h # 0
        <5>1. \E l3, k3 \in Nat : RestOf(out[lock], calls, l3, k3)
          BY <1>1, <3>2 DEF LockInv
        <5>2. PICK l3 \in Nat, k3 \in Nat : RestOf(out[lock], calls, l3, k3)
          BY <5>1
        <5>3. Held = out[lock]
          BY <3>2 DEF Held
        <5>4. l3 \in 0..MaxMsgSize /\ k3 \in 0..(3 + l3) /\ h = 4 + l3 - k3
          BY <1>3, <5>2, <5>3 DEF RestOf
        <5> QED
          BY <5>4
      <4>4. t \in 1..(lq - 1)
        BY <1>4, <4>3
      <4>5. Msg(q, t) # line[z]
        BY <1>1, <1>2, <1>3, <1>4, <1>9, <2>2, <2>3, <4>4, LastIsLast
      <4>6. n + 1 # z /\ z = k + 1
        BY <1>3, <2>3, <4>2, <4>5
      <4>7. n + 1 \in 1..k /\ n < k
        BY <2>3, <4>6
      <4> QED
        BY <1>3, <1>10, <1>11, <4>1, <4>2, <4>7
    <3> QED
      BY <3>1, <3>2
  <2>6. PICK q2 : q2 = Rest(stream, t) \o Held
    OBVIOUS
  <2>7. Without(q2, q, lq, t)
    <3>1. q = stream \o Held /\ t \in 0..Len(stream)
      BY <1>2, <1>3 DEF Pending
    <3>2. stream \in Seq(Byte) /\ Held \in Seq(Byte) /\ Len(stream \o Held) = lq
      BY <1>4, <2>2, <3>1
    <3>3. Without(Rest(stream, t) \o Held, stream \o Held, lq, t)
      BY <3>1, <3>2, RestOfConcat
    <3> QED
      BY <2>6, <3>1, <3>3
  <2>8. Framed(q2) /\ LinedUp(q2, line, n + 1)
    BY <1>1, <1>2, <1>3, <1>8, <1>9, <2>2, <2>3, <2>7, FrameAway
  <2> QED
    BY <1>2, <1>3, <2>1, <2>4, <2>5, <2>6, <2>8 DEF Rest
<1> QED
  BY <1>12, <1>17, <1>18, <1>19

(* What recv changes, whatever it finds.                                    *)
LEMMA RecvType ==
  ASSUME FramingTypeOK, Recv
  PROVE  /\ stream' \in Seq(Byte) /\ here' \in 0..Len(stream') /\ got' \in Seq(Nat)
         /\ fate' \in Fate /\ cut' \in BOOLEAN
         /\ UNCHANGED <<lock, out, calls, sent, closed>>
<1>1. PICK len \in PeekedLen :
        LET total == len + TCP_HEADER_LEN IN
        IF len > MaxMsgSize
        THEN fate' = "oversize" /\ UNCHANGED <<stream, here, got, cut>>
        ELSE IF here >= total
        THEN LET m == stream[1].msg IN
             /\ Consume(total)
             /\ got' = Append(got, IF SubSeq(stream, 1, total) = Frame(m, len) THEN m ELSE Garbage)
             /\ UNCHANGED <<fate, cut>>
        ELSE /\ Consume(here)
             /\ cut' = TRUE
             /\ fate' = IF closed /\ here = Len(stream) THEN "aborted" ELSE fate
             /\ UNCHANGED got
  BY DEF Recv
<1>2. UNCHANGED <<lock, out, calls, sent, closed>>
  BY DEF Recv
<1>3. PICK l \in Nat : Len(stream) = l /\ stream \in Seq(Byte) /\ here \in 4..l
  BY LenProperties DEF FramingTypeOK, Recv, HeaderHere, TCP_HEADER_LEN
<1>4. ASSUME NEW n \in 0..here, Consume(n)
      PROVE  stream' \in Seq(Byte) /\ here' \in 0..Len(stream')
  <2>1. stream' = SubSeq(stream, n + 1, l) /\ here' = here - n /\ n \in 0..l
    BY <1>3, <1>4 DEF Consume
  <2>2. stream' \in Seq(Byte) /\ Len(stream') = l - n
    BY <1>3, <2>1, RestSame
  <2>3. here - n \in 0..(l - n)
    BY <1>3, <1>4
  <2> QED
    BY <2>1, <2>2, <2>3
<1>5. stream[1].msg \in Nat /\ stream[1].len \in Nat
  <2>1. 1 \in 1..Len(stream)
    BY <1>3
  <2> QED
    BY <1>3, <2>1, ByteTypes DEF Msg, Size
<1>6. len \in Nat
  <2>1. stream[1].len % Width \in Nat
    <3>1. PICK b \in Nat : stream[1].len = b
      BY <1>5
    <3>2. b % Width \in Nat
      OBVIOUS
    <3> QED
      BY <3>1, <3>2
  <2>2. 0..(Width - 1) \subseteq Nat
    OBVIOUS
  <2> QED
    BY <2>1, <2>2 DEF PeekedLen
<1>7. CASE len > MaxMsgSize
  BY <1>1, <1>2, <1>7 DEF FramingTypeOK, Fate
<1>8. CASE ~(len > MaxMsgSize) /\ here >= len + 4
  <2>1. /\ Consume(len + 4) /\ fate' = fate /\ cut' = cut
        /\ \E x \in {stream[1].msg, Garbage} : got' = Append(got, x)
    BY <1>1, <1>8 DEF TCP_HEADER_LEN
  <2>2. len + 4 \in 0..here
    BY <1>3, <1>6, <1>8
  <2>3. got' \in Seq(Nat)
    <3>1. PICK x \in Nat : got' = Append(got, x)
      BY <1>5, <2>1 DEF Garbage
    <3> QED
      BY <3>1, AppendProperties DEF FramingTypeOK
  <2> QED
    BY <1>2, <1>4, <2>1, <2>2, <2>3 DEF FramingTypeOK
<1>9. CASE ~(len > MaxMsgSize) /\ ~(here >= len + 4)
  <2>1. /\ Consume(here) /\ cut' = TRUE /\ got' = got
        /\ fate' = IF closed /\ here = Len(stream) THEN "aborted" ELSE fate
    BY <1>1, <1>9 DEF TCP_HEADER_LEN
  <2>2. here \in 0..here
    BY <1>3
  <2>3. stream' \in Seq(Byte) /\ here' \in 0..Len(stream')
    BY <1>4, <2>1, <2>2
  <2> QED
    BY <1>2, <2>1, <2>3 DEF FramingTypeOK, Fate
<1> QED
  BY <1>7, <1>8, <1>9

(* Until a transfer is cut short recv takes the next message or cuts the    *)
(* transfer short itself.                                                   *)
LEMMA RecvTakes ==
  ASSUME LengthFits, FramingInv, ~cut, Recv
  PROVE  \/ cut' = TRUE /\ got' = got
         \/ /\ cut' = cut /\ fate' = fate
            /\ Len(got) < Len(sent) /\ got' = Append(got, sent[Len(got) + 1])
            /\ Framed(stream' \o Held) /\ LinedUp(stream' \o Held, Line, Len(got) + 1)
<1>1. HeaderHere
  BY DEF Recv
<1>2. PICK m : stream[1].msg = m
  OBVIOUS
<1>3. PICK len \in PeekedLen :
        LET total == len + TCP_HEADER_LEN IN
        IF len > MaxMsgSize
        THEN fate' = "oversize" /\ UNCHANGED <<stream, here, got, cut>>
        ELSE IF here >= total
        THEN /\ Consume(total)
             /\ got' = Append(got, IF SubSeq(stream, 1, total) = Frame(m, len) THEN m ELSE Garbage)
             /\ UNCHANGED <<fate, cut>>
        ELSE /\ Consume(here)
             /\ cut' = TRUE
             /\ fate' = IF closed /\ here = Len(stream) THEN "aborted" ELSE fate
             /\ UNCHANGED got
  BY <1>2 DEF Recv
<1>4. len \in 0..MaxMsgSize /\ (4 + len <= here =>
        /\ SubSeq(stream, 1, 4 + len) = Frame(m, len)
        /\ Len(got) < Len(sent) /\ m = sent[Len(got) + 1]
        /\ Framed(SubSeq(stream, 4 + len + 1, Len(stream)) \o Held)
        /\ LinedUp(SubSeq(stream, 4 + len + 1, Len(stream)) \o Held, Line, Len(got) + 1))
  BY <1>1, <1>2, Received
<1>5. here \in Nat
  <2>1. here \in 0..Len(stream) /\ stream \in Seq(Byte)
    BY DEF FramingInv, FramingTypeOK
  <2>2. Len(stream) \in Nat
    BY <2>1, LenProperties
  <2> QED
    BY <2>1, <2>2
<1>6. ~(len > MaxMsgSize)
  BY <1>4
<1>7. PICK t \in Nat : len + 4 = t /\ 4 + len = t
  BY <1>4
<1>8. CASE here >= t
  <2>1. /\ stream' = SubSeq(stream, t + 1, Len(stream))
        /\ got' = Append(got, IF SubSeq(stream, 1, t) = Frame(m, len) THEN m ELSE Garbage)
        /\ fate' = fate /\ cut' = cut
    BY <1>3, <1>6, <1>7, <1>8 DEF Consume, TCP_HEADER_LEN
  <2>2. /\ SubSeq(stream, 1, t) = Frame(m, len)
        /\ Len(got) < Len(sent) /\ m = sent[Len(got) + 1]
        /\ Framed(SubSeq(stream, t + 1, Len(stream)) \o Held)
        /\ LinedUp(SubSeq(stream, t + 1, Len(stream)) \o Held, Line, Len(got) + 1)
    <3>1. 4 + len <= here
      BY <1>5, <1>7, <1>8
    <3> QED
      BY <1>4, <1>7, <3>1
  <2> QED
    BY <2>1, <2>2
<1>9. CASE ~(here >= t)
  BY <1>3, <1>6, <1>7, <1>9 DEF TCP_HEADER_LEN
<1> QED
  BY <1>8, <1>9

LEMMA RecvInv ==
  ASSUME FramingInv, Recv
  PROVE  FramingInv'
<1>1. FramingTypeOK /\ LockInv
  BY DEF FramingInv
<1>2. /\ stream' \in Seq(Byte) /\ here' \in 0..Len(stream') /\ got' \in Seq(Nat)
      /\ fate' \in Fate /\ cut' \in BOOLEAN
      /\ lock' = lock /\ out' = out /\ calls' = calls /\ sent' = sent /\ closed' = closed
  BY <1>1, RecvType
<1>3. FramingTypeOK'
  BY <1>1, <1>2 DEF FramingTypeOK
<1>4. Line' = Line /\ Held' = Held
  BY <1>2 DEF Line, Held
<1>5. LockInv'
  BY <1>1, <1>2, <1>4 DEF LockInv, Increasing, RestOf, Is, Msg, At, Size
<1>6. CASE cut
  <2>1. cut' = TRUE
    BY <1>6 DEF Recv
  <2> QED
    BY <1>3, <1>5, <2>1 DEF FramingInv, NoFalseOversize
<1>7. CASE ~cut /\ LengthFits
  <2>1. CASE cut' = TRUE
    BY <1>3, <1>5, <2>1 DEF FramingInv, NoFalseOversize
  <2>2. CASE cut' # TRUE
    <3>1. /\ cut' = cut /\ fate' = fate /\ got' = Append(got, sent[Len(got) + 1])
          /\ Len(got) < Len(sent)
          /\ Framed(stream' \o Held) /\ LinedUp(stream' \o Held, Line, Len(got) + 1)
      BY <1>7, <2>2, RecvTakes
    <3>2. Len(got') = Len(got) + 1
      <4>1. got \in Seq(Nat) /\ sent \in Seq(Nat)
        BY <1>1 DEF FramingTypeOK
      <4>2. PICK n \in Nat, k \in Nat : Len(got) = n /\ Len(sent) = k
        BY <4>1, LenProperties
      <4>3. sent[n + 1] \in Nat
        BY <3>1, <4>1, <4>2, ElementOfSeq
      <4> QED
        BY <3>1, <4>1, <4>2, <4>3, AppendProperties
    <3>3. Framed(Pending') /\ LinedUp(Pending', Line', Len(got'))
      BY <1>4, <3>1, <3>2 DEF Pending
    <3>4. Framed(Pending)' /\ LinedUp(Pending, Line, Len(got))'
      BY <3>3 DEF Framed, LinedUp, Is, Msg, At, Size
    <3> QED
      BY <1>1, <1>3, <1>5, <1>7, <3>1, <3>4 DEF FramingInv, NoFalseOversize
  <2> QED
    BY <2>1, <2>2
<1>8. CASE ~LengthFits
  BY <1>3, <1>5, <1>8 DEF FramingInv
<1> QED
  BY <1>6, <1>7, <1>8

(* The steps that leave the messages alone.                                 *)
LEMMA OthersInv ==
  ASSUME FramingInv,
         Close \/ Arrive \/ RecvEnd \/ UNCHANGED framingVars
  PROVE  FramingInv' /\ UNCHANGED <<sent, got, cut>>
<1>1. /\ lock' = lock /\ out' = out /\ calls' = calls /\ sent' = sent
      /\ stream' = stream /\ got' = got /\ cut' = cut
  BY DEF Close, Arrive, RecvEnd, framingVars
<1>2. /\ closed' = closed \/ closed' = TRUE
      /\ fate' = fate \/ fate' = "aborted"
      /\ here' = here \/ here' \in (here + 1)..Len(stream)
  BY DEF Close, Arrive, RecvEnd, framingVars
<1>3. FramingTypeOK /\ LockInv
  BY DEF FramingInv
<1>4. here' \in 0..Len(stream')
  <2>1. stream \in Seq(Byte) /\ here \in 0..Len(stream)
    BY <1>3 DEF FramingTypeOK
  <2>2. PICK l \in Nat : Len(stream) = l
    BY <2>1, LenProperties
  <2>3. here \in 0..l /\ (here' = here \/ here' \in (here + 1)..l) /\ Len(stream') = l
    BY <1>1, <1>2, <2>1, <2>2
  <2>4. here' \in 0..l
    BY <2>3
  <2> QED
    BY <2>3, <2>4
<1>5. FramingTypeOK'
  BY <1>1, <1>2, <1>3, <1>4 DEF FramingTypeOK, Fate
<1>6. Line' = Line /\ Pending' = Pending
  BY <1>1 DEF Line, Held, Pending
<1>7. LockInv'
  BY <1>1, <1>3, <1>6 DEF LockInv, Increasing, RestOf, Is, Msg, At, Size
<1>8. LengthFits /\ ~cut' => Framed(Pending') /\ LinedUp(Pending', Line', Len(got'))
  BY <1>1, <1>6 DEF FramingInv
<1>9. LengthFits /\ ~cut' => Framed(Pending)' /\ LinedUp(Pending, Line, Len(got))'
  BY <1>8 DEF Framed, LinedUp, Is, Msg, At, Size
<1> QED
  BY <1>1, <1>2, <1>3, <1>5, <1>7, <1>9 DEF FramingInv, NoFalseOversize

LEMMA StepInv ==
  ASSUME FramingInv, [FramingNext]_framingVars
  PROVE  FramingInv'
<1>1. CASE \E s \in Sender : Write(s)
  BY <1>1, WriteInv
<1>2. CASE \E s \in Sender : WriteFails(s)
  BY <1>2, WriteFailsInv
<1>3. CASE \E s \in Sender, len \in 0..(MaxMsgSize + 1) : BeginSend(s, len)
  BY <1>3, BeginSendInv
<1>4. CASE Recv
  BY <1>4, RecvInv
<1>5. CASE Close \/ Arrive \/ RecvEnd \/ UNCHANGED framingVars
  BY <1>5, OthersInv
<1> QED
  BY <1>1, <1>2, <1>3, <1>4, <1>5 DEF FramingNext

(* A send that ends puts its message after those sent before, and is told   *)
(* apart from them.                                                         *)
LEMMA WritePuts ==
  ASSUME FramingInv, ~cut, NEW s \in Sender, Write(s)
  PROVE  Promise!Put \/ UNCHANGED <<sent, got, cut>>
<1>1. /\ sent' = sent \/ sent' = Append(sent, calls)
      /\ lock = s /\ lock # NoSender /\ got' = got /\ cut' = cut
  BY WriteInv DEF Write
<1>2. CASE sent' = sent
  BY <1>1, <1>2
<1>3. CASE sent' = Append(sent, calls)
  <2>1. sent \in Seq(Nat) /\ calls \in Nat
    BY DEF FramingInv, FramingTypeOK
  <2>2. PICK l \in Nat : Len(sent) = l
    BY <2>1, LenProperties
  <2>3. /\ sent' \in Seq(Nat) /\ Len(sent') = l + 1
        /\ \A i \in 1..l : sent'[i] = sent[i]
        /\ sent'[l + 1] = calls
    BY <1>3, <2>1, <2>2, AppendProperties
  <2>4. Append(sent, calls) \in Seq(1..calls) /\ Increasing(Append(sent, calls))
    BY <1>1 DEF FramingInv, LockInv, Line
  <2>5. \A i \in 1..l : sent[i] # calls
    BY <2>1, <2>2, <2>4, IncreasingFront
  <2>6. SubSeq(sent', 1, l) = sent
    <3>1. \A i \in 1..l : sent'[i] \in Nat
      BY <2>1, <2>2, <2>3, ElementOfSeq
    <3>2. /\ SubSeq(sent', 1, l) \in Seq(Nat) /\ Len(SubSeq(sent', 1, l)) = l
          /\ \A i \in 1..l : SubSeq(sent', 1, l)[i] = sent'[i]
      BY <3>1, SubSeqProperties
    <3>3. PICK a : a = SubSeq(sent', 1, l)
      OBVIOUS
    <3>4. a \in Seq(Nat) /\ Len(a) = l /\ \A i \in 1..l : a[i] = sent[i]
      BY <2>3, <3>2, <3>3
    <3>5. a = sent
      BY <2>1, <2>2, <3>4, SeqEqual
    <3> QED
      BY <3>3, <3>5
  <2> QED
    BY <1>1, <2>2, <2>3, <2>5, <2>6 DEF Promise!Put
<1> QED
  BY <1>1, <1>2, <1>3

(* Every step is one that Channel allows, or none.                          *)
LEMMA StepKeeps ==
  ASSUME LengthFits, FramingInv, [FramingNext]_framingVars
  PROVE  Promise!ChanNext \/ UNCHANGED <<sent, got, cut>>
<1>1. cut \in BOOLEAN /\ cut' \in BOOLEAN
  BY StepInv DEF FramingInv, FramingTypeOK
<1>2. CASE cut
  <2>1. cut' = cut \/ cut' = TRUE
    BY <1>2 DEF FramingNext, BeginSend, Write, WriteFails, Close, Arrive, Recv, RecvEnd, framingVars
  <2> QED
    BY <1>2, <2>1 DEF Promise!ChanNext, Promise!Anything
<1>3. CASE ~cut
  <2>1. CASE \E s \in Sender : Write(s)
    BY <1>3, <2>1, WritePuts DEF Promise!ChanNext
  <2>2. CASE \E s \in Sender : WriteFails(s)
    BY <1>1, <2>2 DEF WriteFails, Promise!ChanNext, Promise!Spoil
  <2>3. CASE \E s \in Sender, len \in 0..(MaxMsgSize + 1) : BeginSend(s, len)
    BY <2>3 DEF BeginSend
  <2>4. CASE Recv
    <3>1. sent' = sent
      BY <2>4 DEF Recv
    <3>2. CASE cut' = TRUE /\ got' = got
      BY <3>1, <3>2 DEF Promise!ChanNext, Promise!Spoil
    <3>3. CASE /\ cut' = cut /\ Len(got) < Len(sent)
               /\ got' = Append(got, sent[Len(got) + 1])
      BY <1>3, <3>1, <3>3 DEF Promise!ChanNext, Promise!Get
    <3> QED
      BY <1>3, <2>4, <3>2, <3>3, RecvTakes
  <2>5. CASE Close \/ Arrive \/ RecvEnd \/ UNCHANGED framingVars
    BY <2>5, OthersInv
  <2> QED
    BY <2>1, <2>2, <2>3, <2>4, <2>5 DEF FramingNext
<1> QED
  BY <1>1, <1>2, <1>3

-----------------------------------------------------------------------------
(* The invariant of the byte stream: whole frames in the order of their     *)
(* sends are on their way, until a transfer is cut short.                   *)
LEMMA FramingHolds == FramingSpec => []FramingInv
<1>1. FramingInit => FramingInv
  BY InitInv
<1>2. FramingInv /\ [FramingNext]_framingVars => FramingInv'
  BY StepInv
<1> QED
  BY <1>1, <1>2, PTL DEF FramingSpec

(* The lock, the sender's buffer, the kernel's and what recv returned keep  *)
(* their types (tcp.rs).                                                    *)
THEOREM FramingTypeCorrect == FramingSpec => []FramingTypeOK
<1>1. FramingInv => FramingTypeOK
  BY DEF FramingInv
<1> QED
  BY <1>1, FramingHolds, PTL

(* recv gives up a connection for the size of a message only after a        *)
(* transfer was cut short (tcp.rs:99-107).                                  *)
THEOREM OversizeIsTrue ==
  ASSUME LengthFits
  PROVE  FramingSpec => []NoFalseOversize
<1>1. FramingInv => NoFalseOversize
  BY DEF FramingInv
<1> QED
  BY <1>1, FramingHolds, PTL

(* A TcpCon implements Channel: whatever the senders, the kernel and the    *)
(* network do, recv returns the messages that were sent, whole, once and in *)
(* order, until a transfer is cut short in the middle of a message.         *)
THEOREM PromiseKept ==
  ASSUME LengthFits
  PROVE  FramingSpec => KeepsPromise
<1>1. FramingInit => Promise!ChanInit
  BY DEF FramingInit, Promise!ChanInit
<1>2. FramingInv /\ [FramingNext]_framingVars => [Promise!ChanNext]_(Promise!chanVars)
  BY StepKeeps DEF Promise!chanVars
<1> QED
  BY <1>1, <1>2, FramingHolds, PTL DEF FramingSpec, KeepsPromise, Promise!ChanSpec
=============================================================================
