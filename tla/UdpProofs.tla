------------------------------ MODULE UdpProofs ------------------------------
(***************************************************************************)
(* Theorems about MsgTables and UdpCon, for tables of any size and every   *)
(* width of the clock and of the fields it is cut to: peers that register  *)
(* the same agree on the MIds, a datagram is read as the type it was sent  *)
(* as, and its time stamp is recovered.                                    *)
(***************************************************************************)
EXTENDS UdpCon, FiniteSetTheorems, SequenceTheorems, TLAPS

-----------------------------------------------------------------------------
(* Division with remainder.                                                 *)

LEMMA Division ==
  ASSUME NEW b \in Nat \ {0}, NEW x \in Int
  PROVE  x % b \in 0..(b - 1) /\ x \div b \in Int /\ x = b * (x \div b) + (x % b)
  OBVIOUS

LEMMA Multiples ==
  ASSUME NEW b \in Nat \ {0}, NEW p \in Int, NEW q \in Int
  PROVE  /\ b * q \in Int
         /\ b * (q + 1) = b * q + b /\ b * (q - 1) = b * q - b
         /\ q > p => b * q >= b * p + b
<1>1. b * q \in Int /\ b * (q + 1) = b * q + b
  OBVIOUS
<1>2. b * (q - 1) = b * q - b
  OBVIOUS
<1>3. q > p => b * q >= b * p + b
  OBVIOUS
<1> QED
  BY <1>1, <1>2, <1>3

(* Quotient and remainder are unique.                                       *)
LEMMA Unique ==
  ASSUME NEW b \in Nat \ {0}, NEW x \in Int, NEW q \in Int, NEW r \in 0..(b - 1),
         x = b * q + r
  PROVE  x % b = r /\ x \div b = q
<1> DEFINE p == x \div b
           s == x % b
<1>1. s \in 0..(b - 1) /\ p \in Int /\ x = b * p + s
  BY Division
<1> HIDE DEF p, s
<1>2. b * p \in Int /\ b * q \in Int
  BY <1>1, Multiples
<1>3. q > p => b * q >= b * p + b
  BY <1>1, Multiples
<1>4. p > q => b * p >= b * q + b
  BY <1>1, Multiples
<1>5. ~(q > p) /\ ~(p > q)
  BY <1>1, <1>2, <1>3, <1>4
<1>6. p = q
  BY <1>1, <1>5
<1>7. s = r
  BY <1>1, <1>2, <1>6
<1> QED
  BY <1>6, <1>7 DEF p, s

(* Full is a multiple of Low.                                               *)
LEMMA Widths ==
  /\ Low \in Nat \ {0} /\ Full \in Nat \ {0}
  /\ \E m \in Int : Full = Low * m
<1>1. Low \in Nat \ {0} /\ Full \in Nat \ {0} /\ Full % Low = 0
  BY UdpAssumption
<1>2. Full = Low * (Full \div Low) + (Full % Low) /\ Full \div Low \in Int
  BY <1>1, Division
<1>3. Low * (Full \div Low) \in Int
  BY <1>1, <1>2, Multiples
<1>4. Full = Low * (Full \div Low)
  BY <1>1, <1>2, <1>3
<1> QED
  BY <1>1, <1>2, <1>4

-----------------------------------------------------------------------------
(* The stamp of a datagram that took less than Low milliseconds, read by a  *)
(* clock of Full, is the time it was sent at.                               *)
LEMMA StampRead ==
  ASSUME NEW at \in Int, NEW by \in Int, by - at \in 0..(Low - 1)
  PROVE  Reconstruct(by % Full, Cut(at % Full)) = at % Full
<1>1. Low \in Nat \ {0} /\ Full \in Nat \ {0}
  BY Widths
<1>2. PICK m \in Int : Full = Low * m
  BY Widths
<1> DEFINE A == at % Full
           B == by % Full
           a == A % Low
           i == A \div Low
           age == by - at
<1>3. /\ A \in 0..(Full - 1) /\ at \div Full \in Int /\ at = Full * (at \div Full) + A
      /\ Full * (at \div Full) \in Int /\ age \in 0..(Low - 1)
  BY <1>1, Division, Multiples
<1>4. a \in 0..(Low - 1) /\ i \in Int /\ A = Low * i + a /\ Low * i \in Int
  <2>1. A \in Int
    BY <1>1, <1>3
  <2> HIDE DEF A
  <2>2. a \in 0..(Low - 1) /\ i \in Int /\ A = Low * i + a
    BY <1>1, <2>1, Division
  <2>3. Low * i \in Int
    BY <1>1, <2>2, Multiples
  <2> QED
    BY <2>2, <2>3
<1>5. Low <= Full
  <2>1. m > 0
    <3>1. Low * m \in Int /\ (0 > m => Low * 0 >= Low * m + Low) /\ Low * 0 = 0
      BY <1>1, Multiples
    <3> QED
      BY <1>1, <1>2, <3>1
  <2>2. Low * m >= Low * 0 + Low /\ Low * 0 = 0 /\ Low * m \in Int
    BY <1>1, <2>1, Multiples
  <2> QED
    BY <1>1, <1>2, <2>2
<1>6. B = IF A + age < Full THEN A + age ELSE A + age - Full
  <2> DEFINE d == at \div Full
  <2>1. d \in Int /\ Full * d \in Int /\ Full * (d + 1) = Full * d + Full
    BY <1>1, <1>3, Multiples
  <2>2. by = Full * d + (A + age)
    BY <1>3
  <2> HIDE DEF d, A, age
  <2>3. PICK r \in Int : r = A + age
    BY <1>3
  <2>4. 0 <= r /\ r < Full + Full /\ by = Full * d + r
    BY <1>1, <1>3, <1>5, <2>2, <2>3
  <2>5. CASE r < Full
    <3>1. r \in 0..(Full - 1)
      BY <1>1, <2>3, <2>4, <2>5
    <3>2. by % Full = r
      BY <1>1, <2>1, <2>4, <3>1, Unique
    <3> QED
      BY <2>3, <2>5, <3>2
  <2>6. CASE ~(r < Full)
    <3>1. PICK s \in Int : s = r - Full /\ s \in 0..(Full - 1)
      BY <1>1, <2>3, <2>4, <2>6
    <3>2. PICK e \in Int : e = d + 1
      BY <2>1
    <3>3. e \in Int /\ s \in 0..(Full - 1) /\ by = Full * e + s
      <4>1. Full * e = Full * d + Full
        BY <2>1, <3>2
      <4> QED
        BY <1>1, <2>1, <2>4, <3>1, <3>2, <4>1
    <3>4. by % Full = s
      BY <1>1, <3>3, Unique
    <3> QED
      BY <1>1, <1>3, <2>3, <2>6, <3>1, <3>4
  <2> QED
    BY <2>5, <2>6
<1>7. Cut(A) = a
  BY DEF Cut
<1> HIDE DEF A, B, a, i, age
(* B = Low * j + b for this j and b, and the upper bits of A are those of   *)
(* B, or one less, modulo Full.                                             *)
<1>8. CASE a + age < Low /\ A + age < Full
  <2>1. B = Low * i + (a + age) /\ a + age \in 0..(Low - 1) /\ B \in Int
    BY <1>1, <1>3, <1>4, <1>6, <1>8
  <2>2. B % Low = a + age
    BY <1>1, <1>4, <2>1, Unique
  <2>3. ~Later(a, B % Low)
    BY <1>3, <1>4, <2>2 DEF Later
  <2>4. Reconstruct(B, a) = B - (B % Low) + a
    BY <2>3 DEF Reconstruct
  <2> QED
    BY <1>3, <1>4, <1>7, <2>1, <2>2, <2>4 DEF A, B
<1>9. CASE a + age < Low /\ ~(A + age < Full)
  <2>1. Low * i + (a + age) >= Low * m
    BY <1>1, <1>2, <1>3, <1>4, <1>9
  <2>2. Low * i < Low * m /\ Low * m \in Int
    BY <1>1, <1>2, <1>3, <1>4, Multiples
  <2>3. m > i
    <3>1. i > m => Low * i >= Low * m + Low
      BY <1>1, <1>4, Multiples
    <3>2. i # m
      BY <1>4, <2>2
    <3> QED
      BY <1>1, <1>4, <2>2, <3>1, <3>2
  <2>4. Low * m >= Low * i + Low
    BY <1>1, <1>4, <2>3, Multiples
  <2> QED
    BY <1>1, <1>3, <1>4, <1>9, <2>1, <2>2, <2>4
<1>10. CASE ~(a + age < Low) /\ A + age < Full
  <2>1. Low * (i + 1) = Low * i + Low /\ i + 1 \in Int
    BY <1>1, <1>4, Multiples
  <2>2. /\ B = Low * (i + 1) + (a + age - Low) /\ a + age - Low \in 0..(Low - 1)
        /\ B \in Int
    BY <1>1, <1>3, <1>4, <1>6, <1>10, <2>1
  <2>3. B % Low = a + age - Low
    BY <1>1, <2>1, <2>2, Unique
  <2>4. Later(a, B % Low)
    BY <1>1, <1>3, <1>4, <2>3 DEF Later
  <2>5. B - (B % Low) - Low = Low * i
    BY <1>1, <1>3, <1>4, <2>1, <2>2, <2>3
  <2>6. Low * i \in 0..(Full - 1)
    <3>1. 0 > i => Low * 0 >= Low * i + Low
      BY <1>1, <1>4, Multiples
    <3>2. Low * 0 = 0
      BY <1>1
    <3> QED
      BY <1>1, <1>3, <1>4, <3>1, <3>2
  <2>7. (Low * i) % Full = Low * i
    <3>1. Full * 0 = 0 /\ Low * i = Full * 0 + Low * i
      BY <1>1, <1>4
    <3> QED
      BY <1>1, <1>4, <2>6, <3>1, Unique
  <2>8. Reconstruct(B, a) = Low * i + a
    BY <2>4, <2>5, <2>7 DEF Reconstruct
  <2> QED
    BY <1>4, <1>7, <2>8 DEF A, B
<1>11. CASE ~(a + age < Low) /\ ~(A + age < Full)
  <2>1. /\ Low * (i + 1) = Low * i + Low /\ i + 1 \in Int
        /\ Low * m \in Int
    BY <1>1, <1>4, Multiples
  <2>2. m = i + 1
    <3>1. m > i + 1 => Low * m >= Low * (i + 1) + Low
      BY <1>1, <2>1, Multiples
    <3>2. i + 1 > m => Low * (i + 1) >= Low * m + Low
      BY <1>1, <2>1, Multiples
    <3>3. ~(m > i + 1)
      BY <1>1, <1>2, <1>3, <1>4, <1>11, <2>1, <3>1
    <3>4. ~(i + 1 > m)
      BY <1>1, <1>2, <1>3, <1>4, <2>1, <3>2
    <3> QED
      BY <2>1, <3>3, <3>4
  <2>3. Full = Low * i + Low
    BY <1>2, <2>1, <2>2
  <2>4. B = Low * 0 + (a + age - Low) /\ a + age - Low \in 0..(Low - 1) /\ B \in Int
    BY <1>1, <1>3, <1>4, <1>6, <1>11, <2>3
  <2>5. B % Low = a + age - Low
    BY <1>1, <2>4, Unique
  <2>6. Later(a, B % Low)
    BY <1>1, <1>3, <1>4, <2>5 DEF Later
  <2>7. B - (B % Low) - Low = -Low
    BY <1>1, <1>3, <1>4, <2>4, <2>5
  <2>8. (-Low) % Full = Full - Low
    <3>1. -Low = Full * (-1) + (Full - Low) /\ Full - Low \in 0..(Full - 1)
      BY <1>1, <1>5
    <3> QED
      BY <1>1, <3>1, Unique
  <2>9. Reconstruct(B, a) = Full - Low + a
    BY <2>6, <2>7, <2>8 DEF Reconstruct
  <2> QED
    BY <1>1, <1>4, <1>7, <2>3, <2>9 DEF A, B
<1> QED
  BY <1>8, <1>9, <1>10, <1>11

-----------------------------------------------------------------------------
(* The states.                                                              *)

(* Stamps are cut from the clock that sent them, and read against the clock *)
(* that receives them.                                                      *)
StampInv ==
  /\ now \in Int /\ skew \in [Peer -> Int]
  /\ \A d \in packets : d.at \in Int /\ d.time = Cut(d.at % Full)
  /\ got = [p \in Peer |-> got[p]]
  /\ \A p \in Peer : got[p] # Nothing =>
       /\ got[p].at \in Int /\ got[p].by \in Int
       /\ got[p].time = Reconstruct(got[p].by % Full, Cut(got[p].at % Full))

LEMMA StampStart == UdpInit => StampInv
<1> SUFFICES ASSUME UdpInit
             PROVE  StampInv
  OBVIOUS
<1>1. now \in Int /\ skew \in [Peer -> Int] /\ packets = {}
  BY UdpAssumption DEF UdpInit
<1>2. got = [p \in Peer |-> Nothing]
  BY DEF UdpInit
<1> QED
  BY <1>1, <1>2 DEF StampInv

LEMMA ClockType ==
  ASSUME StampInv, NEW p \in Peer
  PROVE  Clock(p) \in Int
  BY DEF StampInv, Clock

LEMMA StampSend ==
  ASSUME StampInv, NEW p \in Peer, NEW tid, NEW size, Send(p, tid, size)
  PROVE  StampInv'
<1>1. UNCHANGED <<now, skew, got>>
  BY DEF Send
<1>2. \A d \in packets' :
        d \in packets \/ (d.at = Clock(p) /\ d.time = Cut(Clock(p) % Full))
  BY DEF Send
<1>3. \A d \in packets' : d.at \in Int /\ d.time = Cut(d.at % Full)
  BY <1>2, ClockType DEF StampInv
<1> QED
  BY <1>1, <1>3 DEF StampInv

LEMMA StampRecv ==
  ASSUME StampInv, NEW p \in Peer, NEW d \in packets, Recv(p, d)
  PROVE  StampInv'
<1>1. UNCHANGED <<now, skew>> /\ packets' \subseteq packets
  BY DEF Recv
<1>2. UNCHANGED got \/ \E m \in Read(p, d) : got' = [got EXCEPT ![p] = m]
  BY DEF Recv
<1>3. CASE UNCHANGED got
  BY <1>1, <1>3 DEF StampInv
<1>4. ASSUME NEW m \in Read(p, d), got' = [got EXCEPT ![p] = m]
      PROVE  StampInv'
  <2>1. m # Nothing =>
          /\ m.at = d.at /\ m.by = Clock(p)
          /\ m.time = Reconstruct(Clock(p) % Full, d.time)
    BY DEF Read, Outcome
  <2>2. m # Nothing =>
          /\ m.at \in Int /\ m.by \in Int
          /\ m.time = Reconstruct(m.by % Full, Cut(m.at % Full))
    BY <2>1, ClockType DEF StampInv
  <2>3. /\ got' = [q \in Peer |-> got'[q]]
        /\ got'[p] = m /\ \A q \in Peer \ {p} : got'[q] = got[q]
    BY <1>4 DEF StampInv
  <2> QED
    BY <1>1, <2>2, <2>3 DEF StampInv
<1> QED
  BY <1>2, <1>3, <1>4

LEMMA StampStep ==
  ASSUME StampInv, [UdpNext]_allVars
  PROVE  StampInv'
<1>1. CASE UNCHANGED udpVars
  BY <1>1 DEF udpVars, StampInv
<1>2. CASE Tick
  BY <1>2 DEF Tick, StampInv
<1>3. CASE Lose
  BY <1>3 DEF Lose, StampInv
<1>4. ASSUME NEW p \in Peer, ClearMsgs(p)
      PROVE  StampInv'
  <2>1. UNCHANGED <<now, skew, packets>> /\ got' = [got EXCEPT ![p] = Nothing]
    BY <1>4 DEF ClearMsgs
  <2> QED
    BY <2>1 DEF StampInv
<1>5. ASSUME NEW p \in Sender, NEW tid, NEW size, Send(p, tid, size)
      PROVE  StampInv'
  BY <1>5, StampSend, UdpAssumption
<1> QED
  BY <1>1, <1>2, <1>3, <1>4, <1>5, StampRecv DEF UdpNext, allVars, udpVars

(* Whatever the two widths, the clocks, the delays and the copies, a        *)
(* message's time is the time it was sent at, if by the receiver's clock it *)
(* took less than Low milliseconds (time.rs:3-4, 26-33).                    *)
THEOREM TimeAlwaysRecovered == UdpSpec => []TimeRecovered
<1>1. StampInv => TimeRecovered
  BY StampRead DEF StampInv, TimeRecovered
<1> QED
  BY <1>1, StampStart, StampStep, PTL DEF UdpSpec

-----------------------------------------------------------------------------
(* Sorting by identifier.  What is before two entries is before the later   *)
(* one, so ranks differ, and there are as many ranks as entries.            *)

BeforeOf(t, i) == {j \in DOMAIN t : Before(t, j, i)}

LEMMA BeforeIsAnOrder ==
  ASSUME NEW t \in Seq(Entry), NEW i \in DOMAIN t, NEW j \in DOMAIN t
  PROVE  /\ ~Before(t, i, i)
         /\ i # j => Before(t, i, j) \/ Before(t, j, i)
         /\ \A k \in DOMAIN t : Before(t, k, i) /\ Before(t, i, j) => Before(t, k, j)
<1>1. DOMAIN t \subseteq Int /\ \A k \in DOMAIN t : t[k].ident \in Int
  BY TablesAssumption
<1> QED
  BY <1>1 DEF Before

LEMMA RankType ==
  ASSUME NEW t \in Seq(Entry), NEW i \in DOMAIN t
  PROVE  /\ IsFiniteSet(BeforeOf(t, i)) /\ Cardinality(BeforeOf(t, i)) \in Nat
         /\ Rank(t, i) = 1 + Cardinality(BeforeOf(t, i))
         /\ Rank(t, i) \in DOMAIN t
<1>1. DOMAIN t = 1..Len(t) /\ Len(t) \in Nat /\ Len(t) >= 1
  OBVIOUS
<1>2. IsFiniteSet(DOMAIN t) /\ Cardinality(DOMAIN t) = Len(t)
  BY <1>1, FS_Interval
<1>3. IsFiniteSet(DOMAIN t \ {i}) /\ Cardinality(DOMAIN t \ {i}) = Len(t) - 1
  BY <1>1, <1>2, FS_RemoveElement
<1>4. BeforeOf(t, i) \in SUBSET (DOMAIN t \ {i})
  BY BeforeIsAnOrder DEF BeforeOf
<1>5. IsFiniteSet(BeforeOf(t, i)) /\ Cardinality(BeforeOf(t, i)) <= Len(t) - 1
  BY <1>3, <1>4, FS_Subset
<1>6. Cardinality(BeforeOf(t, i)) \in Nat
  BY <1>5, FS_CardinalityType
<1>7. Rank(t, i) = 1 + Cardinality(BeforeOf(t, i))
  BY DEF Rank, BeforeOf
<1> QED
  BY <1>1, <1>5, <1>6, <1>7

LEMMA RankGrows ==
  ASSUME NEW t \in Seq(Entry), NEW i \in DOMAIN t, NEW j \in DOMAIN t, Before(t, i, j)
  PROVE  Rank(t, i) < Rank(t, j)
<1>1. /\ BeforeOf(t, i) \in SUBSET BeforeOf(t, j)
      /\ i \in BeforeOf(t, j) /\ i \notin BeforeOf(t, i)
  BY BeforeIsAnOrder DEF BeforeOf
<1>2. /\ Cardinality(BeforeOf(t, i)) <= Cardinality(BeforeOf(t, j))
      /\ Cardinality(BeforeOf(t, i)) # Cardinality(BeforeOf(t, j))
  BY <1>1, RankType, FS_Subset
<1> QED
  BY <1>2, RankType

LEMMA RanksDiffer ==
  ASSUME NEW t \in Seq(Entry), NEW i \in DOMAIN t, NEW j \in DOMAIN t, i # j
  PROVE  Rank(t, i) # Rank(t, j)
<1>1. Rank(t, i) \in Int /\ Rank(t, j) \in Int
  BY RankType
<1> QED
  BY <1>1, BeforeIsAnOrder, RankGrows

LEMMA RankOnto ==
  ASSUME NEW t \in Seq(Entry), NEW n \in DOMAIN t
  PROVE  \E i \in DOMAIN t : Rank(t, i) = n
<1> DEFINE r == [i \in DOMAIN t |-> Rank(t, i)]
<1>1. IsFiniteSet(DOMAIN t)
  BY FS_Interval
<1>2. r \in [DOMAIN t -> DOMAIN t]
  BY RankType
<1>3. \A i, j \in DOMAIN t : r[i] = r[j] => i = j
  BY RanksDiffer
<1>4. r \in Injection(DOMAIN t, DOMAIN t)
  BY <1>2, <1>3 DEF Injection, IsInjective
<1> HIDE DEF r
<1>5. r \in Surjection(DOMAIN t, DOMAIN t)
  BY <1>1, <1>4, FS_Injection
<1>6. PICK i \in DOMAIN t : r[i] = n
  BY <1>5 DEF Surjection
<1> QED
  BY <1>6 DEF r

Place(t, n) == CHOOSE i \in DOMAIN t : Rank(t, i) = n

LEMMA Sorting ==
  ASSUME NEW t \in Seq(Entry)
  PROVE  /\ ByIdentifier(t) \in Seq(Entry) /\ Len(ByIdentifier(t)) = Len(t)
         /\ \A n \in DOMAIN t : /\ Place(t, n) \in DOMAIN t /\ Rank(t, Place(t, n)) = n
                                /\ ByIdentifier(t)[n] = t[Place(t, n)]
         /\ \A m, n \in DOMAIN t : m # n => Place(t, m) # Place(t, n)
<1>1. \A n \in DOMAIN t : Place(t, n) \in DOMAIN t /\ Rank(t, Place(t, n)) = n
  BY RankOnto DEF Place
<1>2. ByIdentifier(t) = [n \in DOMAIN t |-> t[Place(t, n)]]
  BY DEF ByIdentifier, Place
<1>3. DOMAIN t = 1..Len(t) /\ Len(t) \in Nat /\ \A n \in DOMAIN t : t[n] \in Entry
  OBVIOUS
<1>4. ByIdentifier(t) \in [1..Len(t) -> Entry]
  BY <1>1, <1>2, <1>3
<1>5. ByIdentifier(t) \in Seq(Entry) /\ Len(ByIdentifier(t)) = Len(t)
  BY <1>3, <1>4
<1> QED
  BY <1>1, <1>2, <1>5

-----------------------------------------------------------------------------
(* Two tables with the same entries, each under a name of its own, are the  *)
(* same when sorted: a rank counts the names that come before.              *)

OneName(t) == \A i, j \in DOMAIN t : i # j => t[i].ident # t[j].ident
OneType(t) == \A i, j \in DOMAIN t : i # j => t[i].tid # t[j].tid
Lower(S, e) == {f \in S : f.ident < e.ident}

LEMMA RankAmong ==
  ASSUME NEW t \in Seq(Entry), OneName(t), NEW i \in DOMAIN t
  PROVE  Rank(t, i) = 1 + Cardinality(Lower(ToSet(t), t[i]))
<1> DEFINE f == [j \in BeforeOf(t, i) |-> t[j]]
<1>1. \A j \in DOMAIN t : t[j].ident \in Int /\ j \in Int
  BY TablesAssumption
<1>2. ToSet(t) = {t[j] : j \in DOMAIN t}
  BY DEF ToSet
<1>3. \A j \in DOMAIN t : j \in BeforeOf(t, i) <=> t[j].ident < t[i].ident
  BY <1>1 DEF BeforeOf, Before, OneName
<1>4. f \in [BeforeOf(t, i) -> Lower(ToSet(t), t[i])]
  BY <1>2, <1>3 DEF Lower, BeforeOf
<1>5. \A j, k \in BeforeOf(t, i) : f[j] = f[k] => j = k
  BY DEF BeforeOf, OneName
<1>6. \A e \in Lower(ToSet(t), t[i]) : \E j \in BeforeOf(t, i) : f[j] = e
  BY <1>2, <1>3 DEF Lower
<1>7. f \in Bijection(BeforeOf(t, i), Lower(ToSet(t), t[i]))
  BY <1>4, <1>5, <1>6 DEF Bijection, Injection, Surjection, IsInjective
<1> HIDE DEF f
<1>8. Cardinality(Lower(ToSet(t), t[i])) = Cardinality(BeforeOf(t, i))
  BY <1>7, RankType, FS_Bijection DEF ExistsBijection
<1> QED
  BY <1>8, RankType

LEMMA LenAmong ==
  ASSUME NEW t \in Seq(Entry), OneName(t)
  PROVE  Len(t) = Cardinality(ToSet(t))
<1> DEFINE f == [j \in DOMAIN t |-> t[j]]
<1>1. ToSet(t) = {t[j] : j \in DOMAIN t}
  BY DEF ToSet
<1>2. DOMAIN t = 1..Len(t) /\ Len(t) \in Nat
  OBVIOUS
<1>3. IsFiniteSet(DOMAIN t) /\ Cardinality(DOMAIN t) = Len(t)
  BY <1>2, FS_Interval
<1>4. /\ f \in [DOMAIN t -> ToSet(t)]
      /\ \A j, k \in DOMAIN t : f[j] = f[k] => j = k
      /\ \A e \in ToSet(t) : \E j \in DOMAIN t : f[j] = e
  BY <1>1 DEF OneName
<1>5. f \in Bijection(DOMAIN t, ToSet(t))
  BY <1>4 DEF Bijection, Injection, Surjection, IsInjective
<1> HIDE DEF f
<1> QED
  BY <1>3, <1>5, FS_Bijection DEF ExistsBijection

LEMMA SortedAgree ==
  ASSUME NEW t \in Seq(Entry), NEW u \in Seq(Entry), OneName(t), OneName(u),
         ToSet(t) = ToSet(u)
  PROVE  ByIdentifier(t) = ByIdentifier(u)
<1>1. Len(t) = Len(u) /\ DOMAIN t = DOMAIN u
  BY LenAmong
<1>2. ASSUME NEW n \in DOMAIN t
      PROVE  t[Place(t, n)] = u[Place(u, n)]
  <2>1. /\ Place(t, n) \in DOMAIN t /\ Rank(t, Place(t, n)) = n
        /\ Place(u, n) \in DOMAIN u /\ Rank(u, Place(u, n)) = n
    BY <1>1, Sorting
  <2>2. u[Place(u, n)] \in ToSet(t)
    BY <2>1 DEF ToSet
  <2>3. PICK k \in DOMAIN t : t[k] = u[Place(u, n)]
    BY <2>2 DEF ToSet
  <2>4. Rank(t, k) = Rank(u, Place(u, n))
    BY <2>1, <2>3, RankAmong
  <2>5. k = Place(t, n)
    BY <2>1, <2>4, RanksDiffer
  <2> QED
    BY <2>3, <2>5
<1>3. /\ ByIdentifier(t) = [n \in DOMAIN t |-> t[Place(t, n)]]
      /\ ByIdentifier(u) = [n \in DOMAIN u |-> u[Place(u, n)]]
  BY DEF ByIdentifier, Place
<1> QED
  BY <1>1, <1>2, <1>3

-----------------------------------------------------------------------------
(* The tables.  What register and join check keeps every type and, in a     *)
(* SortedMsgTable, every name unique; parts are those of a table as it was  *)
(* when it was built, with C, R and D new to it.                            *)

TableOK(t) ==
  /\ t \in Seq(Entry) /\ OneType(t)
  /\ kind = "SortedMsgTable" => OneName(t)

BuiltFrom(b, p) ==
  /\ \A i \in 1..3 : CanRegister(table[p], ConDisconTypes(b)[i])
  /\ parts[p] = Parts(ConDisconTypes(b) \o Ordered(table[p]))

TablesInv ==
  /\ kind \in {"MsgTable", "SortedMsgTable"}
  /\ DOMAIN table = Peer /\ table = [p \in Peer |-> table[p]]
  /\ parts = [p \in Peer |-> parts[p]]
  /\ \A p \in Peer : TableOK(table[p])
  /\ \A p \in Peer : parts[p] = Unbuilt \/ \E b \in BuildTypes : BuiltFrom(b, p)

LEMMA Joined ==
  ASSUME NEW t, TableOK(t), NEW u \in Seq(Entry), OneType(u), OneName(u),
         \A i \in DOMAIN u : CanRegister(t, u[i])
  PROVE  TableOK(t \o u)
<1>1. t \in Seq(Entry) /\ t \o u \in Seq(Entry) /\ Len(t) \in Nat /\ Len(u) \in Nat
  BY DEF TableOK
<1>2. DOMAIN (t \o u) = 1..(Len(t) + Len(u)) /\ DOMAIN t = 1..Len(t) /\ DOMAIN u = 1..Len(u)
  BY <1>1
<1>3. \A i \in DOMAIN (t \o u) :
        \/ i \in DOMAIN t /\ (t \o u)[i] = t[i]
        \/ i - Len(t) \in DOMAIN u /\ (t \o u)[i] = u[i - Len(t)]
  BY <1>1
<1>4. \A i, j \in Int : i - Len(t) = j - Len(t) => i = j
  BY <1>1
<1>5. \A i \in DOMAIN t, j \in DOMAIN u :
        t[i].tid # u[j].tid /\ (kind = "SortedMsgTable" => t[i].ident # u[j].ident)
  BY DEF CanRegister, TidRegistered, IdentifierRegistered
<1> DEFINE s == t \o u
<1>6. \A i \in DOMAIN s : i \in Int
  BY <1>1, <1>2
<1> HIDE DEF s
<1>7. \A i, j \in DOMAIN s : i # j =>
        s[i].tid # s[j].tid /\ (kind = "SortedMsgTable" => s[i].ident # s[j].ident)
  <2> SUFFICES ASSUME NEW i \in DOMAIN s, NEW j \in DOMAIN s, i # j
               PROVE  s[i].tid # s[j].tid /\ (kind = "SortedMsgTable" => s[i].ident # s[j].ident)
    OBVIOUS
  <2>1. /\ \/ i \in DOMAIN t /\ s[i] = t[i]
           \/ i - Len(t) \in DOMAIN u /\ s[i] = u[i - Len(t)]
        /\ \/ j \in DOMAIN t /\ s[j] = t[j]
           \/ j - Len(t) \in DOMAIN u /\ s[j] = u[j - Len(t)]
    BY <1>3 DEF s
  <2>2. i - Len(t) # j - Len(t)
    BY <1>4, <1>6
  <2> QED
    BY <1>5, <2>1, <2>2 DEF OneType, OneName, TableOK
<1> QED
  BY <1>1, <1>7 DEF TableOK, OneType, OneName, s

LEMMA TablesStart == TablesInit => TablesInv
<1> SUFFICES ASSUME TablesInit
             PROVE  TablesInv
  OBVIOUS
<1>1. TableOK(<<>>)
  BY DEF TableOK, OneType, OneName
<1> QED
  BY <1>1 DEF TablesInit, TablesInv

LEMMA KindKept ==
  ASSUME UNCHANGED kind, NEW q \in Peer
  PROVE  TableOK(table[q])' <=> TableOK(table'[q])
BY DEF TableOK, OneType, OneName

LEMMA TablesRegister ==
  ASSUME TablesInv, NEW p \in Peer, NEW e \in Entry, Register(p, e)
  PROVE  TablesInv'
<1>1. /\ parts[p] = Unbuilt /\ UNCHANGED <<kind, parts>> /\ CanRegister(table[p], e)
      /\ table' = [table EXCEPT ![p] = Append(@, e)]
  BY DEF Register
<1>2. Append(table[p], e) = table[p] \o <<e>> /\ <<e>> \in Seq(Entry)
  BY DEF TablesInv, TableOK
<1>3. OneType(<<e>>) /\ OneName(<<e>>) /\ \A i \in DOMAIN <<e>> : CanRegister(table[p], <<e>>[i])
  BY <1>1 DEF OneType, OneName
<1>4. TableOK(table[p] \o <<e>>)
  BY <1>2, <1>3, Joined DEF TablesInv
<1>5. /\ table'[p] = table[p] \o <<e>> /\ \A q \in Peer \ {p} : table'[q] = table[q]
      /\ table' = [q \in Peer |-> table'[q]] /\ DOMAIN table' = Peer
  BY <1>1, <1>2 DEF TablesInv
<1>6. \A q \in Peer : TableOK(table[q])'
  BY <1>1, <1>4, <1>5, KindKept DEF TablesInv
<1>7. \A q \in Peer : parts'[q] = Unbuilt \/ \E b \in BuildTypes : BuiltFrom(b, q)'
  BY <1>1, <1>5 DEF TablesInv, BuiltFrom, CanRegister, Ordered
<1> QED
  BY <1>1, <1>5, <1>6, <1>7 DEF TablesInv

LEMMA TablesJoin ==
  ASSUME TablesInv, NEW p \in Peer, NEW other \in Plugins, Join(p, other)
  PROVE  TablesInv'
<1>1. /\ parts[p] = Unbuilt /\ UNCHANGED <<kind, parts>>
      /\ \A i \in DOMAIN other : CanRegister(table[p], other[i])
      /\ table' = [table EXCEPT ![p] = @ \o other]
  BY DEF Join
<1>2. other \in Seq(Entry) /\ OneType(other) /\ OneName(other)
  BY TablesAssumption DEF OneType, OneName
<1>3. TableOK(table[p] \o other)
  BY <1>1, <1>2, Joined DEF TablesInv
<1>4. /\ table'[p] = table[p] \o other /\ \A q \in Peer \ {p} : table'[q] = table[q]
      /\ table' = [q \in Peer |-> table'[q]] /\ DOMAIN table' = Peer
  BY <1>1 DEF TablesInv
<1>5. \A q \in Peer : TableOK(table[q])'
  BY <1>1, <1>3, <1>4, KindKept DEF TablesInv
<1>6. \A q \in Peer : parts'[q] = Unbuilt \/ \E b \in BuildTypes : BuiltFrom(b, q)'
  BY <1>1, <1>4 DEF TablesInv, BuiltFrom, CanRegister, Ordered
<1> QED
  BY <1>1, <1>4, <1>5, <1>6 DEF TablesInv

LEMMA TablesBuild ==
  ASSUME TablesInv, NEW p \in Peer, NEW b \in BuildTypes, Build(p, b)
  PROVE  TablesInv'
<1>1. parts[p] = Unbuilt /\ UNCHANGED kind
  BY DEF Build
<1>2. CASE \A i \in 1..3 : CanRegister(table[p], ConDisconTypes(b)[i])
  <2>1. /\ UNCHANGED table
        /\ parts' = [parts EXCEPT ![p] = Parts(ConDisconTypes(b) \o Ordered(table[p]))]
    BY <1>2 DEF Build
  <2>2. /\ parts'[p] = Parts(ConDisconTypes(b) \o Ordered(table[p]))
        /\ \A q \in Peer \ {p} : parts'[q] = parts[q]
        /\ parts' = [q \in Peer |-> parts'[q]]
    BY <2>1 DEF TablesInv
  <2>3. BuiltFrom(b, p)'
    BY <1>1, <1>2, <2>1, <2>2 DEF BuiltFrom, CanRegister, Ordered
  <2>4. \A q \in Peer \ {p}, c \in BuildTypes : BuiltFrom(c, q) => BuiltFrom(c, q)'
    BY <1>1, <2>1, <2>2 DEF BuiltFrom, CanRegister, Ordered
  <2>5. \A q \in Peer : TableOK(table[q])'
    BY <1>1, <2>1 DEF TablesInv, TableOK
  <2> QED
    BY <1>1, <2>1, <2>2, <2>3, <2>4, <2>5 DEF TablesInv
<1>3. CASE ~\A i \in 1..3 : CanRegister(table[p], ConDisconTypes(b)[i])
  <2>1. UNCHANGED parts /\ table' = [table EXCEPT ![p] = <<>>]
    BY <1>3 DEF Build
  <2>2. /\ table'[p] = <<>> /\ \A q \in Peer \ {p} : table'[q] = table[q]
        /\ table' = [q \in Peer |-> table'[q]] /\ DOMAIN table' = Peer
    BY <2>1 DEF TablesInv
  <2>3. TableOK(<<>>)
    BY DEF TableOK, OneType, OneName
  <2>4. \A q \in Peer : TableOK(table[q])'
    BY <1>1, <2>2, <2>3, KindKept DEF TablesInv
  <2>5. \A q \in Peer : parts'[q] = Unbuilt \/ \E c \in BuildTypes : BuiltFrom(c, q)'
    BY <1>1, <2>1, <2>2 DEF TablesInv, BuiltFrom, CanRegister, Ordered
  <2> QED
    BY <1>1, <2>1, <2>2, <2>4, <2>5 DEF TablesInv
<1> QED
  BY <1>2, <1>3

LEMMA TablesStep ==
  ASSUME TablesInv, [UdpNext]_allVars
  PROVE  TablesInv'
<1>1. CASE TablesNext
  BY <1>1, TablesRegister, TablesJoin, TablesBuild DEF TablesNext
<1>2. CASE UNCHANGED tableVars
  BY <1>2 DEF tableVars, TablesInv, TableOK, BuiltFrom, CanRegister, Ordered
<1> QED
  BY <1>1, <1>2 DEF UdpNext, allVars, Tick, Lose, Send, ClearMsgs, Recv

-----------------------------------------------------------------------------
(* What build returns.                                                      *)

LEMMA OrderedTable ==
  ASSUME NEW t, TableOK(t)
  PROVE  /\ Ordered(t) \in Seq(Entry) /\ Len(Ordered(t)) = Len(t)
         /\ \A n \in DOMAIN t : \E i \in DOMAIN t : Ordered(t)[n] = t[i]
         /\ OneType(Ordered(t))
<1>1. t \in Seq(Entry) /\ OneType(t)
  BY DEF TableOK
<1>2. CASE kind = "SortedMsgTable"
  <2>1. Ordered(t) = ByIdentifier(t)
    BY <1>2 DEF Ordered
  <2>2. /\ ByIdentifier(t) \in Seq(Entry) /\ Len(ByIdentifier(t)) = Len(t)
        /\ DOMAIN ByIdentifier(t) = DOMAIN t
    BY <1>1, Sorting
  <2>3. /\ \A n \in DOMAIN t : Place(t, n) \in DOMAIN t /\ ByIdentifier(t)[n] = t[Place(t, n)]
        /\ \A m, n \in DOMAIN t : m # n => Place(t, m) # Place(t, n)
    BY <1>1, Sorting
  <2>4. OneType(ByIdentifier(t))
    BY <1>1, <2>2, <2>3 DEF OneType
  <2> QED
    BY <2>1, <2>2, <2>3, <2>4
<1>3. CASE kind # "SortedMsgTable"
  BY <1>1, <1>3 DEF Ordered
<1> QED
  BY <1>2, <1>3

LEMMA ThreeBefore ==
  ASSUME NEW U, NEW c \in Seq(U), Len(c) = 3, NEW o \in Seq(U)
  PROVE  /\ Len(o) \in Nat /\ DOMAIN (c \o o) = 1..(3 + Len(o))
         /\ \A i \in 1..(3 + Len(o)) : (c \o o)[i] = IF i <= 3 THEN c[i] ELSE o[i - 3]
<1>1. Len(o) \in Nat
  OBVIOUS
<1>2. /\ c \o o \in Seq(U) /\ Len(c \o o) = Len(c) + Len(o)
      /\ \A i \in 1..(Len(c) + Len(o)) : (c \o o)[i] = IF i <= Len(c) THEN c[i] ELSE o[i - Len(c)]
  BY ConcatProperties, Zenon
<1> DEFINE s == c \o o
<1> HIDE DEF s
<1>3. s \in Seq(U) /\ Len(s) = 3 + Len(o)
  BY <1>2 DEF s
<1>4. DOMAIN s = 1..(3 + Len(o))
  BY <1>1, <1>3
<1> QED
  BY <1>1, <1>2, <1>4 DEF s

LEMMA PartsOf ==
  ASSUME NEW p \in Peer, NEW b, TableOK(table[p]), BuiltFrom(b, p)
  PROVE  /\ Len(table[p]) \in Nat
         /\ parts[p].types = [i \in 1..(3 + Len(table[p])) |->
              IF i <= 3 THEN b[i] ELSE Ordered(table[p])[i - 3].tid]
         /\ DOMAIN parts[p].transports = 1..(3 + Len(table[p]))
         /\ MidCount(p) = 3 + Len(table[p])
<1> DEFINE o == Ordered(table[p])
           s == ConDisconTypes(b) \o o
<1>1. /\ o \in Seq(Entry) /\ Len(o) = Len(table[p]) /\ Len(table[p]) \in Nat
  BY OrderedTable DEF TableOK
<1>2. /\ parts[p].types = [i \in DOMAIN s |-> s[i].tid]
      /\ parts[p].transports = [i \in DOMAIN s |-> s[i].transport]
  BY DEF BuiltFrom, Parts
<1> HIDE DEF o
<1>3. /\ Len(ConDisconTypes(b)) = 3
      /\ \A i \in 1..3 : ConDisconTypes(b)[i].tid = b[i]
  BY DEF ConDisconTypes
<1>4. ConDisconTypes(b) \in Seq({ConDisconTypes(b)[i] : i \in 1..3})
  BY DEF ConDisconTypes
<1> DEFINE U == Entry \cup {ConDisconTypes(b)[i] : i \in 1..3}
<1>5. ConDisconTypes(b) \in Seq(U) /\ o \in Seq(U)
  BY <1>1, <1>4
<1> HIDE DEF U
<1>6. /\ DOMAIN s = 1..(3 + Len(table[p]))
      /\ \A i \in DOMAIN s : s[i] = IF i <= 3 THEN ConDisconTypes(b)[i] ELSE o[i - 3]
  BY <1>1, <1>3, <1>5, ThreeBefore
<1> HIDE DEF s
<1>7. \A i \in DOMAIN s : s[i].tid = IF i <= 3 THEN b[i] ELSE o[i - 3].tid
  BY <1>1, <1>3, <1>6
<1>8. MidCount(p) = 3 + Len(table[p])
  BY <1>1, <1>2, <1>6 DEF MidCount
<1> QED
  BY <1>1, <1>2, <1>6, <1>7, <1>8 DEF o

(* Two peers that registered the same build the same.                       *)
LEMMA AgreeNow == TablesInv => PeersAgree
<1> SUFFICES ASSUME TablesInv, NEW p \in Peer, NEW q \in Peer, SameRegistrations(p, q)
             PROVE  parts[p] = parts[q]
  BY DEF PeersAgree
<1>1. PICK b \in BuildTypes : BuiltFrom(b, p)
  BY DEF TablesInv, SameRegistrations, Built
<1>2. PICK c \in BuildTypes : BuiltFrom(c, q)
  BY DEF TablesInv, SameRegistrations, Built
<1>3. TableOK(table[p]) /\ TableOK(table[q])
  BY DEF TablesInv
<1>4. Ordered(table[p]) = Ordered(table[q])
  <2>1. CASE kind = "SortedMsgTable"
    BY <1>3, <2>1, SortedAgree DEF SameRegistrations, TableOK, Ordered
  <2>2. CASE kind # "SortedMsgTable"
    BY <2>2 DEF SameRegistrations
  <2> QED
    BY <2>1, <2>2
<1>5. \A i \in 1..3 : parts[p].types[i] = b[i] /\ parts[q].types[i] = c[i]
  <2>1. /\ Len(table[p]) \in Nat
        /\ parts[p].types = [i \in 1..(3 + Len(table[p])) |->
             IF i <= 3 THEN b[i] ELSE Ordered(table[p])[i - 3].tid]
    BY <1>1, <1>3, PartsOf
  <2>2. /\ Len(table[q]) \in Nat
        /\ parts[q].types = [i \in 1..(3 + Len(table[q])) |->
             IF i <= 3 THEN c[i] ELSE Ordered(table[q])[i - 3].tid]
    BY <1>2, <1>3, PartsOf
  <2> QED
    BY <2>1, <2>2
<1>6. \A i \in 1..3 : /\ SubSeq(parts[p].types, 1, 3)[i] = parts[p].types[i]
                      /\ SubSeq(parts[q].types, 1, 3)[i] = parts[q].types[i]
  OBVIOUS
<1>7. b[1] = c[1] /\ b[2] = c[2] /\ b[3] = c[3]
  BY <1>5, <1>6 DEF SameRegistrations
<1>8. ConDisconTypes(b) = ConDisconTypes(c)
  BY <1>7 DEF ConDisconTypes
<1> QED
  BY <1>1, <1>2, <1>4, <1>8 DEF BuiltFrom

(* Two places of the parts have two types, if C, R and D are three.         *)
LEMMA UniversalNow == TablesInv => UniversalMIds
<1> SUFFICES ASSUME TablesInv, NEW p \in Peer, Built(p),
                    Cardinality({parts[p].types[i] : i \in 1..3}) = 3,
                    NEW i \in DOMAIN parts[p].types
             PROVE  MidsOf(p, parts[p].types[i]) = {i - 1}
  BY DEF UniversalMIds
<1>1. PICK b \in BuildTypes : BuiltFrom(b, p)
  BY DEF TablesInv, Built
<1>2. TableOK(table[p])
  BY DEF TablesInv
<1> DEFINE t == table[p]
           o == Ordered(t)
           n == Len(t)
           y == parts[p].types
<1>3. /\ n \in Nat
      /\ y = [k \in 1..(3 + n) |-> IF k <= 3 THEN b[k] ELSE o[k - 3].tid]
  BY <1>1, <1>2, PartsOf
<1>4. /\ o \in Seq(Entry) /\ Len(o) = n /\ OneType(o) /\ DOMAIN o = 1..n
      /\ \A k \in DOMAIN o : \E m \in DOMAIN t : o[k] = t[m]
  BY <1>2, OrderedTable DEF TableOK
<1>5. \A k \in 1..3, m \in DOMAIN o : b[k] # o[m].tid
  <2>1. \A k \in 1..3, m \in DOMAIN t : b[k] # t[m].tid
    BY <1>1 DEF BuiltFrom, CanRegister, TidRegistered, ConDisconTypes
  <2> QED
    BY <1>4, <2>1
<1> HIDE DEF t, o, n
<1>6. \A k, m \in 1..3 : k # m => b[k] # b[m]
  <2>1. {y[k] : k \in 1..3} = {b[1], b[2], b[3]}
    BY <1>3
  <2>2. Cardinality({b[1], b[2], b[3]}) = 3
    BY <2>1
  <2>3. ASSUME NEW x, NEW z
        PROVE  Cardinality({x, z}) # 3
    <3>1. IsFiniteSet({x}) /\ Cardinality({x}) = 1
      BY FS_Singleton
    <3>2. Cardinality({x} \cup {z}) = 1 \/ Cardinality({x} \cup {z}) = 1 + 1
      BY <3>1, FS_AddElement
    <3>3. {x} \cup {z} = {x, z}
      OBVIOUS
    <3> QED
      BY <3>2, <3>3
  <2>4. b[1] # b[2] /\ b[1] # b[3] /\ b[2] # b[3]
    <3>1. /\ b[1] = b[2] => {b[1], b[2], b[3]} = {b[1], b[3]}
          /\ b[1] = b[3] => {b[1], b[2], b[3]} = {b[1], b[2]}
          /\ b[2] = b[3] => {b[1], b[2], b[3]} = {b[1], b[2]}
      OBVIOUS
    <3> QED
      BY <2>2, <2>3, <3>1
  <2> QED
    BY <2>4
<1>7. \A k, m \in DOMAIN o : k # m => o[k].tid # o[m].tid
  BY <1>4 DEF OneType
<1>8. \A k, m \in 1..(3 + n) : k # m => y[k] # y[m]
  <2> SUFFICES ASSUME NEW k \in 1..(3 + n), NEW m \in 1..(3 + n), k # m
               PROVE  y[k] # y[m]
    OBVIOUS
  <2> HIDE DEF y
  <2>1. /\ k <= 3 => y[k] = b[k] /\ k \in 1..3
        /\ k > 3 => y[k] = o[k - 3].tid /\ k - 3 \in DOMAIN o
        /\ m <= 3 => y[m] = b[m] /\ m \in 1..3
        /\ m > 3 => y[m] = o[m - 3].tid /\ m - 3 \in DOMAIN o
    BY <1>3, <1>4
  <2>2. k - 3 # m - 3 /\ (k <= 3 \/ k > 3) /\ (m <= 3 \/ m > 3)
    BY <1>3
  <2> QED
    BY <1>5, <1>6, <1>7, <2>1, <2>2
<1>9. DOMAIN y = 1..(3 + n)
  BY <1>3
<1>10. {j \in DOMAIN y : y[j] = y[i]} = {i}
  BY <1>8, <1>9
<1> QED
  BY <1>10 DEF MidsOf

(* Peers that registered the same types, in whatever order a SortedMsgTable *)
(* got them, agree on all MIds (message_table.rs:14-15, 31-32).             *)
THEOREM PeersAlwaysAgree == UdpSpec => []PeersAgree
<1>1. UdpInit => TablesInv
  BY TablesStart DEF UdpInit
<1> QED
  BY <1>1, TablesStep, AgreeNow, PTL DEF UdpSpec

(* No type has two MIds and the connection types have the first three, if   *)
(* C, R and D are three types (message_table.rs:159-165).                   *)
THEOREM MIdsUniversal == UdpSpec => []UniversalMIds
<1>1. UdpInit => TablesInv
  BY TablesStart DEF UdpInit
<1> QED
  BY <1>1, TablesStep, UniversalNow, PTL DEF UdpSpec

-----------------------------------------------------------------------------
(* The MId a type is sent under is one of its places in the table.          *)

LEMMA Largest ==
  ASSUME NEW n \in Nat, NEW S \in SUBSET (0..n), S # {}
  PROVE  Max(S) \in S
<1> DEFINE T == {n - x : x \in S}
           R == OpToRel(<, Nat)
<1>0. \A x \in S : x \in Int /\ n - x \in Nat
  OBVIOUS
<1>1. T \subseteq Nat /\ T # {}
  BY <1>0
<1>2. \A x, y \in Nat : <<x, y>> \in R <=> x < y
  BY DEF OpToRel
<1>3. IsWellFoundedOn(R, Nat)
  BY NatLessThanWellFounded
<1> HIDE DEF R
<1>4. PICK y \in T : \A z \in T : ~(<<z, y>> \in R)
  BY <1>1, <1>3, WFMin
<1>5. PICK x \in S : y = n - x
  BY <1>4
<1>6. \A z \in S : n - z \in T
  OBVIOUS
<1>7. ASSUME NEW z \in S
      PROVE  x >= z
  <2>1. n - z \in T /\ n - z \in Nat /\ n - x \in Nat /\ z \in Int /\ x \in Int
    BY <1>0, <1>6
  <2>2. ~(<<n - z, n - x>> \in R)
    BY <1>4, <1>5, <2>1
  <2>3. ~(n - z < n - x)
    BY <1>2, <2>1, <2>2
  <2> QED
    BY <2>1, <2>3
<1> QED
  BY <1>7 DEF Max

LEMMA SentUnder ==
  ASSUME TablesInv, NEW p \in Peer, Built(p), NEW tid, ValidTid(p, tid)
  PROVE  /\ TidMap(p, tid) \in Nat /\ MidCount(p) \in Nat /\ TidMap(p, tid) < MidCount(p)
         /\ parts[p].types[TidMap(p, tid) + 1] = tid
<1>1. PICK b \in BuildTypes : BuiltFrom(b, p)
  BY DEF TablesInv, Built
<1>2. TableOK(table[p])
  BY DEF TablesInv
<1>3. PICK n \in Nat : MidCount(p) = n /\ DOMAIN parts[p].types = 1..n
  <2>1. /\ Len(table[p]) \in Nat /\ MidCount(p) = 3 + Len(table[p])
        /\ parts[p].types = [i \in 1..(3 + Len(table[p])) |->
             IF i <= 3 THEN b[i] ELSE Ordered(table[p])[i - 3].tid]
    BY <1>1, <1>2, PartsOf
  <2>2. DOMAIN parts[p].types = 1..(3 + Len(table[p])) /\ 3 + Len(table[p]) \in Nat
    BY <2>1
  <2> QED
    BY <2>1, <2>2
<1>4. MidsOf(p, tid) \in SUBSET (0..n)
  BY <1>3 DEF MidsOf
<1>5. TidMap(p, tid) \in MidsOf(p, tid)
  BY <1>4, Largest DEF ValidTid, TidMap
<1>6. PICK j \in DOMAIN parts[p].types : parts[p].types[j] = tid /\ TidMap(p, tid) = j - 1
  BY <1>5 DEF MidsOf
<1> QED
  BY <1>3, <1>6

-----------------------------------------------------------------------------
(* Datagrams are those of deployed peers, under the MIds of their types.    *)
WireInv ==
  /\ got = [p \in Peer |-> got[p]] /\ fate = [p \in Peer |-> fate[p]]
  /\ ~Deployed =>
       packets = {} /\ \A p \in Peer : got[p] = Nothing /\ fate[p] = "alive"
  /\ \A d \in packets :
       /\ d.from \in Peer /\ ValidTid(d.from, d.type)
       /\ d.mid = Cut(TidMap(d.from, d.type))
  /\ ReadAsSent

LEMMA WireStart == UdpInit => WireInv
<1> SUFFICES ASSUME UdpInit
             PROVE  WireInv
  OBVIOUS
<1>1. /\ packets = {} /\ got = [p \in Peer |-> Nothing] /\ fate = [p \in Peer |-> "alive"]
  BY DEF UdpInit
<1>2. \A p \in Peer : got[p] = Nothing /\ fate[p] = "alive"
  BY <1>1
<1> QED
  BY <1>1, <1>2 DEF WireInv, ReadAsSent

(* A deployed peer's table is built, so it is not changed any more.         *)
LEMMA WireTables ==
  ASSUME WireInv, TablesNext, UNCHANGED udpVars
  PROVE  WireInv'
<1>1. ~Deployed
  BY DEF TablesNext, Register, Join, Build, Deployed, SameRegistrations, Built
<1>2. UNCHANGED <<packets, got, fate>>
  BY DEF udpVars
<1>3. packets = {} /\ \A p \in Peer : got[p] = Nothing /\ fate[p] = "alive"
  BY <1>1 DEF WireInv
<1>4. ReadAsSent'
  BY <1>2, <1>3 DEF ReadAsSent, Nothing
<1> QED
  BY <1>2, <1>3, <1>4 DEF WireInv

LEMMA SameTables ==
  ASSUME UNCHANGED tableVars
  PROVE  /\ Deployed' <=> Deployed
         /\ \A p, tid : (ValidTid(p, tid)' <=> ValidTid(p, tid)) /\ TidMap(p, tid)' = TidMap(p, tid)
         /\ \A p : MidCount(p)' = MidCount(p)
<1>1. kind' = kind /\ table' = table /\ parts' = parts
  BY DEF tableVars
<1>2. Deployed' <=> Deployed
  BY <1>1 DEF Deployed, SameRegistrations, Built
<1>3. \A p, tid : (ValidTid(p, tid)' <=> ValidTid(p, tid)) /\ TidMap(p, tid)' = TidMap(p, tid)
  BY <1>1 DEF ValidTid, TidMap, MidsOf
<1>4. \A p : MidCount(p)' = MidCount(p)
  BY <1>1 DEF MidCount
<1> QED
  BY <1>2, <1>3, <1>4

LEMMA WireSend ==
  ASSUME WireInv, NEW p \in Peer, NEW tid, NEW size, Send(p, tid, size)
  PROVE  WireInv'
<1>1. UNCHANGED tableVars /\ UNCHANGED <<got, fate>> /\ Deployed /\ ValidTid(p, tid)
  BY DEF Send
<1>2. \A d \in packets' :
        d \in packets \/ (d.from = p /\ d.type = tid /\ d.mid = Cut(TidMap(p, tid)))
  BY DEF Send
<1>3. \A d \in packets' :
        /\ d.from \in Peer /\ ValidTid(d.from, d.type)
        /\ d.mid = Cut(TidMap(d.from, d.type))
  BY <1>1, <1>2 DEF WireInv
<1> HIDE DEF Send
<1>4. Deployed'
  BY <1>1, SameTables
<1>5. \A d \in packets' : ValidTid(d.from, d.type)' /\ TidMap(d.from, d.type)' = TidMap(d.from, d.type)
  BY <1>1, <1>3, SameTables
<1>6. ReadAsSent'
  BY <1>1, SameTables DEF WireInv, ReadAsSent
<1>7. \A d \in packets' :
        /\ d.from \in Peer /\ ValidTid(d.from, d.type)'
        /\ d.mid = Cut(TidMap(d.from, d.type)')
  BY <1>3, <1>5
<1> QED
  BY <1>1, <1>4, <1>6, <1>7 DEF WireInv, Cut

(* Sender and receiver are deployed, so the MId, which fits, is the         *)
(* receiver's of that type.                                                 *)
LEMMA MIdMeans ==
  ASSUME TablesInv, WireInv, NEW p \in Peer, NEW d \in packets, MidCount(p) <= Low
  PROVE  d.mid \in Nat /\ d.mid < MidCount(p) /\ MidCount(p) \in Nat
         /\ parts[p].types[d.mid + 1] = d.type
<1>1. Deployed
  BY DEF WireInv
<1>2. d.from \in Peer /\ ValidTid(d.from, d.type) /\ d.mid = Cut(TidMap(d.from, d.type))
  BY DEF WireInv
<1>3. Built(p) /\ Built(d.from) /\ SameRegistrations(d.from, p)
  BY <1>1, <1>2 DEF Deployed, SameRegistrations
<1>4. parts[d.from] = parts[p]
  BY <1>2, <1>3, AgreeNow DEF PeersAgree
<1>5. ValidTid(p, d.type) /\ TidMap(p, d.type) = TidMap(d.from, d.type)
  BY <1>2, <1>4 DEF ValidTid, TidMap, MidsOf
<1>6. /\ TidMap(p, d.type) \in Nat /\ MidCount(p) \in Nat /\ TidMap(p, d.type) < MidCount(p)
      /\ parts[p].types[TidMap(p, d.type) + 1] = d.type
  BY <1>3, <1>5, SentUnder
<1>7. PICK m \in Nat : m = TidMap(p, d.type)
  BY <1>6
<1>8. m < Low /\ Low \in Nat \ {0}
  BY <1>6, <1>7, UdpAssumption
<1>9. Cut(m) = m
  <2>1. m = Low * 0 + m /\ m \in 0..(Low - 1)
    BY <1>8
  <2>2. m % Low = m
    BY <1>8, <2>1, Unique
  <2> QED
    BY <2>2 DEF Cut
<1> QED
  BY <1>2, <1>5, <1>6, <1>7, <1>9

LEMMA WireRecv ==
  ASSUME TablesInv, WireInv, NEW p \in Peer, NEW d \in packets, Recv(p, d)
  PROVE  WireInv'
<1>1. UNCHANGED tableVars /\ packets' \subseteq packets
  BY DEF Recv
<1>2. Deployed /\ Deployed'
  BY <1>1, SameTables DEF WireInv
<1>3. \A e \in packets' :
        /\ e.from \in Peer /\ ValidTid(e.from, e.type)'
        /\ e.mid = Cut(TidMap(e.from, e.type)')
  BY <1>1, SameTables DEF WireInv
<1>4. /\ got' = [q \in Peer |-> got'[q]] /\ fate' = [q \in Peer |-> fate'[q]]
      /\ \A q \in Peer \ {p} : got'[q] = got[q] /\ fate'[q] = fate[q]
  BY DEF Recv, WireInv
<1>5. MidCount(p) <= Low =>
        /\ fate'[p] # "index panic"
        /\ got'[p] # Nothing => got'[p].read = got'[p].type
  <2> SUFFICES ASSUME MidCount(p) <= Low
               PROVE  /\ fate'[p] # "index panic"
                      /\ got'[p] # Nothing => got'[p].read = got'[p].type
    OBVIOUS
  <2>1. d.mid \in Nat /\ d.mid < MidCount(p) /\ MidCount(p) \in Nat
        /\ parts[p].types[d.mid + 1] = d.type
    BY MIdMeans
  <2>2. d.mid # MidCount(p) /\ fate[p] # "index panic" /\ got[p] = Nothing
    <3>1. fate[p] = "alive" /\ got[p] = Nothing
      BY DEF Recv
    <3> QED
      BY <2>1, <3>1
  <2>3. fate'[p] # "index panic"
    BY <2>2 DEF Recv, WireInv
  <2>4. got' = got \/ \E m \in Read(p, d) : got' = [got EXCEPT ![p] = m]
    BY DEF Recv
  <2>5. \A m \in Read(p, d) : m = Nothing \/ m.read = m.type
    BY <2>1 DEF Read, Outcome
  <2>6. got'[p] = Nothing \/ got'[p].read = got'[p].type
    BY <2>2, <2>4, <2>5 DEF WireInv
  <2> QED
    BY <2>3, <2>6
<1>6. ReadAsSent'
  <2>1. \A q \in Peer : MidCount(q)' = MidCount(q)
    BY <1>1, SameTables
  <2>2. \A q \in Peer \ {p} : MidCount(q) <= Low =>
          fate'[q] # "index panic" /\ (got'[q] # Nothing => got'[q].read = got'[q].type)
    BY <1>4 DEF WireInv, ReadAsSent
  <2>3. \A q \in Peer : MidCount(q) <= Low =>
          fate'[q] # "index panic" /\ (got'[q] # Nothing => got'[q].read = got'[q].type)
    BY <1>5, <2>2
  <2> QED
    BY <2>1, <2>3 DEF ReadAsSent, Nothing
<1> QED
  BY <1>2, <1>3, <1>4, <1>6 DEF WireInv, Cut

LEMMA WireOther ==
  ASSUME WireInv, UNCHANGED <<tableVars, fate>>, packets' \subseteq packets,
         UNCHANGED got \/ \E p \in Peer : got' = [got EXCEPT ![p] = Nothing]
  PROVE  WireInv'
<1>1. UNCHANGED tableVars /\ fate' = fate
  OBVIOUS
<1>2. /\ got' = [q \in Peer |-> got'[q]]
      /\ \A q \in Peer : got'[q] = got[q] \/ got'[q] = Nothing
  BY DEF WireInv
<1>3. \A e \in packets' :
        /\ e.from \in Peer /\ ValidTid(e.from, e.type)'
        /\ e.mid = Cut(TidMap(e.from, e.type)')
  BY <1>1, SameTables DEF WireInv
<1>4. ReadAsSent'
  <2>1. \A q \in Peer : MidCount(q)' = MidCount(q)
    BY <1>1, SameTables
  <2>2. \A q \in Peer : MidCount(q) <= Low =>
          fate'[q] # "index panic" /\ (got'[q] # Nothing => got'[q].read = got'[q].type)
    BY <1>1, <1>2 DEF WireInv, ReadAsSent
  <2> QED
    BY <2>1, <2>2 DEF ReadAsSent, Nothing
<1>5. ~Deployed' => packets' = {} /\ \A q \in Peer : got'[q] = Nothing /\ fate'[q] = "alive"
  BY <1>1, <1>2, SameTables DEF WireInv
<1> QED
  BY <1>1, <1>2, <1>3, <1>4, <1>5 DEF WireInv, Cut

LEMMA WireStep ==
  ASSUME TablesInv, WireInv, [UdpNext]_allVars
  PROVE  WireInv'
<1>1. CASE TablesNext /\ UNCHANGED udpVars
  BY <1>1, WireTables
<1>2. CASE Tick \/ Lose \/ (\E p \in Peer : ClearMsgs(p)) \/ UNCHANGED allVars
  <2>1. /\ UNCHANGED <<tableVars, fate>> /\ packets' \subseteq packets
        /\ UNCHANGED got \/ \E p \in Peer : got' = [got EXCEPT ![p] = Nothing]
    BY <1>2 DEF Tick, Lose, ClearMsgs, allVars, udpVars
  <2> QED
    BY <2>1, WireOther
<1>3. ASSUME NEW p \in Sender, NEW tid, NEW size, Send(p, tid, size)
      PROVE  WireInv'
  BY <1>3, WireSend, UdpAssumption
<1> QED
  BY <1>1, <1>2, <1>3, WireRecv DEF UdpNext

(* A datagram is read as the type it was sent as and no MId leads past the  *)
(* table, for tables of any size that the header's 16 bits can number       *)
(* (header.rs:73, message_table.rs:358).                                    *)
THEOREM AlwaysReadAsSent == UdpSpec => []ReadAsSent
<1>1. UdpInit => TablesInv /\ WireInv
  BY TablesStart, WireStart DEF UdpInit
<1>2. WireInv => ReadAsSent
  BY DEF WireInv
<1> QED
  BY <1>1, <1>2, TablesStep, WireStep, PTL DEF UdpSpec
=============================================================================
