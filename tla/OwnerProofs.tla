---------------------------- MODULE OwnerProofs -----------------------------
(***************************************************************************)
(* Theorems about Session: a connection is in one place of the server, the *)
(* backlog, the pending list or the map, and there once; and a CId has the *)
(* life that module Roster promises.                                       *)
(***************************************************************************)
EXTENDS SessionProofs, FiniteSetTheorems

BacklogCons == {backlog[i] : i \in 1..Len(backlog)}
RegisteredCons == {tcp[c] : c \in DOMAIN tcp}

(* ConOnce, strengthened: a connection in any place has been opened, so     *)
(* that the one a client opens now is in none.                              *)
Places ==
  /\ \A i, j \in 1..Len(new_cons) : i # j => new_cons[i].con # new_cons[j].con
  /\ \A i, j \in 1..Len(backlog) : i # j => backlog[i] # backlog[j]
  /\ \A c, d \in DOMAIN tcp : c # d => tcp[c] # tcp[d]
  /\ PendingCons \cap RegisteredCons = {}
  /\ BacklogCons \cap (PendingCons \cup RegisteredCons) = {}
  /\ \A k \in BacklogCons \cup PendingCons \cup RegisteredCons : phase[k] # "idle"

Forward == \A k \in Conn : phase[k] # "idle" => phase'[k] # "idle"

LEMMA PlacesGive == ASSUME Places PROVE ConOnce
  BY DEF Places, ConOnce, PendingCons, BacklogCons, RegisteredCons, Registered

LEMMA PlacesInit == Init => Places
  BY DEF Init, SocketsInit, ServerInit, Places, PendingCons, BacklogCons, RegisteredCons

LEMMA PlaceTypes ==
  ASSUME SystemInv
  PROVE  /\ new_cons \in Seq(Pending) /\ Len(new_cons) \in Nat
         /\ backlog \in Seq(Conn) /\ Len(backlog) \in Nat
         /\ PendingCons \subseteq Conn /\ BacklogCons \subseteq Conn
         /\ RegisteredCons \subseteq Conn
<1>1. /\ new_cons \in Seq(Pending) /\ backlog \in Seq(Conn)
      /\ tcp \in [DOMAIN tcp -> Conn]
  BY DEF SystemInv, ServerInv, SocketsTypeOK, ServerTypeOK
<1>2. \A i \in 1..Len(new_cons) : new_cons[i].con \in Conn
  <2>1. \A i \in 1..Len(new_cons) : new_cons[i] \in Pending
    BY <1>1, ElementOfSeq
  <2> QED
    BY <2>1 DEF Pending
<1>3. \A i \in 1..Len(backlog) : backlog[i] \in Conn
  BY <1>1, ElementOfSeq
<1> QED
  BY <1>1, <1>2, <1>3, LenProperties DEF PendingCons, BacklogCons, RegisteredCons

(* No client goes back to "idle".                                           *)
LEMMA PhaseStep ==
  ASSUME SystemInv, [Next]_vars
  PROVE  Forward
<1>1. phase \in [Conn -> Phase]
  BY DEF SystemInv, ClientTypeOK
<1>2. CASE ServerStep \/ ShutDown \/ NetworkStep \/ UNCHANGED vars
  BY <1>2 DEF ServerStep, ShutDown, NetworkStep, vars, clientVars, Forward
<1>3. ASSUME NEW k \in Conn,
             \/ Connect(k) \/ SendConnection(k) \/ RecvResponse(k) \/ Fail(k)
             \/ SendTcp(k) \/ SendUdp(k)
             \/ ClientTcpYields(k) \/ ClientTcpFails(k) \/ ClientRecvUdp(k)
             \/ ClientClearMsgs(k) \/ ClientDisconnect(k) \/ DropClient(k)
      PROVE  Forward
  BY <1>1, <1>3 DEF Connect, SendConnection, RecvResponse, Fail, SendTcp, SendUdp,
     ClientTcpYields, ClientTcpFails, ClientRecvUdp, ClientClearMsgs, ClientDisconnect,
     DropClient, Forward
<1> QED
  BY <1>2, <1>3 DEF Next, ClientStep, ClientNext

(* What a step can do to the places.                                        *)

LEMMA Nowhere ==
  ASSUME SystemInv, Places, Forward, UNCHANGED <<tcp, new_cons, backlog>>
  PROVE  Places'
<1>1. UNCHANGED <<BacklogCons, PendingCons, RegisteredCons>>
  BY DEF BacklogCons, PendingCons, RegisteredCons
<1> QED
  BY <1>1, PlaceTypes DEF Places, Forward

LEMMA BacklogLost ==
  ASSUME SystemInv, Places, Forward, UNCHANGED <<tcp, new_cons>>, backlog' = <<>>
  PROVE  Places'
<1>1. UNCHANGED <<PendingCons, RegisteredCons>> /\ BacklogCons' = {} /\ Len(backlog') = 0
  BY DEF BacklogCons, PendingCons, RegisteredCons
<1> QED
  BY <1>1, PlaceTypes DEF Places, Forward

LEMMA Opened ==
  ASSUME SystemInv, Places, Forward, UNCHANGED <<tcp, new_cons>>,
         NEW k \in Conn, backlog' = Append(backlog, k), phase[k] = "idle", phase'[k] # "idle"
  PROVE  Places'
<1>1. /\ Len(backlog') = Len(backlog) + 1 /\ backlog'[Len(backlog) + 1] = k
      /\ \A i \in 1..Len(backlog) : backlog'[i] = backlog[i]
  BY PlaceTypes, AppendProperties
<1>2. Len(backlog) \in Nat
  BY PlaceTypes
<1>3. UNCHANGED <<PendingCons, RegisteredCons>>
  BY DEF PendingCons, RegisteredCons
<1>4. k \notin BacklogCons \cup PendingCons \cup RegisteredCons
  BY DEF Places
<1>5. BacklogCons' = BacklogCons \cup {k}
  <2>1. 1..Len(backlog') = 1..Len(backlog) \cup {Len(backlog) + 1}
    BY <1>1, <1>2
  <2> QED
    BY <1>1, <2>1 DEF BacklogCons
<1>6. \A i, j \in 1..Len(backlog') : i # j => backlog'[i] # backlog'[j]
  <2>1. \A i \in 1..Len(backlog) : backlog[i] # k
    BY <1>4 DEF BacklogCons
  <2>2. \A i, j \in 1..Len(backlog) : i # j => backlog[i] # backlog[j]
    BY DEF Places
  <2>3. 1..Len(backlog') = 1..Len(backlog) \cup {Len(backlog) + 1}
    BY <1>1, <1>2
  <2> QED
    BY <1>1, <2>1, <2>2, <2>3
<1> QED
  BY <1>3, <1>4, <1>5, <1>6, PlaceTypes DEF Places, Forward

(* An entry leaves the pending list, whether or not it is registered.       *)
LEMMA RemovedCon ==
  ASSUME SystemInv, Places, NEW i \in 1..Len(new_cons), new_cons' = RemoveAt(new_cons, i)
  PROVE  /\ PendingCons' \subseteq PendingCons \ {new_cons[i].con}
         /\ \A j, l \in 1..Len(new_cons') : j # l => new_cons'[j].con # new_cons'[l].con
<1>1. /\ Len(new_cons) \in Nat /\ Len(new_cons') = Len(new_cons) - 1
      /\ \A j \in 1..(Len(new_cons) - 1) :
           new_cons'[j] = IF j < i THEN new_cons[j] ELSE new_cons[j + 1]
  BY RemoveAtType, PlaceTypes
<1>2. \A j, l \in 1..Len(new_cons) : j # l => new_cons[j].con # new_cons[l].con
  BY DEF Places
<1> DEFINE old(n) == IF n < i THEN n ELSE n + 1
<1>3. ASSUME NEW j \in 1..Len(new_cons')
      PROVE  old(j) \in (1..Len(new_cons)) \ {i} /\ new_cons'[j] = new_cons[old(j)]
  BY <1>1
<1>4. \A j, l \in 1..Len(new_cons') : j # l => old(j) # old(l)
  BY <1>1
<1> HIDE DEF old
<1>5. \A j \in 1..Len(new_cons') : new_cons'[j].con \in PendingCons \ {new_cons[i].con}
  BY <1>2, <1>3 DEF PendingCons
<1>6. ASSUME NEW j \in 1..Len(new_cons'), NEW l \in 1..Len(new_cons'), j # l
      PROVE  new_cons'[j].con # new_cons'[l].con
  <2>1. old(j) \in 1..Len(new_cons) /\ old(l) \in 1..Len(new_cons) /\ old(j) # old(l)
    BY <1>3, <1>4, <1>6
  <2>2. new_cons'[j] = new_cons[old(j)] /\ new_cons'[l] = new_cons[old(l)]
    BY <1>3
  <2> QED
    BY <1>2, <2>1, <2>2
<1>7. PendingCons' \subseteq PendingCons \ {new_cons[i].con}
  BY <1>5 DEF PendingCons
<1> QED
  BY <1>6, <1>7

LEMMA Removed ==
  ASSUME SystemInv, Places, Forward, UNCHANGED <<tcp, backlog>>,
         NEW i \in 1..Len(new_cons), new_cons' = RemoveAt(new_cons, i)
  PROVE  Places'
<1>1. UNCHANGED <<BacklogCons, RegisteredCons>>
  BY DEF BacklogCons, RegisteredCons
<1> QED
  BY <1>1, RemovedCon, PlaceTypes DEF Places, Forward

LEMMA Registers ==
  ASSUME SystemInv, Places, Forward, UNCHANGED backlog,
         NEW i \in 1..Len(new_cons), new_cons' = RemoveAt(new_cons, i),
         tcp' = Insert(tcp, new_cons[i].cid, new_cons[i].con)
  PROVE  Places'
<1> DEFINE c == new_cons[i].cid
           k == new_cons[i].con
<1>1. k \in PendingCons /\ c \in PendingCids
  BY DEF PendingCons, PendingCids
<1>2. c \notin DOMAIN tcp
  BY <1>1 DEF SystemInv, ServerInv, Maps, CidOnce
<1> HIDE DEF c, k
<1>3. /\ DOMAIN tcp' = DOMAIN tcp \cup {c} /\ tcp'[c] = k
      /\ \A d \in DOMAIN tcp : tcp'[d] = tcp[d]
  BY <1>2 DEF Insert, c, k
<1>4. RegisteredCons' = RegisteredCons \cup {k} /\ BacklogCons' = BacklogCons
  BY <1>3 DEF RegisteredCons, BacklogCons
<1>5. k \notin RegisteredCons /\ k \notin BacklogCons
  BY <1>1 DEF Places
<1>6. \A d \in DOMAIN tcp : tcp[d] # k
  BY <1>5 DEF RegisteredCons
<1>7. \A d, e \in DOMAIN tcp' : d # e => tcp'[d] # tcp'[e]
  BY <1>3, <1>6 DEF Places
<1>8. PendingCons' \subseteq PendingCons \ {k}
  BY RemovedCon DEF k
<1> QED
  BY <1>1, <1>4, <1>5, <1>7, <1>8, RemovedCon, PlaceTypes DEF Places, Forward

LEMMA Unregisters ==
  ASSUME SystemInv, Places, Forward, UNCHANGED <<new_cons, backlog>>,
         NEW c, tcp' = Delete(tcp, c)
  PROVE  Places'
<1>1. DOMAIN tcp' = DOMAIN tcp \ {c} /\ \A d \in DOMAIN tcp' : tcp'[d] = tcp[d]
  BY DEF Delete, Restrict
<1>2. RegisteredCons' \subseteq RegisteredCons /\ UNCHANGED <<BacklogCons, PendingCons>>
  BY <1>1 DEF RegisteredCons, BacklogCons, PendingCons
<1> QED
  BY <1>1, <1>2, PlaceTypes DEF Places, Forward
(* The clock marks an entry, and nothing more.                              *)
LEMMA Marked ==
  ASSUME SystemInv, Places, Forward, UNCHANGED <<tcp, backlog>>,
         Len(new_cons') = Len(new_cons),
         \A i \in 1..Len(new_cons) : new_cons'[i].con = new_cons[i].con
  PROVE  Places'
<1>1. UNCHANGED <<BacklogCons, PendingCons, RegisteredCons>>
  BY DEF BacklogCons, PendingCons, RegisteredCons
<1> QED
  BY <1>1, PlaceTypes DEF Places, Forward

(* start_incoming moves the front of the backlog to the end of the list.    *)
LEMMA Scanned ==
  ASSUME SystemInv, Places, Forward, UNCHANGED tcp,
         new_cons' = new_cons \o Pulled,
         backlog' = SubSeq(backlog, Len(Pulled) + 1, Len(backlog))
  PROVE  Places'
<1> DEFINE a == Len(new_cons)
           b == Len(Pulled)
           n == Len(backlog)
<1>1. /\ Pulled \in Seq(Pending) /\ b \in Nat /\ b <= n
      /\ \A i \in 1..b : Pulled[i].con = backlog[i]
  <2>1. /\ Pulled \in Seq(Pending) /\ b <= n
    BY PulledType DEF SystemInv
  <2>2. b \in Nat /\ DOMAIN Pulled = 1..b
    BY <2>1, LenProperties
  <2>3. \A i \in DOMAIN Pulled : Pulled[i].con = backlog[i]
    BY DEF Pulled
  <2> QED
    BY <2>1, <2>2, <2>3
<1>2. /\ new_cons \in Seq(Pending) /\ a \in Nat /\ backlog \in Seq(Conn) /\ n \in Nat
  BY PlaceTypes
<1>3. /\ Len(new_cons') = a + b
      /\ \A i \in 1..(a + b) : new_cons'[i] = IF i <= a THEN new_cons[i] ELSE Pulled[i - a]
  BY <1>1, <1>2, ConcatProperties
<1>4. /\ Len(backlog') = n - b
      /\ \A i \in 1..(n - b) : backlog'[i] = backlog[b + i]
  <2>1. \A i \in (b + 1)..n : backlog[i] \in Conn
    BY <1>1, <1>2, ElementOfSeq
  <2>2. b + 1 \in Nat \ {0}
    BY <1>1
  <2> HIDE DEF n
  <2>3. /\ Len(backlog') = IF b + 1 <= n THEN n - (b + 1) + 1 ELSE 0
        /\ \A i \in 1..(n - (b + 1) + 1) : backlog'[i] = backlog[(b + 1) + i - 1]
    BY <1>1, <1>2, <2>1, <2>2, SubSeqProperties DEF n
  <2> QED
    BY <1>1, <1>2, <2>3
<1> HIDE DEF a, b, n
<1>5. ASSUME NEW i \in 1..(a + b)
      PROVE  \/ i \in 1..a /\ new_cons'[i].con = new_cons[i].con
             \/ ~(i <= a) /\ i - a \in 1..b /\ new_cons'[i].con = backlog[i - a]
  <2>1. CASE i <= a
    <3>1. i \in 1..a /\ new_cons'[i] = new_cons[i]
      BY <1>1, <1>2, <1>3, <2>1
    <3> QED
      BY <3>1
  <2>2. CASE ~(i <= a)
    <3>1. i - a \in 1..b
      BY <1>1, <1>2, <2>2
    <3>2. new_cons'[i] = Pulled[i - a]
      BY <1>3, <2>2
    <3>3. new_cons'[i].con = backlog[i - a]
      BY <1>1, <3>1, <3>2
    <3> QED
      BY <2>2, <3>1, <3>3
  <2> QED
    BY <2>1, <2>2
<1>6. /\ \A i, j \in 1..a : i # j => new_cons[i].con # new_cons[j].con
      /\ \A i, j \in 1..n : i # j => backlog[i] # backlog[j]
      /\ \A i \in 1..a, j \in 1..n : new_cons[i].con # backlog[j]
  BY DEF Places, PendingCons, BacklogCons, a, n
<1>7. \A i \in 1..b : i \in 1..n
  BY <1>1, <1>2
<1>8. ASSUME NEW i \in 1..(a + b), NEW j \in 1..(a + b), i # j
      PROVE  new_cons'[i].con # new_cons'[j].con
  <2>1. i \in Int /\ j \in Int /\ i - a # j - a
    BY <1>1, <1>2, <1>8
  <2>2. CASE i \in 1..a /\ j \in 1..a
    <3>1. new_cons'[i] = new_cons[i]
      BY <1>1, <1>2, <1>3, <2>2
    <3>2. new_cons'[j] = new_cons[j]
      BY <1>1, <1>2, <1>3, <2>2
    <3> QED
      BY <1>6, <1>8, <2>2, <3>1, <3>2
  <2>3. CASE ~(i \in 1..a) /\ ~(j \in 1..a)
    <3>1. /\ i - a \in 1..b /\ new_cons'[i].con = backlog[i - a]
          /\ j - a \in 1..b /\ new_cons'[j].con = backlog[j - a]
      BY <1>5, <2>3
    <3> QED
      BY <1>6, <1>7, <2>1, <3>1
  <2>4. CASE i \in 1..a /\ ~(j \in 1..a)
    <3>1. new_cons'[i] = new_cons[i]
      BY <1>1, <1>2, <1>3, <2>4
    <3>2. j - a \in 1..b /\ new_cons'[j].con = backlog[j - a]
      BY <1>5, <2>4
    <3> QED
      BY <1>6, <1>7, <2>4, <3>1, <3>2
  <2>5. CASE ~(i \in 1..a) /\ j \in 1..a
    <3>1. new_cons'[j] = new_cons[j]
      BY <1>1, <1>2, <1>3, <2>5
    <3>2. i - a \in 1..b /\ new_cons'[i].con = backlog[i - a]
      BY <1>5, <2>5
    <3> QED
      BY <1>6, <1>7, <2>5, <3>1, <3>2
  <2> QED
    BY <2>2, <2>3, <2>4, <2>5
<1>9. \A i \in 1..(n - b) : b + i \in 1..n /\ \A j \in 1..b : b + i # j
  BY <1>1, <1>2 DEF n
<1>10. ASSUME NEW i \in 1..(n - b), NEW j \in 1..(n - b), i # j
       PROVE  backlog'[i] # backlog'[j]
  <2>1. b + i # b + j
    BY <1>1, <1>2, <1>10
  <2>2. backlog'[i] = backlog[b + i] /\ backlog'[j] = backlog[b + j]
    BY <1>4
  <2>3. b + i \in 1..n /\ b + j \in 1..n
    BY <1>9
  <2> QED
    BY <1>6, <2>1, <2>2, <2>3
<1>11. ASSUME NEW i \in 1..(a + b), NEW j \in 1..(n - b)
       PROVE  new_cons'[i].con # backlog'[j]
  <2>1. CASE i \in 1..a /\ new_cons'[i].con = new_cons[i].con
    BY <1>4, <1>6, <1>9, <2>1
  <2>2. CASE i - a \in 1..b /\ new_cons'[i].con = backlog[i - a]
    BY <1>4, <1>6, <1>7, <1>9, <2>2
  <2> QED
    BY <1>5, <2>1, <2>2
<1>12. /\ RegisteredCons' = RegisteredCons
       /\ PendingCons' \subseteq PendingCons \cup BacklogCons
       /\ BacklogCons' \subseteq BacklogCons
       /\ BacklogCons' \cap PendingCons' = {}
  <2>1. RegisteredCons' = RegisteredCons
    BY DEF RegisteredCons
  <2>2. \A i \in 1..(a + b) : new_cons'[i].con \in PendingCons \cup BacklogCons
    BY <1>5, <1>7 DEF PendingCons, BacklogCons, a, n
  <2>3. \A i \in 1..(n - b) : backlog'[i] \in BacklogCons
    BY <1>4, <1>9 DEF BacklogCons, n
  <2>4. /\ PendingCons' = {new_cons'[i].con : i \in 1..(a + b)}
        /\ BacklogCons' = {backlog'[i] : i \in 1..(n - b)}
    BY <1>3, <1>4 DEF PendingCons, BacklogCons
  <2>5. BacklogCons' \cap PendingCons' = {}
    BY <1>11, <2>4
  <2> QED
    BY <2>1, <2>2, <2>3, <2>4, <2>5
<1>13. /\ \A i, j \in 1..Len(new_cons') : i # j => new_cons'[i].con # new_cons'[j].con
       /\ \A i, j \in 1..Len(backlog') : i # j => backlog'[i] # backlog'[j]
  <2>1. \A i, j \in 1..(a + b) : i # j => new_cons'[i].con # new_cons'[j].con
    BY <1>8
  <2>2. Len(new_cons') = a + b /\ Len(backlog') = n - b
    BY <1>3, <1>4
  <2>3. \A i, j \in 1..Len(new_cons') : i # j => new_cons'[i].con # new_cons'[j].con
    BY <2>1, <2>2
  <2>4. \A i, j \in 1..Len(backlog') : i # j => backlog'[i] # backlog'[j]
    BY <1>10, <2>2
  <2> QED
    BY <2>3, <2>4
<1>14. /\ PendingCons \cup BacklogCons \subseteq Conn /\ RegisteredCons \subseteq Conn
  BY PlaceTypes
<1> QED
  BY <1>12, <1>13, <1>14 DEF Places, Forward

(* Every step of the system.                                                *)
LEMMA PlacesStep ==
  ASSUME SystemInv, Places, [Next]_vars
  PROVE  Places'
<1>1. ServerInv /\ ServerTypeOK /\ Forward
  BY PhaseStep DEF SystemInv, ServerInv
<1>2. CASE NetworkStep \/ UNCHANGED vars
  BY <1>1, <1>2, Nowhere
  DEF NetworkStep, LoseDatagram, Break, vars, netVars, serverVars
<1>3. CASE ShutDown
  BY <1>1, <1>3, BacklogLost DEF ShutDown, DropServer, CloseAll
<1>4. ASSUME NEW why \in Panic, PanicWith(why)
      PROVE  Places'
  BY <1>1, <1>4, BacklogLost DEF PanicWith, CloseAll
<1>5. ASSUME ClientStep
      PROVE  Places'
  <2>1. UNCHANGED <<tcp, new_cons>>
    BY <1>5 DEF ClientStep, serverVars
  <2>2. PICK k \in Conn :
          \/ Connect(k) \/ SendConnection(k) \/ RecvResponse(k) \/ Fail(k)
          \/ SendTcp(k) \/ SendUdp(k)
          \/ ClientTcpYields(k) \/ ClientTcpFails(k) \/ ClientRecvUdp(k)
          \/ ClientClearMsgs(k) \/ ClientDisconnect(k) \/ DropClient(k)
    BY <1>5 DEF ClientStep, ClientNext
  <2>3. CASE Connect(k) /\ OpenConnection(k)
    <3>1. /\ phase[k] = "idle" /\ backlog' = Append(backlog, k)
          /\ phase' = [phase EXCEPT ![k] = "connecting"]
      BY <2>3 DEF Connect, OpenConnection
    <3>2. phase'[k] # "idle"
      BY <3>1 DEF SystemInv, ClientTypeOK
    <3> QED
      BY <1>1, <2>1, <3>1, <3>2, Opened
  <2>4. CASE ~(Connect(k) /\ OpenConnection(k))
    <3>1. UNCHANGED backlog
      BY <2>2, <2>4 DEF Connect, SendConnection, RecvResponse, Fail, SendTcp, SendUdp,
         ClientTcpYields, ClientTcpFails, ClientRecvUdp, ClientClearMsgs,
         ClientDisconnect, DropClient, netVars
    <3> QED
      BY <1>1, <2>1, <3>1, Nowhere
  <2> QED
    BY <2>3, <2>4
<1>6. CASE HandleNewCon
  BY <1>1, <1>6, Scanned DEF HandleNewCon, HandleNew
<1>7. ASSUME AcceptIncoming
      PROVE  Places'
  <2>1. PICK i \in accepted : AcceptIncoming!2!(i)
    BY <1>7 DEF AcceptIncoming
  <2>2. CASE PanicWith("index panic") \/ PanicWith("peer_addr panic")
    BY <1>4, <2>2 DEF Panic
  <2>3. CASE ~(i > Len(new_cons)) /\ ~broken[new_cons[i].con]
    <3>1. i \in 1..Len(new_cons)
      BY <1>1, <2>3, LenProperties DEF ServerTypeOK, CId
    <3>2. /\ new_cons' = RemoveAt(new_cons, i) /\ UNCHANGED backlog
          /\ tcp' = Insert(tcp, new_cons[i].cid, new_cons[i].con)
      BY <2>1, <2>3 DEF AddTcpCon
    <3> QED
      BY <1>1, <3>1, <3>2, Registers
  <2> QED
    BY <2>1, <2>2, <2>3
<1>8. ASSUME RejectIncoming
      PROVE  Places'
  <2>1. PICK i \in rejected : RejectIncoming!2!(i)
    BY <1>8 DEF RejectIncoming
  <2>2. CASE PanicWith("index panic") \/ PanicWith("peer_addr panic")
    BY <1>4, <2>2 DEF Panic
  <2>3. CASE ~(i > Len(new_cons)) /\ ~broken[new_cons[i].con]
    <3>1. i \in 1..Len(new_cons)
      BY <1>1, <2>3, LenProperties DEF ServerTypeOK, CId
    <3>2. new_cons' = RemoveAt(new_cons, i) /\ UNCHANGED <<backlog, tcp>>
      BY <2>1, <2>3
    <3> QED
      BY <1>1, <3>1, <3>2, Removed
  <2> QED
    BY <2>1, <2>2, <2>3
<1>9. ASSUME DropDead
      PROVE  Places'
  <2>1. PICK i \in dead : DropDead!2!(i)
    BY <1>9 DEF DropDead
  <2>2. CASE PanicWith("index panic")
    BY <1>4, <2>2 DEF Panic
  <2>3. CASE ~(i > Len(new_cons))
    <3>1. i \in 1..Len(new_cons)
      BY <1>1, <2>3, LenProperties DEF ServerTypeOK, CId
    <3>2. new_cons' = RemoveAt(new_cons, i) /\ UNCHANGED <<backlog, tcp>>
      BY <2>1, <2>3
    <3> QED
      BY <1>1, <3>1, <3>2, Removed
  <2> QED
    BY <2>1, <2>2, <2>3
<1>10. ASSUME Elapse
       PROVE  Places'
  <2>1. PICK i \in 1..Len(new_cons) : new_cons' = [new_cons EXCEPT ![i].late = TRUE]
    BY <1>10 DEF Elapse
  <2>2. /\ new_cons \in Seq(Pending) /\ new_cons[i] \in Pending
    BY PlaceTypes, ElementOfSeq
  <2>3. new_cons' = [new_cons EXCEPT ![i] = [new_cons[i] EXCEPT !.late = TRUE]]
    BY <2>1
  <2>4. [new_cons[i] EXCEPT !.late = TRUE].con = new_cons[i].con
    BY <2>2 DEF Pending
  <2>5. /\ Len(new_cons') = Len(new_cons)
        /\ \A j \in 1..Len(new_cons) : new_cons'[j].con = new_cons[j].con
    BY <2>2, <2>3, <2>4, ExceptSeq, LenProperties DEF Pending
  <2> QED
    BY <1>1, <1>10, <2>5, Marked DEF Elapse, netVars
<1>11. CASE RecvMsgs \/ RecvUdp \/ ClearMsgs \/ HandleDisconnect
  BY <1>1, <1>11, Nowhere DEF RecvMsgs, RecvUdp, ClearMsgs, HandleDisconnect, netVars
<1>12. ASSUME NEW c \in todo, TcpYields(c) \/ TcpFails(c) \/ TcpWouldBlock(c)
       PROVE  Places'
  BY <1>1, <1>12, Nowhere DEF TcpYields, TcpFails, TcpWouldBlock, RecvTcp
<1>13. ASSUME Reap
       PROVE  Places'
  <2> DEFINE c == Head(disconnected).cid
  <2>1. CASE Alive(c) /\ c \notin DOMAIN tcp
    BY <1>4, <1>13, <2>1 DEF Reap, Panic
  <2>2. CASE Alive(c) /\ c \in DOMAIN tcp
    <3>1. tcp' = Delete(tcp, c) /\ UNCHANGED <<new_cons, backlog>>
      BY <1>13, <2>2 DEF Reap, RmTcpCon
    <3> QED
      BY <1>1, <3>1, Unregisters
  <2>3. CASE ~Alive(c)
    BY <1>1, <1>13, <2>3, Nowhere DEF Reap
  <2> QED
    BY <2>1, <2>2, <2>3
<1>14. ASSUME NEW c \in DOMAIN cid_addr, Disconnect(c)
       PROVE  Places'
  BY <1>1, <1>14, Nowhere DEF Disconnect
<1>15. ASSUME NEW S \in Matching, SendUdpSpec(S) \/ \E G \in SUBSET S : SendTcpSpec(S, G)
       PROVE  Places'
  BY <1>1, <1>15, Nowhere DEF SendUdpSpec, SendTcpSpec
<1> QED
  BY <1>2, <1>3, <1>5, <1>6, <1>7, <1>8, <1>9, <1>10, <1>11, <1>12, <1>13, <1>14, <1>15
  DEF Next, ServerStep, ServerNext

(* A CId and a connection are in one place of the server, and there once,   *)
(* for any number of clients and any bounds (server.rs:184-195, 261-274,    *)
(* 323-335, 383-393).                                                       *)
THEOREM OneOwnerAlways == Spec => []OneOwner
<1>1. Init => Places
  BY PlacesInit
<1>2. SystemInv /\ Places /\ [Next]_vars => Places'
  BY PlacesStep
<1>3. SystemInv /\ Places => OneOwner
  BY PlacesGive DEF SystemInv, ServerInv, Maps, OneOwner
<1> QED
  BY <1>1, <1>2, <1>3, SystemInvariant, PTL DEF Spec

-----------------------------------------------------------------------------
(* A CId that was given, and is not pending any more, names what it named:  *)
(* it does not come to be registered, and keeps its connection until it is  *)
(* removed.                                                                 *)
CidsStay ==
  \A c \in 1..current_cid :
    c \notin PendingCids =>
      /\ c \in 1..current_cid' /\ c \notin PendingCids'
      /\ c \in DOMAIN tcp' => c \in DOMAIN tcp /\ tcp'[c] = tcp[c]

LEMMA CidsFrame ==
  ASSUME SystemInv, current_cid' = current_cid, PendingCids' \subseteq PendingCids,
         DOMAIN tcp' \subseteq DOMAIN tcp, \A c \in DOMAIN tcp' : tcp'[c] = tcp[c]
  PROVE  CidsStay
  BY DEF CidsStay

LEMMA CidsStep ==
  ASSUME SystemInv, [Next]_vars
  PROVE  CidsStay
<1>1. ServerInv /\ ServerTypeOK /\ CidOnce
  BY DEF SystemInv, ServerInv, Maps
<1>2. ASSUME UNCHANGED <<current_cid, new_cons, tcp>>
      PROVE  CidsStay
  BY <1>2, CidsFrame DEF PendingCids
<1>3. CASE HandleNewCon
  <2>1. /\ new_cons' = new_cons \o Pulled /\ current_cid' = current_cid + Len(Pulled)
        /\ tcp' = tcp
    BY <1>3 DEF HandleNewCon, HandleNew
  <2>2. current_cid \in Nat /\ Len(Pulled) \in Nat
    BY <1>1, PulledType, LenProperties DEF ServerTypeOK
  <2>3. PendingCids' \subseteq
          PendingCids \cup ((current_cid + 1)..(current_cid + Len(Pulled)))
    BY <1>1, <2>1, PendType DEF PendingCids
  <2>4. \A c \in 1..current_cid :
          c \in 1..current_cid' /\ c \notin (current_cid + 1)..(current_cid + Len(Pulled))
    BY <2>1, <2>2
  <2> QED
    BY <2>1, <2>3, <2>4 DEF CidsStay
<1>4. ASSUME NEW i \in 1..Len(new_cons), new_cons' = RemoveAt(new_cons, i)
      PROVE  PendingCids' \subseteq PendingCids /\ new_cons[i].cid \in PendingCids
  BY <1>1, <1>4, RemovedCid DEF PendingCids
<1>5. ASSUME AcceptIncoming
      PROVE  CidsStay
  <2>1. PICK i \in accepted : AcceptIncoming!2!(i)
    BY <1>5 DEF AcceptIncoming
  <2>2. CASE PanicWith("index panic") \/ PanicWith("peer_addr panic")
    BY <1>2, <2>2 DEF PanicWith
  <2>3. CASE ~(i > Len(new_cons)) /\ ~broken[new_cons[i].con]
    <3>1. i \in 1..Len(new_cons)
      BY <1>1, <2>3, LenProperties DEF ServerTypeOK, CId
    <3>2. /\ new_cons' = RemoveAt(new_cons, i) /\ current_cid' = current_cid
          /\ tcp' = Insert(tcp, new_cons[i].cid, new_cons[i].con)
      BY <2>1, <2>3 DEF AddTcpCon
    <3> QED
      BY <1>4, <3>1, <3>2 DEF CidsStay, Insert
  <2> QED
    BY <2>1, <2>2, <2>3
<1>6. ASSUME RejectIncoming
      PROVE  CidsStay
  <2>1. PICK i \in rejected : RejectIncoming!2!(i)
    BY <1>6 DEF RejectIncoming
  <2>2. CASE PanicWith("index panic") \/ PanicWith("peer_addr panic")
    BY <1>2, <2>2 DEF PanicWith
  <2>3. CASE ~(i > Len(new_cons)) /\ ~broken[new_cons[i].con]
    <3>1. i \in 1..Len(new_cons)
      BY <1>1, <2>3, LenProperties DEF ServerTypeOK, CId
    <3>2. new_cons' = RemoveAt(new_cons, i) /\ UNCHANGED <<current_cid, tcp>>
      BY <2>1, <2>3
    <3> QED
      BY <1>4, <3>1, <3>2, CidsFrame
  <2> QED
    BY <2>1, <2>2, <2>3
<1>7. ASSUME DropDead
      PROVE  CidsStay
  <2>1. PICK i \in dead : DropDead!2!(i)
    BY <1>7 DEF DropDead
  <2>2. CASE PanicWith("index panic")
    BY <1>2, <2>2 DEF PanicWith
  <2>3. CASE ~(i > Len(new_cons))
    <3>1. i \in 1..Len(new_cons)
      BY <1>1, <2>3, LenProperties DEF ServerTypeOK, CId
    <3>2. new_cons' = RemoveAt(new_cons, i) /\ UNCHANGED <<current_cid, tcp>>
      BY <2>1, <2>3
    <3> QED
      BY <1>4, <3>1, <3>2, CidsFrame
  <2> QED
    BY <2>1, <2>2, <2>3
<1>8. ASSUME Elapse
      PROVE  CidsStay
  <2>1. PICK i \in 1..Len(new_cons) : new_cons' = [new_cons EXCEPT ![i].late = TRUE]
    BY <1>8 DEF Elapse
  <2>2. new_cons \in Seq(Pending) /\ new_cons[i] \in Pending
    BY <1>1, ElementOfSeq DEF ServerTypeOK
  <2>3. /\ new_cons' = [new_cons EXCEPT ![i] = [new_cons[i] EXCEPT !.late = TRUE]]
        /\ [new_cons[i] EXCEPT !.late = TRUE].cid = new_cons[i].cid
    BY <2>1, <2>2 DEF Pending
  <2>4. /\ Len(new_cons') = Len(new_cons)
        /\ \A j \in 1..Len(new_cons) : new_cons'[j].cid = new_cons[j].cid
    BY <2>2, <2>3, ExceptSeq, LenProperties DEF Pending
  <2>5. PendingCids' = PendingCids
    BY <2>4 DEF PendingCids
  <2> QED
    BY <1>8, <2>5, CidsFrame DEF Elapse
<1>9. ASSUME Reap
      PROVE  CidsStay
  <2>1. /\ UNCHANGED <<current_cid, new_cons>>
        /\ tcp' = tcp \/ tcp' = Delete(tcp, Head(disconnected).cid)
    BY <1>9 DEF Reap, RmTcpCon, PanicWith
  <2>2. DOMAIN tcp' \subseteq DOMAIN tcp /\ \A c \in DOMAIN tcp' : tcp'[c] = tcp[c]
    BY <2>1 DEF Delete, Restrict
  <2> QED
    BY <2>1, <2>2, CidsFrame DEF PendingCids
<1>10. CASE UNCHANGED vars \/ ShutDown \/ ClientStep \/ NetworkStep
  BY <1>2, <1>10 DEF vars, serverVars, ShutDown, DropServer, ClientStep, NetworkStep
<1>11. CASE RecvMsgs \/ RecvUdp \/ ClearMsgs \/ HandleDisconnect
  BY <1>2, <1>11 DEF RecvMsgs, RecvUdp, ClearMsgs, HandleDisconnect
<1>12. ASSUME NEW c \in todo, TcpYields(c) \/ TcpFails(c) \/ TcpWouldBlock(c)
       PROVE  CidsStay
  BY <1>2, <1>12 DEF TcpYields, TcpFails, TcpWouldBlock, RecvTcp
<1>13. ASSUME NEW c \in DOMAIN cid_addr, Disconnect(c)
       PROVE  CidsStay
  BY <1>2, <1>13 DEF Disconnect
<1>14. ASSUME NEW S \in Matching, SendUdpSpec(S) \/ \E G \in SUBSET S : SendTcpSpec(S, G)
       PROVE  CidsStay
  BY <1>2, <1>14 DEF SendUdpSpec, SendTcpSpec
<1> QED
  BY <1>3, <1>5, <1>6, <1>7, <1>8, <1>9, <1>10, <1>11, <1>12, <1>13, <1>14
  DEF Next, ServerStep, ServerNext

-----------------------------------------------------------------------------
(* The three kinds of steps of the roster, and the steps it does not see.  *)

LEMMA RosterStutter ==
  ASSUME current_cid' = current_cid, DOMAIN tcp' = DOMAIN tcp, reported' = reported,
         op \in Gone <=> op' \in Gone
  PROVE  UNCHANGED Promise!rosterVars
  BY DEF Promise!rosterVars

LEMMA RosterIssue ==
  ASSUME current_cid \in Nat, NEW n \in Nat, current_cid' = current_cid + n,
         DOMAIN tcp' = DOMAIN tcp, reported' = reported, op \notin Gone, op' \notin Gone
  PROVE  [Promise!RosterNext]_(Promise!rosterVars)
<1>1. CASE n = 0
  BY <1>1, RosterStutter
<1>2. CASE n > 0
  <2>1. current_cid' \in Nat /\ current_cid' > current_cid
    BY <1>2
  <2>2. Promise!Issue
    BY <2>1 DEF Promise!Issue
  <2> QED
    BY <2>2 DEF Promise!RosterNext
<1> QED
  BY <1>1, <1>2

LEMMA RosterEnd ==
  ASSUME current_cid' = current_cid, DOMAIN tcp' = DOMAIN tcp, reported' = reported,
         op \notin Gone, op' \in Gone
  PROVE  Promise!RosterNext
  BY DEF Promise!RosterNext, Promise!End

LEMMA Panics ==
  ASSUME NEW why \in Panic, op \notin Gone, PanicWith(why)
  PROVE  Promise!RosterNext
<1>1. op' \in Gone
  BY DEF PanicWith, Gone
<1> QED
  BY <1>1, RosterEnd DEF PanicWith, appVars

LEMMA RosterAccept ==
  ASSUME SystemInv, AcceptIncoming
  PROVE  Promise!RosterNext
<1>1. ServerInv /\ ServerTypeOK /\ CidOnce /\ op = "settle"
  BY DEF SystemInv, ServerInv, Maps, AcceptIncoming
<1>2. op \notin Gone
  BY <1>1 DEF Gone, Panic
<1>3. PICK i \in accepted : AcceptIncoming!2!(i)
  BY DEF AcceptIncoming
<1>4. CASE PanicWith("index panic") \/ PanicWith("peer_addr panic")
  BY <1>2, <1>4, Panics DEF Panic
<1>5. CASE ~(i > Len(new_cons)) /\ ~broken[new_cons[i].con]
  <2> DEFINE c == new_cons[i].cid
  <2>1. /\ tcp' = Insert(tcp, c, new_cons[i].con) /\ reported' = reported
        /\ current_cid' = current_cid /\ op' \in {"idle", "settle"}
    BY <1>3, <1>5 DEF AddTcpCon, Left, appVars
  <2>2. DOMAIN tcp' = DOMAIN tcp \cup {c}
    BY <2>1 DEF Insert
  <2>3. i \in 1..Len(new_cons)
    BY <1>1, <1>3, <1>5, LenProperties DEF ServerTypeOK, CId
  <2>4. c \in PendingCids
    BY <2>3 DEF PendingCids
  <2>5. c \in 1..current_cid /\ c \notin DOMAIN tcp \cup ReportedCids
    BY <1>1, <2>4 DEF CidOnce
  <2>6. Promise!Enter(c)
    BY <2>1, <2>2, <2>5 DEF Promise!Enter, Promise!Left, ReportedCids
  <2> QED
    BY <1>2, <2>1, <2>5, <2>6 DEF Promise!RosterNext, Gone, Panic
<1> QED
  BY <1>3, <1>4, <1>5

LEMMA RosterReap ==
  ASSUME SystemInv, Reap
  PROVE  [Promise!RosterNext]_(Promise!rosterVars)
<1> DEFINE e == Head(disconnected)
<1>1. ServerInv /\ ServerTypeOK /\ op \in {"reap_one", "reap_all"}
  BY DEF SystemInv, ServerInv, Reap
<1>2. e \in Ending /\ ~(Alive(e.cid) /\ e.cid \notin DOMAIN tcp)
  BY <1>1, HeadTailProperties DEF ServerInv, ServerTypeOK, Maps, Alive, Reap
<1>3. current_cid' = current_cid /\ op' \in {"idle", "reap_one", "reap_all"}
  BY <1>1, <1>2 DEF Reap
<1>4. op \notin Gone /\ op' \notin Gone
  BY <1>1, <1>3 DEF Gone, Panic
<1>5. CASE Alive(e.cid)
  <2>1. reported' = Append(reported, e) /\ tcp' = Delete(tcp, e.cid)
    BY <1>2, <1>5 DEF Reap, RmTcpCon
  <2>2. DOMAIN tcp' = DOMAIN tcp \ {e.cid} /\ e.cid \in DOMAIN tcp
    BY <1>2, <1>5, <2>1 DEF Delete, Restrict
  <2>3. e.status \in Status /\ e = [cid |-> e.cid, status |-> e.status]
    BY <1>2 DEF Ending
  <2>4. Promise!Leave(e.cid, e.status)
    BY <1>3, <2>1, <2>2, <2>3 DEF Promise!Leave
  <2> QED
    BY <1>4, <2>2, <2>3, <2>4 DEF Promise!RosterNext
<1>6. CASE ~Alive(e.cid)
  <2>1. reported' = reported /\ tcp' = tcp
    BY <1>6 DEF Reap
  <2> QED
    BY <1>3, <1>4, <2>1, RosterStutter
<1> QED
  BY <1>5, <1>6

(* Every step of the system is a step of the roster or none.               *)
LEMMA RosterStep ==
  ASSUME SystemInv, [Next]_vars
  PROVE  [Promise!RosterNext]_(Promise!rosterVars)
<1>1. ServerInv /\ ServerTypeOK
  BY DEF SystemInv, ServerInv
<1>2. CASE ClientStep \/ NetworkStep \/ UNCHANGED vars
  BY <1>2, RosterStutter DEF ClientStep, NetworkStep, vars, serverVars, appVars
<1>3. CASE ShutDown
  BY <1>3, RosterEnd DEF ShutDown, DropServer, appVars, Gone, Panic
<1>4. CASE HandleNewCon
  <2>1. Len(Pulled) \in Nat
    BY <1>1, PulledType, LenProperties
  <2>2. /\ op \notin Gone /\ op' \notin Gone
        /\ current_cid' = current_cid + Len(Pulled)
        /\ tcp' = tcp /\ reported' = reported
    BY <1>4 DEF HandleNewCon, HandleNew, Gone, Panic
  <2> QED
    BY <1>1, <2>1, <2>2, RosterIssue DEF ServerTypeOK
<1>5. CASE AcceptIncoming
  BY <1>5, RosterAccept
<1>6. CASE RejectIncoming \/ DropDead
  <2>1. op \notin Gone
    BY <1>6 DEF RejectIncoming, DropDead, Gone, Panic
  <2>2. CASE PanicWith("index panic") \/ PanicWith("peer_addr panic")
    BY <2>1, <2>2, Panics DEF Panic
  <2>3. CASE ~PanicWith("index panic") /\ ~PanicWith("peer_addr panic")
    <3>1. current_cid' = current_cid /\ tcp' = tcp /\ reported' = reported
      BY <1>6, <2>3 DEF RejectIncoming, DropDead, appVars
    <3>2. op' \in {"idle", "settle"}
      BY <1>6, <2>3 DEF RejectIncoming, DropDead, Left
    <3> QED
      BY <2>1, <3>1, <3>2, RosterStutter DEF Gone, Panic
  <2> QED
    BY <2>2, <2>3
<1>7. CASE Elapse \/ RecvMsgs \/ RecvUdp \/ ClearMsgs \/ HandleDisconnect
  BY <1>7, RosterStutter
  DEF Elapse, RecvMsgs, RecvUdp, ClearMsgs, HandleDisconnect, appVars, Gone, Panic
<1>8. ASSUME NEW c \in todo, TcpYields(c) \/ TcpFails(c) \/ TcpWouldBlock(c)
      PROVE  UNCHANGED Promise!rosterVars
  BY <1>8, RosterStutter
  DEF TcpYields, TcpFails, TcpWouldBlock, RecvTcp, DoneWith, appVars, Gone, Panic
<1>9. CASE Reap
  BY <1>9, RosterReap
<1>10. ASSUME NEW c \in DOMAIN cid_addr, Disconnect(c)
       PROVE  UNCHANGED Promise!rosterVars
  BY <1>10, RosterStutter DEF Disconnect, appVars
<1>11. ASSUME NEW S \in Matching, SendUdpSpec(S) \/ \E G \in SUBSET S : SendTcpSpec(S, G)
       PROVE  UNCHANGED Promise!rosterVars
  BY <1>11, RosterStutter DEF SendUdpSpec, SendTcpSpec
<1> QED
  BY <1>2, <1>3, <1>4, <1>5, <1>6, <1>7, <1>8, <1>9, <1>10, <1>11
  DEF Next, ServerStep, ServerNext

(* The Server keeps the roster of module Roster: a CId is issued, enters    *)
(* and leaves, once each and in this order, leaving is what the disconnect  *)
(* hook is told, and nothing happens after a panic (server.rs:131-417).     *)
THEOREM RosterKept == Spec => KeepsRoster
<1>1. Init => Promise!RosterInit
  BY DEF Init, ServerInit, Promise!RosterInit, Gone, Panic
<1>2. SystemInv /\ [Next]_vars => [Promise!RosterNext]_(Promise!rosterVars)
  BY RosterStep
<1> QED
  BY <1>1, <1>2, SystemInvariant, PTL DEF Spec, KeepsRoster, Promise!RosterSpec

-----------------------------------------------------------------------------
(* How long the CIds last.                                                  *)
OpenedCons == {k \in Conn : phase[k] # "idle"}

(* Each connection has one CId, or waits for it in the backlog.             *)
Served ==
  IsFiniteSet(OpenedCons) /\ current_cid + Len(backlog) <= Cardinality(OpenedCons)

LEMMA ServedFrame ==
  ASSUME SystemInv, Served, OpenedCons' = OpenedCons, current_cid' = current_cid,
         backlog' = backlog \/ backlog' = <<>>
  PROVE  Served'
<1>1. Len(backlog) \in Nat /\ current_cid \in Nat /\ Cardinality(OpenedCons) \in Nat
  BY PlaceTypes, FS_CardinalityType DEF SystemInv, ServerInv, ServerTypeOK, Served
<1>2. Len(backlog') <= Len(backlog)
  BY <1>1
<1> QED
  BY <1>1, <1>2, PlaceTypes DEF Served

LEMMA ServedStep ==
  ASSUME SystemInv, Served, [Next]_vars
  PROVE  Served'
<1>1. ServerInv /\ ServerTypeOK /\ phase \in [Conn -> Phase]
  BY DEF SystemInv, ServerInv, ClientTypeOK
<1>2. /\ Len(backlog) \in Nat /\ backlog \in Seq(Conn) /\ current_cid \in Nat
      /\ IsFiniteSet(OpenedCons) /\ Cardinality(OpenedCons) \in Nat
      /\ current_cid + Len(backlog) <= Cardinality(OpenedCons)
  BY <1>1, PlaceTypes, FS_CardinalityType DEF ServerTypeOK, Served
<1>3. ASSUME UNCHANGED <<phase, current_cid>>, backlog' = backlog \/ backlog' = <<>>
      PROVE  Served'
  BY <1>3, ServedFrame DEF OpenedCons
<1>4. CASE HandleNewCon /\ UNCHANGED clientVars
  <2>1. /\ current_cid' = current_cid + Len(Pulled)
        /\ backlog' = SubSeq(backlog, Len(Pulled) + 1, Len(backlog))
    BY <1>4 DEF HandleNewCon, HandleNew
  <2>2. Len(Pulled) \in Nat /\ Len(Pulled) <= Len(backlog)
    BY <1>1, PulledType, LenProperties
  <2>3. PICK n \in Nat : n = Len(Pulled)
    BY <2>2
  <2>4. \A i \in (n + 1)..Len(backlog) : backlog[i] \in Conn
    BY <1>2, <2>3, ElementOfSeq
  <2>5. Len(backlog') = Len(backlog) - n
    BY <1>2, <2>1, <2>2, <2>3, <2>4, SubSeqProperties
  <2>6. current_cid' = current_cid + n
    BY <2>1, <2>3
  <2>7. current_cid' + Len(backlog') = current_cid + Len(backlog)
    <3>1. PICK l \in Nat : l = Len(backlog)
      BY <1>2
    <3>2. Len(backlog') = l - n /\ current_cid' = current_cid + n
      BY <2>5, <2>6, <3>1
    <3>3. current_cid' + Len(backlog') = current_cid + l
      BY <1>2, <2>3, <3>1, <3>2
    <3> QED
      BY <3>1, <3>3
  <2>8. OpenedCons' = OpenedCons
    BY <1>4 DEF clientVars, OpenedCons
  <2> QED
    BY <1>2, <2>7, <2>8 DEF Served
<1>5. CASE ClientStep
  <2>1. current_cid' = current_cid
    BY <1>5 DEF ClientStep, serverVars
  <2>2. PICK k \in Conn :
          \/ Connect(k) \/ SendConnection(k) \/ RecvResponse(k) \/ Fail(k)
          \/ SendTcp(k) \/ SendUdp(k)
          \/ ClientTcpYields(k) \/ ClientTcpFails(k) \/ ClientRecvUdp(k)
          \/ ClientClearMsgs(k) \/ ClientDisconnect(k) \/ DropClient(k)
    BY <1>5 DEF ClientStep, ClientNext
  <2>3. CASE Connect(k)
    <3>1. phase[k] = "idle" /\ phase'[k] # "idle" /\ \A j \in Conn \ {k} : phase'[j] = phase[j]
      BY <1>1, <2>3 DEF Connect
    <3>2. OpenedCons' = OpenedCons \cup {k} /\ k \notin OpenedCons
      BY <3>1 DEF OpenedCons
    <3>3. /\ IsFiniteSet(OpenedCons')
          /\ Cardinality(OpenedCons') = Cardinality(OpenedCons) + 1
      BY <1>2, <3>2, FS_AddElement
    <3>4. backlog' = backlog \/ backlog' = Append(backlog, k)
      BY <2>3 DEF Connect, OpenConnection
    <3>5. Len(backlog') <= Len(backlog) + 1 /\ Len(backlog') \in Nat
      BY <1>2, <3>4, AppendProperties
    <3> QED
      BY <1>2, <2>1, <3>3, <3>5 DEF Served
  <2>4. CASE ~Connect(k)
    <3>1. UNCHANGED backlog
      BY <2>2, <2>4 DEF SendConnection, RecvResponse, Fail, SendTcp, SendUdp,
         ClientTcpYields, ClientTcpFails, ClientRecvUdp, ClientClearMsgs,
         ClientDisconnect, DropClient, netVars
    <3>2. \A j \in Conn : phase'[j] # "idle" <=> phase[j] # "idle"
      BY <1>1, <2>2, <2>4 DEF SendConnection, RecvResponse, Fail, SendTcp, SendUdp,
         ClientTcpYields, ClientTcpFails, ClientRecvUdp, ClientClearMsgs,
         ClientDisconnect, DropClient
    <3> QED
      BY <2>1, <3>1, <3>2, ServedFrame DEF OpenedCons
  <2> QED
    BY <2>3, <2>4
<1>6. CASE UNCHANGED vars \/ NetworkStep \/ ShutDown
  BY <1>3, <1>6 DEF vars, serverVars, netVars, clientVars, NetworkStep, LoseDatagram, Break,
     ShutDown, DropServer, CloseAll
<1>7. CASE ServerStep /\ ~HandleNewCon
  <2>1. UNCHANGED phase
    BY <1>7 DEF ServerStep, clientVars
  <2>2. CASE AcceptIncoming \/ RejectIncoming \/ DropDead \/ Elapse \/ Reap
    BY <1>3, <2>1, <2>2 DEF AcceptIncoming, RejectIncoming, DropDead, Elapse, Reap, PanicWith,
       CloseAll, netVars
  <2>3. CASE RecvMsgs \/ RecvUdp \/ ClearMsgs \/ HandleDisconnect
    BY <1>3, <2>1, <2>3 DEF RecvMsgs, RecvUdp, ClearMsgs, HandleDisconnect, netVars
  <2>4. ASSUME NEW c \in todo, TcpYields(c) \/ TcpFails(c) \/ TcpWouldBlock(c)
        PROVE  Served'
    BY <1>3, <2>1, <2>4 DEF TcpYields, TcpFails, TcpWouldBlock, RecvTcp
  <2>5. ASSUME NEW c \in DOMAIN cid_addr, Disconnect(c)
        PROVE  Served'
    BY <1>3, <2>1, <2>5 DEF Disconnect
  <2>6. ASSUME NEW S \in Matching, SendUdpSpec(S) \/ \E G \in SUBSET S : SendTcpSpec(S, G)
        PROVE  Served'
    BY <1>3, <2>1, <2>6 DEF SendUdpSpec, SendTcpSpec
  <2> QED
    BY <1>7, <2>2, <2>3, <2>4, <2>5, <2>6 DEF ServerStep, ServerNext
<1> QED
  BY <1>4, <1>5, <1>6, <1>7 DEF Next, ServerStep

(* The server has given no more CIds than connections have been opened,     *)
(* since each is taken from the backlog once: the counter of 32 bits lasts  *)
(* for 2^32 - 1 connections (server.rs:774).                                *)
THEOREM CidsLast == Spec => [](current_cid <= Cardinality(OpenedCons))
<1>1. Init => Served
  <2> SUFFICES ASSUME Init
               PROVE  Served
    OBVIOUS
  <2>1. OpenedCons = {} /\ current_cid = 0 /\ backlog = <<>>
    BY DEF Init, SocketsInit, ServerInit, ClientInit, OpenedCons
  <2> QED
    BY <2>1, FS_EmptySet DEF Served
<1>2. SystemInv /\ Served => current_cid <= Cardinality(OpenedCons)
  <2> SUFFICES ASSUME SystemInv, Served
               PROVE  current_cid <= Cardinality(OpenedCons)
    OBVIOUS
  <2>1. Len(backlog) \in Nat /\ current_cid \in Nat /\ Cardinality(OpenedCons) \in Nat
    BY PlaceTypes, FS_CardinalityType DEF SystemInv, ServerInv, ServerTypeOK, Served
  <2> QED
    BY <2>1 DEF Served
<1> QED
  BY <1>1, <1>2, ServedStep, SystemInvariant, PTL DEF Spec
=============================================================================
