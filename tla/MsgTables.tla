----------------------------- MODULE MsgTables ------------------------------
(***************************************************************************)
(* MsgTable, SortedMsgTable and MsgTableParts (src/message_table.rs): the  *)
(* peers of one deployment each collect their message types in a table, by *)
(* single registrations and by joining tables that libraries offer, and    *)
(* build it into the parts that give every type its MId.                   *)
(*                                                                         *)
(* A registration that returns an error leaves the table as it was, so it  *)
(* is no step here: the errors are the guards.                             *)
(***************************************************************************)
EXTENDS Integers, SequencesExt

CONSTANTS
  Peer,        \* the processes that build a table
  Entry,       \* registrations an application may make: type, transport, identifier
  BuildTypes,  \* the triples of types build::<C, R, D>() may be called with
  Plugins,     \* tables that may be joined to one's own
  MaxTable     \* bound: entries of a table

(* A table that can be joined was itself filled by registrations.           *)
ASSUME TablesAssumption ==
  /\ \A e \in Entry : e.ident \in Nat
  /\ Plugins \subseteq Seq(Entry)
  /\ \A other \in Plugins : \A i, j \in DOMAIN other :
       i # j => other[i].tid # other[j].tid /\ other[i].ident # other[j].ident

(* Identifiers are strings; only their order matters.  These three are the  *)
(* ones build uses: "carrier-pigeon::connection", "...::response" and       *)
(* "...::disconnect".                                                       *)
ConnectionIdent == 2
ResponseIdent   == 3
DisconnectIdent == 1

VARIABLES
  kind,   \* which of the two tables the deployment uses
  table,  \* per peer: the registrations, in order
  parts   \* per peer: what build returned

tableVars == <<kind, table, parts>>

Unbuilt == [types |-> <<>>, transports |-> <<>>]

-----------------------------------------------------------------------------
(* tid_registered and identifier_registered, and the checks that register,  *)
(* join and build make with them.  MsgTable has no identifiers.             *)
TidRegistered(t, tid) == \E i \in DOMAIN t : t[i].tid = tid
IdentifierRegistered(t, id) == \E i \in DOMAIN t : t[i].ident = id

CanRegister_AnyIdentifier(t, e) == ~TidRegistered(t, e.tid)
CanRegister_AnyType(t, e) == ~IdentifierRegistered(t, e.ident)
CanRegister(t, e) ==
  /\ kind = "SortedMsgTable" => ~IdentifierRegistered(t, e.ident)
  /\ ~TidRegistered(t, e.tid)

ConDisconTypes(b) ==
  << [tid |-> b[1], transport |-> "TCP", ident |-> ConnectionIdent],
     [tid |-> b[2], transport |-> "TCP", ident |-> ResponseIdent],
     [tid |-> b[3], transport |-> "TCP", ident |-> DisconnectIdent] >>

(* sort_by is stable: an entry goes behind those that come before it.       *)
Before(t, i, j) == t[i].ident < t[j].ident \/ (t[i].ident = t[j].ident /\ i < j)
Rank(t, i) == 1 + Cardinality({j \in DOMAIN t : Before(t, j, i)})
ByIdentifier(t) == [n \in DOMAIN t |-> t[CHOOSE i \in DOMAIN t : Rank(t, i) = n]]

Ordered_AsRegistered(t) == t
Ordered(t) == IF kind = "SortedMsgTable" THEN ByIdentifier(t) ELSE t

(* The serializer and the deserializer of an entry are those of its type.   *)
Parts(entries) ==
  [types |-> [i \in DOMAIN entries |-> entries[i].tid],
   transports |-> [i \in DOMAIN entries |-> entries[i].transport]]

MidCount(p) == Len(parts[p].transports)
ValidMid(p, mid) == mid <= MidCount(p)

(* tid_map: a later insertion of the same type overwrites the earlier one.  *)
MidsOf(p, tid) == {i - 1 : i \in {j \in DOMAIN parts[p].types : parts[p].types[j] = tid}}
ValidTid(p, tid) == MidsOf(p, tid) # {}
TidMap(p, tid) == Max(MidsOf(p, tid))

-----------------------------------------------------------------------------
TablesInit ==
  /\ kind \in {"MsgTable", "SortedMsgTable"}
  /\ table = [p \in Peer |-> <<>>]
  /\ parts = [p \in Peer |-> Unbuilt]

Register(p, e) ==
  /\ parts[p] = Unbuilt /\ Len(table[p]) < MaxTable
  /\ CanRegister(table[p], e)
  /\ table' = [table EXCEPT ![p] = Append(@, e)]
  /\ UNCHANGED <<kind, parts>>

(* All or nothing: every entry of the other table is checked against this   *)
(* one before any is added.                                                 *)
Join(p, other) ==
  /\ parts[p] = Unbuilt /\ Len(table[p]) + Len(other) <= MaxTable
  /\ \A i \in DOMAIN other : CanRegister(table[p], other[i])
  /\ table' = [table EXCEPT ![p] = @ \o other]
  /\ UNCHANGED <<kind, parts>>

(* build consumes the table.  It stays here as what the parts were built    *)
(* from; after an error there are no parts, and the table is lost.          *)
Build(p, b) ==
  /\ parts[p] = Unbuilt
  /\ IF \A i \in 1..3 : CanRegister(table[p], ConDisconTypes(b)[i])
     THEN /\ parts' = [parts EXCEPT ![p] = Parts(ConDisconTypes(b) \o Ordered(table[p]))]
          /\ UNCHANGED table
     ELSE /\ table' = [table EXCEPT ![p] = <<>>]
          /\ UNCHANGED parts
  /\ UNCHANGED kind

TablesNext ==
  \E p \in Peer :
    \/ \E e \in Entry : Register(p, e)
    \/ \E other \in Plugins : Join(p, other)
    \/ \E b \in BuildTypes : Build(p, b)

-----------------------------------------------------------------------------
Built(p) == parts[p] # Unbuilt

(* What the docs ask of two peers: "exactly the same types registered in    *)
(* the same order" for a MsgTable, and for a SortedMsgTable the same types  *)
(* (message_table.rs:14-15, 31-32).                                         *)
SameRegistrations(p, q) ==
  /\ Built(p) /\ Built(q)
  /\ SubSeq(parts[p].types, 1, 3) = SubSeq(parts[q].types, 1, 3)
  /\ IF kind = "SortedMsgTable" THEN ToSet(table[p]) = ToSet(table[q])
     ELSE table[p] = table[q]

(* Then they agree on every MId and its transport, in whatever order        *)
(* libraries were joined and types registered.                              *)
PeersAgree == \A p, q \in Peer : SameRegistrations(p, q) => parts[p] = parts[q]

(* The connection types have the MIds that handle_con_helper, new_blocking  *)
(* and both recv_msgs compare with, and no type has two MIds, provided that *)
(* C, R and D are three types: build compares each with the table, and not  *)
(* with each other (message_table.rs:159-165).                              *)
UniversalMIds ==
  \A p \in Peer : Built(p) /\ Cardinality({parts[p].types[i] : i \in 1..3}) = 3 =>
    \A i \in DOMAIN parts[p].types : MidsOf(p, parts[p].types[i]) = {i - 1}
=============================================================================
