------------------------------ MODULE CIdSpecs -------------------------------
(***************************************************************************)
(* CIdSpec (src/net.rs): a way to name a set of CIds.  A spec is its kind  *)
(* and, for Except and Only, the CId inside.                               *)
(***************************************************************************)
EXTENDS Integers

SpecKinds == {"All", "None", "Except", "Only"}

(* matches: c is asked about, o is the CId inside. *)
SpecMatches(kind, o, c) ==
  CASE kind = "All"    -> TRUE
    [] kind = "None"   -> FALSE
    [] kind = "Except" -> c # o
    [] kind = "Only"   -> c = o

(* overlaps. *)
Overlaps(kind1, o1, kind2, o2) ==
  /\ "None" \notin {kind1, kind2}
  /\ \/ "All" \in {kind1, kind2}
     \/ kind1 = "Except" /\ kind2 = "Except"
     \/ kind1 = "Only" /\ kind2 = "Only" /\ o1 = o2
     \/ {kind1, kind2} = {"Only", "Except"} /\ o1 # o2
=============================================================================
