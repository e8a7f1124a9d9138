----------------------------- MODULE MCFraming ------------------------------
(* Small instances of Framing for TLC. *)
EXTENDS Framing, TLC

CONSTANTS t1, t2

Threads == {t1, t2}
SameThreads == Permutations(Threads)
=============================================================================
