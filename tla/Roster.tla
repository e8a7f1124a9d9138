-------------------------------- MODULE Roster -------------------------------
(***************************************************************************)
(* What a Server promises its application about CIds, with nothing said of *)
(* connections, addresses, queues or messages: a CId is issued, it may     *)
(* enter, and if it entered it may leave; each of these happens at most    *)
(* once and in this order, leaving is what the disconnect hook is told,    *)
(* and nothing happens any more when the Server is gone.                   *)
(***************************************************************************)
EXTENDS Naturals, Sequences

CONSTANT How  \* the ways to leave

VARIABLES
  issued,   \* the CId issued last
  members,  \* the CIds that entered and did not leave
  left,     \* those that left, in the order in which the hook heard of them
  ended     \* the Server is gone

rosterVars == <<issued, members, left, ended>>

Left == {left[i].cid : i \in 1..Len(left)}

RosterInit == issued = 0 /\ members = {} /\ left = <<>> /\ ended = FALSE

(* Several at once, for a batch of connections. *)
Issue ==
  /\ issued' \in Nat /\ issued' > issued
  /\ UNCHANGED <<members, left>>

Enter(c) ==
  /\ c \notin members \cup Left
  /\ members' = members \cup {c}
  /\ UNCHANGED <<issued, left>>

Leave(c, how) ==
  /\ members' = members \ {c}
  /\ left' = Append(left, [cid |-> c, status |-> how])
  /\ UNCHANGED issued

End == ended' /\ UNCHANGED <<issued, members, left>>

RosterNext ==
  /\ ~ended
  /\ \/ /\ ~ended'
        /\ \/ Issue
           \/ \E c \in 1..issued : Enter(c)
           \/ \E c \in members, how \in How : Leave(c, how)
     \/ End

RosterSpec == RosterInit /\ [][RosterNext]_rosterVars
=============================================================================
