------------------------------ MODULE Channel -------------------------------
(***************************************************************************)
(* What a TcpCon promises its users: messages are received whole, once and *)
(* in the order of the sends, until a transfer is cut short in the middle  *)
(* of a message.  From then on nothing is promised.                        *)
(***************************************************************************)
EXTENDS Naturals, Sequences

VARIABLES
  sent,     \* the messages whose send returned Ok, in order
  got,      \* what recv returned
  spoiled   \* a transfer was cut short

chanVars == <<sent, got, spoiled>>

ChanInit == sent = <<>> /\ got = <<>> /\ spoiled = FALSE

Put ==
  /\ ~spoiled
  /\ Len(sent') = Len(sent) + 1
  /\ SubSeq(sent', 1, Len(sent)) = sent
  /\ \A i \in 1..Len(sent) : sent[i] # sent'[Len(sent')]
  /\ UNCHANGED <<got, spoiled>>

Get ==
  /\ ~spoiled
  /\ Len(got) < Len(sent)
  /\ got' = Append(got, sent[Len(got) + 1])
  /\ UNCHANGED <<sent, spoiled>>

Spoil == spoiled' = TRUE /\ UNCHANGED <<sent, got>>

Anything == spoiled /\ spoiled'

ChanNext == Put \/ Get \/ Spoil \/ Anything

ChanSpec == ChanInit /\ [][ChanNext]_chanVars
=============================================================================
