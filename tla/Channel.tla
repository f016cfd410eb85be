------------------------------- MODULE Channel -------------------------------
(***************************************************************************)
(* What the two services take a connection to be: messages are received     *)
(* whole, in the order in which they were sent, and none twice.             *)
(***************************************************************************)
EXTENDS Naturals, Sequences

CONSTANT Messages

VARIABLES sent, received

Send(m) == sent' = Append(sent, m) /\ UNCHANGED received

Receive ==
  /\ Len(received) < Len(sent)
  /\ received' = Append(received, sent[Len(received) + 1])
  /\ UNCHANGED sent

Init == sent = <<>> /\ received = <<>>
Next == Receive \/ \E m \in Messages : Send(m)
Spec == Init /\ [][Next]_<<sent, received>>
=============================================================================
