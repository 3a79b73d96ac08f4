---------------------------- MODULE MessageQueue ----------------------------
(***************************************************************************)
(* What the bridge between the data channel and the archive loop promises: *)
(* messages are received in the order in which they were sent, each once.  *)
(***************************************************************************)
EXTENDS Naturals, Sequences

CONSTANT Message
VARIABLES sent, received

Init == sent = <<>> /\ received = <<>>

Send(m) == sent' = Append(sent, m) /\ UNCHANGED received

Receive ==
    /\ Len(received) < Len(sent)
    /\ received' = Append(received, sent[Len(received) + 1])
    /\ UNCHANGED sent

Next == (\E m \in Message : Send(m)) \/ Receive

Spec == Init /\ [][Next]_<<sent, received>>
=============================================================================
