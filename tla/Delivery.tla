------------------------------ MODULE Delivery ------------------------------
(* What the Gateway client promises about incoming messages: each one is      *)
(* handed to a handler once, whole, and in the order of arrival.  Chunks.tla  *)
(* is shown to implement this module on a well-paced connection.              *)
EXTENDS Naturals, Sequences

CONSTANT MaxMessages            \* bound: messages in one behaviour

VARIABLES arrived, handled      \* the texts, in order

Init == arrived = <<>> /\ handled = <<>>

Arrive ==
    /\ Len(arrived') = Len(arrived) + 1
    /\ SubSeq(arrived', 1, Len(arrived)) = arrived
    /\ UNCHANGED handled

Handle ==
    /\ Len(handled) < Len(arrived)
    /\ handled' = Append(handled, arrived[Len(handled) + 1])
    /\ UNCHANGED arrived

Spec == Init /\ [][Arrive \/ Handle]_<<arrived, handled>>

\* Every message that has arrived gets its handler in the end.
EverythingHandled ==
    \A n \in 1..MaxMessages : (Len(arrived) >= n) ~> (Len(handled) >= n)
=============================================================================
