--------------------------------- MODULE Fifo ---------------------------------
(* A queue: what gecode/support/dynamic-queue.hpp promises *)
EXTENDS Sequences
CONSTANT Element
VARIABLES elements, popped   \* popped: what pop() returned last

Init == elements = <<>> /\ popped = <<>>
Push == popped' = popped /\ \E x \in Element : elements' = Append(elements, x)
Pop == elements # <<>> /\ popped' = <<Head(elements)>> /\ elements' = Tail(elements)
Reset == elements' = <<>> /\ popped' = popped

Next == Push \/ Pop \/ Reset
Spec == Init /\ [][Next]_<<elements, popped>>
=============================================================================
