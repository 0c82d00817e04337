------------------------------ MODULE DynamicQueue ------------------------------
(***************************************************************************)
(* The ring buffer of gecode/support/dynamic-queue.hpp: it is resized as   *)
(* soon as it is full, with the oldest element anywhere, so that fst = lst *)
(* means that it is empty.                                                 *)
(***************************************************************************)
EXTENDS Naturals, Sequences

CONSTANTS
  Element,
  InitialLimit,   \* the size at first, a power of two (8 in the code)
  MaxLimit        \* bound: no push() that would resize beyond it

QueueAssumption == InitialLimit \in Nat \ {0}

VARIABLES limit, fst, lst, q, popped
vars == <<limit, fst, lst, q, popped>>

Garbage == CHOOSE x \in Element : TRUE   \* what the memory holds

Init ==
  /\ limit = InitialLimit /\ fst = 0 /\ lst = 0 /\ popped = <<>>
  /\ q = [i \in 0 .. InitialLimit - 1 |-> Garbage]

Empty == fst = lst
Move(i) == (i + 1) % limit    \* (i+1) & (limit-1)

(* mutant: the elements are copied as they lie *)
ResizedInPlace(p) == [i \in 0 .. 2 * limit - 1 |-> IF i < limit THEN p[i] ELSE Garbage]

(* resize(): the new array, oldest element first *)
Resized(p) ==
  [i \in 0 .. 2 * limit - 1 |-> IF i < limit - fst THEN p[fst + i]
                                ELSE IF i < limit THEN p[i - (limit - fst)] ELSE Garbage]

Push(x) ==
  LET p == [q EXCEPT ![lst] = x]
  IN /\ IF Move(lst) = fst
        THEN /\ 2 * limit <= MaxLimit
             /\ q' = Resized(p) /\ fst' = 0 /\ lst' = limit /\ limit' = 2 * limit
        ELSE q' = p /\ lst' = Move(lst) /\ UNCHANGED <<fst, limit>>
     /\ UNCHANGED popped

Pop ==
  /\ ~Empty
  /\ popped' = <<q[fst]>> /\ fst' = Move(fst)
  /\ UNCHANGED <<limit, lst, q>>

Reset ==
  /\ fst' = 0 /\ lst' = 0
  /\ UNCHANGED <<limit, q, popped>>

Next == Pop \/ Reset \/ \E x \in Element : Push(x)
Spec == Init /\ [][Next]_vars

-----------------------------------------------------------------------------
Size == (lst + limit - fst) % limit
Elements == [i \in 1 .. Size |-> q[(fst + i - 1) % limit]]

Queue == INSTANCE Fifo WITH elements <- Elements

(* Elements are popped in the order in which they have been pushed, none is lost or
   popped twice, wherever the oldest one lies when the array is resized and however
   often it is (push(), pop() and resize()). *)
FifoSpec == Queue!Spec
=============================================================================
