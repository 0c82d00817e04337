------------------------------ MODULE ThreadPool ------------------------------
(***************************************************************************)
(* What Thread::run() promises (gecode/support/thread.hpp): each time that *)
(* a runnable is submitted it is run once, by some thread, then it is      *)
(* deleted unless it is kept, and after that its terminator, if it has     *)
(* one, is told.  A runnable that is kept may be submitted again then.     *)
(* Nothing is promised about when a runnable returns.                      *)
(***************************************************************************)
CONSTANTS
  Runnable,
  Kept,   \* those with todelete() false
  Told    \* those with a terminator
VARIABLE status

Statuses == {"new", "submitted", "running", "returned", "deleted", "terminated"}

Init == status = [x \in Runnable |-> "new"]

Becomes(x, s, t) == status[x] = s /\ status' = [status EXCEPT ![x] = t]

Submit(x) ==
  \/ Becomes(x, "new", "submitted")
  \/ x \in Kept /\ Becomes(x, "terminated", "submitted")
Start(x) == Becomes(x, "submitted", "running")
Return(x) == Becomes(x, "running", "returned")
Delete(x) == x \notin Kept /\ Becomes(x, "returned", "deleted")
Terminated(x) ==
  x \in Told /\ Becomes(x, IF x \in Kept THEN "returned" ELSE "deleted", "terminated")

Next ==
  \E x \in Runnable : Submit(x) \/ Start(x) \/ Return(x) \/ Delete(x) \/ Terminated(x)

SafeSpec == Init /\ [][Next]_status
Spec ==
  /\ SafeSpec
  /\ \A x \in Runnable :
       WF_status(Start(x)) /\ WF_status(Delete(x)) /\ WF_status(Terminated(x))
=============================================================================
