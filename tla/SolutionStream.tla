--------------------------- MODULE SolutionStream ---------------------------
(***************************************************************************)
(* What a search engine promises to its caller, whatever it does inside:   *)
(* every call of next() delivers one of the solutions that are still to be *)
(* reported, or null: because none is left, or because the engine has been *)
(* stopped, and then the next call goes on where this one has left off.    *)
(*                                                                         *)
(* The engines differ in the order in which they deliver and in what a     *)
(* solution leaves to be reported.                                         *)
(***************************************************************************)
CONSTANTS
  Solution,       \* identities of solutions
  NoSpace,        \* the null pointer
  Before(_, _),   \* Before(s, t): s is delivered before t
  After(_, _)     \* After(S, s): what of S is still to be reported after s

VARIABLES
  todo,      \* solutions still to be reported
  calling,   \* a call of next() is under way
  ret,       \* what the last call returned
  stopped    \* stopped()

vars == <<todo, calling, ret, stopped>>

Init ==
  /\ todo \in SUBSET Solution
  /\ calling = FALSE /\ ret = NoSpace /\ stopped = FALSE

Call ==
  /\ ~calling /\ calling' = TRUE
  /\ stopped' = FALSE
  /\ UNCHANGED <<todo, ret>>

Deliver(s) ==
  /\ calling /\ calling' = FALSE
  /\ s \in todo /\ \A t \in todo : ~Before(t, s)
  /\ todo' = After(todo, s)
  /\ ret' = s
  /\ UNCHANGED stopped

NoneLeft ==
  /\ calling /\ calling' = FALSE
  /\ todo = {}
  /\ ret' = NoSpace
  /\ UNCHANGED <<todo, stopped>>

Stop ==
  /\ calling /\ calling' = FALSE
  /\ ret' = NoSpace /\ stopped' = TRUE
  /\ UNCHANGED todo

(* between two calls the caller may replace the problem or learn of a
   solution from elsewhere *)
Replace ==
  /\ ~calling
  /\ todo' \in SUBSET Solution
  /\ UNCHANGED <<calling, ret, stopped>>

Next == Call \/ (\E s \in Solution : Deliver(s)) \/ NoneLeft \/ Stop \/ Replace

Spec == Init /\ [][Next]_vars
=============================================================================
