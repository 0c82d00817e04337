------------------------- MODULE FixpointIteration -------------------------
(***************************************************************************)
(* What Space::status() promises, whatever the order in which it runs the  *)
(* propagators: it applies posted propagators, one at a time, and returns  *)
(* when all of them are at fixpoint or one of them has failed.             *)
(*                                                                         *)
(* A propagator that has been disabled may miss changes: it is "slack"     *)
(* until it runs or is scheduled again.                                    *)
(***************************************************************************)
CONSTANTS
  Propagator,           \* the propagators that may be posted
  Store,                \* the domains of all variables
  Stronger(_, _),       \* Stronger(t, s): t is s after some pruning, or s itself
  Outcomes(_, _),       \* Outcomes(p, s): what running p in s may result in, as
                        \* records of store and status
  AtFixpoint(_, _)      \* AtFixpoint(p, s): running p in s changes nothing

VARIABLES
  store,      \* the variables
  posted,     \* the propagators of the space
  slack,      \* those that may have missed a change
  failed,     \* failed()
  running     \* a call of status() is under way

vars == <<store, posted, slack, failed, running>>

Init ==
  /\ store \in Store
  /\ posted = {} /\ slack = {}
  /\ failed = FALSE /\ running = FALSE

Call == ~running /\ running' = TRUE /\ UNCHANGED <<store, posted, slack, failed>>

(* between two calls *)
Tell ==
  /\ ~running
  /\ store' \in Store /\ Stronger(store', store)
  /\ failed' \in {failed, TRUE}
  /\ UNCHANGED <<posted, slack, running>>

Post(p) == ~running /\ posted' = posted \cup {p} /\ UNCHANGED <<store, slack, failed, running>>

Kill(p) ==
  /\ ~running
  /\ posted' = posted \ {p} /\ slack' = slack \ {p}
  /\ UNCHANGED <<store, failed, running>>

Disable(p) == ~running /\ slack' = slack \cup {p} /\ UNCHANGED <<store, posted, failed, running>>
Resume(p) == ~running /\ slack' = slack \ {p} /\ UNCHANGED <<store, posted, failed, running>>

(* within a call *)
Apply(p) ==
  /\ running /\ ~failed /\ p \in posted
  /\ \E o \in Outcomes(p, store) :
       /\ store' = o.store
       /\ failed' = (o.status = "failed")
       /\ posted' = IF o.status = "subsumed" THEN posted \ {p} ELSE posted
  /\ slack' = slack \ {p}
  /\ UNCHANGED running

Return ==
  /\ running /\ running' = FALSE
  /\ failed \/ \A p \in posted \ slack : AtFixpoint(p, store)
  /\ UNCHANGED <<store, posted, slack, failed>>

Next ==
  \/ Call \/ Tell \/ Return
  \/ \E p \in Propagator : Post(p) \/ Kill(p) \/ Disable(p) \/ Resume(p) \/ Apply(p)

Spec == Init /\ [][Next]_vars
=============================================================================
