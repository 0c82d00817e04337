---------------------------- MODULE Propagation ----------------------------
(***************************************************************************)
(* The propagation queues of a space: Space::status() and enqueue() of     *)
(* gecode/kernel/core.cpp and core.hpp, with the operations that schedule, *)
(* kill, disable and enable propagators between two calls of status().     *)
(*                                                                         *)
(* What a propagator does to the variables is a parameter: Propagate gives *)
(* the outcomes of a run, ModEvent the strongest modification event among  *)
(* those that the change of the variables causes and the propagator, or an *)
(* advisor of its own, is subscribed to.  The assumption states            *)
(* what the kernel requires of them (core.hpp, "Propagation function").    *)
(*                                                                         *)
(* One action is one run of a propagator with all the scheduling it causes *)
(* and what status() then does with it.  The order of the propagators in   *)
(* one queue is left open: any of them may be the first.                   *)
(***************************************************************************)
EXTENDS Integers

CONSTANTS
  Propagator, Store,
  Stronger(_, _),         \* Stronger(t, s): t is s after some pruning, or s
  Propagate(_, _, _),     \* Propagate(p, s, m): outcomes of running p in s
                          \* scheduled with m: records of store, status, med
  AtFixpoint(_, _),       \* AtFixpoint(p, s): p has nothing to do in s
  ModEvent(_, _, _),      \* ModEvent(p, s, t): what schedules p when s becomes t
  Forced(_, _, _),        \* an advisor of p forces p to be scheduled again
  Wakeup(_, _),           \* Wakeup(p, s): what subscribe and reschedule schedule p with
  Cost(_, _),             \* Cost(p, m): the queue for p when scheduled with m
  AC_MAX,                 \* last queue; queue 0 is AC_RECORD
  Start,                  \* the variables before anything is posted
  Group                   \* the propagators that the user kills, disables and enables

AC_RECORD == 0
ME_NONE == 0
ME_DOM == 1
ME_BND == 2
ME_VAL == 3
Med == ME_NONE .. ME_VAL

(* med_combine: the stronger event stays *)
Combine(m, n) == IF m < n THEN n ELSE m

Status == {"failed", "fix", "nofix", "subsumed", "fix_partial", "nofix_partial"}
Outcome == [store : Store, status : Status, med : Med]

ASSUME QueuesAssumption == AC_MAX \in Nat /\ Start \subseteq Store /\ Group \subseteq Propagator

ASSUME StrongerAssumption == \A s \in Store : Stronger(s, s)

ASSUME ContractAssumption ==
  \A p \in Propagator :
    /\ \A s \in Store :
         /\ Wakeup(p, s) \in Med
         /\ Wakeup(p, s) = ME_NONE => AtFixpoint(p, s)
         /\ \A t \in Store : Stronger(t, s) =>
              /\ ModEvent(p, s, t) \in Med
              /\ Forced(p, s, t) => ModEvent(p, s, t) # ME_NONE
              /\ AtFixpoint(p, s) /\ ModEvent(p, s, t) = ME_NONE => AtFixpoint(p, t)
    /\ \A m \in Med \ {ME_NONE} :
         /\ Cost(p, m) \in 0 .. AC_MAX
         /\ \A s \in Store : \A o \in Propagate(p, s, m) :
              /\ o \in Outcome /\ Stronger(o.store, s)
              /\ o.status = "fix" => AtFixpoint(p, o.store)
              /\ o.status = "nofix" /\ ModEvent(p, s, o.store) = ME_NONE => AtFixpoint(p, o.store)
              /\ o.status \in {"fix_partial", "nofix_partial"} => o.med # ME_NONE

VARIABLES
  store,      \* the variables
  posted,     \* the propagators of the space
  med,        \* u.med of each propagator
  level,      \* the queue a propagator is in, Idle if it is in pl
  active,     \* pc.p.active, as the number of the queue
  disabled,   \* propagators marked as disabled
  sc,         \* sc_disabled is set in bid_sc
  missed,     \* history: disabled, and neither run nor rescheduled since
  pc          \* "user", or "status" within status()

vars == <<store, posted, med, level, active, disabled, sc, missed, pc>>

Idle == -1
Stable == -1
Failed == AC_MAX + 2
failed == active = Failed

Init ==
  /\ store \in Start
  /\ posted = {} /\ med = [p \in Propagator |-> ME_NONE]
  /\ level = [p \in Propagator |-> Idle] /\ active = Stable
  /\ disabled = {} /\ sc = FALSE /\ missed = {} /\ pc = "user"

-----------------------------------------------------------------------------
(* schedule() of all that is subscribed to a change from s to t: med_update()
   says whether the event is new for a propagator, enqueue() moves it to the
   queue for its cost and raises active.  medf, lev and act are what status()
   has made of med, level and active before. *)

Due(medf, s, t) ==
  {p \in posted : \/ Combine(medf[p], ModEvent(p, s, t)) # medf[p]
                  \/ Forced(p, s, t)}
Notified(medf, s, t) ==
  [p \in Propagator |-> IF p \in posted THEN Combine(medf[p], ModEvent(p, s, t)) ELSE medf[p]]
Enqueued(lev, S, medf) == [p \in Propagator |-> IF p \in S THEN Cost(p, medf[p]) ELSE lev[p]]
Costs(S, medf) == {Cost(p, medf[p]) : p \in S}

(* active is left at the greatest of C: raised by enqueue(), or lowered to the
   next queue that is not empty *)
SetActive(C) == \E n \in C : (\A k \in C : k <= n) /\ active' = n

(* mutant: only the queue c itself is looked at *)
NonEmptyTop(lev, c) == {Stable} \cup {n \in {c} : \E p \in Propagator : lev[p] = n}

(* the queues from c downwards that are not empty, and Stable below the first *)
NonEmpty(lev, c) == {Stable} \cup {n \in Stable .. c : \E p \in Propagator : lev[p] = n}

Unlink(lev, p) == [lev EXCEPT ![p] = Idle]
(* mutant: the events that a propagator was scheduled with are not cleared *)
ClearNothing(medf, p) == medf

Clear(medf, p) == [medf EXCEPT ![p] = ME_NONE]

-----------------------------------------------------------------------------
(* Between two calls of status() *)

Schedule(p, m) ==
  LET n == [med EXCEPT ![p] = Combine(med[p], m)]
      due == IF n = med THEN {} ELSE {p}
  IN /\ med' = n
     /\ level' = Enqueued(level, due, n)
     /\ SetActive({active} \cup Costs(due, n))

Post(p) ==
  /\ pc = "user" /\ ~failed
  /\ p \notin posted /\ posted' = posted \cup {p}
  /\ Schedule(p, Wakeup(p, store))
  /\ UNCHANGED <<store, disabled, sc, missed, pc>>

(* a commit, a constraint of the best solution or a post function prunes *)
Tell(t) ==
  /\ pc = "user" /\ ~failed
  /\ Stronger(t, store) /\ store' = t
  /\ LET n == Notified(med, store, t)
         due == Due(med, store, t)
     IN /\ med' = n
        /\ level' = Enqueued(level, due, n)
        /\ SetActive({active} \cup Costs(due, n))
  /\ UNCHANGED <<posted, disabled, sc, missed, pc>>

Fail ==
  /\ pc = "user" /\ active' = Failed
  /\ UNCHANGED <<store, posted, med, level, disabled, sc, missed, pc>>

(* mutant: active keeps pointing at a queue that may have become empty *)
KillKeepsActive(p) ==
  /\ pc = "user" /\ ~failed
  /\ p \in posted /\ posted' = posted \ {p}
  /\ med' = Clear(med, p) /\ level' = Unlink(level, p)
  /\ disabled' = disabled \ {p} /\ missed' = missed \ {p}
  /\ UNCHANGED <<store, active, sc, pc>>

Kill(p) ==
  /\ pc = "user" /\ ~failed
  /\ p \in posted /\ posted' = posted \ {p}
  /\ med' = Clear(med, p) /\ level' = Unlink(level, p)
  /\ SetActive(NonEmpty(level', active))
  /\ disabled' = disabled \ {p} /\ missed' = missed \ {p}
  /\ UNCHANGED <<store, sc, pc>>

Disable(p) ==
  /\ pc = "user" /\ ~failed
  /\ p \in posted /\ disabled' = disabled \cup {p}
  /\ sc' = TRUE /\ missed' = missed \cup {p}
  /\ UNCHANGED <<store, posted, med, level, active, pc>>

Enable(p) ==
  /\ pc = "user" /\ ~failed
  /\ p \in posted /\ disabled' = disabled \ {p}
  /\ UNCHANGED <<store, posted, med, level, active, sc, missed, pc>>

(* mutant: the mark is removed, but nothing is scheduled *)
EnableOnly(p) ==
  /\ pc = "user" /\ ~failed
  /\ p \in posted /\ disabled' = disabled \ {p}
  /\ missed' = missed \ {p}
  /\ UNCHANGED <<store, posted, med, level, active, sc, pc>>

EnableAndReschedule(p) ==
  /\ pc = "user" /\ ~failed
  /\ p \in posted /\ disabled' = disabled \ {p}
  /\ Schedule(p, Wakeup(p, store))
  /\ missed' = missed \ {p}
  /\ UNCHANGED <<store, posted, sc, pc>>

StatusCall ==
  /\ pc = "user" /\ pc' = "status"
  /\ UNCHANGED <<store, posted, med, level, active, disabled, sc, missed>>

-----------------------------------------------------------------------------
(* Within status() *)

First(p) ==
  /\ pc = "status" /\ ~failed
  /\ level[p] \in 0 .. active
  /\ \A q \in Propagator : level[q] <= active => level[q] <= level[p]

(* d_execute: a disabled propagator is put into the idle list *)
SkipDisabled(p) ==
  /\ First(p) /\ sc /\ p \in disabled
  /\ med' = Clear(med, p) /\ level' = Unlink(level, p)
  /\ active' = level[p]
  /\ UNCHANGED <<store, posted, disabled, sc, missed, pc>>

(* f_execute, and what follows for each ExecStatus: o is the outcome, m0 the
   events after med has been cleared, m those after the run *)
Execute(p) ==
  /\ First(p) /\ ~(sc /\ p \in disabled)
  /\ \E o \in Propagate(p, store, med[p]) :
       LET m0 == Clear(med, p)
           m == Notified(m0, store, o.store)
           due == Due(m0, store, o.store)
           lev == Enqueued(level, due, m)
           levels == {level[p]} \cup Costs(due, m)
           again == [m EXCEPT ![p] = IF o.status = "fix_partial" THEN o.med ELSE Combine(@, o.med)]
       IN /\ store' = o.store
          /\ \/ /\ o.status = "failed"
                /\ active' = Failed /\ level' = lev
                /\ med' = [q \in Propagator |-> IF lev[q] = AC_RECORD THEN ME_NONE ELSE m[q]]
                /\ UNCHANGED <<posted, disabled>>
             \/ /\ o.status = "fix" \/ (o.status = "nofix" /\ m[p] = ME_NONE)
                /\ med' = Clear(m, p) /\ level' = Unlink(lev, p) /\ SetActive(levels)
                /\ UNCHANGED <<posted, disabled>>
             \/ /\ o.status = "nofix" /\ m[p] # ME_NONE
                /\ med' = m /\ level' = lev /\ SetActive(levels)
                /\ UNCHANGED <<posted, disabled>>
             \/ /\ o.status = "subsumed"
                /\ med' = Clear(m, p) /\ level' = Unlink(lev, p) /\ SetActive(levels)
                /\ posted' = posted \ {p} /\ disabled' = disabled \ {p}
             \/ /\ o.status \in {"fix_partial", "nofix_partial"}
                /\ med' = again /\ level' = Enqueued(lev, {p}, again)
                /\ SetActive(levels \cup Costs({p}, again))
                /\ UNCHANGED <<posted, disabled>>
  /\ missed' = missed \ {p}
  /\ UNCHANGED <<sc, pc>>

(* f_stable, or the space is failed: the brancher to continue with is found *)
Return ==
  /\ pc = "status" /\ pc' = "user"
  /\ \/ failed /\ active' = active
     \/ ~failed /\ NonEmpty(level, active) = {Stable} /\ active' = Stable
  /\ UNCHANGED <<store, posted, med, level, disabled, sc, missed>>

StatusStep == Return \/ (\E p \in Propagator : SkipDisabled(p) \/ Execute(p))

Next ==
  \/ StatusCall \/ StatusStep \/ Fail
  \/ \E t \in Store : Tell(t)
  \/ \E p \in Propagator : Post(p)
  \/ \E p \in Group : Kill(p) \/ Disable(p) \/ Enable(p) \/ EnableAndReschedule(p)

Spec == Init /\ [][Next]_vars

(* status() is a loop of the calling thread *)
FairSpec == Spec /\ WF_vars(StatusStep)

-----------------------------------------------------------------------------
TypeOK ==
  /\ store \in Store /\ posted \subseteq Propagator
  /\ med \in [Propagator -> Med] /\ level \in [Propagator -> Idle .. AC_MAX]
  /\ active \in (Stable .. AC_MAX) \cup {Failed}
  /\ disabled \subseteq posted /\ missed \subseteq posted /\ sc \in BOOLEAN
  /\ pc \in {"user", "status"}

(* No propagator that has something to do is lost: it is in a queue exactly if
   it has events, no queue above active holds one, and outside of status()
   active tells a stable space from one with work (the invariant that
   core.hpp states for active).  In a failed space nothing is run any more. *)
QueuesOK ==
  ~failed =>
    /\ \A p \in Propagator :
         /\ med[p] # ME_NONE <=> level[p] # Idle
         /\ level[p] <= active
         /\ level[p] # Idle => p \in posted
    /\ pc = "user" /\ active # Stable => \E p \in Propagator : level[p] # Idle

(* A propagator without events is at fixpoint, unless it has been disabled and
   not scheduled since: events are neither dropped while it runs nor when its
   run moves it to the idle list. *)
FixpointOK ==
  ~failed => \A p \in posted \ missed : med[p] = ME_NONE => AtFixpoint(p, store)

(* status() only applies propagators of the space and returns at a fixpoint of
   all of them or after a failure. *)
Outcomes(p, s) == UNION {Propagate(p, s, m) : m \in Med \ {ME_NONE}}
Iteration == INSTANCE FixpointIteration WITH slack <- missed, running <- pc = "status"
FixpointSpec == Iteration!Spec

(* Every call of status() returns: no propagator is rescheduled for ever. *)
StatusReturns == pc = "status" ~> pc = "user"
=============================================================================
