----------------------------- MODULE KernelProofs -----------------------------
(***************************************************************************)
(* What holds of the kernel for every value of the constants.              *)
(*                                                                         *)
(* Propagation: the queues lose nothing, for any propagators that keep the *)
(* contract of the kernel, any number of queues and any costs; and         *)
(* status() implements the abstract fixpoint iteration.  What is scheduled *)
(* is described by Notified, Due and Enqueued, which Tell, Execute, Post   *)
(* and EnableAndReschedule share: Scheduled collects what they do to one   *)
(* propagator.                                                             *)
(*                                                                         *)
(* No-goods: for any path, any domains and any solutions, the propagator   *)
(* is subscribed to what it watches (SubInv), prunes only what has been    *)
(* explored (SubInv /\ KeepInv) and everything that its no-goods imply     *)
(* (with PropInv).  BuiltChain says what post() builds, the section on     *)
(* what propagate() does to the chain what becomes of it.                  *)
(*                                                                         *)
(* Cloning: for any actors, advisors, variables and local objects, clone() *)
(* leaves the original as it was and makes a faithful copy, or disposes of *)
(* what it has copied.  Original describes a space that is not being       *)
(* cloned, Copying one of which a partial clone has been made: each copy   *)
(* function keeps it, and whatever restores the original relies on nothing *)
(* else.  CopyInv says how far the copy constructors have got.             *)
(*                                                                         *)
(* Branching: for any branchers, whatever they post and kill, the choices  *)
(* on the path find their branchers again from any clone (BranchInv).      *)
(* Along explains a path by what each of its spaces has to offer, Fits     *)
(* says that a space does: it is kept by status() (StatusFits), choice()   *)
(* (ChooseFits) and commit() (CommitFits).                                 *)
(***************************************************************************)
EXTENDS Kernel, SequenceTheorems, FiniteSetTheorems, WellFoundedInduction, TLAPS

-----------------------------------------------------------------------------
(* Propagation. *)

Queue == Idle .. AC_MAX

LEMMA ConstantsOK == AC_MAX \in Nat /\ Start \subseteq Store /\ Group \subseteq Propagator
BY QueuesAssumption

(* Combining events yields an event, and none only from none. *)
LEMMA CombineOK ==
  ASSUME NEW m \in Med, NEW n \in Med
  PROVE  /\ Combine(m, n) \in Med
         /\ Combine(m, n) = ME_NONE => m = ME_NONE /\ n = ME_NONE
         /\ m = ME_NONE => Combine(m, n) = n
         /\ n # ME_NONE => Combine(m, n) # ME_NONE
BY DEF Combine, Med, ME_NONE, ME_VAL

(* What schedule() does to a propagator when the variables change from s to t:
   who is not due keeps its events and its queue, who is due has events and
   gets the queue for them, and who has no events then misses nothing. *)
LEMMA Scheduled ==
  ASSUME posted \subseteq Propagator,
         NEW medf \in [Propagator -> Med], NEW lev \in [Propagator -> Queue],
         NEW s \in Store, NEW t \in Store, Stronger(t, s)
  PROVE  /\ Notified(medf, s, t) \in [Propagator -> Med]
         /\ Enqueued(lev, Due(medf, s, t), Notified(medf, s, t)) \in [Propagator -> Queue]
         /\ Costs(Due(medf, s, t), Notified(medf, s, t)) \subseteq 0 .. AC_MAX
         /\ Due(medf, s, t) \subseteq posted
         /\ \A q \in Due(medf, s, t) :
              /\ Notified(medf, s, t)[q] # ME_NONE
              /\ Enqueued(lev, Due(medf, s, t), Notified(medf, s, t))[q]
                   \in Costs(Due(medf, s, t), Notified(medf, s, t))
         /\ \A q \in Propagator \ Due(medf, s, t) :
              /\ Notified(medf, s, t)[q] = medf[q]
              /\ Enqueued(lev, Due(medf, s, t), Notified(medf, s, t))[q] = lev[q]
         /\ \A q \in posted :
              Notified(medf, s, t)[q] = ME_NONE =>
                medf[q] = ME_NONE /\ ModEvent(q, s, t) = ME_NONE
<1> DEFINE due == Due(medf, s, t)
           n == Notified(medf, s, t)
<1>1. \A q \in posted : ModEvent(q, s, t) \in Med /\ (Forced(q, s, t) => ModEvent(q, s, t) # ME_NONE)
  BY ContractAssumption
<1>2. n \in [Propagator -> Med]
  BY <1>1, CombineOK DEF Notified
<1>3. due \subseteq posted
  BY DEF Due
<1>4. \A q \in due : n[q] # ME_NONE
  <2> SUFFICES ASSUME NEW q \in due PROVE n[q] # ME_NONE
    OBVIOUS
  <2>1. q \in posted /\ q \in Propagator /\ n[q] = Combine(medf[q], ModEvent(q, s, t)) /\ medf[q] \in Med
    BY <1>3 DEF Notified
  <2>2. Combine(medf[q], ModEvent(q, s, t)) # medf[q] \/ Forced(q, s, t)
    BY DEF Due
  <2>3. ModEvent(q, s, t) # ME_NONE
    BY <2>1, <2>2, <1>1 DEF Combine, Med, ME_NONE, ME_VAL
  <2> QED BY <2>1, <2>3, <1>1, CombineOK
<1>5. \A q \in due : Cost(q, n[q]) \in 0 .. AC_MAX
  BY <1>2, <1>3, <1>4, ContractAssumption
<1>6. Costs(due, n) \subseteq 0 .. AC_MAX
  BY <1>5 DEF Costs
<1>7. Enqueued(lev, due, n) \in [Propagator -> Queue]
  BY <1>5, ConstantsOK DEF Enqueued, Queue, Idle
<1>8. \A q \in due : Enqueued(lev, due, n)[q] \in Costs(due, n)
  BY <1>3 DEF Enqueued, Costs
<1>9. \A q \in Propagator \ due : n[q] = medf[q] /\ Enqueued(lev, due, n)[q] = lev[q]
  BY DEF Notified, Enqueued, Due
<1>10. \A q \in posted : n[q] = ME_NONE => medf[q] = ME_NONE /\ ModEvent(q, s, t) = ME_NONE
  <2> SUFFICES ASSUME NEW q \in posted, n[q] = ME_NONE
               PROVE medf[q] = ME_NONE /\ ModEvent(q, s, t) = ME_NONE
    OBVIOUS
  <2>1. n[q] = Combine(medf[q], ModEvent(q, s, t)) /\ medf[q] \in Med
    BY DEF Notified
  <2> QED BY <2>1, <1>1, CombineOK
<1> QED BY <1>2, <1>3, <1>4, <1>6, <1>7, <1>8, <1>9, <1>10

(* active is left at the greatest queue of a set. *)
LEMMA ActiveOK ==
  ASSUME NEW cs, SetActive(cs)
  PROVE  active' \in cs /\ \A k \in cs : k <= active'
BY DEF SetActive

-----------------------------------------------------------------------------
IInv == TypeOK /\ QueuesOK /\ FixpointOK

(* Who is disabled may have missed something, and the flag says that there are
   disabled propagators: otherwise one would be run although it is disabled, or
   skipped although it is held to be at fixpoint. *)
DisabledMissed == disabled \subseteq missed /\ (disabled # {} => sc)

LEMMA InitOK == Init => IInv
<1> SUFFICES ASSUME Init PROVE IInv
  OBVIOUS
<1>1. Idle \in Queue /\ ME_NONE \in Med /\ Stable \in Stable .. AC_MAX
  BY ConstantsOK DEF Queue, Idle, Stable, Med, ME_NONE, ME_VAL
<1>2. TypeOK
  <2>1. store \in Store /\ posted = {} /\ disabled = {} /\ missed = {} /\ sc \in BOOLEAN /\ pc = "user" /\ active = Stable
    BY ConstantsOK DEF Init
  <2>2. med \in [Propagator -> Med] /\ level \in [Propagator -> Queue]
    BY <1>1 DEF Init
  <2> QED BY <1>1, <2>1, <2>2 DEF TypeOK, Queue
<1>3. \A p \in Propagator : med[p] = ME_NONE /\ level[p] = Idle
  BY DEF Init
<1>4. active = Stable /\ posted = {}
  BY DEF Init
<1>5. Idle <= Stable
  BY DEF Idle, Stable
<1> QED BY <1>2, <1>3, <1>4, <1>5 DEF IInv, QueuesOK, FixpointOK

(* What TypeOK and QueuesOK say of a space that is not failed. *)
LEMMA Running ==
  ASSUME IInv, ~failed
  PROVE  /\ active \in Stable .. AC_MAX
         /\ \A q \in Propagator : level[q] \in Queue /\ med[q] \in Med
         /\ \A q \in Propagator \ posted : med[q] = ME_NONE /\ level[q] = Idle
BY DEF IInv, TypeOK, QueuesOK, failed, Queue

LEMMA TellOK == ASSUME IInv, NEW t \in Store, Tell(t) PROVE IInv'
<1> DEFINE n == Notified(med, store, t)
           due == Due(med, store, t)
<1>1. ~failed /\ store' = t /\ med' = n /\ level' = Enqueued(level, due, n) /\ SetActive({active} \cup Costs(due, n))
      /\ Stronger(t, store) /\ UNCHANGED <<posted, disabled, sc, missed, pc>> /\ pc = "user"
  BY DEF Tell
<1>2. posted \subseteq Propagator /\ med \in [Propagator -> Med] /\ level \in [Propagator -> Queue] /\ store \in Store
  BY DEF IInv, TypeOK, Queue
<1>3. active' \in {active} \cup Costs(due, n) /\ \A k \in {active} \cup Costs(due, n) : k <= active'
  BY <1>1, ActiveOK
<1> HIDE DEF n, due
<1>4. /\ n \in [Propagator -> Med] /\ level' \in [Propagator -> Queue]
      /\ Costs(due, n) \subseteq 0 .. AC_MAX /\ due \subseteq posted
      /\ \A q \in due : n[q] # ME_NONE /\ level'[q] \in Costs(due, n)
      /\ \A q \in Propagator \ due : n[q] = med[q] /\ level'[q] = level[q]
      /\ \A q \in posted : n[q] = ME_NONE => med[q] = ME_NONE /\ ModEvent(q, store, t) = ME_NONE
  BY <1>1, <1>2, Scheduled DEF n, due
<1>5. TypeOK'
  BY <1>1, <1>3, <1>4, Running DEF IInv, TypeOK, Queue, Stable
<1>6. active' # Failed
  BY <1>3, <1>4, <1>1, Running, ConstantsOK DEF Failed, Stable
<1>7. QueuesOK'
  <2>1. ASSUME NEW q \in Propagator
        PROVE /\ med'[q] # ME_NONE <=> level'[q] # Idle
              /\ level'[q] <= active' /\ (level'[q] # Idle => q \in posted')
    <3>1. CASE q \in due
      BY <3>1, <1>1, <1>3, <1>4, ConstantsOK DEF Idle
    <3>2. CASE q \notin due
      <4>1. level[q] <= active /\ active <= active' /\ level'[q] = level[q] /\ med'[q] = med[q]
        BY <3>2, <1>1, <1>3, <1>4 DEF IInv, QueuesOK
      <4>2. level[q] \in Int /\ active \in Int /\ active' \in Int
        BY <1>1, <1>3, <1>4, Running, ConstantsOK DEF Queue, Stable, Idle
      <4> QED BY <4>1, <4>2, <1>1 DEF IInv, QueuesOK
    <3> QED BY <3>1, <3>2
  <2>2. ASSUME active' # Stable PROVE \E q \in Propagator : level'[q] # Idle
    <3>1. CASE \E q \in due : TRUE
      BY <3>1, <1>2, <1>4, ConstantsOK DEF Idle
    <3>2. CASE due = {}
      <4>1. active' = active
        BY <3>2, <1>3 DEF Costs
      <4>2. PICK q \in Propagator : level[q] # Idle
        BY <4>1, <2>2, <1>1 DEF IInv, QueuesOK
      <4> QED BY <4>2, <3>2, <1>4
    <3> QED BY <3>1, <3>2
  <2> QED BY <2>1, <2>2 DEF QueuesOK
<1>8. FixpointOK'
  <2> SUFFICES ASSUME NEW q \in posted \ missed, n[q] = ME_NONE PROVE AtFixpoint(q, t)
    BY <1>1 DEF FixpointOK
  <2>1. med[q] = ME_NONE /\ ModEvent(q, store, t) = ME_NONE
    BY <1>4
  <2>2. AtFixpoint(q, store)
    BY <2>1, <1>1 DEF IInv, FixpointOK
  <2> QED BY <2>1, <2>2, <1>1, <1>2, ContractAssumption
<1> QED BY <1>5, <1>7, <1>8 DEF IInv

(* Scheduling one propagator outside of status() keeps the queues sound. *)
LEMMA ScheduleOK ==
  ASSUME IInv, ~failed, pc = "user", NEW p \in Propagator, NEW m \in Med, Schedule(p, m),
         p \in posted', posted \subseteq posted'
  PROVE  /\ med' \in [Propagator -> Med] /\ level' \in [Propagator -> Queue]
         /\ active' \in Stable .. AC_MAX /\ active' # Failed
         /\ QueuesOK'
         /\ \A q \in Propagator \ {p} : med'[q] = med[q]
         /\ med'[p] = ME_NONE => m = ME_NONE /\ med[p] = ME_NONE
<1> DEFINE n == [med EXCEPT ![p] = Combine(med[p], m)]
           due == IF n = med THEN {} ELSE {p}
<1>1. med' = n /\ level' = Enqueued(level, due, n) /\ SetActive({active} \cup Costs(due, n))
  BY DEF Schedule
<1>2. med \in [Propagator -> Med] /\ level \in [Propagator -> Queue] /\ active \in Stable .. AC_MAX
  BY Running DEF IInv, TypeOK, Queue
<1>3. active' \in {active} \cup Costs(due, n) /\ \A k \in {active} \cup Costs(due, n) : k <= active'
  BY <1>1, ActiveOK
<1>4. /\ n \in [Propagator -> Med] /\ n[p] = Combine(med[p], m)
      /\ \A q \in Propagator \ {p} : n[q] = med[q]
      /\ n[p] = ME_NONE => m = ME_NONE /\ med[p] = ME_NONE
      /\ due = {p} => n[p] # ME_NONE
  <2>1. n[p] = Combine(med[p], m) /\ n[p] \in Med /\ n \in [Propagator -> Med]
    BY <1>2, CombineOK
  <2>2. n[p] = ME_NONE => m = ME_NONE /\ med[p] = ME_NONE
    BY <1>2, <2>1, CombineOK
  <2>3. n[p] = ME_NONE => n = med
    BY <2>1, <2>2, <1>2
  <2> QED BY <2>1, <2>2, <2>3, <1>2
<1>5. due \in {{}, {p}} /\ (due = {} => n = med)
  OBVIOUS
<1> HIDE DEF n, due
<1>6. Costs(due, n) \subseteq 0 .. AC_MAX
  BY <1>4, <1>5, ContractAssumption DEF Costs
<1>7. /\ level' \in [Propagator -> Queue]
      /\ \A q \in due : level'[q] \in Costs(due, n)
      /\ \A q \in Propagator \ due : level'[q] = level[q]
  <2>1. \A q \in due : Cost(q, n[q]) \in Costs(due, n)
    BY DEF Costs
  <2>2. Costs(due, n) \subseteq Queue
    BY <1>6, ConstantsOK DEF Queue, Idle
  <2> QED BY <1>1, <1>2, <1>5, <2>1, <2>2 DEF Enqueued
<1>8. active' \in Stable .. AC_MAX /\ active' # Failed /\ active <= active'
  BY <1>2, <1>3, <1>6, ConstantsOK DEF Failed, Stable
<1>9. QueuesOK'
  <2>1. ASSUME NEW q \in Propagator
        PROVE /\ med'[q] # ME_NONE <=> level'[q] # Idle
              /\ level'[q] <= active' /\ (level'[q] # Idle => q \in posted')
    <3>1. CASE q \in due
      BY <3>1, <1>1, <1>3, <1>4, <1>5, <1>6, <1>7, ConstantsOK DEF Idle
    <3>2. CASE q \notin due
      <4>1. level[q] <= active /\ level'[q] = level[q] /\ med'[q] = med[q]
        BY <3>2, <1>1, <1>4, <1>5, <1>7 DEF IInv, QueuesOK
      <4>2. level[q] \in Int /\ active \in Int /\ active' \in Int
        BY <1>2, <1>8, ConstantsOK DEF Queue, Stable, Idle
      <4> QED BY <4>1, <4>2, <1>8 DEF IInv, QueuesOK
    <3> QED BY <3>1, <3>2
  <2>2. ASSUME active' # Stable PROVE \E q \in Propagator : level'[q] # Idle
    <3>1. CASE due = {p}
      <4>1. level'[p] \in 0 .. AC_MAX
        BY <3>1, <1>6, <1>7
      <4> QED BY <4>1, ConstantsOK DEF Idle
    <3>2. CASE due = {}
      <4>1. active' = active
        BY <3>2, <1>3 DEF Costs
      <4>2. PICK q \in Propagator : level[q] # Idle
        BY <4>1, <2>2 DEF IInv, QueuesOK
      <4> QED BY <4>2, <3>2, <1>7
    <3> QED BY <3>1, <3>2, <1>5
  <2> QED BY <2>1, <2>2 DEF QueuesOK
<1> QED BY <1>1, <1>4, <1>7, <1>8, <1>9

LEMMA PostOK == ASSUME IInv, NEW p \in Propagator, Post(p) PROVE IInv'
<1>1. ~failed /\ pc = "user" /\ p \notin posted /\ posted' = posted \cup {p} /\ Schedule(p, Wakeup(p, store))
      /\ UNCHANGED <<store, disabled, sc, missed, pc>>
  BY DEF Post
<1>2. Wakeup(p, store) \in Med /\ (Wakeup(p, store) = ME_NONE => AtFixpoint(p, store))
  BY ContractAssumption DEF IInv, TypeOK
<1>3. /\ med' \in [Propagator -> Med] /\ level' \in [Propagator -> Queue]
      /\ active' \in Stable .. AC_MAX /\ QueuesOK'
      /\ \A q \in Propagator \ {p} : med'[q] = med[q]
      /\ med'[p] = ME_NONE => Wakeup(p, store) = ME_NONE
  BY <1>1, <1>2, ScheduleOK
<1>4. TypeOK'
  BY <1>1, <1>3 DEF IInv, TypeOK, Queue
<1>5. FixpointOK'
  BY <1>1, <1>2, <1>3 DEF IInv, TypeOK, FixpointOK
<1> QED BY <1>3, <1>4, <1>5 DEF IInv

LEMMA EnableAndRescheduleOK ==
  ASSUME IInv, NEW p \in Propagator, EnableAndReschedule(p) PROVE IInv'
<1>1. ~failed /\ pc = "user" /\ p \in posted /\ missed' = missed \ {p} /\ disabled' = disabled \ {p}
      /\ Schedule(p, Wakeup(p, store)) /\ UNCHANGED <<store, posted, sc, pc>>
  BY DEF EnableAndReschedule
<1>2. Wakeup(p, store) \in Med /\ (Wakeup(p, store) = ME_NONE => AtFixpoint(p, store))
  BY ContractAssumption DEF IInv, TypeOK
<1>3. /\ med' \in [Propagator -> Med] /\ level' \in [Propagator -> Queue]
      /\ active' \in Stable .. AC_MAX /\ QueuesOK'
      /\ \A q \in Propagator \ {p} : med'[q] = med[q]
      /\ med'[p] = ME_NONE => Wakeup(p, store) = ME_NONE
  BY <1>1, <1>2, ScheduleOK
<1>4. TypeOK'
  BY <1>1, <1>3 DEF IInv, TypeOK, Queue
<1>5. FixpointOK'
  BY <1>1, <1>2, <1>3 DEF IInv, TypeOK, FixpointOK
<1> QED BY <1>3, <1>4, <1>5 DEF IInv

LEMMA FailOK == ASSUME IInv, Fail PROVE IInv'
BY DEF IInv, TypeOK, QueuesOK, FixpointOK, failed, Failed, Fail

LEMMA DisableOK == ASSUME IInv, NEW p \in Propagator, Disable(p) PROVE IInv'
<1>1. TypeOK'
  BY DEF IInv, TypeOK, Disable
<1>2. QueuesOK' /\ FixpointOK'
  BY DEF IInv, QueuesOK, FixpointOK, failed, Failed, Disable
<1> QED BY <1>1, <1>2 DEF IInv

LEMMA EnableOK == ASSUME IInv, NEW p \in Propagator, Enable(p) PROVE IInv'
<1>1. TypeOK'
  BY DEF IInv, TypeOK, Enable
<1>2. QueuesOK' /\ FixpointOK'
  BY DEF IInv, QueuesOK, FixpointOK, failed, Failed, Enable
<1> QED BY <1>1, <1>2 DEF IInv

LEMMA StatusCallOK == ASSUME IInv, StatusCall PROVE IInv'
BY DEF IInv, TypeOK, QueuesOK, FixpointOK, failed, Failed, StatusCall

(* Every propagator in a queue up to c is seen by the search for the next queue. *)
LEMMA NonEmptyOK ==
  ASSUME NEW lev \in [Propagator -> Queue], NEW c \in Stable .. AC_MAX
  PROVE  /\ NonEmpty(lev, c) \subseteq Stable .. c
         /\ \A q \in Propagator : lev[q] <= c => lev[q] \in NonEmpty(lev, c)
         /\ \A n \in NonEmpty(lev, c) : n # Stable => \E q \in Propagator : lev[q] = n
BY ConstantsOK DEF NonEmpty, Stable, Idle, Queue

LEMMA KillOK == ASSUME IInv, NEW p \in Propagator, Kill(p) PROVE IInv'
<1>1. /\ ~failed /\ pc = "user" /\ p \in posted /\ posted' = posted \ {p}
      /\ med' = [med EXCEPT ![p] = ME_NONE] /\ level' = [level EXCEPT ![p] = Idle]
      /\ disabled' = disabled \ {p} /\ missed' = missed \ {p} /\ UNCHANGED <<store, sc, pc>>
      /\ SetActive(NonEmpty(level', active))
  BY DEF Kill, Clear, Unlink
<1>2. med \in [Propagator -> Med] /\ level \in [Propagator -> Queue] /\ active \in Stable .. AC_MAX
  BY <1>1, Running DEF IInv, TypeOK, Queue
<1>3. med' \in [Propagator -> Med] /\ level' \in [Propagator -> Queue]
  BY <1>1, <1>2, ConstantsOK DEF Queue, Idle, Med, ME_NONE, ME_VAL
<1>4. active' \in NonEmpty(level', active) /\ \A k \in NonEmpty(level', active) : k <= active'
  BY <1>1, ActiveOK
<1>5. active' \in Stable .. active /\ active' # Failed
  BY <1>2, <1>3, <1>4, NonEmptyOK, ConstantsOK DEF Stable, Failed
<1>6. TypeOK'
  BY <1>1, <1>2, <1>3, <1>5, ConstantsOK DEF IInv, TypeOK, Queue, Stable
<1>7. QueuesOK'
  <2>1. ASSUME NEW q \in Propagator
        PROVE /\ med'[q] # ME_NONE <=> level'[q] # Idle
              /\ level'[q] <= active' /\ (level'[q] # Idle => q \in posted')
    <3>1. level'[q] <= active
      <4>1. level[q] <= active
        BY <1>1 DEF IInv, QueuesOK
      <4>2. Idle <= active
        BY <1>2, ConstantsOK DEF Idle, Stable
      <4> QED BY <1>1, <1>2, <4>1, <4>2
    <3>2. level'[q] <= active'
      BY <3>1, <1>2, <1>3, <1>4, NonEmptyOK
    <3> QED BY <3>2, <1>1, <1>2 DEF IInv, QueuesOK
  <2>2. active' # Stable => \E q \in Propagator : level'[q] # Idle
    BY <1>2, <1>3, <1>4, NonEmptyOK DEF Idle, Stable
  <2> QED BY <2>1, <2>2 DEF QueuesOK
<1>8. FixpointOK'
  BY <1>1, <1>2 DEF IInv, TypeOK, FixpointOK
<1> QED BY <1>6, <1>7, <1>8 DEF IInv

LEMMA SkipDisabledOK ==
  ASSUME IInv, DisabledMissed, NEW p \in Propagator, SkipDisabled(p) PROVE IInv'
<1>1. /\ ~failed /\ pc = "status" /\ level[p] \in 0 .. active /\ p \in disabled
      /\ \A q \in Propagator : level[q] <= active => level[q] <= level[p]
      /\ med' = [med EXCEPT ![p] = ME_NONE] /\ level' = [level EXCEPT ![p] = Idle]
      /\ active' = level[p] /\ UNCHANGED <<store, posted, disabled, sc, missed, pc>>
  BY DEF SkipDisabled, First, Clear, Unlink
<1>2. med \in [Propagator -> Med] /\ level \in [Propagator -> Queue] /\ active \in Stable .. AC_MAX
  BY <1>1, Running DEF IInv, TypeOK, Queue
<1>3. med' \in [Propagator -> Med] /\ level' \in [Propagator -> Queue] /\ active' \in Stable .. AC_MAX
  BY <1>1, <1>2, ConstantsOK DEF Queue, Idle, Stable, Med, ME_NONE, ME_VAL
<1>4. TypeOK'
  BY <1>1, <1>3 DEF IInv, TypeOK, Queue
<1>5. QueuesOK'
  <2> SUFFICES ASSUME NEW q \in Propagator
               PROVE /\ med'[q] # ME_NONE <=> level'[q] # Idle
                     /\ level'[q] <= active' /\ (level'[q] # Idle => q \in posted')
    BY <1>1 DEF QueuesOK
  <2>1. level[q] <= level[p]
    BY <1>1 DEF IInv, QueuesOK
  <2>2. Idle <= level[p]
    BY <1>1, <1>2, ConstantsOK DEF Idle, Stable
  <2> QED BY <1>1, <1>2, <2>1, <2>2 DEF IInv, QueuesOK
<1>6. FixpointOK'
  BY <1>1, <1>2 DEF IInv, TypeOK, FixpointOK, DisabledMissed
<1> QED BY <1>4, <1>5, <1>6 DEF IInv

LEMMA ReturnOK == ASSUME IInv, Return PROVE IInv'
<1>1. CASE failed
  BY <1>1 DEF IInv, TypeOK, QueuesOK, FixpointOK, failed, Failed, Return
<1>2. CASE ~failed
  <2>1. active' = Stable /\ NonEmpty(level, active) = {Stable} /\ pc' = "user"
        /\ UNCHANGED <<store, posted, med, level, disabled, sc, missed>>
    BY <1>2 DEF Return
  <2>2. level \in [Propagator -> Queue] /\ active \in Stable .. AC_MAX
    BY <1>2, Running DEF IInv, TypeOK, Queue
  <2>3. \A q \in Propagator : level[q] = Stable
    BY <2>1, <2>2, <1>2, NonEmptyOK DEF IInv, QueuesOK
  <2>4. TypeOK'
    BY <2>1, ConstantsOK DEF IInv, TypeOK, Stable
  <2>5. Stable <= Stable
    BY DEF Stable
  <2>6. QueuesOK'
    BY <1>2, <2>1, <2>3, <2>5 DEF IInv, QueuesOK
  <2>7. FixpointOK'
    BY <1>2, <2>1 DEF IInv, FixpointOK
  <2> QED BY <2>4, <2>6, <2>7 DEF IInv
<1> QED BY <1>1, <1>2

LEMMA DisabledMissedOK == ASSUME TypeOK, DisabledMissed, Next PROVE DisabledMissed'
<1>1. CASE StatusCall \/ Return \/ Fail
  BY <1>1 DEF DisabledMissed, StatusCall, Return, Fail
<1>2. ASSUME NEW p \in Propagator, SkipDisabled(p) PROVE DisabledMissed'
  BY <1>2 DEF DisabledMissed, SkipDisabled
<1>3. ASSUME NEW p \in Propagator, Execute(p) PROVE DisabledMissed'
  <2>1. p \notin disabled /\ missed' = missed \ {p} /\ sc' = sc
    BY <1>3 DEF DisabledMissed, Execute
  <2>2. disabled' \subseteq disabled
    BY <1>3 DEF Execute
  <2> QED BY <2>1, <2>2 DEF DisabledMissed
<1>4. ASSUME NEW t \in Store, Tell(t) PROVE DisabledMissed'
  BY <1>4 DEF DisabledMissed, Tell
<1>5. ASSUME NEW p \in Propagator, Post(p) PROVE DisabledMissed'
  BY <1>5 DEF DisabledMissed, Post
<1>6. ASSUME NEW p \in Propagator, Kill(p) \/ Disable(p) \/ Enable(p) \/ EnableAndReschedule(p) PROVE DisabledMissed'
  BY <1>6 DEF DisabledMissed, Kill, Disable, Enable, EnableAndReschedule
<1> QED BY <1>1, <1>2, <1>3, <1>4, <1>5, <1>6, ConstantsOK DEF Next, StatusStep

-----------------------------------------------------------------------------
(* One run of a propagator.  The events it causes are combined after its own
   have been cleared, so that it is due again exactly if it has new ones. *)

LEMMA ExecuteOK == ASSUME IInv, NEW p \in Propagator, Execute(p) PROVE IInv'
<1>1. /\ ~failed /\ pc = "status" /\ level[p] \in 0 .. active
      /\ \A q \in Propagator : level[q] <= active => level[q] <= level[p]
      /\ missed' = missed \ {p} /\ UNCHANGED <<sc, pc>>
  BY DEF Execute, First
<1>2. /\ posted \subseteq Propagator /\ store \in Store /\ disabled \subseteq posted /\ missed \subseteq posted
      /\ med \in [Propagator -> Med] /\ level \in [Propagator -> Queue] /\ active \in Stable .. AC_MAX
  BY <1>1, Running DEF IInv, TypeOK, Queue
<1>3. p \in posted /\ med[p] \in Med \ {ME_NONE}
  BY <1>1, <1>2, ConstantsOK DEF IInv, QueuesOK, Idle, Stable
<1>4. PICK o \in Propagate(p, store, med[p]) :
       LET m0 == Clear(med, p)
           m == Notified(m0, store, o.store)
           due == Due(m0, store, o.store)
           lev == Enqueued(level, due, m)
           levels == {level[p]} \cup Costs(due, m)
           again == [m EXCEPT ![p] = IF o.status = "fix_partial" THEN o.med ELSE Combine(@, o.med)]
       IN /\ store' = o.store
          /\ \/ /\ o.status = "failed"
                /\ active' = Failed /\ level' = lev
                /\ med' = [q \in Propagator |-> IF lev[q] = AC_RECORD THEN ME_NONE ELSE m[q]]
                /\ UNCHANGED <<posted, disabled>>
             \/ /\ o.status = "fix" \/ (o.status = "nofix" /\ m[p] = ME_NONE)
                /\ med' = Clear(m, p) /\ level' = Unlink(lev, p) /\ SetActive(levels)
                /\ UNCHANGED <<posted, disabled>>
             \/ /\ o.status = "nofix" /\ m[p] # ME_NONE
                /\ med' = m /\ level' = lev /\ SetActive(levels)
                /\ UNCHANGED <<posted, disabled>>
             \/ /\ o.status = "subsumed"
                /\ med' = Clear(m, p) /\ level' = Unlink(lev, p) /\ SetActive(levels)
                /\ posted' = posted \ {p} /\ disabled' = disabled \ {p}
             \/ /\ o.status \in {"fix_partial", "nofix_partial"}
                /\ med' = again /\ level' = Enqueued(lev, {p}, again)
                /\ SetActive(levels \cup Costs({p}, again))
                /\ UNCHANGED <<posted, disabled>>
  BY DEF Execute
<1>5. /\ o \in Outcome /\ Stronger(o.store, store)
      /\ o.status = "fix" => AtFixpoint(p, o.store)
      /\ o.status = "nofix" /\ ModEvent(p, store, o.store) = ME_NONE => AtFixpoint(p, o.store)
      /\ o.status \in {"fix_partial", "nofix_partial"} => o.med # ME_NONE
  BY <1>2, <1>3, ContractAssumption
<1>6. o.store \in Store /\ o.med \in Med /\ o.status \in Status
  BY <1>5 DEF Outcome
<1> DEFINE m0 == Clear(med, p)
           m == Notified(m0, store, o.store)
           due == Due(m0, store, o.store)
           lev == Enqueued(level, due, m)
           levels == {level[p]} \cup Costs(due, m)
           again == [m EXCEPT ![p] = IF o.status = "fix_partial" THEN o.med ELSE Combine(@, o.med)]
<1>7. m0 \in [Propagator -> Med] /\ m0[p] = ME_NONE /\ \A q \in Propagator \ {p} : m0[q] = med[q]
  BY <1>2 DEF Clear, Med, ME_NONE, ME_VAL
<1> HIDE DEF m0
<1>8. /\ m \in [Propagator -> Med] /\ lev \in [Propagator -> Queue]
      /\ Costs(due, m) \subseteq 0 .. AC_MAX /\ due \subseteq posted
      /\ \A q \in due : m[q] # ME_NONE /\ lev[q] \in Costs(due, m)
      /\ \A q \in Propagator \ due : m[q] = m0[q] /\ lev[q] = level[q]
      /\ \A q \in posted : m[q] = ME_NONE => m0[q] = ME_NONE /\ ModEvent(q, store, o.store) = ME_NONE
  BY <1>2, <1>5, <1>6, <1>7, Scheduled
<1>9. /\ store' = o.store
      /\ \/ /\ o.status = "failed"
            /\ active' = Failed /\ level' = lev
            /\ med' = [q \in Propagator |-> IF lev[q] = AC_RECORD THEN ME_NONE ELSE m[q]]
            /\ UNCHANGED <<posted, disabled>>
         \/ /\ o.status = "fix" \/ (o.status = "nofix" /\ m[p] = ME_NONE)
            /\ med' = Clear(m, p) /\ level' = Unlink(lev, p) /\ SetActive(levels)
            /\ UNCHANGED <<posted, disabled>>
         \/ /\ o.status = "nofix" /\ m[p] # ME_NONE
            /\ med' = m /\ level' = lev /\ SetActive(levels)
            /\ UNCHANGED <<posted, disabled>>
         \/ /\ o.status = "subsumed"
            /\ med' = Clear(m, p) /\ level' = Unlink(lev, p) /\ SetActive(levels)
            /\ posted' = posted \ {p} /\ disabled' = disabled \ {p}
         \/ /\ o.status \in {"fix_partial", "nofix_partial"}
            /\ med' = again /\ level' = Enqueued(lev, {p}, again)
            /\ SetActive(levels \cup Costs({p}, again))
            /\ UNCHANGED <<posted, disabled>>
  BY <1>4 DEF m0
<1> HIDE DEF m, due, lev
<1>10. levels \subseteq 0 .. AC_MAX /\ level[p] \in 0 .. AC_MAX
  BY <1>1, <1>2, <1>8, ConstantsOK DEF Queue, Stable, Idle
(* every other propagator keeps to the queues, and who has no events is at fixpoint *)
<1>11. \A q \in Propagator \ {p} :
         /\ m[q] # ME_NONE <=> lev[q] # Idle
         /\ lev[q] # Idle => q \in posted
         /\ lev[q] = Idle \/ \E k \in levels : lev[q] <= k
  <2> SUFFICES ASSUME NEW q \in Propagator \ {p}
               PROVE /\ m[q] # ME_NONE <=> lev[q] # Idle
                     /\ lev[q] # Idle => q \in posted
                     /\ lev[q] = Idle \/ \E k \in levels : lev[q] <= k
    OBVIOUS
  <2>1. CASE q \in due
    <3>1. lev[q] \in Costs(due, m) /\ lev[q] \in 0 .. AC_MAX /\ m[q] # ME_NONE /\ q \in posted
      BY <2>1, <1>8
    <3>2. lev[q] # Idle /\ lev[q] <= lev[q]
      BY <3>1, ConstantsOK DEF Idle
    <3> QED BY <3>1, <3>2
  <2>2. CASE q \notin due
    <3>1. m[q] = med[q] /\ lev[q] = level[q]
      BY <2>2, <1>7, <1>8
    <3>2. level[q] <= level[p]
      BY <1>1 DEF IInv, QueuesOK
    <3> QED BY <3>1, <3>2, <1>1 DEF IInv, QueuesOK
  <2> QED BY <2>1, <2>2
<1>12. \A q \in posted \ (missed \cup {p}) : m[q] = ME_NONE => AtFixpoint(q, o.store)
  <2> SUFFICES ASSUME NEW q \in posted \ (missed \cup {p}), m[q] = ME_NONE PROVE AtFixpoint(q, o.store)
    OBVIOUS
  <2>1. med[q] = ME_NONE /\ ModEvent(q, store, o.store) = ME_NONE
    BY <1>2, <1>7, <1>8
  <2>2. AtFixpoint(q, store)
    BY <2>1, <1>1 DEF IInv, FixpointOK
  <2> QED BY <2>1, <2>2, <1>2, <1>5, <1>6, ContractAssumption
(* so that only the one that ran is left to be looked at *)
<1>13. ASSUME active' \in 0 .. AC_MAX, \A k \in levels : k <= active',
              med' \in [Propagator -> Med], level' \in [Propagator -> Queue],
              \A q \in Propagator \ {p} : med'[q] = m[q] /\ level'[q] = lev[q],
              med'[p] # ME_NONE <=> level'[p] # Idle,
              level'[p] # Idle => level'[p] <= active' /\ p \in posted',
              posted' \in {posted, posted \ {p}}, disabled' \subseteq disabled, p \in disabled' => p \in posted',
              p \in posted' /\ med'[p] = ME_NONE => AtFixpoint(p, o.store),
              p \in missed => p \in posted
       PROVE  IInv'
  <2>1. missed' = missed \ {p} /\ store' = o.store /\ sc' = sc /\ pc' = "status" /\ active' # Failed
    BY <1>1, <1>9, <1>13, ConstantsOK DEF Failed
  <2>2. TypeOK'
    <3>1. posted' \subseteq Propagator /\ disabled' \subseteq posted' /\ missed' \subseteq posted'
      BY <1>2, <1>13, <2>1
    <3>2. store' \in Store /\ pc' \in {"user", "status"} /\ active' \in Stable .. AC_MAX
      BY <1>6, <1>13, <2>1, ConstantsOK DEF Stable
    <3>3. sc' \in BOOLEAN
      BY <2>1 DEF IInv, TypeOK
    <3> QED BY <3>1, <3>2, <3>3, <1>13 DEF TypeOK, Queue
  <2>3. \A q \in Propagator :
           /\ med'[q] # ME_NONE <=> level'[q] # Idle
           /\ level'[q] <= active'
           /\ level'[q] # Idle => q \in posted'
    <3> SUFFICES ASSUME NEW q \in Propagator
                 PROVE /\ med'[q] # ME_NONE <=> level'[q] # Idle
                       /\ level'[q] <= active'
                       /\ level'[q] # Idle => q \in posted'
      OBVIOUS
    <3>1. Idle <= active'
      BY <1>13, ConstantsOK DEF Idle
    <3>2. CASE q = p
      BY <3>1, <3>2, <1>13
    <3>3. CASE q # p
      <4>1. lev[q] = Idle \/ \E k \in levels : lev[q] <= k /\ k <= active' /\ k \in Int
        BY <3>3, <1>10, <1>11, <1>13
      <4>2. lev[q] <= active'
        BY <4>1, <3>1, <1>8, <1>13, ConstantsOK DEF Queue, Idle
      <4> QED BY <4>2, <3>3, <1>11, <1>13
    <3> QED BY <3>2, <3>3
  <2>4. \A q \in posted' \ missed' : med'[q] = ME_NONE => AtFixpoint(q, store')
    BY <2>1, <1>2, <1>12, <1>13
  <2>5. QueuesOK' /\ FixpointOK'
    BY <2>1, <2>3, <2>4 DEF QueuesOK, FixpointOK
  <2> QED BY <2>2, <2>5 DEF IInv
<1>14. missed \subseteq posted /\ ME_NONE \in Med /\ Idle \in Queue
  BY <1>2, ConstantsOK DEF Med, ME_NONE, ME_VAL, Idle, Queue
<1>15. CASE o.status = "failed"
  <2>1. /\ active' = Failed /\ level' = lev /\ posted' = posted /\ disabled' = disabled /\ store' = o.store
        /\ med' = [q \in Propagator |-> IF lev[q] = AC_RECORD THEN ME_NONE ELSE m[q]]
    BY <1>9, <1>15
  <2>2. med' \in [Propagator -> Med] /\ level' \in [Propagator -> Queue]
    BY <2>1, <1>8, <1>14
  <2>3. TypeOK'
    BY <2>1, <2>2, <1>1, <1>2, <1>6 DEF IInv, TypeOK, Queue
  <2> QED BY <2>1, <2>3 DEF IInv, QueuesOK, FixpointOK, failed, Failed
<1>16. ASSUME SetActive(levels) PROVE active' \in 0 .. AC_MAX /\ \A k \in levels : k <= active'
  BY <1>10, <1>16, ActiveOK
<1>17. CASE o.status = "fix" \/ (o.status = "nofix" /\ m[p] = ME_NONE)
  <2>1. /\ med' = [m EXCEPT ![p] = ME_NONE] /\ level' = [lev EXCEPT ![p] = Idle] /\ SetActive(levels)
        /\ posted' = posted /\ disabled' = disabled
    BY <1>9, <1>17 DEF Clear, Unlink
  <2>2. AtFixpoint(p, o.store)
    BY <1>3, <1>5, <1>8, <1>17
  <2>3. med' \in [Propagator -> Med] /\ level' \in [Propagator -> Queue] /\ med'[p] = ME_NONE /\ level'[p] = Idle
    BY <2>1, <1>8, <1>14
  <2>4. \A q \in Propagator \ {p} : med'[q] = m[q] /\ level'[q] = lev[q]
    BY <2>1, <1>8
  <2> QED BY <2>1, <2>2, <2>3, <2>4, <1>2, <1>13, <1>14, <1>16
<1>18. CASE o.status = "nofix" /\ m[p] # ME_NONE
  <2>1. med' = m /\ level' = lev /\ SetActive(levels) /\ posted' = posted /\ disabled' = disabled
    BY <1>9, <1>18
  <2>2. p \in due
    BY <1>7, <1>8, <1>18
  <2>3. level'[p] \in levels /\ level'[p] # Idle
    BY <2>1, <2>2, <1>8, ConstantsOK DEF Idle
  <2> QED BY <2>1, <2>3, <1>2, <1>3, <1>8, <1>13, <1>14, <1>16, <1>18
<1>19. CASE o.status = "subsumed"
  <2>1. /\ med' = [m EXCEPT ![p] = ME_NONE] /\ level' = [lev EXCEPT ![p] = Idle] /\ SetActive(levels)
        /\ posted' = posted \ {p} /\ disabled' = disabled \ {p}
    BY <1>9, <1>19 DEF Clear, Unlink
  <2>2. med' \in [Propagator -> Med] /\ level' \in [Propagator -> Queue] /\ med'[p] = ME_NONE /\ level'[p] = Idle
    BY <2>1, <1>8, <1>14
  <2>3. \A q \in Propagator \ {p} : med'[q] = m[q] /\ level'[q] = lev[q]
    BY <2>1, <1>8
  <2> QED BY <2>1, <2>2, <2>3, <1>2, <1>13, <1>14, <1>16
<1>20. CASE o.status \in {"fix_partial", "nofix_partial"}
  <2> DEFINE n == IF o.status = "fix_partial" THEN o.med ELSE Combine(m[p], o.med)
  <2>1. n \in Med /\ n # ME_NONE
    BY <1>5, <1>6, <1>8, <1>20, CombineOK
  <2>2. again = [m EXCEPT ![p] = n]
    OBVIOUS
  <2> HIDE DEF n, again
  <2>3. again \in [Propagator -> Med] /\ again[p] = n /\ \A q \in Propagator \ {p} : again[q] = m[q]
    BY <2>1, <2>2, <1>8
  <2>4. Costs({p}, again) = {Cost(p, n)} /\ Cost(p, n) \in 0 .. AC_MAX
    BY <2>1, <2>3, ContractAssumption DEF Costs
  <2>5. /\ med' = again /\ level' = Enqueued(lev, {p}, again)
        /\ SetActive(levels \cup {Cost(p, n)}) /\ posted' = posted /\ disabled' = disabled
    BY <2>4, <1>9, <1>20
  <2>6. active' \in 0 .. AC_MAX /\ Cost(p, n) <= active' /\ \A k \in levels : k <= active'
    BY <2>4, <2>5, <1>10, ActiveOK
  <2>7. level' \in [Propagator -> Queue] /\ level'[p] = Cost(p, n) /\ \A q \in Propagator \ {p} : level'[q] = lev[q]
    BY <2>3, <2>4, <2>5, <1>8, ConstantsOK DEF Enqueued, Queue, Idle
  <2>8. level'[p] # Idle
    BY <2>4, <2>7, ConstantsOK DEF Idle
  <2> QED BY <2>1, <2>3, <2>5, <2>6, <2>7, <2>8, <1>2, <1>3, <1>13, <1>14
<1> QED BY <1>6, <1>9, <1>15, <1>17, <1>18, <1>19, <1>20

-----------------------------------------------------------------------------
LEMMA NextOK == ASSUME IInv, DisabledMissed, [Next]_vars PROVE IInv' /\ DisabledMissed'
<1>1. CASE Next
  <2>1. DisabledMissed'
    BY <1>1, DisabledMissedOK DEF IInv
  <2>2. CASE \E t \in Store : Tell(t)
    BY <2>1, <2>2, TellOK
  <2>3. CASE \E p \in Propagator : Post(p)
    BY <2>1, <2>3, PostOK
  <2>4. CASE \E p \in Group : Kill(p) \/ Disable(p) \/ Enable(p) \/ EnableAndReschedule(p)
    BY <2>1, <2>4, ConstantsOK, KillOK, DisableOK, EnableOK, EnableAndRescheduleOK
  <2>5. CASE \E p \in Propagator : SkipDisabled(p) \/ Execute(p)
    BY <2>1, <2>5, SkipDisabledOK, ExecuteOK
  <2> QED BY <1>1, <2>1, <2>2, <2>3, <2>4, <2>5, FailOK, StatusCallOK, ReturnOK DEF Next, StatusStep
<1>2. CASE UNCHANGED vars
  BY <1>2 DEF vars, IInv, TypeOK, QueuesOK, FixpointOK, DisabledMissed, failed, Failed
<1> QED BY <1>1, <1>2

LEMMA Invariant == Spec => [](IInv /\ DisabledMissed)
<1>1. Init => IInv /\ DisabledMissed
  BY InitOK DEF Init, DisabledMissed
<1>2. IInv /\ DisabledMissed /\ [Next]_vars => (IInv /\ DisabledMissed)'
  BY NextOK
<1> QED BY <1>1, <1>2, PTL DEF Spec

(* Every variable keeps its type, whatever the propagators do: active names a
   queue that exists, and only propagators of the space are scheduled. *)
THEOREM TypeCorrect == Spec => []TypeOK
<1>1. IInv => TypeOK
  BY DEF IInv
<1> QED BY <1>1, Invariant, PTL

(* No scheduled propagator is lost and active is never below one: see QueuesOK. *)
THEOREM QueuesCorrect == Spec => []QueuesOK
<1>1. IInv => QueuesOK
  BY DEF IInv
<1> QED BY <1>1, Invariant, PTL

(* A propagator without events is at fixpoint: see FixpointOK. *)
THEOREM FixpointCorrect == Spec => []FixpointOK
<1>1. IInv => FixpointOK
  BY DEF IInv
<1> QED BY <1>1, Invariant, PTL

(* A run of a propagator, as the abstract iteration sees it. *)
LEMMA ExecuteStep ==
  ASSUME IInv, NEW p \in Propagator, Execute(p), p \in posted, med[p] \in Med \ {ME_NONE}
  PROVE  \E o \in Propagate(p, store, med[p]) :
           /\ store' = o.store
           /\ \/ o.status = "failed" /\ active' = Failed /\ posted' = posted
              \/ /\ o.status # "failed"
                 /\ \E cs : SetActive({level[p]} \cup cs) /\ cs \subseteq 0 .. AC_MAX
                 /\ posted' = IF o.status = "subsumed" THEN posted \ {p} ELSE posted
<1> DEFINE m0 == Clear(med, p)
           m(o) == Notified(m0, store, o.store)
           due(o) == Due(m0, store, o.store)
           again(o) == [m(o) EXCEPT ![p] = IF o.status = "fix_partial" THEN o.med ELSE Combine(@, o.med)]
<1>1. PICK o \in Propagate(p, store, med[p]) :
        /\ store' = o.store
        /\ \/ /\ o.status = "failed" /\ active' = Failed /\ posted' = posted
           \/ /\ o.status \in {"fix", "nofix"}
              /\ SetActive({level[p]} \cup Costs(due(o), m(o))) /\ posted' = posted
           \/ /\ o.status = "subsumed"
              /\ SetActive({level[p]} \cup Costs(due(o), m(o))) /\ posted' = posted \ {p}
           \/ /\ o.status \in {"fix_partial", "nofix_partial"}
              /\ SetActive({level[p]} \cup Costs(due(o), m(o)) \cup Costs({p}, again(o))) /\ posted' = posted
  BY DEF Execute
<1>2. store \in Store /\ posted \subseteq Propagator /\ med \in [Propagator -> Med] /\ level \in [Propagator -> Queue]
  BY DEF IInv, TypeOK, Queue
<1>3. /\ o \in Outcome /\ Stronger(o.store, store)
      /\ o.status \in {"fix_partial", "nofix_partial"} => o.med # ME_NONE
  BY <1>2, ContractAssumption
<1>4. o.store \in Store /\ o.med \in Med
  BY <1>3 DEF Outcome
<1>5. m0 \in [Propagator -> Med]
  BY <1>2 DEF Clear, Med, ME_NONE, ME_VAL
<1> HIDE DEF m0
<1>6. Costs(due(o), m(o)) \subseteq 0 .. AC_MAX /\ m(o) \in [Propagator -> Med]
  BY <1>2, <1>3, <1>4, <1>5, Scheduled
<1> HIDE DEF m, due
<1>7. ASSUME o.status \in {"fix_partial", "nofix_partial"} PROVE Costs({p}, again(o)) \subseteq 0 .. AC_MAX
  <2>1. again(o)[p] \in Med \ {ME_NONE}
    BY <1>3, <1>4, <1>6, <1>7, CombineOK
  <2> QED BY <2>1, ContractAssumption DEF Costs
<1> HIDE DEF again
<1>8. CASE o.status = "failed"
  BY <1>1, <1>8
<1>9. CASE o.status # "failed"
  <2>1. CASE o.status \in {"fix_partial", "nofix_partial"}
    <3>1. SetActive({level[p]} \cup (Costs(due(o), m(o)) \cup Costs({p}, again(o))))
      <4>1. {level[p]} \cup Costs(due(o), m(o)) \cup Costs({p}, again(o))
              = {level[p]} \cup (Costs(due(o), m(o)) \cup Costs({p}, again(o)))
        OBVIOUS
      <4> QED BY <1>1, <2>1, <4>1
    <3>2. Costs(due(o), m(o)) \cup Costs({p}, again(o)) \subseteq 0 .. AC_MAX
      BY <1>6, <1>7, <2>1
    <3> QED BY <1>1, <2>1, <3>1, <3>2
  <2>2. CASE o.status \notin {"fix_partial", "nofix_partial"}
    BY <1>1, <1>6, <1>9, <2>2
  <2> QED BY <2>1, <2>2
<1> QED BY <1>8, <1>9

LEMMA StepImplementsIteration ==
  ASSUME IInv, [Next]_vars PROVE [Iteration!Next]_(Iteration!vars)
<1> USE DEF Iteration!Next, Iteration!vars
<1>1. CASE StatusCall
  BY <1>1 DEF StatusCall, Iteration!Call, failed, Failed
<1>2. CASE Fail
  <2>1. store' \in Store /\ Stronger(store', store)
    BY <1>2, StrongerAssumption DEF Fail, IInv, TypeOK
  <2>2. failed' = TRUE
    BY <1>2 DEF Fail, failed, Failed
  <2> QED BY <1>2, <2>1, <2>2 DEF Fail, Iteration!Tell
<1>3. ASSUME NEW t \in Store, Tell(t) PROVE Iteration!Tell
  <2>1. (~failed)'
    <3>1. active \in Stable .. AC_MAX /\ SetActive({active} \cup Costs(Due(med, store, t), Notified(med, store, t)))
      BY <1>3, Running DEF Tell
    <3>2. Costs(Due(med, store, t), Notified(med, store, t)) \subseteq 0 .. AC_MAX
      BY <1>3, Scheduled DEF Tell, IInv, TypeOK, Queue
    <3> QED BY <3>1, <3>2, ActiveOK, ConstantsOK DEF failed, Failed, Stable
  <2> QED BY <1>3, <2>1 DEF Tell, Iteration!Tell, failed, Failed
<1>4. ASSUME NEW p \in Propagator, Post(p) PROVE Iteration!Post(p)
  <2>1. Wakeup(p, store) \in Med
    BY ContractAssumption DEF IInv, TypeOK
  <2>2. (~failed)'
    BY <1>4, <2>1, ScheduleOK DEF Post, failed, Failed
  <2> QED BY <1>4, <2>2 DEF Post, Iteration!Post, failed, Failed
<1>5. ASSUME NEW p \in Propagator, EnableAndReschedule(p) PROVE Iteration!Resume(p)
  <2>1. Wakeup(p, store) \in Med
    BY ContractAssumption DEF IInv, TypeOK
  <2>2. (~failed)'
    BY <1>5, <2>1, ScheduleOK DEF EnableAndReschedule, failed, Failed
  <2> QED BY <1>5, <2>2 DEF EnableAndReschedule, Iteration!Resume, failed, Failed
<1>6. ASSUME NEW p \in Propagator, Kill(p) PROVE Iteration!Kill(p)
  <2>1. active \in Stable .. AC_MAX /\ level' \in [Propagator -> Queue] /\ SetActive(NonEmpty(level', active))
    BY <1>6, Running, KillOK DEF Kill, IInv, TypeOK, Queue
  <2>2. (~failed)'
    BY <2>1, NonEmptyOK, ActiveOK, ConstantsOK DEF failed, Failed, Stable
  <2> QED BY <1>6, <2>2 DEF Kill, Iteration!Kill, failed, Failed
<1>7. ASSUME NEW p \in Propagator, Disable(p) PROVE Iteration!Disable(p)
  BY <1>7 DEF Disable, Iteration!Disable, failed, Failed
<1>8. ASSUME NEW p \in Propagator, Enable(p) PROVE UNCHANGED Iteration!vars
  BY <1>8 DEF Enable, failed, Failed
<1>9. ASSUME NEW p \in Propagator, SkipDisabled(p) PROVE UNCHANGED Iteration!vars
  <2>1. active \in Stable .. AC_MAX /\ level[p] \in 0 .. active
    BY <1>9, Running DEF SkipDisabled, First
  <2> QED BY <1>9, <2>1, ConstantsOK DEF SkipDisabled, First, failed, Failed, Stable
<1>10. ASSUME NEW p \in Propagator, Execute(p) PROVE Iteration!Apply(p)
  <2>1. p \in posted /\ pc = "status" /\ ~failed /\ med[p] \in Med \ {ME_NONE} /\ level[p] \in 0 .. AC_MAX
    BY <1>10, Running, ConstantsOK DEF Execute, First, IInv, TypeOK, QueuesOK, Idle, Stable, Queue
  <2>2. PICK o \in Propagate(p, store, med[p]) :
          /\ store' = o.store
          /\ \/ o.status = "failed" /\ active' = Failed /\ posted' = posted
             \/ /\ o.status # "failed"
                /\ \E cs : SetActive({level[p]} \cup cs) /\ cs \subseteq 0 .. AC_MAX
                /\ posted' = IF o.status = "subsumed" THEN posted \ {p} ELSE posted
    BY <1>10, <2>1, ExecuteStep
  <2>3. failed' = (o.status = "failed")
    <3>1. CASE o.status = "failed"
      BY <2>2, <3>1 DEF failed, Failed
    <3>2. CASE o.status # "failed"
      <4>1. PICK cs : SetActive({level[p]} \cup cs) /\ cs \subseteq 0 .. AC_MAX
        BY <2>2, <3>2
      <4>2. active' \in 0 .. AC_MAX
        BY <2>1, <4>1, ActiveOK
      <4> QED BY <3>2, <4>2, ConstantsOK DEF failed, Failed
    <3> QED BY <3>1, <3>2
  <2>4. posted' = IF o.status = "subsumed" THEN posted \ {p} ELSE posted
    BY <2>2
  <2>5. o \in Outcomes(p, store)
    BY <2>1 DEF Outcomes
  <2>6. missed' = missed \ {p} /\ pc' = pc
    BY <1>10 DEF Execute
  <2> QED BY <2>1, <2>2, <2>3, <2>4, <2>5, <2>6 DEF Iteration!Apply
<1>11. CASE Return
  <2>1. failed' = failed
    <3>1. CASE failed
      BY <1>11, <3>1 DEF Return, failed, Failed
    <3>2. CASE ~failed
      BY <1>11, <3>2, ConstantsOK DEF Return, failed, Failed, Stable
    <3> QED BY <3>1, <3>2
  <2>2. CASE failed
    BY <1>11, <2>1, <2>2 DEF Return, Iteration!Return
  <2>3. CASE ~failed
    <3>1. \A q \in posted : med[q] = ME_NONE
      <4>1. level \in [Propagator -> Queue] /\ active \in Stable .. AC_MAX /\ NonEmpty(level, active) = {Stable}
        BY <1>11, <2>3, Running DEF Return, IInv, TypeOK, Queue
      <4>2. \A q \in Propagator : level[q] = Idle
        BY <4>1, <2>3, NonEmptyOK DEF IInv, QueuesOK, Stable, Idle
      <4> QED BY <4>2, <2>3 DEF IInv, QueuesOK, TypeOK
    <3>2. \A q \in posted \ missed : AtFixpoint(q, store)
      BY <3>1, <2>3 DEF IInv, FixpointOK
    <3> QED BY <1>11, <2>1, <3>2 DEF Return, Iteration!Return
  <2> QED BY <2>2, <2>3
<1>12. CASE UNCHANGED vars
  BY <1>12 DEF vars, failed, Failed
<1> QED
  BY <1>1, <1>2, <1>3, <1>4, <1>5, <1>6, <1>7, <1>8, <1>9, <1>10, <1>11, <1>12, ConstantsOK
  DEF Next, StatusStep

(* status() implements the abstract iteration: it returns only at a fixpoint of
   all propagators or after a failure, and applies nothing else on the way. *)
THEOREM PropagationImplementsIteration == Spec => FixpointSpec
<1>1. Init => Iteration!Init
  BY ConstantsOK DEF Init, Iteration!Init, failed, Failed, Stable
<1>2. IInv /\ [Next]_vars => [Iteration!Next]_(Iteration!vars)
  BY StepImplementsIteration
<1> QED BY <1>1, <1>2, Invariant, PTL DEF Spec, FixpointSpec, Iteration!Spec

-----------------------------------------------------------------------------
(* The no-goods of a path. *)

-----------------------------------------------------------------------------
(* Least and greatest elements. *)
LEMMA HasLeast ==
  ASSUME NEW S \in SUBSET Nat, NEW k \in S
  PROVE  \E i \in S : \A j \in S : i <= j
<1>1. PICK x \in S : \A y \in S : ~(<<y, x>> \in OpToRel(<, Nat))
  BY NatLessThanWellFounded, WFMin
<1>2. \A y \in S : x <= y
  <2> TAKE y \in S
  <2>1. ~(y < x)
    BY <1>1 DEF OpToRel
  <2> QED BY <2>1
<1> QED BY <1>2

LEMMA HasGreatest ==
  ASSUME NEW S \in SUBSET Nat, NEW k \in S, NEW n \in Nat, \A i \in S : i <= n
  PROVE  \E i \in S : \A j \in S : j <= i
<1> DEFINE T == {u \in Nat : \A i \in S : i <= u}
<1>1. PICK u \in T : \A v \in T : u <= v
  BY HasLeast
<1>2. u \in Nat /\ \A i \in S : i <= u
  OBVIOUS
<1>3. u \in S
  <2> SUFFICES ASSUME u \notin S PROVE FALSE
    OBVIOUS
  <2>1. \A i \in S : i \in Nat /\ i <= u - 1
    BY <1>2
  <2>2. u - 1 \in T
    BY <1>2, <2>1
  <2> QED BY <1>1, <1>2, <2>2
<1> QED BY <1>2, <1>3

-----------------------------------------------------------------------------
(* The path and its literals. *)
Indexes == DOMAIN ngPath
PathOK == ngPath \in NPath

LEMMA AltIs ==
  ASSUME NEW e \in N!Edge, e.vals # <<>>
  PROVE  /\ e.x \in NVar /\ e.alt \in Nat /\ e.vals \in Seq(Int)
         /\ Len(e.vals) \in Nat /\ Len(e.vals) >= 1
         /\ N!Alternatives(e) \in Nat /\ N!Alternatives(e) >= 2
         /\ N!TrueAlt(e) \in Nat /\ N!TrueAlt(e) < N!Alternatives(e)
         /\ N!Rightmost(e) <=> N!TrueAlt(e) = N!Alternatives(e) - 1
         /\ N!TrueAlt(e) <= Len(e.vals)
         /\ N!HasLiteral(e, N!TrueAlt(e)) <=> e.supported /\ (~N!Rightmost(e) \/ ~N!Binary(e))
<1>1. e.x \in NVar /\ e.alt \in Nat /\ e.vals \in Seq(Int)
  BY DEF N!Edge
<1> DEFINE k == Len(e.vals)
<1>2. k \in Nat /\ k >= 1
  BY <1>1
<1> HIDE DEF k
<1>3. /\ N!Alternatives(e) = IF k = 1 THEN 2 ELSE k
      /\ N!Binary(e) <=> k = 1
  BY DEF N!Binary, N!Alternatives, k
<1>4. /\ N!TrueAlt(e) \in Nat /\ N!TrueAlt(e) < N!Alternatives(e)
      /\ N!Rightmost(e) <=> N!TrueAlt(e) = N!Alternatives(e) - 1
      /\ N!Alternatives(e) \in Nat /\ N!Alternatives(e) >= 2
  BY <1>1, <1>2, <1>3 DEF N!TrueAlt, N!Rightmost
<1>5. N!TrueAlt(e) <= k
  BY <1>2, <1>3, <1>4
<1>6. N!TrueAlt(e) < k <=> (~N!Rightmost(e) \/ ~N!Binary(e))
  BY <1>2, <1>3, <1>4
<1>7. N!HasLiteral(e, N!TrueAlt(e)) <=> e.supported /\ N!TrueAlt(e) < k
  BY DEF N!HasLiteral, k
<1>8. N!HasLiteral(e, N!TrueAlt(e)) <=> e.supported /\ (~N!Rightmost(e) \/ ~N!Binary(e))
  BY <1>6, <1>7
<1> QED BY <1>1, <1>2, <1>4, <1>5, <1>8 DEF k

LEMMA EdgeIs ==
  ASSUME PathOK, NEW i \in Indexes
  PROVE  /\ i \in Nat /\ i >= 1 /\ i <= Len(ngPath) /\ Len(ngPath) \in Nat
         /\ ngPath[i] \in N!Edge /\ ngPath[i].vals # <<>>
BY PathAssumption DEF PathOK, N!PathAssumption, Indexes

(* the literals that a chain can have: those of alternatives to the left of the one
   that was taken, and of that itself *)
LitType == [at : Nat \X Nat, x : NVar, v : Int, lq : BOOLEAN, leaf : BOOLEAN]
Lit == {b \in LitType :
          /\ b.at[1] \in Indexes /\ b = N!Literal(b.at[1], b.at[2], b.leaf)
          /\ IF b.leaf THEN b.at[2] < N!TrueAlt(ngPath[b.at[1]])
             ELSE b = N!NonLeaf(b.at[1]) /\ N!HasNonLeaf(b.at[1])}

LEMMA LiteralIs ==
  ASSUME PathOK, NEW i \in Indexes, NEW a \in Nat, a < Len(ngPath[i].vals), NEW f \in BOOLEAN
  PROVE  /\ N!Literal(i, a, f) \in LitType
         /\ N!Literal(i, a, f).at = <<i, a>> /\ N!Literal(i, a, f).leaf = f
         /\ N!Literal(i, a, f).x = ngPath[i].x /\ N!Literal(i, a, f).v = ngPath[i].vals[a + 1]
         /\ N!Literal(i, a, f).lq = ngPath[i].lq
<1>1. /\ i \in Nat /\ ngPath[i].x \in NVar /\ ngPath[i].vals \in Seq(Int) /\ ngPath[i].lq \in BOOLEAN
  BY EdgeIs DEF N!Edge
<1>2. a + 1 \in DOMAIN ngPath[i].vals
  BY <1>1
<1>3. ngPath[i].vals[a + 1] \in Int
  BY <1>1, <1>2
<1> QED BY <1>1, <1>3 DEF N!Literal, LitType

LEMMA LeafIs ==
  ASSUME PathOK, NEW i \in Indexes, NEW a \in Nat, a < N!TrueAlt(ngPath[i])
  PROVE  /\ N!Literal(i, a, TRUE) \in Lit
         /\ N!Literal(i, a, TRUE).at = <<i, a>> /\ N!Literal(i, a, TRUE).leaf
<1>1. N!TrueAlt(ngPath[i]) <= Len(ngPath[i].vals) /\ N!TrueAlt(ngPath[i]) \in Nat /\ Len(ngPath[i].vals) \in Nat
  BY EdgeIs, AltIs
<1>2. a < Len(ngPath[i].vals)
  BY <1>1
<1> DEFINE b == N!Literal(i, a, TRUE)
<1>3. b \in LitType /\ b.at = <<i, a>> /\ b.leaf = TRUE
  BY <1>2, LiteralIs
<1> HIDE DEF b
<1>4. b.at[1] = i /\ b.at[2] = a
  BY <1>3
<1>5. b = N!Literal(b.at[1], b.at[2], b.leaf)
  BY <1>3, <1>4 DEF b
<1>6. b \in Lit
  BY <1>3, <1>4, <1>5 DEF Lit
<1> QED BY <1>3, <1>6 DEF b

LEMMA NonLeafIs ==
  ASSUME PathOK, NEW i \in Indexes, N!HasNonLeaf(i)
  PROVE  /\ N!NonLeaf(i) \in Lit /\ N!NonLeaf(i).at = <<i, N!TrueAlt(ngPath[i])>> /\ ~N!NonLeaf(i).leaf
<1>1. N!TrueAlt(ngPath[i]) \in Nat /\ N!TrueAlt(ngPath[i]) < Len(ngPath[i].vals)
  BY EdgeIs, AltIs DEF N!HasNonLeaf, N!HasLiteral
<1> DEFINE b == N!NonLeaf(i)
<1>2. b \in LitType /\ b.at = <<i, N!TrueAlt(ngPath[i])>> /\ b.leaf = FALSE
  BY <1>1, LiteralIs DEF N!NonLeaf
<1> HIDE DEF b
<1>3. b.at[1] = i /\ b.at[2] = N!TrueAlt(ngPath[i])
  BY <1>2
<1>4. b = N!Literal(b.at[1], b.at[2], b.leaf) /\ b = N!NonLeaf(b.at[1])
  BY <1>2, <1>3 DEF N!NonLeaf, b
<1>5. b \in Lit
  BY <1>2, <1>3, <1>4 DEF Lit
<1> QED BY <1>2, <1>5 DEF b

Before(b, c) == b.at[1] < c.at[1] \/ (b.at[1] = c.at[1] /\ b.at[2] < c.at[2])
Ascending(c) == \A j \in DOMAIN c : \A h \in DOMAIN c : j < h => Before(c[j], c[h])

LEMMA BeforeIs ==
  \A b \in Lit : \A c \in Lit : Before(b, c) => ~Before(c, b) /\ b # c
BY DEF Before, Lit, LitType

(* c has literals of the edges to n only, in order *)
InOrder(c, n) == c \in Seq(Lit) /\ Ascending(c) /\ \A j \in DOMAIN c : c[j].at[1] <= n

(* up to edge n, where not all alternatives are in the past, c has the one that was taken *)
Says(c, n) == \A h \in Indexes : h <= n => N!Rightmost(ngPath[h]) \/ \E j \in DOMAIN c : c[j] = N!NonLeaf(h)
(* so does the part of c before any of its leaves *)
SaysWhy(c) == \A j \in DOMAIN c : c[j].leaf => Says(c, c[j].at[1] - 1)

LEMMA Prefix ==
  ASSUME NEW n \in Nat, NEW c, InOrder(c, n), SaysWhy(c), NEW m \in 0 .. Len(c), PathOK
  PROVE  InOrder(SubSeq(c, 1, m), n) /\ SaysWhy(SubSeq(c, 1, m))
<1> DEFINE t == SubSeq(c, 1, m)
<1>1. /\ c \in Seq(Lit) /\ DOMAIN c = 1 .. Len(c) /\ Len(c) \in Nat
      /\ t \in Seq(Lit) /\ DOMAIN t = 1 .. m /\ \A j \in 1 .. m : t[j] = c[j]
  BY DEF InOrder
<1> HIDE DEF t
<1>2. InOrder(t, n)
  BY <1>1 DEF InOrder, Ascending
<1>3. ASSUME NEW j \in DOMAIN t, t[j].leaf, NEW h \in Indexes, h <= t[j].at[1] - 1,
             ~N!Rightmost(ngPath[h])
      PROVE  \E k \in DOMAIN t : t[k] = N!NonLeaf(h)
  <2>1. j \in DOMAIN c /\ t[j] = c[j] /\ j <= m
    BY <1>1
  <2>2. PICK k \in DOMAIN c : c[k] = N!NonLeaf(h)
    BY <1>3, <2>1 DEF SaysWhy, Says
  <2>3. c[j] \in Lit /\ c[k] \in Lit
    BY <1>1, <2>1
  <2>4. N!NonLeaf(h).at[1] = h
    BY DEF N!NonLeaf, N!Literal
  <2>5. h \in Nat /\ c[j].at[1] \in Nat
    BY <1>3, <2>3, EdgeIs DEF Lit
  <2>6. Before(c[k], c[j])
    BY <1>3, <2>1, <2>2, <2>4, <2>5 DEF Before
  <2>7. ~(j < k)
    BY <2>1, <2>3, <2>6, BeforeIs DEF InOrder, Ascending
  <2>8. k <= m
    BY <1>1, <2>1, <2>7
  <2> QED BY <1>1, <2>2, <2>8
<1> QED BY <1>2, <1>3 DEF SaysWhy, Says, t

LEMMA LeavesOK ==
  ASSUME PathOK, NEW n \in Indexes, NEW c, InOrder(c, n - 1), SaysWhy(c), Says(c, n - 1)
  PROVE  LET t == c \o N!Leaves(n)
         IN /\ InOrder(t, n) /\ SaysWhy(t) /\ Says(t, n - 1)
            /\ N!HasNonLeaf(n) => \A j \in DOMAIN t : Before(t[j], N!NonLeaf(n))
            /\ \A a \in 0 .. N!TrueAlt(ngPath[n]) - 1 :
                 \E j \in DOMAIN t : t[j] = N!Literal(n, a, TRUE)
            /\ Len(t) \in Nat /\ \A j \in DOMAIN c : j \in DOMAIN t /\ t[j] = c[j]
            /\ N!TrueAlt(ngPath[n]) = 0 => t = c
<1> DEFINE k == N!TrueAlt(ngPath[n])
           leaf(a) == N!Literal(n, a - 1, TRUE)
           ls == N!Leaves(n)
           t == c \o ls
<1>1. k \in Nat /\ n \in Nat /\ n >= 1
  BY EdgeIs, AltIs
<1>2. \A a \in 1 .. k : leaf(a) \in Lit /\ leaf(a).at = <<n, a - 1>>
  <2> TAKE a \in 1 .. k
  <2>1. a - 1 \in Nat /\ a - 1 < k
    BY <1>1
  <2> QED BY <2>1, LeafIs
<1> HIDE DEF k, leaf
<1>20. ls = [a \in 1 .. k |-> leaf(a)]
  BY DEF N!Leaves, k, leaf
<1> HIDE DEF ls
<1>3. ls \in Seq(Lit) /\ Len(ls) = k /\ \A a \in 1 .. k : ls[a] = leaf(a)
  BY <1>1, <1>2, <1>20
<1>4. t = c \o ls
  OBVIOUS
<1>5. /\ c \in Seq(Lit) /\ DOMAIN c = 1 .. Len(c) /\ Len(c) \in Nat
      /\ t \in Seq(Lit) /\ Len(t) = Len(c) + k /\ DOMAIN t = 1 .. Len(c) + k
      /\ \A j \in 1 .. Len(c) : t[j] = c[j]
      /\ \A a \in 1 .. k : t[Len(c) + a] = leaf(a)
  BY <1>1, <1>3, <1>4 DEF InOrder
<1> HIDE DEF t
<1>6. \A j \in DOMAIN t : j \in DOMAIN c \/ (j - Len(c) \in 1 .. k /\ t[j] = leaf(j - Len(c)))
  BY <1>1, <1>5
<1>21. \A b \in Lit : b.at[1] \in Nat
  BY DEF Lit, LitType
<1>7. \A j \in DOMAIN c : t[j] = c[j] /\ j \in DOMAIN t /\ c[j] \in Lit /\ c[j].at[1] \in Nat /\ c[j].at[1] <= n - 1
  <2> TAKE j \in DOMAIN c
  <2>1. c[j] \in Lit /\ t[j] = c[j] /\ j \in DOMAIN t
    BY <1>1, <1>5
  <2>2. c[j].at[1] <= n - 1
    BY DEF InOrder
  <2> QED BY <1>21, <2>1, <2>2
<1>8. InOrder(t, n)
  <2>1. \A j \in DOMAIN t : t[j].at[1] <= n
    BY <1>1, <1>2, <1>6, <1>7
  <2>2. ASSUME NEW j \in DOMAIN t, NEW h \in DOMAIN t, j < h PROVE Before(t[j], t[h])
    <3>1. CASE h \in DOMAIN c
      BY <1>5, <1>7, <2>2, <3>1 DEF InOrder, Ascending
    <3>2. CASE h \notin DOMAIN c /\ j \in DOMAIN c
      BY <1>1, <1>2, <1>6, <1>7, <3>2 DEF Before
    <3>3. CASE h \notin DOMAIN c /\ j \notin DOMAIN c
      <4>1. /\ t[j].at = <<n, j - Len(c) - 1>> /\ t[h].at = <<n, h - Len(c) - 1>>
        BY <1>1, <1>2, <1>6, <3>3
      <4>2. j - Len(c) - 1 < h - Len(c) - 1
        BY <1>5, <2>2
      <4> QED BY <4>1, <4>2 DEF Before
    <3> QED BY <3>1, <3>2, <3>3
  <2> QED BY <1>5, <2>1, <2>2 DEF InOrder, Ascending
<1>9. \A m : Says(c, m) => Says(t, m)
  BY <1>7 DEF Says
<1>10. SaysWhy(t)
  <2>1. ASSUME NEW j \in DOMAIN t, t[j].leaf PROVE Says(t, t[j].at[1] - 1)
    <3>1. CASE j \in DOMAIN c
      BY <1>7, <1>9, <2>1, <3>1 DEF SaysWhy
    <3>2. CASE j \notin DOMAIN c
      BY <1>2, <1>6, <1>9, <3>2
    <3> QED BY <3>1, <3>2
  <2> QED BY <2>1 DEF SaysWhy
<1>11. ASSUME N!HasNonLeaf(n), NEW j \in DOMAIN t PROVE Before(t[j], N!NonLeaf(n))
  <2>1. N!NonLeaf(n).at = <<n, k>>
    BY <1>11, NonLeafIs DEF k
  <2>2. CASE j \in DOMAIN c
    BY <1>1, <1>7, <2>1, <2>2 DEF Before
  <2>3. CASE j \notin DOMAIN c
    <3>1. t[j].at = <<n, j - Len(c) - 1>> /\ j - Len(c) - 1 < k
      BY <1>1, <1>2, <1>5, <1>6, <2>3
    <3> QED BY <2>1, <3>1 DEF Before
  <2> QED BY <2>2, <2>3
<1>12. ASSUME NEW a \in 0 .. k - 1 PROVE \E j \in DOMAIN t : t[j] = N!Literal(n, a, TRUE)
  <2>1. a + 1 \in 1 .. k /\ Len(c) + (a + 1) \in DOMAIN t
    BY <1>1, <1>5
  <2>2. t[Len(c) + (a + 1)] = leaf(a + 1)
    BY <1>5, <2>1
  <2>3. leaf(a + 1) = N!Literal(n, a, TRUE)
    BY DEF leaf
  <2> QED BY <2>1, <2>2, <2>3
<1>13. k = 0 => t = c
  BY <1>3, <1>4, <1>5
<1>14. Says(t, n - 1) /\ Len(t) \in Nat /\ \A j \in DOMAIN c : j \in DOMAIN t /\ t[j] = c[j]
  BY <1>1, <1>5, <1>7, <1>9
<1> QED BY <1>8, <1>10, <1>11, <1>12, <1>13, <1>14, Zenon DEF k, t, ls

LEMMA NonLeafOK ==
  ASSUME PathOK, NEW n \in Indexes, NEW c, InOrder(c, n), SaysWhy(c), N!HasNonLeaf(n),
         \A j \in DOMAIN c : Before(c[j], N!NonLeaf(n))
  PROVE  LET t == c \o <<N!NonLeaf(n)>>
         IN /\ InOrder(t, n) /\ SaysWhy(t)
            /\ Says(c, n - 1) => Says(t, n)
            /\ Len(t) = Len(c) + 1 /\ \A j \in DOMAIN c : j \in DOMAIN t /\ t[j] = c[j]
            /\ t[Len(t)] = N!NonLeaf(n)
<1> DEFINE t == c \o <<N!NonLeaf(n)>>
<1>1. N!NonLeaf(n) \in Lit /\ N!NonLeaf(n).at[1] = n /\ ~N!NonLeaf(n).leaf /\ n \in Nat
  BY NonLeafIs, EdgeIs
<1>2. /\ c \in Seq(Lit) /\ DOMAIN c = 1 .. Len(c) /\ Len(c) \in Nat
      /\ t \in Seq(Lit) /\ Len(t) = Len(c) + 1 /\ DOMAIN t = 1 .. Len(c) + 1
      /\ \A j \in 1 .. Len(c) : t[j] = c[j]
      /\ t[Len(c) + 1] = N!NonLeaf(n)
  BY <1>1 DEF InOrder
<1> HIDE DEF t
<1>3. \A j \in DOMAIN c : t[j] = c[j] /\ j \in DOMAIN t
  BY <1>2
<1>4. InOrder(t, n)
  BY <1>1, <1>2 DEF InOrder, Ascending
<1>5. \A m : Says(c, m) => Says(t, m)
  BY <1>3 DEF Says
<1>6. SaysWhy(t)
  BY <1>1, <1>2, <1>5 DEF SaysWhy
<1>7. Says(c, n - 1) => Says(t, n)
  <2>1. ASSUME Says(t, n - 1), NEW h \in Indexes, h <= n
        PROVE  N!Rightmost(ngPath[h]) \/ \E j \in DOMAIN t : t[j] = N!NonLeaf(h)
    <3>1. CASE h = n
      BY <1>2, <3>1
    <3>2. CASE h # n
      <4>1. h \in Nat
        BY EdgeIs
      <4>2. h <= n - 1
        BY <1>1, <2>1, <3>2, <4>1
      <4> QED BY <2>1, <4>2 DEF Says
    <3> QED BY <3>1, <3>2
  <2> QED BY <1>5, <2>1 DEF Says
<1> QED BY <1>2, <1>3, <1>4, <1>6, <1>7 DEF t

LEMMA EntriesIs ==
  ASSUME PathOK
  PROVE  /\ N!Entries \in Nat /\ N!Entries <= Len(ngPath) /\ Len(ngPath) \in Nat
         /\ \A i \in Indexes : N!TrueAlt(ngPath[i]) > 0 => i <= N!Entries
<1> DEFINE S == {0} \cup {i \in Indexes : N!TrueAlt(ngPath[i]) > 0}
<1>1. Len(ngPath) \in Nat /\ Indexes = 1 .. Len(ngPath)
  BY PathAssumption DEF PathOK, N!PathAssumption, Indexes
<1>2. S \in SUBSET Nat /\ 0 \in S /\ \A i \in S : i <= Len(ngPath)
  BY <1>1
<1>3. \E i \in S : \A j \in S : j <= i
  BY <1>1, <1>2, HasGreatest
<1>4. N!Entries = N!Max(S)
  BY DEF N!Entries, Indexes
<1> HIDE DEF S
<1>5. N!Max(S) \in S /\ \A j \in S : j <= N!Max(S)
  BY <1>3 DEF N!Max
<1> QED BY <1>1, <1>2, <1>4, <1>5 DEF S

LEMMA FirstUncommittedIs ==
  ASSUME PathOK
  PROVE  /\ N!FirstUncommitted \in Nat /\ N!FirstUncommitted >= 1
         /\ N!FirstUncommitted <= N!Entries + 1
         /\ N!FirstUncommitted <= N!Entries =>
              LET e == ngPath[N!FirstUncommitted]
              IN N!FirstUncommitted \in Indexes /\ (N!TrueAlt(e) = 0 \/ ~N!Rightmost(e))
         /\ \A i \in Indexes : i < N!FirstUncommitted =>
              N!TrueAlt(ngPath[i]) > 0 /\ N!Rightmost(ngPath[i])
<1> DEFINE S == {N!Entries + 1} \cup
                  {i \in 1 .. N!Entries : N!TrueAlt(ngPath[i]) = 0 \/ ~N!Rightmost(ngPath[i])}
<1>1. /\ N!Entries \in Nat /\ N!Entries <= Len(ngPath) /\ Len(ngPath) \in Nat
      /\ Indexes = 1 .. Len(ngPath)
  BY EntriesIs, PathAssumption DEF PathOK, N!PathAssumption, Indexes
<1>2. S \in SUBSET Nat /\ N!Entries + 1 \in S
  BY <1>1
<1>3. \E i \in S : \A j \in S : i <= j
  BY <1>2, HasLeast
<1>4. N!FirstUncommitted = N!Min(S)
  BY DEF N!FirstUncommitted
<1>5. S = {N!Entries + 1} \cup
                  {i \in 1 .. N!Entries : N!TrueAlt(ngPath[i]) = 0 \/ ~N!Rightmost(ngPath[i])}
  OBVIOUS
<1> HIDE DEF S
<1>6. N!Min(S) \in S /\ \A j \in S : N!Min(S) <= j
  BY <1>3 DEF N!Min
<1>7. \A i \in Indexes : N!TrueAlt(ngPath[i]) \in Nat
  BY EdgeIs, AltIs
<1> DEFINE m == N!FirstUncommitted
<1>8. m \in S /\ \A j \in S : m <= j
  BY <1>4, <1>6
<1> HIDE DEF m
<1>9. m \in Nat /\ m >= 1 /\ m <= N!Entries + 1
  BY <1>1, <1>5, <1>8
<1>10. m <= N!Entries =>
         m \in Indexes /\ (N!TrueAlt(ngPath[m]) = 0 \/ ~N!Rightmost(ngPath[m]))
  BY <1>1, <1>5, <1>8
<1>11. ASSUME NEW i \in Indexes, i < m
       PROVE  N!TrueAlt(ngPath[i]) > 0 /\ N!Rightmost(ngPath[i])
  <2>1. i \in 1 .. N!Entries /\ i \notin S
    BY <1>1, <1>8, <1>9, <1>11
  <2> QED BY <1>5, <1>7, <1>11, <2>1
<1> QED BY <1>9, <1>10, <1>11 DEF m

(* What holds of the part b of the chain that has been built of the edges up to n:
   it has been cut if it does not tell every alternative that was taken. *)
Supported == \A i \in Indexes : ngPath[i].supported
From == IF N!Middle THEN N!FirstUncommitted + 1 ELSE N!FirstUncommitted
BuiltType(b) ==
  /\ b \in [chain : Seq(Lit), last : Nat, lost : BOOLEAN, none : BOOLEAN, done : BOOLEAN]
  /\ b.last <= Len(b.chain)
Sound(b, n) == InOrder(b.chain, n) /\ SaysWhy(b.chain)
Rooted(b) == b.none \/ (b.chain # <<>> /\ ~b.chain[1].leaf)
BuiltOK(b, n) ==
  /\ BuiltType(b) /\ Sound(b, n)
  /\ b.lost \/ b.none \/ b.done \/ Says(b.chain, n)
  /\ n >= N!FirstUncommitted => Rooted(b)
  /\ Supported => /\ ~b.lost /\ ~b.none /\ ~b.done
                  /\ \A i \in From .. n : \A a \in 0 .. N!TrueAlt(ngPath[i]) - 1 :
                       \E j \in DOMAIN b.chain : b.chain[j] = N!Literal(i, a, TRUE)

LEMMA CutIs ==
  ASSUME PathOK, NEW n \in Nat, NEW b, BuiltType(b), Sound(b, n)
  PROVE  /\ BuiltType(N!Cut(b)) /\ Sound(N!Cut(b), n)
         /\ Rooted(b) => Rooted(N!Cut(b))
         /\ b.chain = <<>> => N!Cut(b).none
         /\ N!Cut(b).lost \/ N!Cut(b).none \/ (N!Cut(b).chain = b.chain)
         /\ N!Cut(b).done = b.done
<1> DEFINE t == SubSeq(b.chain, 1, b.last)
           c == N!Cut(b)
<1>1. /\ b.chain \in Seq(Lit) /\ Len(b.chain) \in Nat /\ b.last \in 0 .. Len(b.chain)
      /\ b.lost \in BOOLEAN /\ b.none \in BOOLEAN /\ b.done \in BOOLEAN
  BY DEF BuiltType
<1> DEFINE l == b.lost \/ Len(b.chain) > b.last
           o == b.none \/ b.last = 0
<1>2. c = [b EXCEPT !.chain = t, !.lost = l, !.none = o]
  BY DEF N!Cut
<1>3. l \in BOOLEAN /\ o \in BOOLEAN
  OBVIOUS
<1>4. /\ t \in Seq(Lit) /\ Len(t) = b.last /\ \A j \in 1 .. b.last : t[j] = b.chain[j]
      /\ Len(b.chain) = b.last => t = b.chain
  BY <1>1
<1>5. InOrder(t, n) /\ SaysWhy(t)
  BY <1>1, Prefix DEF Sound
<1> HIDE DEF t, c, l, o
<1>6. c.chain = t /\ c.last = b.last /\ c.lost = l /\ c.none = o /\ c.done = b.done
  BY <1>2 DEF BuiltType
<1>7. BuiltType(c)
  <2>1. c = [chain |-> t, last |-> b.last, lost |-> l, none |-> o, done |-> b.done]
    BY <1>2 DEF BuiltType
  <2>2. c.last <= Len(c.chain) /\ b.last \in Nat
    BY <1>1, <1>4, <1>6
  <2>3. c \in [chain : Seq(Lit), last : Nat, lost : BOOLEAN, none : BOOLEAN, done : BOOLEAN]
    BY <1>1, <1>3, <1>4, <2>1, <2>2
  <2> QED BY <2>2, <2>3 DEF BuiltType
<1>8. Sound(c, n)
  BY <1>5, <1>6 DEF Sound
<1>9. b.last = 0 => c.none
  BY <1>6 DEF o
<1>10. b.none => c.none
  BY <1>6 DEF o
<1>11. Len(b.chain) > b.last => c.lost
  BY <1>6 DEF l
<1>12. Rooted(b) => Rooted(c)
  <2>1. CASE b.none
    BY <1>10, <2>1 DEF Rooted
  <2>2. CASE b.last = 0
    BY <1>9, <2>2 DEF Rooted
  <2>3. CASE b.last # 0
    <3>1. c.chain # <<>> /\ c.chain[1] = b.chain[1]
      BY <1>1, <1>4, <1>6, <2>3
    <3> QED BY <1>10, <3>1 DEF Rooted
  <2> QED BY <2>1, <2>2, <2>3
<1>13. b.chain = <<>> => c.none
  BY <1>1, <1>9
<1>14. c.lost \/ c.none \/ (c.chain = b.chain)
  BY <1>1, <1>4, <1>6, <1>11
<1> QED BY <1>6, <1>7, <1>8, <1>12, <1>13, <1>14 DEF c

LEMMA AddIs ==
  ASSUME PathOK, NEW b, BuiltType(b), ~b.lost, NEW s, NEW t, t = b.chain \o s, t \in Seq(Lit)
  PROVE  N!Add(b, s) = [chain |-> t, last |-> b.last, lost |-> FALSE, none |-> b.none, done |-> b.done]
<1>1. N!Add(b, s) = [b EXCEPT !.chain = t]
  BY DEF N!Add
<1>2. b.lost = FALSE
  BY DEF BuiltType
<1> QED BY <1>1, <1>2 DEF BuiltType

(* what c is when the leaves of edge n have been added to b *)
Appended(c, b, n) ==
  /\ BuiltType(c) /\ Sound(c, n) /\ ~c.done
  /\ c.lost \/ c.none \/ Says(c.chain, n - 1)
  /\ N!HasNonLeaf(n) => ~c.none
  /\ N!HasNonLeaf(n) /\ ~c.lost => \A j \in DOMAIN c.chain : Before(c.chain[j], N!NonLeaf(n))
  /\ Rooted(b) => Rooted(c)
  /\ N!TrueAlt(ngPath[n]) = 0 => c = b
HasLeaves(c, b, n) ==
  /\ ~c.lost /\ ~c.none
  /\ \A j \in DOMAIN b.chain : j \in DOMAIN c.chain /\ c.chain[j] = b.chain[j]
  /\ \A a \in 0 .. N!TrueAlt(ngPath[n]) - 1 :
       \E j \in DOMAIN c.chain : c.chain[j] = N!Literal(n, a, TRUE)

LEMMA LeavesAdded ==
  ASSUME PathOK, NEW n \in Indexes, NEW b, BuiltType(b), Sound(b, n - 1), ~b.none, ~b.done,
         b.lost \/ Says(b.chain, n - 1)
  PROVE  /\ Appended(N!AddLeaves(b, n), b, n)
         /\ Supported /\ ~b.lost => HasLeaves(N!AddLeaves(b, n), b, n)
<1> DEFINE c == N!AddLeaves(b, n)
           k == N!TrueAlt(ngPath[n])
<1>1. k \in Nat /\ n \in Nat /\ n >= 1
  BY EdgeIs, AltIs
<1>2. /\ b.chain \in Seq(Lit) /\ Len(b.chain) \in Nat /\ b.last \in Nat /\ b.last <= Len(b.chain)
      /\ DOMAIN b.chain = 1 .. Len(b.chain)
      /\ b.lost \in BOOLEAN /\ b.none = FALSE /\ b.done = FALSE
  BY DEF BuiltType
<1>3. Sound(b, n)
  <2>1. \A j \in DOMAIN b.chain : b.chain[j].at[1] \in Nat
    <3>1. \A l \in Lit : l.at[1] \in Nat
      BY DEF Lit, LitType
    <3> QED BY <1>2, <3>1
  <2> QED BY <1>1, <2>1 DEF Sound, InOrder
<1> HIDE DEF k, c
<1>4. CASE k = 0
  <2>1. c = b
    BY <1>4 DEF N!AddLeaves, k, c
  <2>2. ASSUME N!HasNonLeaf(n), ~b.lost
        PROVE  \A j \in DOMAIN b.chain : Before(b.chain[j], N!NonLeaf(n))
    <3>1. InOrder(b.chain, n - 1) /\ SaysWhy(b.chain) /\ Says(b.chain, n - 1)
      BY <2>2 DEF Sound
    <3>2. b.chain \o N!Leaves(n) = b.chain
      BY <1>4, <3>1, LeavesOK DEF k
    <3> QED BY <2>2, <3>1, <3>2, LeavesOK
  <2>3. 0 .. k - 1 = {}
    BY <1>4
  <2>4. Appended(b, b, n)
    BY <1>2, <1>3, <2>2 DEF Appended
  <2>5. ~b.lost => HasLeaves(b, b, n)
    BY <1>2, <2>3 DEF HasLeaves, k
  <2> QED BY <2>1, <2>4, <2>5 DEF c
<1>5. CASE k # 0 /\ ~ngPath[n].supported
  <2>1. c = N!Cut(b)
    BY <1>5 DEF N!AddLeaves, k, c
  <2>2. ~N!HasNonLeaf(n) /\ ~Supported
    BY <1>5 DEF N!HasNonLeaf, N!HasLiteral, Supported
  <2>3. Appended(c, b, n)
    <3>1. /\ BuiltType(c) /\ Sound(c, n) /\ c.done = b.done
          /\ Rooted(b) => Rooted(c)
          /\ c.lost \/ c.none \/ c.chain = b.chain
      BY <1>1, <1>3, <2>1, CutIs
    <3>2. c.lost \/ c.none \/ Says(c.chain, n - 1)
      <4>1. b.lost => c.lost
        BY <1>2, <2>1 DEF N!Cut, BuiltType
      <4> QED BY <3>1, <4>1
    <3> QED BY <1>2, <1>5, <2>2, <3>1, <3>2 DEF Appended, k
  <2> QED BY <2>2, <2>3 DEF c
<1>6. CASE k # 0 /\ ngPath[n].supported /\ b.lost
  <2>1. c = [b EXCEPT !.last = b.last]
    BY <1>6 DEF N!AddLeaves, N!Add, k, c
  <2>2. c = b
    BY <2>1 DEF BuiltType
  <2>3. Appended(b, b, n)
    BY <1>2, <1>3, <1>6 DEF Appended, k
  <2> QED BY <1>6, <2>2, <2>3 DEF c
<1>7. CASE k # 0 /\ ngPath[n].supported /\ ~b.lost
  <2> DEFINE t == b.chain \o N!Leaves(n)
  <2>1. InOrder(b.chain, n - 1) /\ SaysWhy(b.chain) /\ Says(b.chain, n - 1)
    BY <1>7 DEF Sound
  <2>2. /\ InOrder(t, n) /\ SaysWhy(t) /\ Says(t, n - 1)
        /\ N!HasNonLeaf(n) => \A j \in DOMAIN t : Before(t[j], N!NonLeaf(n))
        /\ \A a \in 0 .. k - 1 : \E j \in DOMAIN t : t[j] = N!Literal(n, a, TRUE)
        /\ Len(t) \in Nat /\ \A j \in DOMAIN b.chain : j \in DOMAIN t /\ t[j] = b.chain[j]
    BY <2>1, LeavesOK DEF k
  <2>3. t \in Seq(Lit)
    BY <2>2 DEF InOrder
  <2>4. N!Add(b, N!Leaves(n)) = [chain |-> t, last |-> b.last, lost |-> FALSE, none |-> b.none, done |-> b.done]
    BY <1>7, <2>3, AddIs
  <2>5. c = [N!Add(b, N!Leaves(n)) EXCEPT !.last = Len(N!Add(b, N!Leaves(n)).chain)]
    BY <1>7 DEF N!AddLeaves, k, c
  <2> HIDE DEF t
  <2>6. c = [chain |-> t, last |-> Len(t), lost |-> FALSE, none |-> FALSE, done |-> FALSE]
    <3> DEFINE r == N!Add(b, N!Leaves(n))
    <3>1. c = [r EXCEPT !.last = Len(r.chain)]
      BY <2>5
    <3>2. r = [chain |-> t, last |-> b.last, lost |-> FALSE, none |-> FALSE, done |-> FALSE]
      BY <1>2, <2>4
    <3> HIDE DEF r
    <3> QED BY <3>1, <3>2
  <2>7. BuiltType(c) /\ Sound(c, n)
    BY <2>2, <2>3, <2>6 DEF BuiltType, Sound
  <2>8. Rooted(b) => Rooted(c)
    <3>1. ASSUME b.chain # <<>>, ~b.chain[1].leaf PROVE c.chain # <<>> /\ ~c.chain[1].leaf
      <4>1. 1 \in DOMAIN b.chain
        BY <1>2, <3>1
      <4>2. 1 \in DOMAIN t /\ t[1] = b.chain[1]
        BY <2>2, <4>1
      <4> QED BY <2>3, <2>6, <3>1, <4>2
    <3> QED BY <1>2, <3>1 DEF Rooted
  <2>9. Appended(c, b, n)
    BY <1>7, <2>2, <2>6, <2>7, <2>8 DEF Appended, k
  <2>10. HasLeaves(c, b, n)
    BY <2>2, <2>6 DEF HasLeaves, k
  <2> QED BY <2>9, <2>10 DEF c
<1> QED BY <1>4, <1>5, <1>6, <1>7

(* built is well defined *)
LEMMA BuiltIs ==
  ASSUME PathOK
  PROVE  \A i \in N!FirstUncommitted - 1 .. N!Entries :
           N!built[i] = IF i < N!FirstUncommitted THEN N!Nothing
                        ELSE N!Extended(N!built[i - 1], i)
<1> DEFINE f == N!FirstUncommitted
           m == N!Entries
           At(g, i) == IF i < f THEN N!Nothing ELSE N!Extended(g[i - 1], i)
           Has(n) == \E g : g = [i \in f - 1 .. n |-> At(g, i)]
<1>1. f \in Nat /\ m \in Nat /\ f >= 1 /\ f <= m + 1
  BY EntriesIs, FirstUncommittedIs
<1>2. Has(f - 1)
  <2>1. [i \in f - 1 .. f - 1 |-> N!Nothing] = [i \in f - 1 .. f - 1 |-> At([j \in f - 1 .. f - 1 |-> N!Nothing], i)]
    BY <1>1
  <2> QED BY <2>1
<1> HIDE DEF f, m
<1>3. ASSUME NEW n \in Nat, n >= f - 1, Has(n) PROVE Has(n + 1)
  <2>1. PICK g : g = [i \in f - 1 .. n |-> At(g, i)]
    BY <1>3
  <2> DEFINE h == [i \in f - 1 .. n + 1 |-> IF i = n + 1 THEN N!Extended(g[n], n + 1) ELSE g[i]]
  <2>2. \A i \in f - 1 .. n : g[i] = At(g, i)
    BY <2>1
  <2>3. \A i \in f - 1 .. n + 1 : h[i] = At(h, i)
    <3> TAKE i \in f - 1 .. n + 1
    <3>1. CASE i = n + 1
      BY <1>1, <1>3, <3>1
    <3>2. CASE i # n + 1 /\ i < f
      BY <1>1, <1>3, <2>2, <3>2
    <3>3. CASE i # n + 1 /\ ~(i < f)
      <4>1. i - 1 \in f - 1 .. n /\ i \in f - 1 .. n
        BY <1>1, <1>3, <3>3
      <4>2. h[i] = g[i] /\ h[i - 1] = g[i - 1]
        BY <1>1, <1>3, <4>1
      <4> QED BY <2>2, <3>3, <4>1, <4>2
    <3> QED BY <3>1, <3>2, <3>3
  <2>4. h = [i \in f - 1 .. n + 1 |-> h[i]]
    OBVIOUS
  <2> HIDE DEF h
  <2>5. h = [i \in f - 1 .. n + 1 |-> At(h, i)]
    BY <2>3, <2>4
  <2> QED BY <2>5
<1>4. Has(m)
  <2> DEFINE S == {n \in Nat : n >= f - 1 /\ ~Has(n)}
  <2> SUFFICES ASSUME ~Has(m) PROVE FALSE
    OBVIOUS
  <2> HIDE DEF Has
  <2>1. m \in S /\ S \in SUBSET Nat
    BY <1>1
  <2>2. PICK n \in S : \A k \in S : n <= k
    BY <2>1, HasLeast
  <2>3. n # f - 1
    BY <1>2, <2>2
  <2>4. n - 1 \in Nat /\ n - 1 >= f - 1 /\ n - 1 \notin S
    BY <1>1, <2>2, <2>3
  <2>5. Has(n - 1) /\ n - 1 + 1 = n
    BY <2>4
  <2>6. Has(n)
    BY <1>3, <2>4, <2>5
  <2> QED BY <2>2, <2>6
<1>5. N!built = CHOOSE g : g = [i \in f - 1 .. m |-> At(g, i)]
  BY DEF N!built, f, m
<1>6. N!built = [i \in f - 1 .. m |-> At(N!built, i)]
  BY <1>4, <1>5
<1> QED BY <1>6 DEF f, m

LEMMA LaterSound ==
  ASSUME PathOK, NEW n \in Indexes, NEW b, BuiltType(b), Sound(b, n - 1)
  PROVE  Sound(b, n)
<1>1. n \in Nat
  BY EdgeIs
<1>2. \A l \in Lit : l.at[1] \in Nat
  BY DEF Lit, LitType
<1>3. \A j \in DOMAIN b.chain : b.chain[j] \in Lit
  BY DEF Sound, InOrder
<1>4. \A j \in DOMAIN b.chain : b.chain[j].at[1] <= n
  BY <1>1, <1>2, <1>3 DEF Sound, InOrder
<1> QED BY <1>4 DEF Sound, InOrder

(* at the first edge that is not committed to, and not in the middle of it *)
LEMMA FirstIs ==
  ASSUME PathOK, NEW n \in Indexes, n = N!FirstUncommitted, n <= N!Entries, ~N!Middle
  PROVE  N!TrueAlt(ngPath[n]) = 0 /\ ~N!Rightmost(ngPath[n])
<1>1. N!TrueAlt(ngPath[n]) \in Nat /\ ~(N!TrueAlt(ngPath[n]) > 0)
  BY EdgeIs, AltIs DEF N!Middle
<1>2. N!TrueAlt(ngPath[n]) = 0
  BY <1>1
<1>3. N!Rightmost(ngPath[n]) <=> N!TrueAlt(ngPath[n]) = N!Alternatives(ngPath[n]) - 1
  BY EdgeIs, AltIs
<1>4. N!Alternatives(ngPath[n]) \in Nat /\ N!Alternatives(ngPath[n]) >= 2
  BY EdgeIs, AltIs
<1> QED BY <1>2, <1>3, <1>4

BuiltLeaves(b, n) ==
  \A i \in From .. n : \A a \in 0 .. N!TrueAlt(ngPath[i]) - 1 :
    \E j \in DOMAIN b.chain : b.chain[j] = N!Literal(i, a, TRUE)

LEMMA EdgeAdded ==
  ASSUME PathOK, NEW n \in Indexes, n >= N!FirstUncommitted, n <= N!Entries,
         NEW b, BuiltOK(b, n - 1), ~(n = N!FirstUncommitted /\ N!Middle),
         n = N!FirstUncommitted => b = N!Nothing
  PROVE  BuiltOK(N!AddEdge(b, n), n)
<1> DEFINE f == N!FirstUncommitted
           c == N!AddLeaves(b, n)
           r == N!AddEdge(b, n)
<1> SUFFICES BuiltOK(r, n)
  OBVIOUS
<1>1. n \in Nat /\ n >= 1 /\ f \in Nat /\ f >= 1 /\ n >= f
  BY EdgeIs, FirstUncommittedIs
<1>2. /\ BuiltType(b) /\ Sound(b, n - 1)
      /\ b.lost \/ b.none \/ b.done \/ Says(b.chain, n - 1)
      /\ n # f => Rooted(b)
      /\ Supported => ~b.lost /\ ~b.none /\ ~b.done /\ BuiltLeaves(b, n - 1)
  <2>1. n # f => n - 1 >= N!FirstUncommitted
    BY <1>1
  <2>2. Supported => ~b.lost /\ ~b.none /\ ~b.done /\ BuiltLeaves(b, n - 1)
    BY Zenon DEF BuiltOK, BuiltLeaves
  <2>3. BuiltType(b) /\ Sound(b, n - 1) /\ (b.lost \/ b.none \/ b.done \/ Says(b.chain, n - 1))
    BY Zenon DEF BuiltOK
  <2>4. n # f => Rooted(b)
    BY <2>1, Zenon DEF BuiltOK
  <2> QED BY <2>2, <2>3, <2>4
<1>3. n = f => ~b.lost /\ ~b.none /\ ~b.done /\ b.chain = <<>>
  BY DEF N!Nothing
<1>4. n = f => N!TrueAlt(ngPath[n]) = 0 /\ ~N!Rightmost(ngPath[n])
  BY FirstIs
<1> HIDE DEF f
<1>5. CASE b.done \/ b.none
  <2>1. r = b
    BY <1>5 DEF N!AddEdge
  <2>2. Sound(b, n)
    BY <1>2, LaterSound
  <2> QED BY <1>2, <1>3, <1>5, <2>1, <2>2 DEF BuiltOK
<1>6. CASE ~b.done /\ ~b.none
  <2>1. r = N!AddNonLeaf(c, n)
    BY <1>6 DEF N!AddEdge
  <2>2. Appended(c, b, n) /\ (Supported => HasLeaves(c, b, n))
    BY <1>2, <1>6, LeavesAdded
  <2> HIDE DEF c, r
  <2>3. n = f => c = b
    BY <1>4, <2>2 DEF Appended
  <2>4. n # f => Rooted(c)
    BY <1>2, <2>2 DEF Appended
  <2>5. Supported => BuiltLeaves(c, n)
    <3>1. ASSUME Supported, NEW i \in From .. n, NEW a \in 0 .. N!TrueAlt(ngPath[i]) - 1
          PROVE  \E j \in DOMAIN c.chain : c.chain[j] = N!Literal(i, a, TRUE)
      <4>1. CASE i = n
        BY <2>2, <3>1, <4>1 DEF HasLeaves
      <4>2. CASE i # n
        <5>1. i \in From .. n - 1
          BY <1>1, <3>1, <4>2, FirstUncommittedIs DEF From
        <5>2. PICK j \in DOMAIN b.chain : b.chain[j] = N!Literal(i, a, TRUE)
          BY <1>2, <3>1, <5>1 DEF BuiltLeaves
        <5> QED BY <2>2, <3>1, <5>2 DEF HasLeaves
      <4> QED BY <4>1, <4>2
    <3> QED BY <3>1 DEF BuiltLeaves
  <2>6. Supported => ~c.lost /\ ~c.none /\ ~c.done
    BY <2>2 DEF HasLeaves, Appended
  <2>7. CASE N!HasNonLeaf(n) /\ c.lost
    <3>1. r = c
      BY <2>1, <2>7 DEF N!AddNonLeaf, N!Add
    <3>2. n # f
      BY <1>3, <2>3, <2>7
    <3> QED BY <2>2, <2>4, <2>6, <2>7, <3>1, <3>2 DEF BuiltOK, Appended
  <2>8. CASE N!HasNonLeaf(n) /\ ~c.lost
    <3> DEFINE t == c.chain \o <<N!NonLeaf(n)>>
    <3>1. /\ BuiltType(c) /\ InOrder(c.chain, n) /\ SaysWhy(c.chain) /\ Says(c.chain, n - 1)
          /\ ~c.none /\ ~c.done
          /\ \A j \in DOMAIN c.chain : Before(c.chain[j], N!NonLeaf(n))
      BY <2>2, <2>8 DEF Appended, Sound
    <3>2. /\ InOrder(t, n) /\ SaysWhy(t) /\ Says(t, n)
          /\ Len(t) = Len(c.chain) + 1 /\ \A j \in DOMAIN c.chain : j \in DOMAIN t /\ t[j] = c.chain[j]
          /\ t[Len(t)] = N!NonLeaf(n)
      BY <2>8, <3>1, NonLeafOK
    <3>3. t \in Seq(Lit)
      BY <3>2 DEF InOrder
    <3>4. r = [chain |-> t, last |-> c.last, lost |-> FALSE, none |-> c.none, done |-> c.done]
      BY <2>1, <2>8, <3>1, <3>3, AddIs DEF N!AddNonLeaf
    <3> HIDE DEF t
    <3>5. /\ c.chain \in Seq(Lit) /\ Len(c.chain) \in Nat /\ DOMAIN c.chain = 1 .. Len(c.chain)
          /\ c.last \in Nat /\ c.last <= Len(c.chain) /\ c.none = FALSE /\ c.done = FALSE
      BY <3>1 DEF BuiltType
    <3>61. r.last <= Len(r.chain)
      BY <3>2, <3>4, <3>5
    <3>62. r \in [chain : Seq(Lit), last : Nat, lost : BOOLEAN, none : BOOLEAN, done : BOOLEAN]
      BY <3>3, <3>4, <3>5
    <3>63. r.chain = t
      BY <3>4
    <3>6. BuiltType(r) /\ Sound(r, n)
      BY <3>2, <3>61, <3>62, <3>63 DEF BuiltType, Sound
    <3>7. Rooted(r)
      <4>1. CASE n = f
        <5>1. c.chain = <<>>
          BY <1>3, <2>3, <4>1
        <5>2. t # <<>> /\ t[1] = N!NonLeaf(n)
          BY <3>2, <3>3, <5>1
        <5> QED BY <2>8, <3>4, <5>2, NonLeafIs DEF Rooted
      <4>2. CASE n # f
        <5>1. c.chain # <<>> /\ ~c.chain[1].leaf
          BY <2>4, <3>1, <4>2 DEF Rooted
        <5>2. 1 \in DOMAIN c.chain
          BY <3>5, <5>1
        <5>3. t # <<>> /\ t[1] = c.chain[1]
          BY <3>2, <3>3, <3>5, <5>2
        <5> QED BY <3>4, <5>1, <5>3 DEF Rooted
      <4> QED BY <4>1, <4>2
    <3>8. BuiltLeaves(c, n) => BuiltLeaves(r, n)
      BY <3>2, <3>4 DEF BuiltLeaves
    <3>9. ~r.lost /\ ~r.none /\ ~r.done /\ r.chain = t
      BY <3>4, <3>5
    <3> QED BY <2>5, <3>2, <3>6, <3>7, <3>8, <3>9 DEF BuiltOK, BuiltLeaves
  <2>9. CASE ~N!HasNonLeaf(n) /\ N!Rightmost(ngPath[n])
    <3>1. r = c
      BY <2>1, <2>9 DEF N!AddNonLeaf
    <3>2. n # f
      BY <1>4, <2>9
    <3>3. \A m : Says(m, n - 1) => Says(m, n)
      <4>1. \A h \in Indexes : h \in Nat
        BY EdgeIs
      <4>2. \A h \in Indexes : h <= n => h <= n - 1 \/ h = n
        BY <1>1, <4>1
      <4> QED BY <2>9, <4>2 DEF Says
    <3> QED BY <2>2, <2>4, <2>5, <2>6, <3>1, <3>2, <3>3 DEF BuiltOK, Appended, BuiltLeaves
  <2>10. CASE ~N!HasNonLeaf(n) /\ ~N!Rightmost(ngPath[n])
    <3> DEFINE u == N!Cut(c)
    <3>1. r = [u EXCEPT !.done = TRUE]
      BY <2>1, <2>10 DEF N!AddNonLeaf
    <3>2. ~Supported
      BY <2>10, EdgeIs, AltIs DEF Supported, N!HasNonLeaf
    <3>3. /\ BuiltType(u) /\ Sound(u, n) /\ (Rooted(c) => Rooted(u)) /\ (c.chain = <<>> => u.none)
      BY <1>1, <2>2, CutIs DEF Appended
    <3> HIDE DEF u
    <3>4. r.chain = u.chain /\ r.last = u.last /\ r.lost = u.lost /\ r.none = u.none /\ r.done = TRUE
      BY <3>1, <3>3 DEF BuiltType
    <3>5. BuiltType(r)
      BY <3>1, <3>3, <3>4 DEF BuiltType
    <3>6. Sound(r, n)
      BY <3>3, <3>4 DEF Sound
    <3>7. Rooted(u)
      BY <1>3, <2>3, <2>4, <3>3 DEF Rooted
    <3>8. Rooted(r)
      BY <3>4, <3>7 DEF Rooted
    <3> QED BY <3>2, <3>4, <3>5, <3>6, <3>8 DEF BuiltOK
  <2> QED BY <2>7, <2>8, <2>9, <2>10
<1> QED BY <1>5, <1>6

(* something is built: the space does not fail, and its root can be propagated *)
Posting == N!FirstUncommitted <= N!Entries /\ (N!Middle => ngPath[N!FirstUncommitted].supported)

LEMMA NothingOK ==
  ASSUME PathOK, Posting
  PROVE  BuiltOK(N!Nothing, N!FirstUncommitted - 1)
<1> DEFINE f == N!FirstUncommitted
           b == N!Nothing
<1>1. f \in Nat /\ f >= 1 /\ From >= f /\ From \in Nat /\ ~(f - 1 >= f)
  BY FirstUncommittedIs DEF From
<1>2. b = [chain |-> <<>>, last |-> 0, lost |-> FALSE, none |-> FALSE, done |-> FALSE]
  BY DEF N!Nothing
<1>3. \A h \in Indexes : h <= f - 1 => N!Rightmost(ngPath[h])
  BY <1>1, FirstUncommittedIs, EdgeIs
<1>11. ~(f - 1 >= N!FirstUncommitted)
  BY <1>1
<1> HIDE DEF f, b
<1>4. DOMAIN b.chain = {}
  BY <1>2
<1>41. <<>> \in Seq(Lit) /\ Len(<<>>) = 0 /\ 0 \in Nat /\ 0 <= 0
  OBVIOUS
<1>42. b.chain = <<>> /\ b.last = 0 /\ ~b.lost /\ ~b.none /\ ~b.done
  BY <1>2
<1>51. b \in [chain : Seq(Lit), last : Nat, lost : BOOLEAN, none : BOOLEAN, done : BOOLEAN]
  BY <1>2, <1>41
<1>5. BuiltType(b)
  BY <1>51, <1>41, <1>42 DEF BuiltType
<1>6. Sound(b, f - 1)
  BY <1>4, <1>41, <1>42 DEF Sound, InOrder, Ascending, SaysWhy
<1>7. Says(b.chain, f - 1)
  BY <1>3 DEF Says
<1>8. From .. f - 1 = {}
  BY <1>1
<1> HIDE DEF Posting
<1>9. BuiltOK(b, f - 1)
  BY <1>11, <1>42, <1>5, <1>6, <1>7, <1>8 DEF BuiltOK
<1> QED BY <1>9 DEF f, b

(* in the middle of an edge the chain begins with the literal of what was taken *)
LEMMA MiddleOK ==
  ASSUME PathOK, Posting, N!Middle
  PROVE  LET r == [N!Nothing EXCEPT !.chain = <<N!NonLeaf(N!FirstUncommitted)>>]
         IN BuiltOK(r, N!FirstUncommitted)
<1> DEFINE f == N!FirstUncommitted
           t == <<N!NonLeaf(f)>>
           r == [N!Nothing EXCEPT !.chain = t]
<1>1. f \in Nat /\ f >= 1 /\ f \in Indexes /\ From = f + 1
  BY FirstUncommittedIs DEF From, Posting
<1>2. N!HasNonLeaf(f)
  <2>1. ngPath[f].supported /\ ~N!Rightmost(ngPath[f])
    <3>1. N!TrueAlt(ngPath[f]) > 0 /\ (N!TrueAlt(ngPath[f]) = 0 \/ ~N!Rightmost(ngPath[f]))
      BY FirstUncommittedIs DEF Posting, N!Middle
    <3>2. N!TrueAlt(ngPath[f]) \in Nat
      BY <1>1, EdgeIs, AltIs
    <3> QED BY <3>1, <3>2 DEF Posting
  <2> QED BY <1>1, <2>1, EdgeIs, AltIs DEF N!HasNonLeaf
<1>3. /\ InOrder(<<>>, f) /\ SaysWhy(<<>>) /\ Says(<<>>, f - 1)
  <2>1. BuiltOK(N!Nothing, f - 1)
    BY NothingOK
  <2>2. \A h \in Indexes : h <= f - 1 => N!Rightmost(ngPath[h])
    BY <1>1, FirstUncommittedIs, EdgeIs
  <2>3. <<>> \in Seq(Lit) /\ DOMAIN <<>> = {}
    OBVIOUS
  <2> QED BY <2>2, <2>3 DEF InOrder, Ascending, SaysWhy, Says
<1> HIDE DEF f
<1>4. <<>> \o t = t
  OBVIOUS
<1>5. InOrder(t, f) /\ SaysWhy(t) /\ Says(t, f)
  <2>1. \A j \in DOMAIN <<>> : Before(<<>>[j], N!NonLeaf(f))
    OBVIOUS
  <2> QED BY <1>1, <1>2, <1>3, <1>4, <2>1, NonLeafOK
<1>6. t \in Seq(Lit) /\ t # <<>> /\ Len(t) = 1 /\ ~t[1].leaf
  BY <1>1, <1>2, NonLeafIs
<1> HIDE DEF t
<1>7. r = [chain |-> t, last |-> 0, lost |-> FALSE, none |-> FALSE, done |-> FALSE]
  <2> DEFINE z == <<>>
             o == N!Nothing
  <2>1. o = [chain |-> z, last |-> 0, lost |-> FALSE, none |-> FALSE, done |-> FALSE]
    BY DEF N!Nothing
  <2>2. r = [o EXCEPT !.chain = t]
    OBVIOUS
  <2> HIDE DEF z, o, r
  <2> QED BY <2>1, <2>2
<1> HIDE DEF r
<1>71. 0 \in Nat /\ 0 <= 1
  OBVIOUS
<1>72. r.chain = t /\ r.last = 0 /\ ~r.lost /\ ~r.none /\ ~r.done
  BY <1>7
<1>73. r \in [chain : Seq(Lit), last : Nat, lost : BOOLEAN, none : BOOLEAN, done : BOOLEAN]
  BY <1>6, <1>7, <1>71
<1>8. BuiltType(r) /\ Sound(r, f) /\ Rooted(r)
  BY <1>5, <1>6, <1>71, <1>72, <1>73 DEF BuiltType, Sound, Rooted
<1>9. From .. f = {}
  BY <1>1
<1> HIDE DEF Posting
<1>10. BuiltOK(r, f)
  BY <1>5, <1>72, <1>8, <1>9, Zenon DEF BuiltOK
<1> QED BY <1>10 DEF r, t, f

LEMMA BuiltUpTo ==
  ASSUME PathOK, Posting
  PROVE  \A i \in N!FirstUncommitted - 1 .. N!Entries : BuiltOK(N!built[i], i)
<1> DEFINE f == N!FirstUncommitted
           m == N!Entries
           S == {n \in Nat : n >= f - 1 /\ n <= m /\ ~BuiltOK(N!built[n], n)}
<1>1. f \in Nat /\ m \in Nat /\ f >= 1 /\ f <= m /\ m <= Len(ngPath) /\ Len(ngPath) \in Nat
  BY EntriesIs, FirstUncommittedIs DEF Posting
<1>2. Indexes = 1 .. Len(ngPath)
  BY PathAssumption DEF PathOK, N!PathAssumption, Indexes
<1>3. \A i \in f - 1 .. m : N!built[i] = IF i < f THEN N!Nothing ELSE N!Extended(N!built[i - 1], i)
  BY BuiltIs
<1>4. BuiltOK(N!Nothing, f - 1)
  BY NothingOK
<1>5. ASSUME N!Middle
      PROVE  BuiltOK([N!Nothing EXCEPT !.chain = <<N!NonLeaf(f)>>], f)
  BY <1>5, MiddleOK
<1> SUFFICES ASSUME S # {} PROVE FALSE
  BY <1>1
<1>6. PICK n \in S : \A k \in S : n <= k
  BY HasLeast
<1>7. n \in Nat /\ n >= f - 1 /\ n <= m /\ ~BuiltOK(N!built[n], n)
  OBVIOUS
<1>8. f - 1 \in f - 1 .. m /\ f - 1 < f /\ n \in f - 1 .. m
  BY <1>1, <1>7
<1>9. N!built[f - 1] = N!Nothing
  BY <1>3, <1>8
<1>10. n # f - 1
  BY <1>4, <1>7, <1>9
<1>11. n >= f /\ n - 1 \in Nat /\ n - 1 >= f - 1 /\ n - 1 <= m /\ ~(n <= n - 1) /\ n \in Indexes
  BY <1>1, <1>2, <1>7, <1>10
<1>12. n - 1 \notin S
  BY <1>6, <1>11
<1>13. BuiltOK(N!built[n - 1], n - 1)
  BY <1>11, <1>12
<1> HIDE DEF S
<1>14. N!built[n] = N!Extended(N!built[n - 1], n)
  BY <1>1, <1>3, <1>8, <1>11
<1>15. n = f => N!built[n - 1] = N!Nothing
  BY <1>9
<1>16. CASE n = f /\ N!Middle
  <2>1. N!Extended(N!Nothing, f) = [N!Nothing EXCEPT !.chain = <<N!NonLeaf(f)>>]
    BY <1>16 DEF N!Extended
  <2> QED BY <1>5, <1>7, <1>14, <1>15, <1>16, <2>1
<1>17. CASE ~(n = f /\ N!Middle)
  <2>1. N!Extended(N!built[n - 1], n) = N!AddEdge(N!built[n - 1], n)
    BY <1>17 DEF N!Extended
  <2>2. BuiltOK(N!AddEdge(N!built[n - 1], n), n)
    BY <1>7, <1>11, <1>13, <1>15, <1>17, EdgeAdded
  <2> QED BY <1>7, <1>14, <2>1, <2>2
<1> QED BY <1>16, <1>17

(* A chain: literals in order, each leaf with what was taken before it. *)
Chain(c) == c \in Seq(Lit) /\ Ascending(c)
Full(c) ==
  /\ \A i \in From .. N!Entries : \A a \in 0 .. N!TrueAlt(ngPath[i]) - 1 :
       \E j \in DOMAIN c : c[j] = N!Literal(i, a, TRUE)

(* what post() builds is a chain that begins with a non-leaf, and of a path that is
   supported throughout it is all of the path *)
LEMMA BuiltChain ==
  ASSUME PathOK, Posting
  PROVE  /\ Chain(N!Built) /\ SaysWhy(N!Built)
         /\ N!Built # <<>> => ~N!Built[1].leaf
         /\ Supported => N!Built # <<>> /\ Full(N!Built)
<1> DEFINE m == N!Entries
           b == N!built[m]
<1>1. m \in N!FirstUncommitted - 1 .. m /\ m >= N!FirstUncommitted
  BY EntriesIs, FirstUncommittedIs DEF Posting
<1>2. BuiltOK(b, m)
  BY <1>1, BuiltUpTo
<1>3. N!Built = IF b.none THEN <<>> ELSE b.chain
  BY DEF N!Built
<1> HIDE DEF b, m
<1>4. /\ Chain(b.chain) /\ SaysWhy(b.chain)
      /\ Rooted(b)
      /\ Supported => ~b.none
  BY <1>1, <1>2 DEF BuiltOK, Sound, InOrder, Chain
<1>5. Chain(<<>>) /\ SaysWhy(<<>>)
  BY DEF Chain, Ascending, SaysWhy
<1>6. Supported => Full(b.chain)
  BY <1>2, Zenon DEF BuiltOK, Full, m
<1> QED BY <1>3, <1>4, <1>5, <1>6, Zenon DEF Rooted

-----------------------------------------------------------------------------
(* The operators on sets that N brings along are those of FiniteSets. *)
LEMMA CardIs == \A S : N!Cardinality(S) = Cardinality(S)
BY Zenon DEF N!Cardinality, Cardinality

LEMMA FiniteIs == \A S : N!IsFiniteSet(S) <=> IsFiniteSet(S)
BY DEF N!IsFiniteSet, IsFiniteSet

-----------------------------------------------------------------------------
(* What propagate() does to the chain. *)

LEMMA ChainIs ==
  ASSUME NEW c, Chain(c)
  PROVE  /\ c \in Seq(Lit) /\ Len(c) \in Nat /\ DOMAIN c = 1 .. Len(c)
         /\ \A j \in DOMAIN c : c[j] \in Lit
         /\ \A j \in DOMAIN c : \A h \in DOMAIN c : j < h => Before(c[j], c[h])
         /\ \A j \in DOMAIN c : \A h \in DOMAIN c : c[j] = c[h] => j = h
<1>1. /\ c \in Seq(Lit) /\ Len(c) \in Nat /\ DOMAIN c = 1 .. Len(c)
      /\ \A j \in DOMAIN c : c[j] \in Lit
  BY DEF Chain
<1>2. \A j \in DOMAIN c : \A h \in DOMAIN c : j < h => Before(c[j], c[h])
  BY DEF Chain, Ascending
<1>3. \A j \in DOMAIN c : \A h \in DOMAIN c : j < h => c[j] # c[h]
  BY <1>1, <1>2, BeforeIs
<1>4. \A j \in DOMAIN c : \A h \in DOMAIN c : c[j] = c[h] => j = h
  BY <1>1, <1>3
<1> QED BY <1>1, <1>2, <1>4

LEMMA TailIs ==
  ASSUME NEW c, Chain(c), c # <<>>
  PROVE  /\ Chain(Tail(c)) /\ Len(c) \in Nat /\ Len(c) >= 1 /\ Len(Tail(c)) = Len(c) - 1
         /\ \A j \in 1 .. Len(c) - 1 : Tail(c)[j] = c[j + 1]
<1> DEFINE t == Tail(c)
<1>1. /\ c \in Seq(Lit) /\ Len(c) \in Nat /\ DOMAIN c = 1 .. Len(c)
      /\ \A j \in DOMAIN c : \A h \in DOMAIN c : j < h => Before(c[j], c[h])
  BY ChainIs
<1>2. /\ Len(c) >= 1 /\ t \in Seq(Lit) /\ Len(t) = Len(c) - 1 /\ DOMAIN t = 1 .. Len(c) - 1
      /\ \A j \in 1 .. Len(c) - 1 : t[j] = c[j + 1]
  BY <1>1
<1> HIDE DEF t
<1>3. ASSUME NEW j \in DOMAIN t, NEW h \in DOMAIN t, j < h PROVE Before(t[j], t[h])
  <2>1. j + 1 \in DOMAIN c /\ h + 1 \in DOMAIN c /\ j + 1 < h + 1
    BY <1>1, <1>2, <1>3
  <2> QED BY <1>1, <1>2, <2>1
<1>4. Chain(t)
  BY <1>2, <1>3 DEF Chain, Ascending
<1> QED BY <1>1, <1>2, <1>4 DEF t

LEMMA CutChainIs ==
  ASSUME NEW c, Chain(c), NEW m \in 0 .. Len(c)
  PROVE  /\ Chain(SubSeq(c, 1, m)) /\ Len(SubSeq(c, 1, m)) = m
         /\ \A j \in 1 .. m : SubSeq(c, 1, m)[j] = c[j]
<1> DEFINE t == SubSeq(c, 1, m)
<1>1. /\ c \in Seq(Lit) /\ Len(c) \in Nat /\ DOMAIN c = 1 .. Len(c)
      /\ \A j \in DOMAIN c : \A h \in DOMAIN c : j < h => Before(c[j], c[h])
  BY ChainIs
<1>2. /\ t \in Seq(Lit) /\ Len(t) = m /\ DOMAIN t = 1 .. m
      /\ \A j \in 1 .. m : t[j] = c[j]
  BY <1>1
<1> HIDE DEF t
<1>3. \A j \in DOMAIN t : \A h \in DOMAIN t : j < h => Before(t[j], t[h])
  BY <1>1, <1>2
<1>4. Chain(t)
  BY <1>2, <1>3 DEF Chain, Ascending
<1> QED BY <1>2, <1>4 DEF t

LEMMA RemoveIs ==
  ASSUME NEW c, Chain(c), NEW m \in DOMAIN c
  PROVE  LET t == N!RemoveAt(c, m)
         IN /\ Chain(t) /\ Len(t) = Len(c) - 1
            /\ \A j \in 1 .. m - 1 : t[j] = c[j]
            /\ \A j \in m .. Len(c) - 1 : t[j] = c[j + 1]
<1> DEFINE t == N!RemoveAt(c, m)
           p == SubSeq(c, 1, m - 1)
           q == SubSeq(c, m + 1, Len(c))
           n == Len(c)
<1>1. /\ c \in Seq(Lit) /\ n \in Nat /\ DOMAIN c = 1 .. n
      /\ \A j \in DOMAIN c : \A h \in DOMAIN c : j < h => Before(c[j], c[h])
  BY ChainIs
<1>2. m \in Nat /\ m >= 1 /\ m <= n
  BY <1>1
<1>3. p \in Seq(Lit) /\ Len(p) = m - 1 /\ \A j \in 1 .. m - 1 : p[j] = c[j]
  BY <1>1, <1>2
<1>4. q \in Seq(Lit) /\ Len(q) = n - m /\ \A j \in 1 .. n - m : q[j] = c[j + m]
  BY <1>1, <1>2
<1>5. t = p \o q
  BY DEF N!RemoveAt
<1> HIDE DEF t, p, q, n
<1>6. /\ t \in Seq(Lit) /\ Len(t) = n - 1 /\ DOMAIN t = 1 .. n - 1
      /\ \A j \in 1 .. m - 1 : t[j] = p[j]
      /\ \A j \in m .. n - 1 : t[j] = q[j - (m - 1)]
  <2>5. p \in Seq(Lit) /\ q \in Seq(Lit)
    BY <1>3, <1>4
  <2>6. /\ t \in Seq(Lit) /\ Len(t) = Len(p) + Len(q) /\ DOMAIN t = 1 .. Len(t)
        /\ \A j \in 1 .. Len(p) + Len(q) : t[j] = IF j <= Len(p) THEN p[j] ELSE q[j - Len(p)]
    BY <1>5, <2>5, ConcatProperties
  <2>1. t \in Seq(Lit) /\ Len(t) = (m - 1) + (n - m) /\ DOMAIN t = 1 .. Len(t)
    BY <1>3, <1>4, <2>6, Zenon
  <2>2. \A j \in 1 .. (m - 1) + (n - m) : t[j] = IF j <= m - 1 THEN p[j] ELSE q[j - (m - 1)]
    BY <1>3, <1>4, <2>6, Zenon
  <2>3. (m - 1) + (n - m) = n - 1
    BY <1>1, <1>2
  <2>4. \A j \in 1 .. n - 1 : t[j] = IF j <= m - 1 THEN p[j] ELSE q[j - (m - 1)]
    BY <2>2, <2>3
  <2> QED BY <1>1, <1>2, <2>1, <2>3, <2>4
<1>7. \A j \in 1 .. m - 1 : t[j] = c[j]
  BY <1>3, <1>6
<1>8. ASSUME NEW j \in m .. n - 1 PROVE t[j] = c[j + 1]
  <2>1. j - (m - 1) \in 1 .. n - m /\ (j - (m - 1)) + m = j + 1
    BY <1>1, <1>2
  <2> QED BY <1>4, <1>6, <2>1
<1>9. ASSUME NEW j \in DOMAIN t, NEW h \in DOMAIN t, j < h PROVE Before(t[j], t[h])
  <2> DEFINE orig(x) == IF x < m THEN x ELSE x + 1
  <2>1. orig(j) \in DOMAIN c /\ orig(h) \in DOMAIN c /\ orig(j) < orig(h)
    BY <1>1, <1>2, <1>6, <1>9
  <2>2. \A x \in 1 .. n - 1 : t[x] = c[orig(x)]
    BY <1>1, <1>2, <1>7, <1>8
  <2> HIDE DEF orig
  <2> QED BY <1>1, <1>6, <2>1, <2>2
<1>10. Chain(t)
  BY <1>6, <1>9 DEF Chain, Ascending
<1> QED BY <1>6, <1>7, <1>8, <1>10 DEF t, n

(* The positions from i on that are watched: all before them are leaves. *)
Seen(c, i) == {j \in i .. Len(c) : \A h \in i .. j - 1 : c[h].leaf}

LEMMA WatchedIs ==
  ASSUME NEW c, Chain(c), NEW i \in 1 .. Len(c) + 1
  PROVE  N!Watched(c, i) = {c[j] : j \in Seen(c, i)}
<1> DEFINE n == Len(c)
           T == {j \in i .. n + 1 : j = n + 1 \/ ~c[j].leaf}
<1>1. n \in Nat /\ DOMAIN c = 1 .. n
  BY ChainIs
<1>2. i \in Nat /\ i >= 1 /\ i <= n + 1
  BY <1>1
<1> HIDE DEF n
<1>3. T \in SUBSET Nat /\ n + 1 \in T
  BY <1>1, <1>2
<1>4. PICK m \in T : \A j \in T : m <= j
  BY <1>3, HasLeast
<1>5. m \in Nat /\ m >= i /\ m <= n + 1 /\ (m <= n => ~c[m].leaf)
  BY <1>1, <1>2, <1>4
<1>6. \A j \in i .. m - 1 : c[j].leaf
  BY <1>1, <1>2, <1>4, <1>5
<1> HIDE DEF T
<1>7. N!LeavesFrom(c, i) = i .. m - 1
  <2>1. ASSUME NEW j \in i .. n, \A h \in i .. j : c[h].leaf PROVE j \in i .. m - 1
    BY <1>1, <1>2, <1>5, <2>1
  <2>2. ASSUME NEW j \in i .. m - 1 PROVE j \in i .. n /\ \A h \in i .. j : c[h].leaf
    BY <1>1, <1>2, <1>5, <1>6
  <2> QED BY <2>1, <2>2 DEF N!LeavesFrom, n
<1>8. N!NextSubtree(c, i) = m
  <2>1. Cardinality(i .. m - 1) = m - i
    BY <1>2, <1>5, FS_Interval
  <2>2. N!NextSubtree(c, i) = i + Cardinality(i .. m - 1)
    BY <1>7, CardIs, Zenon DEF N!NextSubtree
  <2>3. N!NextSubtree(c, i) = i + (m - i)
    BY <2>1, <2>2, Zenon
  <2> QED BY <1>2, <1>5, <2>3
<1>9. N!LeavesFrom(c, i) \cup ({m} \cap DOMAIN c) = Seen(c, i)
  <2>1. ASSUME NEW j \in i .. n, \A h \in i .. j - 1 : c[h].leaf
        PROVE  j \in i .. m - 1 \/ (j = m /\ j \in DOMAIN c)
    <3>1. j <= m
      BY <1>1, <1>2, <1>5, <2>1
    <3> QED BY <1>1, <1>2, <1>5, <3>1
  <2>2. ASSUME NEW j, j \in i .. m - 1 \/ (j = m /\ j \in DOMAIN c)
        PROVE  j \in i .. n /\ \A h \in i .. j - 1 : c[h].leaf
    BY <1>1, <1>2, <1>5, <1>6, <2>2
  <2> QED BY <1>7, <2>1, <2>2 DEF Seen, n
<1> QED BY <1>8, <1>9 DEF N!Watched

(* Between two executions subscribed is what is watched. *)
Watches(c) == {c[1]} \cup N!Watched(c, 2)

LEMMA WatchedFinite ==
  ASSUME NEW c, Chain(c), NEW i \in 1 .. Len(c) + 1
  PROVE  IsFiniteSet(N!Watched(c, i))
<1> DEFINE S == Seen(c, i)
           f == [j \in S |-> c[j]]
           T == {c[j] : j \in S}
<1>1. Len(c) \in Nat /\ i \in Nat
  BY ChainIs
<1>2. IsFiniteSet(i .. Len(c))
  BY <1>1, FS_Interval
<1>3. IsFiniteSet(S)
  BY <1>2, FS_Subset DEF Seen
<1> HIDE DEF S
<1>4. f \in Surjection(S, T)
  BY DEF Surjection
<1>5. IsFiniteSet(T)
  BY <1>3, <1>4, FS_Surjection
<1> QED BY <1>5, WatchedIs DEF S

Ready(c) == Chain(c) /\ c # <<>> /\ ~c[1].leaf

LEMMA WatchesIs ==
  ASSUME NEW c, Ready(c)
  PROVE  /\ Len(c) \in Nat /\ Len(c) >= 1 /\ DOMAIN c = 1 .. Len(c) /\ 2 \in 1 .. Len(c) + 1
         /\ IsFiniteSet(Watches(c)) /\ c[1] \notin N!Watched(c, 2)
         /\ Watches(c) = {c[j] : j \in {1} \cup Seen(c, 2)} /\ Seen(c, 2) \subseteq 2 .. Len(c)
<1>1. Len(c) \in Nat /\ Len(c) >= 1 /\ DOMAIN c = 1 .. Len(c) /\ 2 \in 1 .. Len(c) + 1
  <2>1. c \in Seq(Lit) /\ c # <<>>
    BY DEF Ready, Chain
  <2> QED BY <2>1
<1>2. N!Watched(c, 2) = {c[j] : j \in Seen(c, 2)} /\ IsFiniteSet(N!Watched(c, 2))
  BY <1>1, WatchedIs, WatchedFinite DEF Ready
<1>3. IsFiniteSet(Watches(c))
  BY <1>2, FS_AddElement DEF Watches
<1>4. Seen(c, 2) \subseteq 2 .. Len(c)
  BY DEF Seen
<1>5. c[1] \notin N!Watched(c, 2)
  <2>1. \A j \in 2 .. Len(c) : j \in DOMAIN c /\ 1 \in DOMAIN c /\ j # 1
    BY <1>1
  <2> QED BY <1>2, <1>4, <2>1, ChainIs DEF Ready
<1> QED BY <1>1, <1>2, <1>3, <1>4, <1>5 DEF Watches

LEMMA WatchedRest ==
  ASSUME NEW c, Chain(c), c # <<>>
  PROVE  /\ N!Watched(Tail(c), 1) = N!Watched(c, 2)
         /\ c[1] \in N!Watched(c, 1)
         /\ c[1].leaf => N!Watched(c, 1) = {c[1]} \cup N!Watched(c, 2)
         /\ ~c[1].leaf => N!Watched(c, 1) = {c[1]}
         /\ c[1] \notin N!Watched(c, 2)
<1> DEFINE t == Tail(c)
           n == Len(c)
<1>1. /\ Chain(t) /\ n \in Nat /\ n >= 1 /\ Len(t) = n - 1 /\ DOMAIN c = 1 .. n
      /\ \A j \in 1 .. n - 1 : t[j] = c[j + 1]
  BY TailIs, ChainIs
<1> HIDE DEF t, n
<1>2. /\ N!Watched(t, 1) = {t[j] : j \in Seen(t, 1)}
      /\ N!Watched(c, 1) = {c[j] : j \in Seen(c, 1)}
      /\ N!Watched(c, 2) = {c[j] : j \in Seen(c, 2)}
  <2>1. 1 \in 1 .. Len(t) + 1 /\ 1 \in 1 .. Len(c) + 1 /\ 2 \in 1 .. Len(c) + 1
    BY <1>1 DEF n
  <2> QED BY <1>1, <2>1, WatchedIs
<1>3. /\ \A j \in Seen(t, 1) : j \in 1 .. n - 1
      /\ \A j \in Seen(c, 2) : j \in 2 .. n
  BY <1>1 DEF Seen, n
<1>4. \A j \in 1 .. n - 1 : j \in Seen(t, 1) <=> j + 1 \in Seen(c, 2)
  <2> TAKE j \in 1 .. n - 1
  <2>1. (\A h \in 1 .. j - 1 : t[h].leaf) <=> (\A h \in 2 .. j : c[h].leaf)
    <3>1. ASSUME \A h \in 1 .. j - 1 : t[h].leaf, NEW h \in 2 .. j PROVE c[h].leaf
      <4>1. h - 1 \in 1 .. j - 1 /\ h - 1 \in 1 .. n - 1 /\ h - 1 + 1 = h
        BY <1>1
      <4> QED BY <1>1, <3>1, <4>1
    <3>2. ASSUME \A h \in 2 .. j : c[h].leaf, NEW h \in 1 .. j - 1 PROVE t[h].leaf
      <4>1. h + 1 \in 2 .. j /\ h \in 1 .. n - 1
        BY <1>1
      <4> QED BY <1>1, <3>2, <4>1
    <3> QED BY <3>1, <3>2
  <2>2. j + 1 - 1 = j /\ j + 1 \in 2 .. n /\ j \in 1 .. n - 1
    BY <1>1
  <2> QED BY <1>1, <2>1, <2>2 DEF Seen, n
<1>5. N!Watched(t, 1) = N!Watched(c, 2)
  <2>1. ASSUME NEW j \in Seen(t, 1) PROVE t[j] \in N!Watched(c, 2)
    <3>1. j \in 1 .. n - 1 /\ j + 1 \in Seen(c, 2) /\ t[j] = c[j + 1]
      BY <1>1, <1>3, <1>4
    <3> QED BY <1>2, <3>1
  <2>2. ASSUME NEW j \in Seen(c, 2) PROVE c[j] \in N!Watched(t, 1)
    <3>1. j - 1 \in 1 .. n - 1 /\ j - 1 + 1 = j
      BY <1>1, <1>3
    <3>2. j - 1 \in Seen(t, 1) /\ t[j - 1] = c[j]
      BY <1>1, <1>4, <3>1
    <3> QED BY <1>2, <3>2
  <2> QED BY <1>2, <2>1, <2>2
<1>6. 1 \in Seen(c, 1) /\ \A j \in Seen(c, 1) : j \in 1 .. n
  BY <1>1 DEF Seen, n
<1>7. c[1].leaf => \A j \in 2 .. n : j \in Seen(c, 1) <=> j \in Seen(c, 2)
  BY <1>1 DEF Seen, n
<1>8. ~c[1].leaf => \A j \in 2 .. n : j \notin Seen(c, 1)
  BY <1>1 DEF Seen, n
<1>9. Seen(c, 1) = IF c[1].leaf THEN {1} \cup Seen(c, 2) ELSE {1}
  BY <1>1, <1>3, <1>6, <1>7, <1>8
<1>10. c[1].leaf => N!Watched(c, 1) = {c[1]} \cup N!Watched(c, 2)
  BY <1>2, <1>9
<1>11. ~c[1].leaf => N!Watched(c, 1) = {c[1]}
  BY <1>2, <1>9
<1>12. c[1] \notin N!Watched(c, 2)
  <2>1. \A j \in 2 .. n : j \in DOMAIN c /\ 1 \in DOMAIN c /\ j # 1
    BY <1>1
  <2> QED BY <1>2, <1>3, <2>1, ChainIs
<1>13. c[1] \in N!Watched(c, 1)
  BY <1>2, <1>6
<1> QED BY <1>5, <1>10, <1>11, <1>12, <1>13 DEF t

(* k is the position of a literal of a chain c, and all between it and the root are leaves *)
AtLiteral(c, k) == Ready(c) /\ k \in 2 .. Len(c) /\ \A h \in 2 .. k - 1 : c[h].leaf

LEMMA AtLiteralIs ==
  ASSUME NEW c, NEW k, AtLiteral(c, k)
  PROVE  /\ k \in Nat /\ k >= 2 /\ k <= Len(c) /\ Len(c) \in Nat /\ k \in DOMAIN c
         /\ c[k] \in Watches(c)
         /\ ~c[k].leaf => Seen(c, 2) = 2 .. k
         /\ Watches(c) \ {c[k]} = {c[j] : j \in ({1} \cup Seen(c, 2)) \ {k}}
<1>1. /\ Chain(c) /\ Len(c) \in Nat /\ Len(c) >= 1 /\ DOMAIN c = 1 .. Len(c)
      /\ Watches(c) = {c[j] : j \in {1} \cup Seen(c, 2)} /\ Seen(c, 2) \subseteq 2 .. Len(c)
  BY WatchesIs DEF AtLiteral, Ready
<1>2. k \in Nat /\ k >= 2 /\ k <= Len(c) /\ k \in DOMAIN c
  BY <1>1 DEF AtLiteral
<1>3. k \in Seen(c, 2)
  BY DEF AtLiteral, Seen
<1>4. ~c[k].leaf => Seen(c, 2) = 2 .. k
  <2>1. ASSUME ~c[k].leaf, NEW j \in Seen(c, 2) PROVE j \in 2 .. k
    BY <1>1, <1>2, <2>1 DEF Seen
  <2>2. ASSUME NEW j \in 2 .. k PROVE j \in Seen(c, 2)
    BY <1>1, <1>2 DEF AtLiteral, Seen
  <2> QED BY <2>1, <2>2
<1>5. \A j \in {1} \cup Seen(c, 2) : j \in DOMAIN c
  BY <1>1
<1>6. \A j \in {1} \cup Seen(c, 2) : c[j] = c[k] <=> j = k
  BY <1>1, <1>2, <1>5, ChainIs
<1>7. Watches(c) \ {c[k]} = {c[j] : j \in ({1} \cup Seen(c, 2)) \ {k}}
  BY <1>1, <1>6
<1> QED BY <1>1, <1>2, <1>3, <1>4, <1>7

(* a leaf is taken from the chain *)
LEMMA LeafRemoved ==
  ASSUME NEW c, NEW k, AtLiteral(c, k), c[k].leaf
  PROVE  LET t == N!RemoveAt(c, k)
         IN Ready(t) /\ t[1] = c[1] /\ Watches(t) = Watches(c) \ {c[k]}
<1> DEFINE t == N!RemoveAt(c, k)
           n == Len(c)
<1>1. /\ k \in Nat /\ k >= 2 /\ k <= n /\ n \in Nat /\ k \in DOMAIN c
      /\ Watches(c) \ {c[k]} = {c[j] : j \in ({1} \cup Seen(c, 2)) \ {k}}
  BY AtLiteralIs
<1>2. Chain(c) /\ ~c[1].leaf /\ \A h \in 2 .. k : c[h].leaf
  BY <1>1 DEF AtLiteral, Ready
<1>3. /\ Chain(t) /\ Len(t) = n - 1
      /\ \A j \in 1 .. k - 1 : t[j] = c[j]
      /\ \A j \in k .. n - 1 : t[j] = c[j + 1]
  BY <1>1, <1>2, RemoveIs
<1> HIDE DEF t, n
<1>4. t[1] = c[1] /\ t # <<>>
  BY <1>1, <1>3
<1>5. Ready(t)
  BY <1>2, <1>3, <1>4 DEF Ready
<1>6. Watches(t) = {t[j] : j \in {1} \cup Seen(t, 2)} /\ Seen(t, 2) \subseteq 2 .. n - 1
  BY <1>3, <1>5, WatchesIs
<1>61. Seen(c, 2) \subseteq 2 .. n
  BY DEF Seen, n
<1>7. \A j \in 2 .. k - 1 : j \in Seen(c, 2) /\ j \in Seen(t, 2) /\ t[j] = c[j]
  BY <1>1, <1>2, <1>3 DEF Seen, n
<1>8. \A j \in k .. n - 1 : j \in Seen(t, 2) <=> j + 1 \in Seen(c, 2)
  <2> TAKE j \in k .. n - 1
  <2>1. (\A h \in 2 .. j - 1 : t[h].leaf) <=> (\A h \in 2 .. j : c[h].leaf)
    <3>1. ASSUME \A h \in 2 .. j - 1 : t[h].leaf, NEW h \in 2 .. j PROVE c[h].leaf
      <4>1. CASE h <= k
        BY <1>1, <1>2, <4>1
      <4>2. CASE h > k
        <5>1. h - 1 \in 2 .. j - 1 /\ h - 1 \in k .. n - 1 /\ h - 1 + 1 = h
          BY <1>1, <4>2
        <5> QED BY <1>3, <3>1, <5>1
      <4> QED BY <1>1, <4>1, <4>2
    <3>2. ASSUME \A h \in 2 .. j : c[h].leaf, NEW h \in 2 .. j - 1 PROVE t[h].leaf
      <4>1. CASE h < k
        BY <1>1, <1>3, <3>2, <4>1
      <4>2. CASE h >= k
        <5>1. h + 1 \in 2 .. j /\ h \in k .. n - 1
          BY <1>1, <4>2
        <5> QED BY <1>3, <3>2, <5>1
      <4> QED BY <1>1, <4>1, <4>2
    <3> QED BY <3>1, <3>2
  <2>2. j + 1 - 1 = j /\ j + 1 \in 2 .. n /\ j \in 2 .. n - 1
    BY <1>1
  <2> QED BY <1>3, <2>1, <2>2 DEF Seen, n
<1>9. ASSUME NEW j \in {1} \cup Seen(t, 2)
      PROVE  \E h \in ({1} \cup Seen(c, 2)) \ {k} : t[j] = c[h]
  <2>1. CASE j < k
    <3>1. j = 1 \/ j \in 2 .. k - 1
      BY <1>1, <1>6, <1>9, <2>1
    <3>2. j \in ({1} \cup Seen(c, 2)) \ {k} /\ t[j] = c[j]
      BY <1>1, <1>4, <1>7, <3>1
    <3> QED BY <3>2
  <2>2. CASE ~(j < k)
    <3>1. j \in k .. n - 1 /\ j # 1 /\ j + 1 # k
      BY <1>1, <1>6, <1>9, <2>2
    <3>2. j + 1 \in ({1} \cup Seen(c, 2)) \ {k} /\ t[j] = c[j + 1]
      BY <1>3, <1>8, <1>9, <3>1
    <3> QED BY <3>2
  <2> QED BY <2>1, <2>2
<1>10. ASSUME NEW h \in ({1} \cup Seen(c, 2)) \ {k}
       PROVE  \E j \in {1} \cup Seen(t, 2) : t[j] = c[h]
  <2>1. CASE h < k
    <3>1. h = 1 \/ h \in 2 .. k - 1
      BY <1>1, <1>61, <1>10, <2>1
    <3>2. h \in {1} \cup Seen(t, 2) /\ t[h] = c[h]
      BY <1>1, <1>4, <1>7, <3>1
    <3> QED BY <3>2
  <2>2. CASE ~(h < k)
    <3>1. h - 1 \in k .. n - 1 /\ h # 1 /\ h - 1 + 1 = h
      BY <1>1, <1>61, <1>10, <2>2
    <3>2. h - 1 \in {1} \cup Seen(t, 2) /\ t[h - 1] = c[h]
      BY <1>3, <1>8, <1>10, <3>1
    <3> QED BY <3>2
  <2> QED BY <2>1, <2>2
<1>11. Watches(t) = Watches(c) \ {c[k]}
  BY <1>1, <1>6, <1>9, <1>10
<1> QED BY <1>4, <1>5, <1>11 DEF t

(* the next non-leaf is taken from the chain, or the chain is cut before it *)
LEMMA SubtreeRemoved ==
  ASSUME NEW c, NEW k, AtLiteral(c, k), ~c[k].leaf
  PROVE  LET t == N!RemoveAt(c, k)
         IN /\ Ready(t) /\ t[1] = c[1] /\ k \in 1 .. Len(t) + 1 /\ k \in Nat /\ k >= 2
            /\ \A j \in 1 .. k - 1 : t[j] = c[j]
            /\ Watches(t) = (Watches(c) \ {c[k]}) \cup N!Watched(t, k)
            /\ (Watches(c) \ {c[k]}) \cap N!Watched(t, k) = {}
<1> DEFINE t == N!RemoveAt(c, k)
           n == Len(c)
<1>1. /\ k \in Nat /\ k >= 2 /\ k <= n /\ n \in Nat /\ k \in DOMAIN c
      /\ Watches(c) \ {c[k]} = {c[j] : j \in ({1} \cup Seen(c, 2)) \ {k}}
      /\ Seen(c, 2) = 2 .. k
  BY AtLiteralIs
<1>2. Chain(c) /\ ~c[1].leaf /\ \A h \in 2 .. k - 1 : c[h].leaf
  BY <1>1 DEF AtLiteral, Ready
<1>3. /\ Chain(t) /\ Len(t) = n - 1
      /\ \A j \in 1 .. k - 1 : t[j] = c[j]
  BY <1>1, <1>2, RemoveIs
<1> HIDE DEF t, n
<1>4. t[1] = c[1] /\ t # <<>>
  BY <1>1, <1>3
<1>5. Ready(t)
  BY <1>2, <1>3, <1>4 DEF Ready
<1>6. /\ Watches(t) = {t[j] : j \in {1} \cup Seen(t, 2)} /\ Seen(t, 2) \subseteq 2 .. n - 1
      /\ DOMAIN t = 1 .. n - 1
  BY <1>3, <1>5, WatchesIs
<1>7. k \in 1 .. Len(t) + 1
  BY <1>1, <1>3
<1>8. N!Watched(t, k) = {t[j] : j \in Seen(t, k)}
  BY <1>3, <1>7, WatchedIs
<1>9. {1} \cup Seen(t, 2) = (1 .. k - 1) \cup Seen(t, k)
  <2>1. \A h \in 2 .. k - 1 : t[h].leaf
    BY <1>1, <1>2, <1>3
  <2>2. \A j \in 2 .. k - 1 : j \in Seen(t, 2)
    BY <1>1, <1>3, <2>1 DEF Seen
  <2>3. \A j \in k .. n - 1 : j \in Seen(t, 2) <=> j \in Seen(t, k)
    BY <1>1, <1>3, <2>1 DEF Seen
  <2>4. Seen(t, k) \subseteq k .. n - 1
    BY <1>3 DEF Seen
  <2> QED BY <1>1, <1>6, <2>2, <2>3, <2>4
<1>10. ({1} \cup Seen(c, 2)) \ {k} = 1 .. k - 1
  BY <1>1
<1>11. {c[j] : j \in 1 .. k - 1} = {t[j] : j \in 1 .. k - 1}
  BY <1>3
<1> DEFINE P == Watches(c) \ {c[k]}
           A == 1 .. k - 1
           E == Seen(t, k)
<1>14. P = {t[j] : j \in A}
  BY <1>1, <1>10, <1>11, Zenon
<1>15. Watches(t) = {t[j] : j \in A \cup E}
  BY <1>6, <1>9, Zenon
<1>16. \A j \in A : \A h \in E : j \in DOMAIN t /\ h \in DOMAIN t /\ j # h
  BY <1>1, <1>3, <1>6 DEF Seen
<1> HIDE DEF P, A, E
<1>12. Watches(t) = P \cup N!Watched(t, k)
  BY <1>8, <1>14, <1>15 DEF E
<1>13. P \cap N!Watched(t, k) = {}
  <2>1. \A j \in A : \A h \in E : t[j] # t[h]
    BY <1>3, <1>16, ChainIs
  <2>2. N!Watched(t, k) = {t[j] : j \in E}
    BY <1>8 DEF E
  <2> QED BY <1>14, <2>1, <2>2
<1> QED BY <1>1, <1>3, <1>4, <1>5, <1>7, <1>12, <1>13 DEF t, P

LEMMA SubtreeCut ==
  ASSUME NEW c, NEW k, AtLiteral(c, k), ~c[k].leaf
  PROVE  LET t == SubSeq(c, 1, k - 1)
         IN /\ Ready(t) /\ t[1] = c[1] /\ Len(t) = k - 1
            /\ \A j \in 1 .. k - 1 : t[j] = c[j]
            /\ Watches(t) = Watches(c) \ {c[k]}
<1> DEFINE t == SubSeq(c, 1, k - 1)
           n == Len(c)
<1>1. /\ k \in Nat /\ k >= 2 /\ k <= n /\ n \in Nat /\ k \in DOMAIN c
      /\ Watches(c) \ {c[k]} = {c[j] : j \in ({1} \cup Seen(c, 2)) \ {k}}
      /\ Seen(c, 2) = 2 .. k
  BY AtLiteralIs
<1>2. Chain(c) /\ ~c[1].leaf /\ \A h \in 2 .. k - 1 : c[h].leaf
  BY <1>1 DEF AtLiteral, Ready
<1>3. /\ Chain(t) /\ Len(t) = k - 1
      /\ \A j \in 1 .. k - 1 : t[j] = c[j]
  BY <1>1, <1>2, CutChainIs
<1> HIDE DEF t, n
<1>4. t[1] = c[1] /\ t # <<>>
  BY <1>1, <1>3
<1>5. Ready(t)
  BY <1>2, <1>3, <1>4 DEF Ready
<1>6. /\ Watches(t) = {t[j] : j \in {1} \cup Seen(t, 2)} /\ Seen(t, 2) \subseteq 2 .. k - 1
  BY <1>3, <1>5, WatchesIs
<1>7. {1} \cup Seen(t, 2) = 1 .. k - 1
  <2>1. \A h \in 2 .. k - 1 : t[h].leaf
    BY <1>1, <1>2, <1>3
  <2>2. \A j \in 2 .. k - 1 : j \in Seen(t, 2)
    BY <1>1, <1>3, <2>1 DEF Seen
  <2> QED BY <1>1, <1>6, <2>2
<1>8. ({1} \cup Seen(c, 2)) \ {k} = 1 .. k - 1
  BY <1>1
<1>9. {c[j] : j \in 1 .. k - 1} = {t[j] : j \in 1 .. k - 1}
  BY <1>3
<1>10. Watches(t) = Watches(c) \ {c[k]}
  BY <1>1, <1>6, <1>7, <1>8, <1>9
<1> QED BY <1>3, <1>4, <1>5, <1>10 DEF t

(* The subscriptions of the propagator where it is, in a space that is not failed. *)
IdleOK  == Ready(chain) /\ subs = Watches(chain) /\ nsubs = N!Cardinality(subs)
PruneOK == Chain(lits) /\ subs = N!Watched(lits, 1) /\ nsubs = N!Cardinality(subs)
LeafOK  == pos \in 2 .. Len(chain) + 1 /\ \A j \in 2 .. pos - 1 : chain[j].leaf
SubInv ==
  /\ PathOK
  /\ npc \in {"idle", "root", "leaf"} /\ ~ngFailed => IdleOK
  /\ npc = "leaf" /\ ~ngFailed => LeafOK
  /\ npc = "prune" /\ ~ngFailed => PruneOK
  /\ npc \in {"post", "gone"} => subs = {}

(* the path stays, and so what is a chain *)
LEMMA LitStays ==
  ASSUME ngPath' = ngPath
  PROVE  Lit' = Lit
BY DEF Lit, Indexes, N!Literal, N!NonLeaf, N!HasNonLeaf, N!HasLiteral

LEMMA CancelOne ==
  ASSUME NEW S, IsFiniteSet(S), NEW b \in S
  PROVE  N!Cardinality(S \ {b}) = N!Cardinality(S) - N!Cardinality({b})
<1>1. Cardinality({b}) = 1 /\ Cardinality(S \ {b}) = Cardinality(S) - 1
  BY FS_Singleton, FS_RemoveElement
<1> QED BY <1>1, CardIs

LEMMA AddSome ==
  ASSUME NEW S, IsFiniteSet(S), NEW T, IsFiniteSet(T), S \cap T = {}
  PROVE  N!Cardinality(S \cup T) = N!Cardinality(S) + N!Cardinality(T)
<1>1. Cardinality(S \cup T) = Cardinality(S) + Cardinality(T) - Cardinality({})
  BY FS_Union
<1>2. Cardinality({}) = 0 /\ Cardinality(S) \in Nat /\ Cardinality(T) \in Nat
  BY FS_EmptySet, FS_CardinalityType
<1>3. Cardinality(S \cup T) = Cardinality(S) + Cardinality(T)
  BY <1>1, <1>2
<1> QED BY <1>3, CardIs

LEMMA LeafAt ==
  ASSUME IdleOK, LeafOK, pos <= Len(chain)
  PROVE  AtLiteral(chain, pos) /\ IsFiniteSet(subs) /\ chain[pos] \in subs
<1>1. Len(chain) \in Nat /\ IsFiniteSet(subs)
  BY WatchesIs DEF IdleOK
<1>2. pos \in 2 .. Len(chain)
  BY <1>1 DEF LeafOK
<1>3. AtLiteral(chain, pos)
  BY <1>2 DEF AtLiteral, IdleOK, LeafOK
<1> QED BY <1>1, <1>3, AtLiteralIs DEF IdleOK

LEMMA SubInvInit == N!Init => SubInv
BY DEF N!Init, SubInv, PathOK

LEMMA SubInvPost ==
  ASSUME SubInv, N!Post
  PROVE  SubInv'
<1>1. npc = "post" /\ subs = {} /\ ngPath' = ngPath /\ PathOK
  BY DEF SubInv, N!Post
<1>2. CASE npc' = "gone" /\ subs' = subs
  BY <1>1, <1>2 DEF SubInv, PathOK
<1>3. CASE ~(npc' = "gone" /\ subs' = subs)
  <2>1. /\ npc' = "idle" /\ chain' = N!Built /\ N!Built # <<>>
        /\ subs' = Watches(N!Built) /\ nsubs' = N!Cardinality(subs')
        /\ N!FirstUncommitted <= N!Entries
        /\ ~(N!Middle /\ ~ngPath[N!FirstUncommitted].supported)
    <3>1. /\ npc' = "idle" /\ chain' = N!Built
          /\ subs' = {N!Built[1]} \cup N!Watched(N!Built, 2) /\ nsubs' = N!Cardinality(subs')
          /\ ~(\/ ngFailed' \/ N!FirstUncommitted > N!Entries
               \/ (N!Middle /\ ~ngPath[N!FirstUncommitted].supported) \/ N!Built = <<>>)
      BY <1>3, Zenon DEF N!Post
    <3>2. N!FirstUncommitted \in Nat /\ N!Entries \in Nat
      BY <1>1, FirstUncommittedIs, EntriesIs
    <3> QED BY <3>1, <3>2 DEF Watches
  <2>2. Ready(N!Built)
    BY <1>1, <2>1, BuiltChain DEF Posting, Ready
  <2>3. IdleOK'
    BY <1>1, <2>1, <2>2, LitStays DEF IdleOK, Ready, Chain
  <2> QED BY <1>1, <2>1, <2>3 DEF SubInv, PathOK
<1> QED BY <1>2, <1>3

LEMMA SubInvNext ==
  ASSUME SubInv, N!Next
  PROVE  SubInv'
<1>1. PathOK
  BY DEF SubInv
<1>2. CASE N!Others
  <2>1. UNCHANGED <<ngPath, ngFailed, chain, subs, nsubs, npc>> /\ npc \in {"idle", "gone"} /\ ~ngFailed
    BY <1>2 DEF N!Others
  <2> QED BY <2>1, LitStays DEF SubInv, PathOK, IdleOK, Ready, Chain
<1>3. CASE N!Post
  BY <1>3, SubInvPost
<1>4. CASE N!CallPropagate \/ N!RootNone \/ N!Finished
  <2>1. /\ ~ngFailed /\ npc \in {"idle", "root", "leaf"} /\ npc' \in {"idle", "root", "leaf"}
        /\ UNCHANGED <<ngPath, ngFailed, chain, subs, nsubs>>
        /\ npc' = "leaf" => pos' = 2
    BY <1>4 DEF N!CallPropagate, N!RootNone, N!Finished, N!At, N!kept
  <2>2. IdleOK /\ IdleOK'
    BY <2>1, LitStays DEF SubInv, IdleOK, Ready, Chain
  <2>3. npc' = "leaf" => LeafOK'
    BY <2>1, <2>2, WatchesIs DEF LeafOK, IdleOK
  <2> QED BY <1>1, <2>1, <2>2, <2>3 DEF SubInv, PathOK
<1>5. CASE N!RootFailed
  <2>1. /\ ~ngFailed /\ npc = "root" /\ npc' = "gone" /\ ngPath' = ngPath
        /\ subs' = IF chain = <<>> THEN subs ELSE subs \ Watches(chain)
    BY <1>5 DEF N!RootFailed, N!At, N!Subsumed, N!kept, Watches
  <2>2. IdleOK
    BY <2>1 DEF SubInv
  <2>3. subs' = {}
    BY <2>1, <2>2 DEF IdleOK, Ready
  <2> QED BY <1>1, <2>1, <2>3 DEF SubInv, PathOK
<1>6. CASE N!RootSubsumed
  <2>1. /\ ~ngFailed /\ npc = "root" /\ npc' = "prune" /\ ngPath' = ngPath
        /\ lits' = Tail(chain) /\ subs' = subs \ {chain[1]}
        /\ nsubs' = nsubs - N!Cardinality({chain[1]})
    BY <1>6 DEF N!RootSubsumed, N!At, N!Cancel, N!kept
  <2>2. Ready(chain) /\ subs = Watches(chain) /\ nsubs = N!Cardinality(subs)
    BY <2>1 DEF SubInv, IdleOK
  <2>3. Chain(Tail(chain)) /\ N!Watched(Tail(chain), 1) = N!Watched(chain, 2)
    BY <2>2, TailIs, WatchedRest DEF Ready
  <2>4. IsFiniteSet(subs) /\ chain[1] \notin N!Watched(chain, 2)
    BY <2>2, WatchesIs
  <2>5. subs \ {chain[1]} = N!Watched(chain, 2) /\ chain[1] \in subs
    BY <2>2, <2>4 DEF Watches
  <2>6. nsubs' = N!Cardinality(subs')
    BY <2>1, <2>2, <2>4, <2>5, CancelOne
  <2>7. PruneOK'
    BY <2>1, <2>3, <2>5, <2>6, LitStays DEF PruneOK, Ready, Chain
  <2> QED BY <1>1, <2>1, <2>7 DEF SubInv, PathOK
<1>7. CASE N!PruneLeaf
  <2>1. /\ ~ngFailed /\ npc = "prune" /\ npc' = "prune" /\ ngPath' = ngPath /\ lits # <<>> /\ lits[1].leaf
        /\ ~ngFailed' => lits' = Tail(lits)
        /\ subs' = subs \ {lits[1]} /\ nsubs' = nsubs - N!Cardinality({lits[1]})
    BY <1>7 DEF N!PruneLeaf, N!At, N!Cancel, N!kept
  <2>2. Chain(lits) /\ subs = N!Watched(lits, 1) /\ nsubs = N!Cardinality(subs)
    BY <2>1 DEF SubInv, PruneOK
  <2>3. /\ Chain(Tail(lits)) /\ N!Watched(Tail(lits), 1) = N!Watched(lits, 2)
        /\ subs = {lits[1]} \cup N!Watched(lits, 2) /\ lits[1] \notin N!Watched(lits, 2)
    BY <2>1, <2>2, TailIs, WatchedRest
  <2>4. IsFiniteSet(subs)
    <3>1. 1 \in 1 .. Len(lits) + 1
      BY <2>2, ChainIs
    <3> QED BY <2>2, <3>1, WatchedFinite
  <2>5. subs' = N!Watched(lits, 2) /\ nsubs' = N!Cardinality(subs')
    BY <2>1, <2>2, <2>3, <2>4, CancelOne
  <2>6. ~ngFailed' => PruneOK'
    BY <2>1, <2>3, <2>5, LitStays DEF PruneOK, Ready, Chain
  <2> QED BY <1>1, <2>1, <2>6 DEF SubInv, PathOK
<1>8. CASE N!NothingLeft
  <2>1. /\ ~ngFailed /\ npc = "prune" /\ npc' = "gone" /\ ngPath' = ngPath /\ lits = <<>> /\ subs' = subs
    BY <1>8 DEF N!NothingLeft, N!At, N!Subsumed, N!kept
  <2>2. Chain(lits) /\ subs = N!Watched(lits, 1)
    BY <2>1 DEF SubInv, PruneOK
  <2>3. Len(lits) = 0 /\ 1 \in 1 .. Len(lits) + 1
    BY <2>1
  <2>4. Seen(lits, 1) = {}
    BY <2>3 DEF Seen
  <2>5. subs' = {}
    BY <2>1, <2>2, <2>3, <2>4, WatchedIs
  <2> QED BY <1>1, <2>1, <2>5 DEF SubInv, PathOK
<1>9. CASE N!NewRoot
  <2>1. /\ ~ngFailed /\ npc = "prune" /\ npc' = "root" /\ ngPath' = ngPath /\ lits # <<>> /\ ~lits[1].leaf
        /\ chain' = lits /\ subs' = subs \cup N!Watched(lits, 2)
        /\ nsubs' = nsubs + N!Cardinality(N!Watched(lits, 2)) /\ ngFailed' = ngFailed
    BY <1>9 DEF N!NewRoot, N!At, N!kept
  <2>2. Chain(lits) /\ subs = N!Watched(lits, 1) /\ nsubs = N!Cardinality(subs)
    BY <2>1 DEF SubInv, PruneOK
  <2>3. subs = {lits[1]} /\ lits[1] \notin N!Watched(lits, 2) /\ Ready(lits)
    BY <2>1, <2>2, WatchedRest DEF Ready
  <2>4. IsFiniteSet(subs) /\ IsFiniteSet(N!Watched(lits, 2))
    BY <2>2, <2>3, FS_Singleton, WatchesIs, WatchedFinite
  <2>5. nsubs' = N!Cardinality(subs')
    BY <2>1, <2>2, <2>3, <2>4, AddSome
  <2>6. IdleOK'
    BY <2>1, <2>3, <2>5, LitStays DEF IdleOK, Watches, Ready, Chain
  <2> QED BY <1>1, <2>1, <2>6 DEF SubInv, PathOK
<1>10. CASE N!LeafSubsumed
  <2>1. /\ ~ngFailed /\ npc = "leaf" /\ ngPath' = ngPath /\ npc' \in {"leaf", "gone"}
        /\ ~ngFailed' => npc' = "gone" /\ subs' = IF chain = <<>> THEN subs ELSE subs \ Watches(chain)
        /\ ngFailed' => npc' = "leaf"
    BY <1>10 DEF N!LeafSubsumed, N!Leaf, N!At, N!Subsumed, N!kept, Watches
  <2>2. IdleOK
    BY <2>1 DEF SubInv
  <2>3. ~ngFailed' => npc' = "gone" /\ subs' = {}
    BY <2>1, <2>2 DEF IdleOK, Ready
  <2> QED BY <1>1, <2>1, <2>3 DEF SubInv, PathOK
<1>11. CASE N!LeafFailed
  <2>1. /\ ~ngFailed /\ npc = "leaf" /\ npc' = "leaf" /\ ngPath' = ngPath /\ pos' = pos
        /\ pos <= Len(chain) /\ chain[pos].leaf
        /\ chain' = N!RemoveAt(chain, pos)
        /\ subs' = subs \ {chain[pos]} /\ nsubs' = nsubs - N!Cardinality({chain[pos]})
    BY <1>11 DEF N!LeafFailed, N!Leaf, N!At, N!Cancel, N!kept
  <2>2. IdleOK /\ LeafOK
    BY <2>1 DEF SubInv
  <2>3. AtLiteral(chain, pos) /\ IsFiniteSet(subs) /\ chain[pos] \in subs
    BY <2>1, <2>2, LeafAt
  <2>4. /\ Ready(N!RemoveAt(chain, pos))
        /\ Watches(N!RemoveAt(chain, pos)) = Watches(chain) \ {chain[pos]}
    BY <2>1, <2>3, LeafRemoved
  <2>5. nsubs' = N!Cardinality(subs')
    BY <2>1, <2>2, <2>3, CancelOne DEF IdleOK
  <2>6. IdleOK'
    BY <2>1, <2>2, <2>4, <2>5, LitStays DEF IdleOK, Ready, Chain
  <2>7. LeafOK'
    <3>1. pos \in DOMAIN chain /\ pos \in Nat /\ pos >= 2 /\ pos <= Len(chain) /\ Len(chain) \in Nat
      BY <2>3, AtLiteralIs
    <3>2. /\ Len(chain') = Len(chain) - 1
          /\ \A j \in 1 .. pos - 1 : chain'[j] = chain[j]
      BY <2>1, <2>2, <3>1, RemoveIs DEF IdleOK, Ready
    <3> QED BY <2>1, <2>2, <3>1, <3>2 DEF LeafOK
  <2> QED BY <1>1, <2>1, <2>6, <2>7 DEF SubInv, PathOK
<1>12. CASE N!LeafNone
  <2>1. /\ ~ngFailed /\ npc = "leaf" /\ npc' = "leaf" /\ ngPath' = ngPath /\ pos' = pos + 1
        /\ pos <= Len(chain) /\ chain[pos].leaf
        /\ UNCHANGED <<chain, subs, nsubs>>
    BY <1>12 DEF N!LeafNone, N!Leaf, N!At, N!kept
  <2>2. IdleOK /\ LeafOK
    BY <2>1 DEF SubInv
  <2>3. LeafOK'
    BY <2>1, <2>2, WatchesIs DEF LeafOK, IdleOK
  <2> QED BY <1>1, <2>1, <2>2, <2>3, LitStays DEF SubInv, PathOK, IdleOK, Ready, Chain
<1>13. CASE N!SubtreeFailed
  <2>1. /\ ~ngFailed /\ npc = "leaf" /\ npc' = "idle" /\ ngPath' = ngPath
        /\ pos <= Len(chain) /\ ~chain[pos].leaf
        /\ chain' = SubSeq(chain, 1, pos - 1)
        /\ subs' = subs \ {chain[pos]} /\ nsubs' = nsubs - N!Cardinality({chain[pos]})
    BY <1>13 DEF N!SubtreeFailed, N!Subtree, N!At, N!Cancel, N!kept
  <2>2. IdleOK /\ LeafOK
    BY <2>1 DEF SubInv
  <2>3. AtLiteral(chain, pos) /\ IsFiniteSet(subs) /\ chain[pos] \in subs
    BY <2>1, <2>2, LeafAt
  <2>4. Ready(chain') /\ Watches(chain') = Watches(chain) \ {chain[pos]}
    BY <2>1, <2>3, SubtreeCut
  <2>5. nsubs' = N!Cardinality(subs')
    BY <2>1, <2>2, <2>3, CancelOne DEF IdleOK
  <2>6. IdleOK'
    BY <2>1, <2>2, <2>4, <2>5, LitStays DEF IdleOK, Watches, Ready, Chain
  <2> QED BY <1>1, <2>1, <2>6 DEF SubInv, PathOK
<1>14. CASE N!SubtreeSubsumed
  <2> DEFINE t == N!RemoveAt(chain, pos)
             new == N!Watched(t, pos)
  <2>1. /\ ~ngFailed /\ npc = "leaf" /\ npc' = "idle" /\ ngPath' = ngPath
        /\ pos <= Len(chain) /\ ~chain[pos].leaf
        /\ chain' = t
        /\ subs' = (subs \ {chain[pos]}) \cup new /\ nsubs' = nsubs - 1 + N!Cardinality(new)
    BY <1>14 DEF N!SubtreeSubsumed, N!Subtree, N!At, N!kept
  <2>2. IdleOK /\ LeafOK
    BY <2>1 DEF SubInv
  <2>3. AtLiteral(chain, pos) /\ IsFiniteSet(subs) /\ chain[pos] \in subs
    BY <2>1, <2>2, LeafAt
  <2>4. /\ Ready(t) /\ Watches(t) = (Watches(chain) \ {chain[pos]}) \cup new
        /\ pos \in 1 .. Len(t) + 1
        /\ (Watches(chain) \ {chain[pos]}) \cap new = {}
    BY <2>1, <2>3, SubtreeRemoved
  <2>5. IsFiniteSet(new) /\ IsFiniteSet(subs \ {chain[pos]})
    BY <2>3, <2>4, WatchedFinite, FS_RemoveElement DEF Ready
  <2>6. nsubs' = N!Cardinality(subs')
    <3>1. N!Cardinality(subs \ {chain[pos]}) = nsubs - 1
      BY <2>2, <2>3, CancelOne, CardIs, FS_Singleton DEF IdleOK
    <3>2. (subs \ {chain[pos]}) \cap new = {}
      BY <2>2, <2>4 DEF IdleOK
    <3>3. N!Cardinality(subs') = N!Cardinality(subs \ {chain[pos]}) + N!Cardinality(new)
      BY <2>1, <2>5, <3>2, AddSome
    <3> QED BY <2>1, <3>1, <3>3
  <2>7. IdleOK'
    BY <2>1, <2>2, <2>4, <2>6, Zenon, LitStays DEF IdleOK, Watches, Ready, Chain
  <2> QED BY <1>1, <2>1, <2>7 DEF SubInv, PathOK
<1>15. CASE N!DeleteSpace
  <2>1. npc' = "deleted" /\ ngPath' = ngPath
    BY <1>15 DEF N!DeleteSpace, N!kept
  <2> QED BY <1>1, <2>1 DEF SubInv, PathOK
<1> QED BY <1>2, <1>3, <1>4, <1>5, <1>6, <1>7, <1>8, <1>9, <1>10, <1>11, <1>12, <1>13, <1>14, <1>15
        DEF N!Next

(* The propagator is subscribed to what it watches and counts the subscriptions. *)
THEOREM ExactSubscriptions == N!Spec => []N!SubscriptionsExact
<1>1. SubInv /\ [N!Next]_(N!vars) => SubInv'
  <2>1. SubInv /\ UNCHANGED N!vars => SubInv'
    BY LitStays DEF SubInv, N!vars, N!space, PathOK, IdleOK, PruneOK, LeafOK, Ready, Chain
  <2> QED BY <2>1, SubInvNext
<1>2. SubInv => N!SubscriptionsExact
  BY DEF SubInv, N!SubscriptionsExact, IdleOK, Watches
<1> QED BY SubInvInit, <1>1, <1>2, PTL DEF N!Spec

-----------------------------------------------------------------------------
(* What has been explored. *)

LEMMA SolutionIs ==
  ASSUME NEW s \in NSolution
  PROVE  \A x \in NVar : s[x] \in NVal /\ s[x] \in Int
BY PathAssumption DEF N!PathAssumption

LEMMA LiteralMeans ==
  ASSUME PathOK, NEW i \in Indexes, NEW a \in Nat, a < Len(ngPath[i].vals), NEW f \in BOOLEAN, NEW w
  PROVE  N!Allows(N!Literal(i, a, f), w) <=> N!Alternative(ngPath[i], a, w)
<1> DEFINE e == ngPath[i]
           b == N!Literal(i, a, f)
<1>1. b.lq = e.lq /\ b.v = e.vals[a + 1] /\ e.lq \in BOOLEAN
  BY LiteralIs, EdgeIs DEF N!Edge
<1>2. /\ e.lq => N!Binary(e) 
      /\ Len(e.vals) \in Nat /\ Len(e.vals) >= 1
  <2>1. e.lq => N!Binary(e)
    BY PathAssumption DEF N!PathAssumption, PathOK, Indexes
  <2> QED BY <2>1, EdgeIs, AltIs
<1>3. N!Binary(e) => a = 0
  BY <1>2 DEF N!Binary
<1> HIDE DEF e, b
<1>4. CASE N!Binary(e)
  <2>1. a = 0 /\ a + 1 = 1
    BY <1>3, <1>4
  <2> QED BY <1>1, <1>4, <2>1 DEF N!Allows, N!Alternative, e, b
<1>5. CASE ~N!Binary(e)
  <2>1. e.lq = FALSE
    BY <1>1, <1>2, <1>5
  <2> QED BY <1>1, <1>5, <2>1 DEF N!Allows, N!Alternative, e, b
<1> QED BY <1>4, <1>5

(* a literal in a chain *)
LEMMA LitMeans ==
  ASSUME PathOK, NEW b \in Lit
  PROVE  /\ b.at[1] \in Indexes /\ b.at[1] \in Nat /\ b.x = ngPath[b.at[1]].x /\ b.x \in NVar
         /\ b.leaf \in BOOLEAN
         /\ b.leaf => b.at[2] \in 0 .. N!TrueAlt(ngPath[b.at[1]]) - 1 /\ b = N!Literal(b.at[1], b.at[2], TRUE)
         /\ ~b.leaf => /\ b = N!NonLeaf(b.at[1]) /\ N!HasNonLeaf(b.at[1])
                       /\ b.at[2] = N!TrueAlt(ngPath[b.at[1]])
         /\ \A w : N!Allows(b, w) <=> N!Alternative(ngPath[b.at[1]], b.at[2], w)
<1> DEFINE i == b.at[1]
           a == b.at[2]
<1>1. /\ i \in Indexes /\ i \in Nat /\ a \in Nat /\ b.x \in NVar /\ b.leaf \in BOOLEAN
      /\ b = N!Literal(i, a, b.leaf)
  BY DEF Lit, LitType
<1>2. /\ N!TrueAlt(ngPath[i]) \in Nat /\ N!TrueAlt(ngPath[i]) <= Len(ngPath[i].vals)
      /\ Len(ngPath[i].vals) \in Nat
      /\ N!HasNonLeaf(i) => N!TrueAlt(ngPath[i]) < Len(ngPath[i].vals)
  BY <1>1, EdgeIs, AltIs DEF N!HasNonLeaf, N!HasLiteral
<1>3. /\ b.leaf => a < N!TrueAlt(ngPath[i])
      /\ ~b.leaf => b = N!NonLeaf(i) /\ N!HasNonLeaf(i)
  BY DEF Lit
<1>4. ~b.leaf => a = N!TrueAlt(ngPath[i])
  <2>1. N!NonLeaf(i).at = <<i, N!TrueAlt(ngPath[i])>>
    BY DEF N!NonLeaf, N!Literal
  <2>2. <<i, N!TrueAlt(ngPath[i])>>[2] = N!TrueAlt(ngPath[i])
    OBVIOUS
  <2> QED BY <1>3, <2>1, <2>2
<1>5. b.x = ngPath[i].x
  BY <1>1 DEF N!Literal
<1> HIDE DEF i, a
<1>6. a < Len(ngPath[i].vals)
  BY <1>1, <1>2, <1>3, <1>4
<1>7. \A w : N!Allows(b, w) <=> N!Alternative(ngPath[i], a, w)
  BY <1>1, <1>6, LiteralMeans
<1>8. b.leaf => a \in 0 .. N!TrueAlt(ngPath[i]) - 1 /\ b = N!Literal(i, a, TRUE)
  BY <1>1, <1>2, <1>3
<1> QED BY <1>1, <1>3, <1>4, <1>5, <1>7, <1>8 DEF i, a

(* A solution that has not been explored satisfies what was taken up to i if it can
   only differ from that where all alternatives are in the past. *)
LEMMA TakenBefore ==
  ASSUME PathOK, NEW s \in NSolution, ~N!Explored(s), NEW i \in Nat, i <= Len(ngPath) + 1,
         \A j \in Indexes : j < i => N!Rightmost(ngPath[j]) \/ N!Taken(ngPath[j], s)
  PROVE  \A j \in 1 .. i - 1 : j \in Indexes /\ N!Taken(ngPath[j], s)
<1> DEFINE S == {j \in Indexes : j < i /\ ~N!Taken(ngPath[j], s)}
<1>1. Len(ngPath) \in Nat /\ Indexes = 1 .. Len(ngPath) /\ S \in SUBSET Nat
  <2>1. Len(ngPath) \in Nat /\ Indexes = 1 .. Len(ngPath)
    BY PathAssumption DEF PathOK, N!PathAssumption, Indexes
  <2> QED BY <2>1
<1> SUFFICES ASSUME S # {} PROVE FALSE
  BY <1>1
<1>2. PICK j \in S : \A h \in S : j <= h
  BY <1>1, HasLeast
<1>3. j \in Indexes /\ j \in Nat /\ ~N!Taken(ngPath[j], s) /\ N!Rightmost(ngPath[j])
  BY <1>1
<1>4. \A h \in 1 .. j - 1 : N!Taken(ngPath[h], s)
  BY <1>1, <1>2, <1>3
<1>5. PICK a \in 0 .. N!Alternatives(ngPath[j]) - 1 : N!Alternative(ngPath[j], a, s[ngPath[j].x])
  BY <1>3, <1>4, PathAssumption DEF N!PathAssumption, PathOK, Indexes
<1>6. a # N!TrueAlt(ngPath[j])
  BY <1>3, <1>5 DEF N!Taken
<1>7. /\ N!Alternatives(ngPath[j]) \in Nat
      /\ N!TrueAlt(ngPath[j]) = N!Alternatives(ngPath[j]) - 1
  BY <1>3, EdgeIs, AltIs
<1>8. a \in 0 .. N!TrueAlt(ngPath[j]) - 1
  BY <1>6, <1>7
<1> QED BY <1>3, <1>4, <1>5, <1>8 DEF N!Explored, Indexes

LEMMA NotTwice ==
  ASSUME PathOK, NEW s \in NSolution, ~N!Explored(s), NEW i \in Indexes,
         \A j \in Indexes : j < i => N!Rightmost(ngPath[j]) \/ N!Taken(ngPath[j], s),
         NEW a \in 0 .. N!TrueAlt(ngPath[i]) - 1
  PROVE  ~N!Alternative(ngPath[i], a, s[ngPath[i].x])
<1>1. i \in Nat /\ i <= Len(ngPath) + 1
  BY EdgeIs
<1>2. \A j \in 1 .. i - 1 : N!Taken(ngPath[j], s)
  BY <1>1, TakenBefore
<1> QED BY <1>2 DEF N!Explored, Indexes

(* Before each leaf of c the alternatives that were taken are in c, or s satisfies them. *)
Why(c, s) ==
  \A j \in DOMAIN c : c[j].leaf =>
    \A h \in Indexes : h < c[j].at[1] =>
      N!Rightmost(ngPath[h]) \/ (\E m \in DOMAIN c : c[m] = N!NonLeaf(h)) \/ N!Taken(ngPath[h], s)
Fell(b, s) == \A h \in Indexes : b = N!NonLeaf(h) => N!Taken(ngPath[h], s)

LEMMA NonLeafAt == \A h : N!NonLeaf(h).at[1] = h /\ N!NonLeaf(h).leaf = FALSE
<1>1. \A h : <<h, N!TrueAlt(ngPath[h])>>[1] = h
  OBVIOUS
<1> QED BY <1>1 DEF N!NonLeaf, N!Literal

LEMMA WhyTail ==
  ASSUME NEW c, Chain(c), c # <<>>, NEW s, Why(c, s), Fell(c[1], s)
  PROVE  Why(Tail(c), s)
<1> DEFINE t == Tail(c)
           n == Len(c)
<1>1. /\ Chain(t) /\ n \in Nat /\ n >= 1 /\ Len(t) = n - 1 /\ DOMAIN c = 1 .. n
      /\ \A j \in 1 .. n - 1 : t[j] = c[j + 1]
  BY TailIs, ChainIs
<1>2. DOMAIN t = 1 .. n - 1
  BY <1>1, ChainIs
<1> HIDE DEF t, n
<1>3. \A j \in DOMAIN t : j + 1 \in DOMAIN c /\ t[j] = c[j + 1]
  BY <1>1, <1>2
<1>4. \A m \in DOMAIN c : m = 1 \/ (m - 1 \in DOMAIN t /\ t[m - 1] = c[m])
  BY <1>1, <1>2
<1>5. ASSUME NEW j \in DOMAIN t, t[j].leaf, NEW h \in Indexes, h < t[j].at[1]
      PROVE  N!Rightmost(ngPath[h]) \/ (\E m \in DOMAIN t : t[m] = N!NonLeaf(h)) \/ N!Taken(ngPath[h], s)
  <2>1. N!Rightmost(ngPath[h]) \/ (\E m \in DOMAIN c : c[m] = N!NonLeaf(h)) \/ N!Taken(ngPath[h], s)
    BY <1>3, <1>5 DEF Why
  <2> QED BY <1>4, <2>1 DEF Fell
<1> QED BY <1>5 DEF Why, t

LEMMA WhyRemove ==
  ASSUME NEW c, Chain(c), NEW k \in DOMAIN c, NEW s, Why(c, s), Fell(c[k], s)
  PROVE  Why(N!RemoveAt(c, k), s)
<1> DEFINE t == N!RemoveAt(c, k)
           n == Len(c)
<1>1. /\ Chain(t) /\ Len(t) = n - 1 /\ n \in Nat /\ DOMAIN c = 1 .. n
      /\ \A j \in 1 .. k - 1 : t[j] = c[j]
      /\ \A j \in k .. n - 1 : t[j] = c[j + 1]
  BY RemoveIs, ChainIs
<1>2. DOMAIN t = 1 .. n - 1
  BY <1>1, ChainIs
<1> HIDE DEF t, n
<1>3. \A j \in DOMAIN t : \E i \in DOMAIN c : t[j] = c[i]
  <2> TAKE j \in DOMAIN t
  <2>1. CASE j < k
    BY <1>1, <1>2, <2>1
  <2>2. CASE ~(j < k)
    <3>1. j + 1 \in DOMAIN c /\ t[j] = c[j + 1]
      BY <1>1, <1>2, <2>2
    <3> QED BY <3>1
  <2> QED BY <2>1, <2>2
<1>4. \A m \in DOMAIN c : m = k \/ \E j \in DOMAIN t : t[j] = c[m]
  <2> TAKE m \in DOMAIN c
  <2>1. CASE m < k
    BY <1>1, <1>2, <2>1
  <2>2. CASE m > k
    <3>1. m - 1 \in DOMAIN t /\ t[m - 1] = c[m]
      BY <1>1, <1>2, <2>2
    <3> QED BY <3>1
  <2> QED BY <1>1, <2>1, <2>2
<1>5. ASSUME NEW j \in DOMAIN t, t[j].leaf, NEW h \in Indexes, h < t[j].at[1]
      PROVE  N!Rightmost(ngPath[h]) \/ (\E m \in DOMAIN t : t[m] = N!NonLeaf(h)) \/ N!Taken(ngPath[h], s)
  <2>1. N!Rightmost(ngPath[h]) \/ (\E m \in DOMAIN c : c[m] = N!NonLeaf(h)) \/ N!Taken(ngPath[h], s)
    BY <1>3, <1>5 DEF Why
  <2> QED BY <1>4, <2>1 DEF Fell
<1> QED BY <1>5 DEF Why, t

(* what is before a leaf is kept when the chain is cut after the leaf *)
LEMMA WhyCut ==
  ASSUME PathOK, NEW c, Chain(c), NEW m \in 0 .. Len(c), NEW s, Why(c, s)
  PROVE  Why(SubSeq(c, 1, m), s)
<1> DEFINE t == SubSeq(c, 1, m)
           n == Len(c)
<1>1. /\ Chain(t) /\ Len(t) = m /\ n \in Nat /\ DOMAIN c = 1 .. n /\ m \in Nat /\ m <= n
      /\ \A j \in 1 .. m : t[j] = c[j]
  BY CutChainIs, ChainIs
<1>2. DOMAIN t = 1 .. m
  BY <1>1, ChainIs
<1> HIDE DEF t, n
<1>5. ASSUME NEW j \in DOMAIN t, t[j].leaf, NEW h \in Indexes, h < t[j].at[1]
      PROVE  N!Rightmost(ngPath[h]) \/ (\E i \in DOMAIN t : t[i] = N!NonLeaf(h)) \/ N!Taken(ngPath[h], s)
  <2>1. j \in DOMAIN c /\ t[j] = c[j]
    BY <1>1, <1>2
  <2>2. N!Rightmost(ngPath[h]) \/ (\E i \in DOMAIN c : c[i] = N!NonLeaf(h)) \/ N!Taken(ngPath[h], s)
    BY <1>5, <2>1 DEF Why
  <2>3. ASSUME NEW i \in DOMAIN c, c[i] = N!NonLeaf(h) PROVE i \in DOMAIN t /\ t[i] = N!NonLeaf(h)
    <3>1. c[i].at[1] = h
      BY <2>3, NonLeafAt
    <3>2. Before(c[i], c[j])
      BY <1>5, <2>1, <3>1 DEF Before
    <3>3. ~(j < i)
      BY <2>1, <3>2, ChainIs, BeforeIs
    <3> QED BY <1>1, <1>2, <2>1, <2>3, <3>3
  <2> QED BY <2>2, <2>3
<1> QED BY <1>5 DEF Why, t

Cur == IF npc = "prune" THEN lits ELSE chain
InSpace(d, s) == \A x \in NVar : s[x] \in d[x]
Open(s) == InSpace(given, s) /\ ~N!Explored(s)
Kept(s) ==
  /\ ~ngFailed /\ InSpace(dom, s)
  /\ npc \in {"idle", "root", "leaf", "prune"} => Why(Cur, s)
Domains == dom \in [NVar -> SUBSET NVal] /\ given \in [NVar -> SUBSET NVal]
KeepInv == Domains /\ (npc # "deleted" => \A s \in NSolution : Open(s) => Kept(s))

LEMMA PrunedIs ==
  ASSUME NEW d \in [NVar -> SUBSET NVal], NEW b, b.x \in NVar
  PROVE  /\ N!Pruned(d, b) \in [NVar -> SUBSET NVal]
         /\ \A x \in NVar : N!Pruned(d, b)[x] = IF x = b.x THEN {w \in d[x] : ~N!Allows(b, w)} ELSE d[x]
BY DEF N!Pruned

LEMMA PrunedKeeps ==
  ASSUME NEW d \in [NVar -> SUBSET NVal], NEW b, b.x \in NVar, NEW s, InSpace(d, s), ~N!Allows(b, s[b.x])
  PROVE  InSpace(N!Pruned(d, b), s) /\ ~N!Failing(N!Pruned(d, b))
<1>1. InSpace(N!Pruned(d, b), s)
  <2>1. ASSUME NEW x \in NVar PROVE s[x] \in N!Pruned(d, b)[x]
    <3>1. s[x] \in d[x]
      BY DEF InSpace
    <3>2. CASE x = b.x
      BY <3>1, <3>2, PrunedIs
    <3>3. CASE x # b.x
      BY <3>1, <3>3, PrunedIs
    <3> QED BY <3>2, <3>3
  <2> QED BY <2>1 DEF InSpace
<1> QED BY <1>1 DEF InSpace, N!Failing

(* a leaf that comes first, or after the root and other leaves, is not for a solution
   that needs it *)
LEMMA FirstLeaf ==
  ASSUME PathOK, NEW c, Chain(c), c # <<>>, c[1].leaf, NEW s \in NSolution, ~N!Explored(s), Why(c, s)
  PROVE  ~N!Allows(c[1], s[c[1].x])
<1>1. 1 \in DOMAIN c /\ c[1] \in Lit
  <2>1. 1 \in DOMAIN c
    BY DEF Chain
  <2> QED BY <2>1, ChainIs
<1> DEFINE i == c[1].at[1]
           a == c[1].at[2]
<1>2. /\ i \in Indexes /\ a \in 0 .. N!TrueAlt(ngPath[i]) - 1 /\ c[1].x = ngPath[i].x
      /\ \A w : N!Allows(c[1], w) <=> N!Alternative(ngPath[i], a, w)
  BY <1>1, LitMeans
<1>3. ASSUME NEW h \in Indexes, h < i, NEW m \in DOMAIN c, c[m] = N!NonLeaf(h) PROVE FALSE
  <2>1. Before(c[m], c[1])
    BY <1>3, NonLeafAt DEF Before
  <2>2. m \in Nat /\ m >= 1
    BY ChainIs
  <2>3. m # 1
    BY <1>3, NonLeafAt
  <2> QED BY <1>1, <1>3, <2>1, <2>2, <2>3, ChainIs, BeforeIs
<1>4. \A h \in Indexes : h < i => N!Rightmost(ngPath[h]) \/ N!Taken(ngPath[h], s)
  BY <1>1, <1>3 DEF Why
<1> HIDE DEF i, a
<1>5. ~N!Alternative(ngPath[i], a, s[ngPath[i].x])
  BY <1>2, <1>4, NotTwice
<1> QED BY <1>2, <1>5

LEMMA NextLeaf ==
  ASSUME PathOK, NEW c, NEW k, AtLiteral(c, k), c[k].leaf, NEW s \in NSolution, ~N!Explored(s), Why(c, s),
         N!Allows(c[k], s[c[k].x])
  PROVE  ~N!Allows(c[1], s[c[1].x])
<1>1. k \in DOMAIN c /\ 1 \in DOMAIN c /\ c[k] \in Lit /\ c[1] \in Lit /\ Chain(c) /\ k \in Nat
  <2>1. k \in DOMAIN c /\ Chain(c) /\ k \in Nat
    BY AtLiteralIs DEF AtLiteral, Ready
  <2>2. 1 \in DOMAIN c
    BY WatchesIs DEF AtLiteral
  <2> QED BY <2>1, <2>2, ChainIs
<1> DEFINE i == c[k].at[1]
           a == c[k].at[2]
           r == c[1].at[1]
<1>2. /\ i \in Indexes /\ a \in 0 .. N!TrueAlt(ngPath[i]) - 1 /\ c[k].x = ngPath[i].x
      /\ \A w : N!Allows(c[k], w) <=> N!Alternative(ngPath[i], a, w)
  BY <1>1, LitMeans
<1>3. /\ c[1].x = ngPath[r].x
      /\ \A w : N!Allows(c[1], w) <=> N!Alternative(ngPath[r], N!TrueAlt(ngPath[r]), w)
  <2>1. ~c[1].leaf
    BY DEF AtLiteral, Ready
  <2>2. c[1].at[2] = N!TrueAlt(ngPath[r])
    BY <1>1, <2>1, LitMeans
  <2>3. c[1].x = ngPath[r].x /\ \A w : N!Allows(c[1], w) <=> N!Alternative(ngPath[r], c[1].at[2], w)
    BY <1>1, LitMeans
  <2> QED BY <2>2, <2>3
<1>4. SUFFICES ASSUME N!Allows(c[1], s[c[1].x]) PROVE FALSE
  OBVIOUS
<1>5. N!Taken(ngPath[r], s)
  BY <1>3, <1>4 DEF N!Taken
<1>6. ASSUME NEW h \in Indexes, h < i, NEW m \in DOMAIN c, c[m] = N!NonLeaf(h) PROVE h = r
  <2>1. Before(c[m], c[k])
    BY <1>6, NonLeafAt DEF Before
  <2>2. ~(k < m) /\ m # k
    BY <1>1, <1>6, <2>1, ChainIs, BeforeIs
  <2>3. m \in Nat /\ m >= 1
    BY <1>1, ChainIs
  <2>4. m \notin 2 .. k - 1
    BY <1>6, NonLeafAt DEF AtLiteral
  <2>5. m = 1
    BY <1>1, <2>2, <2>3, <2>4
  <2> QED BY <1>6, <2>5, NonLeafAt
<1>7. \A h \in Indexes : h < i => N!Rightmost(ngPath[h]) \/ N!Taken(ngPath[h], s)
  BY <1>1, <1>5, <1>6 DEF Why
<1> HIDE DEF i, a
<1>8. ~N!Alternative(ngPath[i], a, s[ngPath[i].x])
  BY <1>2, <1>7, NotTwice
<1> QED BY <1>2, <1>8

(* what is subsumed holds of every solution in the space *)
LEMMA SubsumedFell ==
  ASSUME PathOK, NEW b \in Lit, NEW s, InSpace(dom, s), N!Status(dom, b) = "subsumed"
  PROVE  N!Allows(b, s[b.x]) /\ Fell(b, s)
<1>1. b.x \in NVar /\ N!Allows(b, s[b.x])
  <2>1. b.x \in NVar
    BY LitMeans
  <2> QED BY <2>1 DEF N!Status, InSpace
<1>2. ASSUME NEW h \in Indexes, b = N!NonLeaf(h) PROVE N!Taken(ngPath[h], s)
  <2>1. b.at[1] = h /\ b.leaf = FALSE
    BY <1>2, NonLeafAt
  <2>2. /\ b.x = ngPath[h].x
        /\ \A w : N!Allows(b, w) <=> N!Alternative(ngPath[h], N!TrueAlt(ngPath[h]), w)
    BY <2>1, LitMeans
  <2> QED BY <1>1, <2>2 DEF N!Taken
<1> QED BY <1>1, <1>2 DEF Fell

LEMMA LeafFell == ASSUME NEW b, b.leaf, NEW s PROVE Fell(b, s)
BY NonLeafAt DEF Fell

LEMMA CommittedIs ==
  ASSUME PathOK, dom \in [NVar -> SUBSET NVal]
  PROVE  /\ N!Committed \in [NVar -> SUBSET NVal]
         /\ \A s \in NSolution : InSpace(dom, s) /\ ~N!Explored(s) => InSpace(N!Committed, s)
<1> DEFINE f == N!FirstUncommitted
<1>1. N!Committed \in [NVar -> SUBSET NVal]
  BY DEF N!Committed
<1>2. f \in Nat /\ f >= 1 /\ f <= Len(ngPath) + 1 /\ Len(ngPath) \in Nat /\ N!Entries <= Len(ngPath)
      /\ (f <= N!Entries => f \in Indexes)
  BY FirstUncommittedIs, EntriesIs
<1>3. \A j \in Indexes : j < f => N!Rightmost(ngPath[j])
  BY FirstUncommittedIs
<1>4. N!Middle => f \in Indexes
  BY <1>2 DEF N!Middle
<1>5. N!Committed = [x \in NVar |->
     {w \in dom[x] :
        /\ \A i \in 1 .. f - 1 : ngPath[i].x = x => N!Alternative(ngPath[i], N!TrueAlt(ngPath[i]), w)
        /\ N!Middle /\ ngPath[f].supported /\ ngPath[f].x = x =>
             \A a \in 0 .. N!TrueAlt(ngPath[f]) - 1 : ~N!Alternative(ngPath[f], a, w)}]
  BY DEF N!Committed
<1> HIDE DEF f
<1>6. ASSUME NEW s \in NSolution, InSpace(dom, s), ~N!Explored(s), NEW x \in NVar
      PROVE  s[x] \in N!Committed[x]
  <2>1. \A j \in 1 .. f - 1 : N!Taken(ngPath[j], s)
    BY <1>2, <1>3, <1>6, TakenBefore
  <2>2. N!Middle => \A a \in 0 .. N!TrueAlt(ngPath[f]) - 1 : ~N!Alternative(ngPath[f], a, s[ngPath[f].x])
    BY <1>3, <1>4, <1>6, NotTwice
  <2>3. s[x] \in dom[x]
    BY <1>6 DEF InSpace
  <2>4. \A i \in 1 .. f - 1 : ngPath[i].x = x => N!Alternative(ngPath[i], N!TrueAlt(ngPath[i]), s[x])
    BY <2>1 DEF N!Taken
  <2>5. N!Middle /\ ngPath[f].supported /\ ngPath[f].x = x =>
             \A a \in 0 .. N!TrueAlt(ngPath[f]) - 1 : ~N!Alternative(ngPath[f], a, s[x])
    BY <2>2
  <2> QED BY <1>5, <2>3, <2>4, <2>5
<1> QED BY <1>1, <1>6 DEF InSpace

LEMMA KeepInit == N!Init => KeepInv
<1> SUFFICES ASSUME N!Init PROVE KeepInv
  OBVIOUS
<1>1. /\ dom = [x \in NVar |-> NVal] /\ given = dom /\ ngFailed = FALSE /\ npc = "post"
  BY DEF N!Init
<1>2. Domains
  BY <1>1 DEF Domains
<1>3. \A s \in NSolution : InSpace(dom, s)
  BY <1>1, SolutionIs DEF InSpace
<1> QED BY <1>1, <1>2, <1>3 DEF KeepInv, Kept

LEMMA KeepPost ==
  ASSUME SubInv, KeepInv, N!Post
  PROVE  KeepInv'
<1>1. /\ npc = "post" /\ ngPath' = ngPath /\ given' = given /\ lits' = lits /\ PathOK
      /\ dom' = N!Committed /\ ngFailed' = N!Failing(dom')
      /\ npc' = "gone" \/ (npc' = "idle" /\ chain' = N!Built /\ Posting)
  <2>1. N!FirstUncommitted \in Nat /\ N!Entries \in Nat
    BY FirstUncommittedIs, EntriesIs DEF SubInv
  <2>2. npc' = "gone" \/ (npc' = "idle" /\ chain' = N!Built /\ ~(N!FirstUncommitted > N!Entries)
           /\ ~(N!Middle /\ ~ngPath[N!FirstUncommitted].supported))
    BY DEF N!Post
  <2>3. /\ npc = "post" /\ ngPath' = ngPath /\ given' = given /\ lits' = lits /\ PathOK
        /\ dom' = N!Committed /\ ngFailed' = N!Failing(dom')
    BY DEF N!Post, SubInv
  <2> QED BY <2>1, <2>2, <2>3 DEF Posting
<1>2. Domains'
  BY <1>1, CommittedIs DEF KeepInv, Domains
<1>3. ASSUME NEW s \in NSolution, Open(s)' PROVE Kept(s)'
  <2>1. Open(s) /\ InSpace(dom, s) /\ ~N!Explored(s)
    BY <1>1, <1>3 DEF Open, KeepInv, Kept, N!Explored
  <2>2. InSpace(dom', s)
    BY <1>1, <2>1, CommittedIs DEF KeepInv, Domains
  <2>3. ~ngFailed'
    BY <1>1, <2>2 DEF N!Failing, InSpace
  <2>4. ASSUME npc' = "idle" PROVE Why(Cur, s)'
    <3>1. SaysWhy(N!Built) /\ Cur' = N!Built /\ Chain(N!Built)
      BY <1>1, <2>4, BuiltChain DEF Cur
    <3>2. ASSUME NEW j \in DOMAIN N!Built, N!Built[j].leaf, NEW h \in Indexes, h < N!Built[j].at[1]
          PROVE  N!Rightmost(ngPath[h]) \/ \E m \in DOMAIN N!Built : N!Built[m] = N!NonLeaf(h)
      <4>1. h \in Nat /\ N!Built[j].at[1] \in Nat
        BY <1>1, <3>1, <3>2, EdgeIs, ChainIs, LitMeans
      <4>2. h <= N!Built[j].at[1] - 1
        BY <3>2, <4>1
      <4> QED BY <3>1, <3>2, <4>2 DEF SaysWhy, Says
    <3>3. Why(N!Built, s)
      BY <3>2 DEF Why
    <3> QED BY <1>1, <3>1, <3>3 DEF Why, Indexes, N!NonLeaf, N!Literal
  <2> QED BY <1>1, <2>2, <2>3, <2>4 DEF Kept
<1> QED BY <1>2, <1>3 DEF KeepInv

(* the rest of a chain keeps why when its state does *)
LEMMA KeptBy ==
  ASSUME NEW s, ngPath' = ngPath, ~ngFailed', InSpace(dom', s), Why(Cur', s)
  PROVE  Kept(s)'
BY DEF Kept, Why, Indexes, N!NonLeaf, N!Literal

LEMMA OpenBefore ==
  ASSUME KeepInv, npc # "deleted", ngPath' = ngPath, given' = given, NEW s \in NSolution, Open(s)'
  PROVE  /\ Open(s) /\ ~N!Explored(s) /\ ~ngFailed /\ InSpace(dom, s)
         /\ npc \in {"idle", "root", "leaf", "prune"} => Why(Cur, s)
BY DEF KeepInv, Kept, Open, N!Explored

LEMMA KeepOthers ==
  ASSUME KeepInv, N!Others
  PROVE  KeepInv'
<1>1. /\ UNCHANGED <<ngPath, ngFailed, chain, lits, npc>> /\ npc \in {"idle", "gone"} /\ Domains
      /\ dom \in [NVar -> SUBSET NVal] /\ given \in [NVar -> SUBSET NVal]
  BY DEF N!Others, KeepInv, Domains
<1>20. PICK x \in NVar : \E v \in dom[x] : \E t \in {{v}, dom[x] \ {v}} :
        dom' = [dom EXCEPT ![x] = t] /\ given' = [given EXCEPT ![x] = given[x] \cap t]
  BY DEF N!Others
<1>2. PICK t \in SUBSET dom[x] :
        dom' = [dom EXCEPT ![x] = t] /\ given' = [given EXCEPT ![x] = given[x] \cap t]
  BY <1>20
<1>3. t \subseteq dom[x] /\ dom[x] \subseteq NVal /\ given[x] \subseteq NVal
  BY <1>1
<1> HIDE DEF Domains
<1>4. Domains'
  BY <1>1, <1>2, <1>3 DEF Domains
<1>5. \A y \in NVar : given'[y] \subseteq given[y] /\ dom'[y] = IF y = x THEN t ELSE dom[y]
  BY <1>1, <1>2
<1>6. given'[x] \subseteq t
  BY <1>1, <1>2
<1>7. ASSUME NEW s \in NSolution, Open(s)' PROVE Kept(s)'
  <2>1. InSpace(given', s) /\ ~N!Explored(s)
    BY <1>1, <1>7 DEF Open, N!Explored
  <2>2. InSpace(given, s)
    BY <1>5, <2>1 DEF InSpace
  <2>3. Kept(s)
    BY <1>1, <2>1, <2>2 DEF Open, KeepInv
  <2>4. InSpace(dom', s)
    BY <1>5, <1>6, <2>1, <2>3 DEF InSpace, Kept
  <2> QED BY <1>1, <2>3, <2>4 DEF Kept, Cur, Why, Indexes, N!NonLeaf, N!Literal
<1> QED BY <1>1, <1>4, <1>7 DEF KeepInv

LEMMA KeepNext ==
  ASSUME SubInv, KeepInv, N!Next
  PROVE  KeepInv'
<1>1. PathOK /\ Domains
  BY DEF SubInv, KeepInv
<1> DEFINE Still == UNCHANGED <<ngPath, given>> /\ npc # "deleted"
<1>2. CASE N!Others
  BY <1>2, KeepOthers
<1>3. CASE N!Post
  BY <1>3, KeepPost
<1>4. CASE N!CallPropagate \/ N!RootNone \/ N!LeafNone \/ N!Finished
  <2>1. /\ npc \in {"idle", "root", "leaf"} /\ npc' \in {"idle", "root", "leaf"}
        /\ UNCHANGED <<ngPath, given, dom, ngFailed, chain>>
    BY <1>4 DEF N!CallPropagate, N!RootNone, N!LeafNone, N!Finished, N!Leaf, N!At, N!kept
  <2>2. ASSUME NEW s \in NSolution, Open(s)' PROVE Kept(s)'
    <3>1. ~ngFailed /\ InSpace(dom, s) /\ Why(Cur, s)
      BY <2>1, <2>2, OpenBefore
    <3> QED BY <2>1, <3>1, KeptBy DEF Cur
  <2> QED BY <1>1, <2>1, <2>2 DEF KeepInv, Domains
<1>5. CASE N!RootFailed \/ N!NothingLeft
  <2>1. /\ npc \in {"root", "prune"} /\ npc' = "gone" /\ UNCHANGED <<ngPath, given, dom, ngFailed>>
    BY <1>5 DEF N!RootFailed, N!NothingLeft, N!Subsumed, N!At, N!kept
  <2>2. ASSUME NEW s \in NSolution, Open(s)' PROVE Kept(s)'
    BY <2>1, <2>2, OpenBefore DEF Kept
  <2> QED BY <1>1, <2>1, <2>2 DEF KeepInv, Domains
<1>6. CASE N!RootSubsumed
  <2>1. /\ npc = "root" /\ npc' = "prune" /\ UNCHANGED <<ngPath, given, dom, ngFailed>>
        /\ ~ngFailed /\ lits' = Tail(chain) /\ N!Status(dom, chain[1]) = "subsumed"
    BY <1>6 DEF N!RootSubsumed, N!At, N!kept
  <2>2. Chain(chain) /\ chain # <<>> /\ chain[1] \in Lit
    <3>1. IdleOK
      BY <2>1 DEF SubInv
    <3> QED BY <3>1, WatchesIs, ChainIs DEF IdleOK, Ready
  <2>3. ASSUME NEW s \in NSolution, Open(s)' PROVE Kept(s)'
    <3>1. ~ngFailed /\ InSpace(dom, s) /\ Why(chain, s)
      BY <2>1, <2>3, OpenBefore DEF Cur
    <3>2. Fell(chain[1], s)
      BY <1>1, <2>1, <2>2, <3>1, SubsumedFell
    <3>3. Why(Tail(chain), s)
      BY <2>2, <3>1, <3>2, WhyTail
    <3> QED BY <2>1, <3>1, <3>3, KeptBy DEF Cur
  <2> QED BY <1>1, <2>1, <2>3 DEF KeepInv, Domains
<1>7. CASE N!PruneLeaf
  <2>1. /\ npc = "prune" /\ npc' = "prune" /\ UNCHANGED <<ngPath, given>> /\ ~ngFailed
        /\ lits # <<>> /\ lits[1].leaf
        /\ dom' = N!Pruned(dom, lits[1]) /\ ngFailed' = N!Failing(dom')
        /\ ~ngFailed' => lits' = Tail(lits)
    BY <1>7 DEF N!PruneLeaf, N!At, N!Prune, N!kept
  <2>2. Chain(lits) /\ lits[1].x \in NVar
    <3>1. PruneOK
      BY <2>1 DEF SubInv
    <3>2. 1 \in DOMAIN lits
      BY <2>1, <3>1 DEF PruneOK, Chain
    <3> QED BY <1>1, <3>1, <3>2, ChainIs, LitMeans DEF PruneOK
  <2>3. ASSUME NEW s \in NSolution, Open(s)' PROVE Kept(s)'
    <3>1. ~N!Explored(s) /\ InSpace(dom, s) /\ Why(lits, s)
      BY <2>1, <2>3, OpenBefore DEF Cur
    <3>2. ~N!Allows(lits[1], s[lits[1].x])
      BY <1>1, <2>1, <2>2, <3>1, FirstLeaf
    <3>3. InSpace(dom', s) /\ ~ngFailed'
      BY <1>1, <2>1, <2>2, <3>1, <3>2, PrunedKeeps DEF Domains
    <3>4. Why(Tail(lits), s)
      BY <2>1, <2>2, <3>1, WhyTail, LeafFell
    <3> QED BY <2>1, <3>3, <3>4, KeptBy DEF Cur
  <2> QED BY <1>1, <2>1, <2>2, <2>3, PrunedIs DEF KeepInv, Domains
<1>8. CASE N!NewRoot
  <2>1. /\ npc = "prune" /\ npc' = "root" /\ UNCHANGED <<ngPath, given, dom, ngFailed>> /\ chain' = lits
    BY <1>8 DEF N!NewRoot, N!At, N!kept
  <2>2. ASSUME NEW s \in NSolution, Open(s)' PROVE Kept(s)'
    <3>1. ~ngFailed /\ InSpace(dom, s) /\ Why(Cur, s)
      BY <2>1, <2>2, OpenBefore
    <3> QED BY <2>1, <3>1, KeptBy DEF Cur
  <2> QED BY <1>1, <2>1, <2>2 DEF KeepInv, Domains
<1>9. ASSUME npc = "leaf", ~ngFailed, pos <= Len(chain)
      PROVE  /\ AtLiteral(chain, pos) /\ Chain(chain) /\ pos \in DOMAIN chain /\ chain[pos] \in Lit
             /\ chain[1].x \in NVar /\ pos - 1 \in 0 .. Len(chain)
  <2>1. IdleOK /\ LeafOK
    BY <1>9 DEF SubInv
  <2>2. AtLiteral(chain, pos) /\ Ready(chain)
    BY <1>9, <2>1, LeafAt DEF IdleOK
  <2>3. 1 \in DOMAIN chain /\ pos \in DOMAIN chain /\ pos - 1 \in 0 .. Len(chain)
    BY <2>2, AtLiteralIs, WatchesIs
  <2> QED BY <1>1, <2>2, <2>3, ChainIs, LitMeans DEF Ready
<1>10. CASE N!LeafSubsumed
  <2>1. /\ npc = "leaf" /\ UNCHANGED <<ngPath, given>> /\ ~ngFailed
        /\ pos <= Len(chain) /\ chain[pos].leaf /\ N!Status(dom, chain[pos]) = "subsumed"
        /\ dom' = N!Pruned(dom, chain[1]) /\ ngFailed' = N!Failing(dom')
        /\ ~ngFailed' => npc' = "gone"
    BY <1>10 DEF N!LeafSubsumed, N!Leaf, N!At, N!Subsumed, N!kept
  <2>2. /\ AtLiteral(chain, pos) /\ chain[pos] \in Lit /\ chain[1].x \in NVar
    BY <1>9, <2>1
  <2>3. ASSUME NEW s \in NSolution, Open(s)' PROVE Kept(s)'
    <3>1. ~N!Explored(s) /\ InSpace(dom, s) /\ Why(chain, s)
      BY <2>1, <2>3, OpenBefore DEF Cur
    <3>2. N!Allows(chain[pos], s[chain[pos].x])
      BY <1>1, <2>1, <2>2, <3>1, SubsumedFell
    <3>3. ~N!Allows(chain[1], s[chain[1].x])
      BY <1>1, <2>1, <2>2, <3>1, <3>2, NextLeaf
    <3>4. InSpace(dom', s) /\ ~ngFailed'
      BY <1>1, <2>1, <2>2, <3>1, <3>3, PrunedKeeps DEF Domains
    <3> QED BY <2>1, <3>4 DEF Kept
  <2> QED BY <1>1, <2>1, <2>2, <2>3, PrunedIs DEF KeepInv, Domains
<1>11. CASE N!LeafFailed \/ N!SubtreeSubsumed
  <2>1. /\ npc = "leaf" /\ npc' \in {"leaf", "idle"} /\ ~ngFailed
        /\ UNCHANGED <<ngPath, given, dom, ngFailed>> /\ chain' = N!RemoveAt(chain, pos)
        /\ pos <= Len(chain) /\ (chain[pos].leaf \/ N!Status(dom, chain[pos]) = "subsumed")
    BY <1>11 DEF N!LeafFailed, N!SubtreeSubsumed, N!Leaf, N!Subtree, N!At, N!kept
  <2>2. Chain(chain) /\ pos \in DOMAIN chain /\ chain[pos] \in Lit
    BY <1>9, <2>1
  <2>3. ASSUME NEW s \in NSolution, Open(s)' PROVE Kept(s)'
    <3>1. ~ngFailed /\ InSpace(dom, s) /\ Why(chain, s)
      BY <2>1, <2>3, OpenBefore DEF Cur
    <3>2. Fell(chain[pos], s)
      BY <1>1, <2>1, <2>2, <3>1, SubsumedFell, LeafFell
    <3>3. Why(chain', s)
      BY <2>1, <2>2, <3>1, <3>2, WhyRemove
    <3> QED BY <2>1, <3>1, <3>3, KeptBy DEF Cur
  <2> QED BY <1>1, <2>1, <2>3 DEF KeepInv, Domains
<1>12. CASE N!SubtreeFailed
  <2>1. /\ npc = "leaf" /\ npc' = "idle" /\ ~ngFailed
        /\ UNCHANGED <<ngPath, given, dom, ngFailed>> /\ chain' = SubSeq(chain, 1, pos - 1)
        /\ pos <= Len(chain)
    BY <1>12 DEF N!SubtreeFailed, N!Subtree, N!At, N!kept
  <2>2. Chain(chain) /\ pos - 1 \in 0 .. Len(chain)
    BY <1>9, <2>1
  <2>3. ASSUME NEW s \in NSolution, Open(s)' PROVE Kept(s)'
    <3>1. ~ngFailed /\ InSpace(dom, s) /\ Why(chain, s)
      BY <2>1, <2>3, OpenBefore DEF Cur
    <3>2. Why(chain', s)
      BY <1>1, <2>1, <2>2, <3>1, WhyCut
    <3> QED BY <2>1, <3>1, <3>2, KeptBy DEF Cur
  <2> QED BY <1>1, <2>1, <2>3 DEF KeepInv, Domains
<1>13. CASE N!DeleteSpace
  <2>1. npc' = "deleted" /\ UNCHANGED <<given, dom>>
    BY <1>13 DEF N!DeleteSpace, N!kept
  <2> QED BY <1>1, <2>1 DEF KeepInv, Domains
<1> QED BY <1>2, <1>3, <1>4, <1>5, <1>6, <1>7, <1>8, <1>10, <1>11, <1>12, <1>13 DEF N!Next

LEMMA StutterKeeps ==
  ASSUME SubInv, KeepInv, UNCHANGED N!vars
  PROVE  SubInv' /\ KeepInv'
<1>1. SubInv'
  BY LitStays DEF SubInv, N!vars, N!space, PathOK, IdleOK, PruneOK, LeafOK, Ready, Chain
<1>2. UNCHANGED <<ngPath, given, dom, ngFailed, chain, lits, npc>>
  BY DEF N!vars, N!space
<1>3. ASSUME npc # "deleted", NEW s \in NSolution, Open(s)' PROVE Kept(s)'
  <2>1. Kept(s)
    BY <1>2, <1>3 DEF KeepInv, Open, N!Explored
  <2> QED BY <1>2, <2>1, KeptBy DEF Kept, Cur
<1> QED BY <1>1, <1>2, <1>3 DEF KeepInv, Domains

(* No solution that has not been explored is lost. *)
THEOREM NothingElseIsLost == N!Spec => []N!NoGoodsKeepRest
<1> DEFINE Inv == SubInv /\ KeepInv
<1>1. N!Init => Inv
  BY SubInvInit, KeepInit
<1>2. Inv /\ [N!Next]_(N!vars) => Inv'
  BY StutterKeeps, SubInvNext, KeepNext
<1>3. Inv => N!NoGoodsKeepRest
  BY DEF KeepInv, Kept, Open, InSpace, N!NoGoodsKeepRest
<1> QED BY <1>1, <1>2, <1>3, PTL DEF N!Spec

-----------------------------------------------------------------------------
(* What wakes the propagator. *)

LEMMA LiteralAt ==
  \A i, a : N!Literal(i, a, TRUE).at[1] = i /\ N!Literal(i, a, TRUE).at[2] = a
<1>1. \A i, a : <<i, a>>[1] = i /\ <<i, a>>[2] = a
  OBVIOUS
<1> QED BY <1>1 DEF N!Literal

LEMMA HasMax ==
  ASSUME NEW S \in SUBSET Int, IsFiniteSet(S), S # {}
  PROVE  N!Max(S) \in S /\ \A y \in S : y <= N!Max(S)
<1>1. PICK q \in Seq(S) : \A s \in S : \E i \in 1 .. Len(q) : q[i] = s
  BY DEF IsFiniteSet
<1> DEFINE n == Len(q)
           Bad == {m \in Nat : m <= n /\ ~(\E x \in S : \A i \in 1 .. m : q[i] <= x)}
<1>2. n \in Nat /\ \A i \in 1 .. n : q[i] \in S /\ q[i] \in Int
  BY LenProperties, ElementOfSeq
<1> HIDE DEF n
<1>3. Bad = {}
  <2> SUFFICES ASSUME Bad # {} PROVE FALSE
    OBVIOUS
  <2>1. PICK m \in Bad : \A k \in Bad : m <= k
    BY HasLeast
  <2>2. m \in Nat /\ m <= n /\ ~(\E x \in S : \A i \in 1 .. m : q[i] <= x)
    OBVIOUS
  <2>3. m # 0
    <3>1. \E x \in S : \A i \in {} : q[i] <= x
      OBVIOUS
    <3>2. 1 .. 0 = {}
      OBVIOUS
    <3>3. \E x \in S : \A i \in 1 .. 0 : q[i] <= x
      BY <3>1, <3>2, Zenon
    <3> QED BY <2>2, <3>3, Zenon
  <2>10. m - 1 \in Nat /\ m - 1 <= n /\ ~(m <= m - 1)
    BY <1>2, <2>2, <2>3
  <2>4. m - 1 \notin Bad
    BY <2>1, <2>10, Zenon
  <2>5. PICK x \in S : \A i \in 1 .. m - 1 : q[i] <= x
    BY <2>4, <2>10, Zenon
  <2>6. q[m] \in S /\ q[m] \in Int /\ x \in Int
    BY <1>2, <2>2, <2>3
  <2> HIDE DEF Bad
  <2>7. \A i \in 1 .. m : i = m \/ i \in 1 .. m - 1
    BY <2>2
  <2>8. CASE q[m] <= x
    BY <2>2, <2>5, <2>7, <2>8
  <2>9. CASE ~(q[m] <= x)
    <3>1. \A i \in 1 .. m : q[i] <= q[m]
      BY <1>2, <2>2, <2>5, <2>6, <2>7, <2>9
    <3> QED BY <2>2, <2>6, <3>1
  <2> QED BY <2>8, <2>9
<1>4. n \in Nat /\ n <= n /\ n \notin Bad
  BY <1>2, <1>3
<1>5. PICK x \in S : \A i \in 1 .. n : q[i] <= x
  BY <1>4
<1>6. \A y \in S : y <= x
  BY <1>1, <1>5 DEF n
<1>7. \E z \in S : \A y \in S : z >= y
  BY <1>6
<1>8. N!Max(S) \in S /\ \A y \in S : N!Max(S) >= y
  BY <1>7 DEF N!Max
<1> QED BY <1>8

LEMMA StatusIs ==
  \A d, b : /\ N!Status(d, b) = "subsumed" <=> \A w \in d[b.x] : N!Allows(b, w)
            /\ N!Status(d, b) = "failed" => \A w \in d[b.x] : ~N!Allows(b, w)
            /\ d[b.x] # {} /\ (\A w \in d[b.x] : ~N!Allows(b, w)) => N!Status(d, b) = "failed"
            /\ N!Status(d, b) \in {"subsumed", "failed", "none"}
BY DEF N!Status

(* A literal that becomes subsumed is noticed. *)
LEMMA KnownIsNoticed ==
  ASSUME PathOK, NEW b \in Lit, NEW d1 \in [NVar -> SUBSET NVal], NEW d2 \in [NVar -> SUBSET NVal],
         d2[b.x] \subseteq d1[b.x], d2[b.x] # {},
         N!Status(d1, b) # "subsumed", N!Status(d2, b) = "subsumed"
  PROVE  N!Notices(d1, d2, b)
<1> DEFINE s == d1[b.x]
           t == d2[b.x]
<1>1. b.x \in NVar /\ b.v \in Int /\ b.lq \in BOOLEAN
  BY DEF Lit, LitType
<1>2. NVal \in SUBSET Int /\ IsFiniteSet(NVal)
  BY PathAssumption, FiniteIs DEF N!PathAssumption
<1>3. s \in SUBSET NVal /\ t \in SUBSET NVal /\ t # {} /\ t \subseteq s
  BY <1>1
<1>4. PICK u \in s : ~N!Allows(b, u)
  BY StatusIs
<1>5. \A w \in t : N!Allows(b, w)
  BY StatusIs
<1>6. s # t
  BY <1>4, <1>5
<1> HIDE DEF s, t
<1>7. CASE ~b.lq
  <2>1. \A w \in t : w = b.v
    BY <1>5, <1>7 DEF N!Allows
  <2>2. t = {b.v}
    BY <1>3, <2>1
  <2>3. N!Cardinality(t) = 1
    BY <2>2, CardIs, FS_Singleton
  <2> QED BY <1>3, <1>6, <2>3 DEF N!Notices, s, t
<1>8. CASE b.lq
  <2>1. u > b.v /\ u \in Int
    BY <1>1, <1>2, <1>3, <1>4, <1>8 DEF N!Allows
  <2>2. IsFiniteSet(s) /\ IsFiniteSet(t) /\ s \in SUBSET Int /\ t \in SUBSET Int
    BY <1>2, <1>3, FS_Subset
  <2>3. N!Max(s) >= u /\ N!Max(s) \in Int
    BY <2>1, <2>2, HasMax
  <2>4. N!Max(t) \in t
    BY <1>3, <2>2, HasMax
  <2>5. N!Max(t) <= b.v /\ N!Max(t) \in Int
    BY <1>5, <1>8, <2>2, <2>4 DEF N!Allows
  <2>6. N!Max(s) # N!Max(t)
    BY <1>1, <2>1, <2>3, <2>5
  <2> QED BY <1>3, <1>6, <1>8, <2>6 DEF N!Notices, s, t
<1> QED BY <1>7, <1>8

-----------------------------------------------------------------------------
(* No-goods *)

(* one of the literals has become false *)
Dead(d, i, a) == \E b \in N!NoGood(i, a) : \A w \in d[b.x] : ~N!Allows(b, w)
Smaller(d1, d2) == \A x \in NVar : d2[x] \subseteq d1[x]
(* the number of the alternatives to the left of the one that was taken *)
Left(i) == 0 .. N!TrueAlt(ngPath[i]) - 1
Has(c, i, a) == \E j \in DOMAIN c : c[j] = N!Literal(i, a, TRUE)

LEMMA NoGoodIs ==
  ASSUME PathOK, NEW i \in Indexes, NEW a \in Left(i)
  PROVE  /\ N!NoGood(i, a) \subseteq Lit /\ N!Literal(i, a, TRUE) \in N!NoGood(i, a)
         /\ \A b \in N!NoGood(i, a) : b.x \in NVar
         /\ a \in Nat /\ a < N!TrueAlt(ngPath[i])
<1>1. a \in Nat /\ a < N!TrueAlt(ngPath[i]) /\ i \in Nat /\ i <= Len(ngPath) /\ Len(ngPath) \in Nat
      /\ Indexes = 1 .. Len(ngPath)
  <2>1. N!TrueAlt(ngPath[i]) \in Nat
    BY EdgeIs, AltIs
  <2>2. i \in Nat /\ i <= Len(ngPath) /\ Len(ngPath) \in Nat
    BY EdgeIs
  <2>3. Indexes = 1 .. Len(ngPath)
    BY PathAssumption DEF PathOK, N!PathAssumption, Indexes
  <2> QED BY <2>1, <2>2, <2>3 DEF Left
<1>2. N!Literal(i, a, TRUE) \in Lit
  BY <1>1, LeafIs
<1>3. \A h \in 1 .. i - 1 : h \in Indexes /\ (N!HasNonLeaf(h) => N!NonLeaf(h) \in Lit)
  BY <1>1, NonLeafIs
<1>4. N!NoGood(i, a) \subseteq Lit /\ N!Literal(i, a, TRUE) \in N!NoGood(i, a)
  BY <1>2, <1>3 DEF N!NoGood
<1> QED BY <1>1, <1>4, LitMeans

LEMMA StaysDead ==
  ASSUME PathOK, NEW i \in Indexes, NEW a \in Left(i), NEW d1, NEW d2, Smaller(d1, d2), Dead(d1, i, a)
  PROVE  Dead(d2, i, a)
BY NoGoodIs DEF Dead, Smaller

(* the non-leaves before a leaf in a chain are in the no-good that ends with it *)
LEMMA NonLeafIn ==
  ASSUME PathOK, NEW c, Chain(c), NEW m \in DOMAIN c, ~c[m].leaf,
         NEW i \in Indexes, NEW a \in Left(i), NEW j \in DOMAIN c, c[j] = N!Literal(i, a, TRUE), m < j
  PROVE  c[m] \in N!NoGood(i, a)
<1> DEFINE h == c[m].at[1]
<1>1. /\ c[m] \in Lit /\ h \in Nat /\ h \in Indexes /\ c[m] = N!NonLeaf(h) /\ N!HasNonLeaf(h)
      /\ c[m].at[2] = N!TrueAlt(ngPath[h])
  BY ChainIs, LitMeans
<1>2. N!Literal(i, a, TRUE).at[1] = i /\ N!Literal(i, a, TRUE).at[2] = a
  BY LiteralAt
<1>3. c[j].at[1] = i /\ c[j].at[2] = a
  BY <1>2, Zenon
<1>4. Before(c[m], c[j])
  BY ChainIs
<1> HIDE DEF h
<1>5. h < i \/ (h = i /\ N!TrueAlt(ngPath[h]) < a)
  BY <1>1, <1>3, <1>4 DEF Before, h
<1>6. i \in Nat /\ N!TrueAlt(ngPath[i]) \in Nat /\ a < N!TrueAlt(ngPath[i]) /\ a \in Nat
  BY EdgeIs, AltIs, NoGoodIs
<1>7. h >= 1
  BY <1>1, EdgeIs
<1>8. h \in 1 .. i - 1
  BY <1>1, <1>5, <1>6, <1>7
<1> QED BY <1>1, <1>8 DEF N!NoGood

LEMMA DeadBy ==
  ASSUME NEW d, NEW i, NEW a, NEW b \in N!NoGood(i, a), \A w \in d[b.x] : ~N!Allows(b, w)
  PROVE  Dead(d, i, a)
BY DEF Dead

(* alternatives are different *)
LEMMA Different ==
  ASSUME PathOK, NEW i \in Indexes, NEW a \in Left(i), NEW w,
         N!Alternative(ngPath[i], N!TrueAlt(ngPath[i]), w)
  PROVE  ~N!Alternative(ngPath[i], a, w)
<1> DEFINE e == ngPath[i]
           k == N!TrueAlt(e)
           n == Len(e.vals)
<1>1. /\ k \in Nat /\ a \in Nat /\ a < k /\ n \in Nat /\ n >= 1 /\ e.vals \in Seq(Int)
      /\ k < N!Alternatives(e) /\ N!IsInjective(e.vals)
  <2>1. N!IsInjective(e.vals)
    BY PathAssumption DEF PathOK, N!PathAssumption, Indexes
  <2> QED BY <2>1, EdgeIs, AltIs, NoGoodIs
<1>2. CASE N!Binary(e)
  <2>1. N!Alternatives(e) = 2
    BY <1>2 DEF N!Alternatives
  <2> HIDE DEF e, k
  <2>2. k = 1 /\ a = 0
    BY <1>1, <2>1
  <2> QED BY <1>2, <2>2 DEF N!Alternative, e, k
<1>3. CASE ~N!Binary(e)
  <2>1. N!Alternatives(e) = n
    BY <1>3 DEF N!Alternatives
  <2> HIDE DEF k, n
  <2>2. a + 1 \in 1 .. n /\ k + 1 \in 1 .. n /\ a + 1 # k + 1
    BY <1>1, <2>1
  <2>3. a + 1 \in DOMAIN e.vals /\ k + 1 \in DOMAIN e.vals
    BY <1>1, <2>2 DEF n
  <2>4. e.vals[a + 1] # e.vals[k + 1]
    BY <1>1, <2>2, <2>3 DEF N!IsInjective
  <2> QED BY <1>3, <2>4 DEF N!Alternative, e, k
<1> QED BY <1>2, <1>3

(* what Post has committed to is dead; the chain has the others *)
LEMMA CommittedDead ==
  ASSUME PathOK, NEW i \in Indexes, NEW a \in Left(i),
         i < N!FirstUncommitted \/ (i = N!FirstUncommitted /\ N!Middle /\ Supported)
  PROVE  Dead(N!Committed, i, a)
<1> DEFINE b == N!Literal(i, a, TRUE)
<1>1. /\ b \in N!NoGood(i, a) /\ b \in Lit /\ b.x \in NVar /\ b.x = ngPath[i].x /\ b.leaf
      /\ \A w : N!Allows(b, w) <=> N!Alternative(ngPath[i], a, w)
  <2>1. b \in N!NoGood(i, a) /\ b \in Lit /\ b.at = <<i, a>> /\ b.leaf = TRUE
    BY NoGoodIs DEF N!Literal
  <2>2. b.at[1] = i /\ b.at[2] = a
    BY LiteralAt
  <2> QED BY <2>1, <2>2, LitMeans
<1>2. i \in Nat /\ i >= 1 /\ N!FirstUncommitted \in Nat
  BY EdgeIs, FirstUncommittedIs
<1> HIDE DEF b
<1>3. ASSUME NEW w \in N!Committed[b.x] PROVE ~N!Alternative(ngPath[i], a, w)
  <2>1. /\ \A h \in 1 .. N!FirstUncommitted - 1 :
             ngPath[h].x = b.x => N!Alternative(ngPath[h], N!TrueAlt(ngPath[h]), w)
        /\ N!Middle /\ ngPath[N!FirstUncommitted].supported /\ ngPath[N!FirstUncommitted].x = b.x =>
             \A c \in 0 .. N!TrueAlt(ngPath[N!FirstUncommitted]) - 1 :
               ~N!Alternative(ngPath[N!FirstUncommitted], c, w)
    BY <1>1, <1>3 DEF N!Committed
  <2>2. CASE i < N!FirstUncommitted
    <3>1. i \in 1 .. N!FirstUncommitted - 1
      BY <1>2, <2>2
    <3>2. N!Alternative(ngPath[i], N!TrueAlt(ngPath[i]), w)
      BY <1>1, <2>1, <3>1
    <3> QED BY <3>2, Different
  <2>3. CASE i = N!FirstUncommitted /\ N!Middle /\ Supported
    BY <1>1, <2>1, <2>3 DEF Supported, Left
  <2> QED BY <2>2, <2>3
<1> QED BY <1>1, <1>3, DeadBy

Filled == \A x \in NVar : dom[x] # {}
InCur(i, a) == npc # "gone" /\ Has(Cur, i, a)
Covered == \A i \in Indexes : \A a \in Left(i) : Dead(dom, i, a) \/ InCur(i, a)
NotSubsumed(d, bs) == \A b \in bs : N!Status(d, b) # "subsumed"
PropInv ==
  /\ ~ngFailed => Filled
  /\ Supported /\ npc \in {"idle", "root", "leaf", "prune", "gone"} /\ ~ngFailed => Covered
  /\ npc = "leaf" /\ ~ngFailed => NotSubsumed(dom, {chain[j] : j \in 1 .. pos - 1})
  /\ npc = "idle" /\ ~ngFailed /\ ~scheduled => NotSubsumed(dom, subs)

(* the path stays *)
LEMMA PathStays ==
  ASSUME ngPath' = ngPath
  PROVE  /\ Supported' = Supported /\ Indexes' = Indexes
         /\ (\A i \in Indexes : \A a \in Left(i) : Dead(dom', i, a) \/ (npc' # "gone" /\ Has(Cur', i, a)))
              => Covered'
BY DEF Supported, Indexes, Covered, InCur, Has, Dead, Left, N!NoGood, N!NonLeaf, N!Literal, N!HasNonLeaf,
       N!HasLiteral

LEMMA HasTail ==
  ASSUME NEW c, Chain(c), c # <<>>, NEW i, NEW a, Has(c, i, a), c[1] # N!Literal(i, a, TRUE)
  PROVE  Has(Tail(c), i, a)
<1>1. PICK j \in DOMAIN c : c[j] = N!Literal(i, a, TRUE)
  BY DEF Has
<1>2. /\ Chain(Tail(c)) /\ Len(c) \in Nat /\ Len(Tail(c)) = Len(c) - 1 /\ DOMAIN c = 1 .. Len(c)
      /\ \A h \in 1 .. Len(c) - 1 : Tail(c)[h] = c[h + 1]
  BY TailIs, ChainIs
<1>5. j # 1
  BY <1>1, Zenon
<1>6. j \in Nat /\ j >= 1 /\ j <= Len(c)
  BY <1>2
<1>3. j - 1 \in 1 .. Len(c) - 1 /\ j - 1 + 1 = j
  BY <1>2, <1>5, <1>6
<1>4. j - 1 \in DOMAIN Tail(c) /\ Tail(c)[j - 1] = c[j]
  BY <1>2, <1>3, ChainIs
<1> QED BY <1>1, <1>4 DEF Has

LEMMA HasRemove ==
  ASSUME NEW c, Chain(c), NEW k \in DOMAIN c, NEW i, NEW a, Has(c, i, a), c[k] # N!Literal(i, a, TRUE)
  PROVE  Has(N!RemoveAt(c, k), i, a)
<1> DEFINE t == N!RemoveAt(c, k)
           n == Len(c)
<1>1. PICK j \in DOMAIN c : c[j] = N!Literal(i, a, TRUE)
  BY DEF Has
<1>2. /\ Chain(t) /\ Len(t) = n - 1 /\ n \in Nat /\ DOMAIN c = 1 .. n
      /\ \A h \in 1 .. k - 1 : t[h] = c[h]
      /\ \A h \in k .. n - 1 : t[h] = c[h + 1]
  BY RemoveIs, ChainIs
<1>3. DOMAIN t = 1 .. n - 1
  BY <1>2, ChainIs
<1> HIDE DEF t, n
<1>4. CASE j < k
  <2>1. j \in DOMAIN t /\ t[j] = c[j]
    BY <1>2, <1>3, <1>4
  <2> QED BY <1>1, <2>1 DEF Has, t
<1>5. CASE j > k
  <2>1. j - 1 \in DOMAIN t /\ t[j - 1] = c[j]
    BY <1>2, <1>3, <1>5
  <2> QED BY <1>1, <2>1 DEF Has, t
<1>6. j # k
  BY <1>1, Zenon
<1> QED BY <1>2, <1>4, <1>5, <1>6 DEF t

LEMMA HasCut ==
  ASSUME NEW c, Chain(c), NEW k \in DOMAIN c, NEW i, NEW a, NEW j \in DOMAIN c, j < k, c[j] = N!Literal(i, a, TRUE)
  PROVE  Has(SubSeq(c, 1, k - 1), i, a)
<1>1. k - 1 \in 0 .. Len(c) /\ j \in 1 .. k - 1
  BY ChainIs
<1>2. /\ Chain(SubSeq(c, 1, k - 1)) /\ Len(SubSeq(c, 1, k - 1)) = k - 1
      /\ \A h \in 1 .. k - 1 : SubSeq(c, 1, k - 1)[h] = c[h]
  BY <1>1, CutChainIs
<1> QED BY <1>1, <1>2, ChainIs DEF Has

(* the root is in every no-good whose leaf is in the chain *)
LEMMA RootIn ==
  ASSUME PathOK, NEW c, Ready(c), NEW i \in Indexes, NEW a \in Left(i), Has(c, i, a)
  PROVE  c[1] \in N!NoGood(i, a) /\ c[1] # N!Literal(i, a, TRUE)
<1>1. PICK j \in DOMAIN c : c[j] = N!Literal(i, a, TRUE)
  BY DEF Has
<1>2. 1 \in DOMAIN c /\ DOMAIN c = 1 .. Len(c) /\ Chain(c) /\ ~c[1].leaf
  BY WatchesIs DEF Ready
<1>3. N!Literal(i, a, TRUE).leaf = TRUE
  BY DEF N!Literal
<1>4. c[1] # N!Literal(i, a, TRUE)
  BY <1>2, <1>3
<1>6. j # 1
  BY <1>1, <1>4, Zenon
<1>5. 1 < j
  BY <1>2, <1>6, ChainIs
<1> QED BY <1>1, <1>2, <1>4, <1>5, NonLeafIn

LEMMA PropInit == N!Init => PropInv
BY PathAssumption DEF N!Init, PropInv, Filled, N!PathAssumption

LEMMA PropPost ==
  ASSUME SubInv, KeepInv, PropInv, N!Post
  PROVE  PropInv'
<1>1. /\ PathOK /\ npc = "post" /\ ngPath' = ngPath /\ dom' = N!Committed /\ ngFailed' = N!Failing(dom')
      /\ dom \in [NVar -> SUBSET NVal]
  BY DEF N!Post, SubInv, KeepInv, Domains
<1>2. ~ngFailed' => Filled'
  BY <1>1 DEF N!Failing, Filled
<1>3. /\ npc' \in {"gone", "idle"}
      /\ npc' = "idle" => scheduled' = TRUE /\ chain' = N!Built /\ Posting
      /\ npc' = "gone" /\ ~ngFailed' => ~Posting \/ N!Built = <<>>
  <2>1. N!FirstUncommitted \in Nat /\ N!Entries \in Nat
    BY <1>1, FirstUncommittedIs, EntriesIs
  <2>2. /\ npc' \in {"gone", "idle"}
        /\ npc' = "idle" => scheduled' = TRUE /\ chain' = N!Built /\ ~(N!FirstUncommitted > N!Entries)
              /\ ~(N!Middle /\ ~ngPath[N!FirstUncommitted].supported)
        /\ npc' = "gone" /\ ~ngFailed' => N!FirstUncommitted > N!Entries
              \/ (N!Middle /\ ~ngPath[N!FirstUncommitted].supported) \/ N!Built = <<>>
    BY DEF N!Post
  <2> QED BY <2>1, <2>2 DEF Posting
<1>4. ASSUME Supported, ~ngFailed', NEW i \in Indexes, NEW a \in Left(i)
      PROVE  Dead(dom', i, a) \/ (npc' # "gone" /\ Has(Cur', i, a))
  <2>1. /\ i \in Nat /\ N!FirstUncommitted \in Nat /\ N!Entries \in Nat /\ i <= N!Entries
        /\ N!TrueAlt(ngPath[i]) > 0
    <3>1. N!TrueAlt(ngPath[i]) > 0
      <4>1. a \in Nat /\ a < N!TrueAlt(ngPath[i]) /\ N!TrueAlt(ngPath[i]) \in Nat
        BY <1>1, NoGoodIs, EdgeIs, AltIs
      <4> QED BY <4>1
    <3> QED BY <1>1, <3>1, EdgeIs, EntriesIs, FirstUncommittedIs
  <2>2. CASE i < N!FirstUncommitted \/ (i = N!FirstUncommitted /\ N!Middle)
    BY <1>1, <1>4, <2>2, CommittedDead
  <2>3. CASE ~(i < N!FirstUncommitted \/ (i = N!FirstUncommitted /\ N!Middle))
    <3>1. Posting /\ i \in From .. N!Entries
      BY <1>1, <1>4, <2>1, <2>3, FirstUncommittedIs DEF Posting, From, Supported
    <3>2. N!Built # <<>> /\ Full(N!Built)
      BY <1>1, <1>4, <3>1, BuiltChain
    <3>3. Has(N!Built, i, a)
      BY <3>1, <3>2 DEF Full, Has, Left
    <3>4. npc' = "idle" /\ Cur' = N!Built
      BY <1>3, <1>4, <3>1, <3>2 DEF Cur
    <3> QED BY <3>3, <3>4
  <2> QED BY <2>2, <2>3
<1>5. Supported' /\ ~ngFailed' => Covered'
  BY <1>1, <1>4, PathStays
<1> QED BY <1>2, <1>3, <1>5 DEF PropInv

LEMMA PropOthers ==
  ASSUME SubInv, KeepInv, PropInv, N!Others
  PROVE  PropInv'
<1>1. /\ UNCHANGED <<ngPath, ngFailed, chain, lits, subs, npc>> /\ npc \in {"idle", "gone"} /\ ~ngFailed
      /\ dom \in [NVar -> SUBSET NVal] /\ PathOK
      /\ scheduled' = (scheduled \/ N!Wakes(dom, dom', subs))
  BY DEF N!Others, KeepInv, Domains, SubInv
<1>20. PICK x \in NVar : \E v \in dom[x] : \E t \in {{v}, dom[x] \ {v}} : t # {} /\ dom' = [dom EXCEPT ![x] = t]
  BY DEF N!Others
<1>2. PICK t \in SUBSET dom[x] : t # {} /\ dom' = [dom EXCEPT ![x] = t]
  BY <1>20
<1>3. Filled /\ Smaller(dom, dom') /\ Filled' /\ dom' \in [NVar -> SUBSET NVal]
  BY <1>1, <1>2 DEF PropInv, Filled, Smaller
<1>4. ASSUME Supported, NEW i \in Indexes, NEW a \in Left(i)
      PROVE  Dead(dom', i, a) \/ (npc' # "gone" /\ Has(Cur', i, a))
  <2>1. Dead(dom, i, a) \/ InCur(i, a)
    BY <1>1, <1>4 DEF PropInv, Covered
  <2> QED BY <1>1, <1>3, <2>1, StaysDead DEF InCur, Cur
<1>5. Supported' => Covered'
  BY <1>1, <1>4, PathStays
<1>6. ASSUME npc = "idle", ~scheduled', NEW b \in subs PROVE N!Status(dom', b) # "subsumed"
  <2>1. ~scheduled /\ ~N!Wakes(dom, dom', subs) /\ N!Status(dom, b) # "subsumed"
    BY <1>1, <1>6 DEF PropInv, NotSubsumed
  <2>2. ~N!Notices(dom, dom', b)
    BY <2>1 DEF N!Wakes
  <2>3. b \in Lit
    <3>1. IdleOK
      BY <1>1, <1>6 DEF SubInv
    <3>2. subs = {chain[j] : j \in {1} \cup Seen(chain, 2)} /\ \A j \in {1} \cup Seen(chain, 2) : j \in DOMAIN chain
      BY <3>1, WatchesIs DEF IdleOK
    <3> QED BY <3>1, <3>2, ChainIs DEF IdleOK, Ready
  <2>4. b.x \in NVar
    BY <1>1, <2>3, LitMeans
  <2>5. dom'[b.x] \subseteq dom[b.x] /\ dom'[b.x] # {}
    BY <1>1, <1>2, <1>3, <2>4 DEF Smaller, Filled
  <2> QED BY <1>1, <1>3, <2>1, <2>2, <2>3, <2>5, KnownIsNoticed
<1> QED BY <1>1, <1>3, <1>5, <1>6 DEF PropInv, NotSubsumed

(* what covers the no-goods of a path that is supported *)
LEMMA CoveredBefore ==
  ASSUME PropInv, Supported, ~ngFailed, npc \in {"idle", "root", "leaf", "prune"},
         NEW i \in Indexes, NEW a \in Left(i)
  PROVE  Dead(dom, i, a) \/ Has(Cur, i, a)
BY DEF PropInv, Covered, InCur

LEMMA LeavesDiffer ==
  \A b, i, a : ~b.leaf => b # N!Literal(i, a, TRUE)
BY DEF N!Literal

LEMMA AllFalse ==
  ASSUME NEW b, N!Status(dom, b) = "failed"
  PROVE  \A w \in dom[b.x] : ~N!Allows(b, w)
BY StatusIs

LEMMA PrunedIsSmaller ==
  ASSUME dom \in [NVar -> SUBSET NVal], NEW b, b.x \in NVar
  PROVE  Smaller(dom, N!Pruned(dom, b)) /\ \A w \in N!Pruned(dom, b)[b.x] : ~N!Allows(b, w)
<1>1. ASSUME NEW x \in NVar PROVE N!Pruned(dom, b)[x] \subseteq dom[x]
  <2>1. CASE x = b.x
    BY <2>1, PrunedIs
  <2>2. CASE x # b.x
    BY <2>2, PrunedIs
  <2> QED BY <2>1, <2>2
<1>2. N!Pruned(dom, b)[b.x] = {w \in dom[b.x] : ~N!Allows(b, w)}
  BY PrunedIs
<1> QED BY <1>1, <1>2 DEF Smaller

LEMMA FailingIs ==
  ASSUME dom' \in [NVar -> SUBSET NVal], ~N!Failing(dom')
  PROVE  Filled'
BY DEF Filled, N!Failing

LEMMA PropRoot ==
  ASSUME SubInv, KeepInv, PropInv, N!CallPropagate \/ N!RootFailed \/ N!RootSubsumed \/ N!RootNone
  PROVE  PropInv'
<1>1. /\ PathOK /\ ~ngFailed /\ npc \in {"idle", "root"} /\ UNCHANGED <<ngPath, ngFailed, dom>>
      /\ npc' \in {"root", "gone", "prune", "leaf"}
      /\ npc = "root" => \/ npc' = "gone" /\ N!Status(dom, chain[1]) = "failed"
                         \/ npc' = "prune" /\ lits' = Tail(chain)
                         \/ npc' = "leaf" /\ chain' = chain /\ pos' = 2 /\ N!Status(dom, chain[1]) = "none"
      /\ npc = "idle" => npc' = "root" /\ chain' = chain
  <2>1. CASE N!CallPropagate
    BY <2>1 DEF N!CallPropagate, N!At, N!kept, SubInv
  <2>2. CASE N!RootFailed
    BY <2>2 DEF N!RootFailed, N!At, N!kept, SubInv, N!Subsumed
  <2>3. CASE N!RootSubsumed
    BY <2>3 DEF N!RootSubsumed, N!At, N!kept, SubInv
  <2>4. CASE N!RootNone
    BY <2>4 DEF N!RootNone, N!At, N!kept, SubInv
  <2> QED BY <2>1, <2>2, <2>3, <2>4
<1>2. IdleOK /\ Ready(chain) /\ Chain(chain) /\ chain # <<>> /\ ~chain[1].leaf
  BY <1>1 DEF SubInv, IdleOK, Ready
<1>3. ASSUME Supported, NEW i \in Indexes, NEW a \in Left(i)
      PROVE  Dead(dom', i, a) \/ (npc' # "gone" /\ Has(Cur', i, a))
  <2>1. CASE Dead(dom, i, a)
    BY <1>1, <2>1
  <2>2. CASE Has(chain, i, a)
    <3>1. CASE npc' = "gone"
      <4>1. chain[1] \in N!NoGood(i, a)
        BY <1>1, <1>2, <2>2, RootIn
      <4>2. \A w \in dom'[chain[1].x] : ~N!Allows(chain[1], w)
        BY <1>1, <3>1, AllFalse
      <4> QED BY <4>1, <4>2, DeadBy
    <3>2. CASE npc' = "prune"
      <4>1. Has(Tail(chain), i, a)
        BY <1>2, <2>2, HasTail, LeavesDiffer
      <4> QED BY <1>1, <3>2, <4>1 DEF Cur
    <3>3. CASE npc' \in {"root", "leaf"}
      BY <1>1, <2>2, <3>3 DEF Cur
    <3> QED BY <1>1, <3>1, <3>2, <3>3
  <2> QED BY <1>1, <1>3, <2>1, <2>2, CoveredBefore DEF Cur
<1>4. Supported' => Covered'
  BY <1>1, <1>3, PathStays
<1>5. npc' = "leaf" => NotSubsumed(dom, {chain[j] : j \in 1 .. pos - 1})'
  <2>1. 1 .. 2 - 1 = {1}
    OBVIOUS
  <2>2. ASSUME npc' = "leaf" PROVE pos' = 2 /\ chain' = chain /\ dom' = dom /\ N!Status(dom, chain[1]) # "subsumed"
    BY <1>1, <2>2
  <2> QED BY <2>1, <2>2 DEF NotSubsumed
<1>6. Filled'
  BY <1>1 DEF PropInv, Filled
<1> QED BY <1>1, <1>4, <1>5, <1>6 DEF PropInv

LEMMA PropPrune ==
  ASSUME SubInv, KeepInv, PropInv, N!PruneLeaf \/ N!NothingLeft \/ N!NewRoot
  PROVE  PropInv'
<1>1. /\ PathOK /\ ~ngFailed /\ npc = "prune" /\ ngPath' = ngPath /\ npc' \in {"prune", "gone", "root"}
      /\ dom \in [NVar -> SUBSET NVal]
  BY DEF N!PruneLeaf, N!NothingLeft, N!NewRoot, N!At, N!kept, N!Subsumed, SubInv, KeepInv, Domains
<1>2. Chain(lits)
  BY <1>1 DEF SubInv, PruneOK
<1>3. CASE N!NothingLeft \/ N!NewRoot
  <2>1. /\ UNCHANGED <<dom, ngFailed>>
        /\ (npc' = "gone" /\ lits = <<>>) \/ (npc' = "root" /\ chain' = lits)
    BY <1>3 DEF N!NothingLeft, N!NewRoot, N!kept, N!Subsumed
  <2>2. ASSUME Supported, NEW i \in Indexes, NEW a \in Left(i)
        PROVE  Dead(dom', i, a) \/ (npc' # "gone" /\ Has(Cur', i, a))
    <3>1. Dead(dom, i, a) \/ Has(lits, i, a)
      BY <1>1, <2>2, CoveredBefore DEF Cur
    <3>2. lits = <<>> => ~Has(lits, i, a)
      BY DEF Has
    <3> QED BY <2>1, <3>1, <3>2 DEF Cur
  <2>3. Supported' => Covered'
    BY <1>1, <2>2, PathStays
  <2> QED BY <1>1, <2>1, <2>3 DEF PropInv, Filled
<1>4. CASE N!PruneLeaf
  <2>1. /\ npc' = "prune" /\ lits # <<>> /\ lits[1].leaf
        /\ dom' = N!Pruned(dom, lits[1]) /\ ngFailed' = N!Failing(dom')
        /\ ~ngFailed' => lits' = Tail(lits)
    BY <1>1, <1>4 DEF N!PruneLeaf, N!Prune
  <2>2. lits[1].x \in NVar
    <3>1. 1 \in DOMAIN lits
      BY <1>2, <2>1 DEF Chain
    <3> QED BY <1>1, <1>2, <3>1, ChainIs, LitMeans
  <2>3. Smaller(dom, dom') /\ \A w \in dom'[lits[1].x] : ~N!Allows(lits[1], w)
    BY <1>1, <2>1, <2>2, PrunedIsSmaller
  <2>4. ASSUME Supported, ~ngFailed', NEW i \in Indexes, NEW a \in Left(i)
        PROVE  Dead(dom', i, a) \/ (npc' # "gone" /\ Has(Cur', i, a))
    <3>1. CASE Dead(dom, i, a)
      BY <1>1, <2>3, <3>1, StaysDead
    <3>2. CASE lits[1] = N!Literal(i, a, TRUE)
      BY <1>1, <2>3, <3>2, NoGoodIs, DeadBy
    <3>3. CASE Has(lits, i, a) /\ lits[1] # N!Literal(i, a, TRUE)
      <4>1. Has(Tail(lits), i, a)
        BY <1>2, <2>1, <3>3, HasTail
      <4> QED BY <2>1, <2>4, <4>1 DEF Cur
    <3> QED BY <1>1, <2>4, <3>1, <3>2, <3>3, CoveredBefore DEF Cur
  <2>5. Supported' /\ ~ngFailed' => Covered'
    BY <1>1, <2>4, PathStays
  <2>6. ~ngFailed' => Filled'
    BY <1>1, <2>1, <2>2, PrunedIs, FailingIs
  <2> QED BY <2>1, <2>5, <2>6 DEF PropInv
<1> QED BY <1>3, <1>4

LEMMA PropLeaf ==
  ASSUME SubInv, KeepInv, PropInv, N!LeafSubsumed \/ N!LeafFailed \/ N!LeafNone
  PROVE  PropInv'
<1>1. /\ PathOK /\ ~ngFailed /\ npc = "leaf" /\ ngPath' = ngPath /\ npc' \in {"leaf", "gone"}
      /\ dom \in [NVar -> SUBSET NVal] /\ pos <= Len(chain) /\ chain[pos].leaf
  BY DEF N!LeafSubsumed, N!LeafFailed, N!LeafNone, N!Leaf, N!At, N!kept, N!Subsumed, SubInv, KeepInv, Domains
<1>2. IdleOK /\ LeafOK /\ Ready(chain) /\ Chain(chain) /\ AtLiteral(chain, pos)
  BY <1>1, LeafAt DEF SubInv, IdleOK, Ready
<1>3. pos \in DOMAIN chain /\ pos \in Nat /\ pos >= 2 /\ 1 \in DOMAIN chain
  BY <1>2, AtLiteralIs, WatchesIs
<1>4. NotSubsumed(dom, {chain[j] : j \in 1 .. pos - 1})
  BY <1>1 DEF PropInv
<1>5. CASE N!LeafSubsumed
  <2>1. /\ dom' = N!Pruned(dom, chain[1]) /\ ngFailed' = N!Failing(dom')
        /\ ~ngFailed' => npc' = "gone"
    BY <1>5 DEF N!LeafSubsumed, N!Subsumed
  <2>2. chain[1].x \in NVar
    BY <1>1, <1>2, <1>3, ChainIs, LitMeans
  <2>3. Smaller(dom, dom') /\ \A w \in dom'[chain[1].x] : ~N!Allows(chain[1], w)
    BY <1>1, <2>1, <2>2, PrunedIsSmaller
  <2>4. ASSUME Supported, NEW i \in Indexes, NEW a \in Left(i)
        PROVE  Dead(dom', i, a) \/ (npc' # "gone" /\ Has(Cur', i, a))
    <3>1. CASE Dead(dom, i, a)
      BY <1>1, <2>3, <3>1, StaysDead
    <3>2. CASE Has(chain, i, a)
      BY <1>1, <1>2, <2>3, <3>2, RootIn, DeadBy
    <3> QED BY <1>1, <2>4, <3>1, <3>2, CoveredBefore DEF Cur
  <2>5. Supported' /\ ~ngFailed' => Covered'
    BY <1>1, <2>4, PathStays
  <2>6. ~ngFailed' => Filled'
    BY <1>1, <2>1, <2>2, PrunedIs, FailingIs
  <2> QED BY <2>1, <2>5, <2>6 DEF PropInv
<1>6. CASE N!LeafFailed
  <2>1. /\ UNCHANGED <<dom, ngFailed>> /\ npc' = "leaf" /\ pos' = pos
        /\ chain' = N!RemoveAt(chain, pos) /\ N!Status(dom, chain[pos]) = "failed"
    BY <1>1, <1>6 DEF N!LeafFailed
  <2>2. ASSUME Supported, NEW i \in Indexes, NEW a \in Left(i)
        PROVE  Dead(dom', i, a) \/ (npc' # "gone" /\ Has(Cur', i, a))
    <3>1. CASE Dead(dom, i, a)
      BY <2>1, <3>1
    <3>2. CASE chain[pos] = N!Literal(i, a, TRUE)
      BY <1>1, <2>1, <3>2, NoGoodIs, DeadBy, AllFalse
    <3>3. CASE Has(chain, i, a) /\ chain[pos] # N!Literal(i, a, TRUE)
      <4>1. Has(N!RemoveAt(chain, pos), i, a)
        BY <1>2, <1>3, <3>3, HasRemove
      <4> QED BY <2>1, <4>1 DEF Cur
    <3> QED BY <1>1, <2>2, <3>1, <3>2, <3>3, CoveredBefore DEF Cur
  <2>3. Supported' => Covered'
    BY <1>1, <2>2, PathStays
  <2>4. \A j \in 1 .. pos - 1 : chain'[j] = chain[j]
    BY <1>2, <1>3, <2>1, RemoveIs
  <2>5. NotSubsumed(dom, {chain[j] : j \in 1 .. pos - 1})'
    BY <1>4, <2>1, <2>4 DEF NotSubsumed
  <2> QED BY <2>1, <2>3, <2>5 DEF PropInv, Filled
<1>7. CASE N!LeafNone
  <2>1. /\ UNCHANGED <<dom, ngFailed, chain>> /\ npc' = "leaf" /\ pos' = pos + 1
        /\ N!Status(dom, chain[pos]) = "none"
    BY <1>1, <1>7 DEF N!LeafNone
  <2>2. ASSUME Supported, NEW i \in Indexes, NEW a \in Left(i)
        PROVE  Dead(dom', i, a) \/ (npc' # "gone" /\ Has(Cur', i, a))
    BY <1>1, <2>1, <2>2, CoveredBefore DEF Cur
  <2>3. Supported' => Covered'
    BY <1>1, <2>2, PathStays
  <2>4. \A j \in 1 .. pos' - 1 : j = pos \/ j \in 1 .. pos - 1
    BY <1>3, <2>1
  <2>5. NotSubsumed(dom, {chain[j] : j \in 1 .. pos - 1})'
    BY <1>4, <2>1, <2>4 DEF NotSubsumed
  <2> QED BY <2>1, <2>3, <2>5 DEF PropInv, Filled
<1> QED BY <1>5, <1>6, <1>7

LEMMA PropSubtree ==
  ASSUME SubInv, KeepInv, PropInv, N!SubtreeFailed \/ N!SubtreeSubsumed
  PROVE  PropInv'
<1>1. /\ PathOK /\ ~ngFailed /\ npc = "leaf" /\ npc' = "idle" /\ UNCHANGED <<ngPath, dom, ngFailed>>
      /\ pos <= Len(chain) /\ ~chain[pos].leaf
  BY DEF N!SubtreeFailed, N!SubtreeSubsumed, N!Subtree, N!At, N!kept, SubInv
<1>2. IdleOK /\ LeafOK /\ Ready(chain) /\ Chain(chain) /\ AtLiteral(chain, pos) /\ subs = Watches(chain)
  BY <1>1, LeafAt DEF SubInv, IdleOK, Ready
<1>3. /\ pos \in DOMAIN chain /\ pos \in Nat /\ pos >= 2
      /\ Watches(chain) \ {chain[pos]} = {chain[j] : j \in ({1} \cup Seen(chain, 2)) \ {pos}}
      /\ Seen(chain, 2) = 2 .. pos
  BY <1>1, <1>2, AtLiteralIs
<1>4. NotSubsumed(dom, {chain[j] : j \in 1 .. pos - 1})
  BY <1>1 DEF PropInv
<1>5. NotSubsumed(dom, subs \ {chain[pos]})
  <2>1. ({1} \cup Seen(chain, 2)) \ {pos} = 1 .. pos - 1
    BY <1>3
  <2> QED BY <1>2, <1>3, <1>4, <2>1
<1>6. CASE N!SubtreeFailed
  <2>1. /\ chain' = SubSeq(chain, 1, pos - 1) /\ subs' = subs \ {chain[pos]}
        /\ N!Status(dom, chain[pos]) = "failed"
    BY <1>6 DEF N!SubtreeFailed, N!Cancel
  <2>2. ASSUME Supported, NEW i \in Indexes, NEW a \in Left(i)
        PROVE  Dead(dom', i, a) \/ (npc' # "gone" /\ Has(Cur', i, a))
    <3>1. CASE Dead(dom, i, a)
      BY <1>1, <3>1
    <3>2. CASE Has(chain, i, a)
      <4>1. PICK j \in DOMAIN chain : chain[j] = N!Literal(i, a, TRUE)
        BY <3>2 DEF Has
      <4>2. chain[pos] # N!Literal(i, a, TRUE)
        BY <1>1, LeavesDiffer
      <4>3. j # pos
        BY <4>1, <4>2, Zenon
      <4>4. j \in Nat
        BY <1>2, ChainIs
      <4>5. CASE j < pos
        BY <1>1, <1>2, <1>3, <2>1, <4>1, <4>5, HasCut DEF Cur
      <4>6. CASE pos < j
        <5>1. chain[pos] \in N!NoGood(i, a)
          BY <1>1, <1>2, <1>3, <4>1, <4>6, NonLeafIn
        <5> QED BY <1>1, <2>1, <5>1, DeadBy, AllFalse
      <4> QED BY <1>3, <4>3, <4>4, <4>5, <4>6
    <3> QED BY <1>1, <2>2, <3>1, <3>2, CoveredBefore DEF Cur
  <2>3. Supported' => Covered'
    BY <1>1, <2>2, PathStays
  <2> QED BY <1>1, <1>5, <2>1, <2>3 DEF PropInv, Filled
<1>7. CASE N!SubtreeSubsumed
  <2> DEFINE new == N!Watched(N!RemoveAt(chain, pos), pos)
  <2>1. /\ chain' = N!RemoveAt(chain, pos) /\ subs' = (subs \ {chain[pos]}) \cup new
        /\ scheduled' = (scheduled \/ new # {})
    BY <1>7 DEF N!SubtreeSubsumed
  <2>2. ASSUME Supported, NEW i \in Indexes, NEW a \in Left(i)
        PROVE  Dead(dom', i, a) \/ (npc' # "gone" /\ Has(Cur', i, a))
    <3>1. CASE Has(chain, i, a)
      <4>1. Has(N!RemoveAt(chain, pos), i, a)
        BY <1>1, <1>2, <1>3, <3>1, HasRemove, LeavesDiffer
      <4> QED BY <1>1, <2>1, <4>1 DEF Cur
    <3> QED BY <1>1, <2>2, <3>1, CoveredBefore DEF Cur
  <2>3. Supported' => Covered'
    BY <1>1, <2>2, PathStays
  <2>4. ~scheduled' => subs' = subs \ {chain[pos]}
    BY <2>1
  <2> QED BY <1>1, <1>5, <2>3, <2>4 DEF PropInv, Filled
<1> QED BY <1>6, <1>7

LEMMA PropFinished ==
  ASSUME SubInv, KeepInv, PropInv, N!Finished
  PROVE  PropInv'
<1>1. /\ PathOK /\ ~ngFailed /\ npc = "leaf" /\ npc' = "idle" /\ UNCHANGED <<ngPath, dom, ngFailed, chain, subs>>
      /\ pos <= Len(chain) => ~chain[pos].leaf /\ N!Status(dom, chain[pos]) = "none"
  BY DEF N!Finished, N!At, N!kept, SubInv
<1>2. IdleOK /\ LeafOK /\ Ready(chain) /\ Chain(chain) /\ subs = Watches(chain)
  BY <1>1 DEF SubInv, IdleOK, Ready
<1>3. /\ Len(chain) \in Nat /\ pos \in Nat /\ pos >= 2 /\ pos <= Len(chain) + 1
      /\ subs = {chain[j] : j \in {1} \cup Seen(chain, 2)} /\ Seen(chain, 2) \subseteq 2 .. Len(chain)
  BY <1>2, WatchesIs DEF LeafOK
<1>4. NotSubsumed(dom, {chain[j] : j \in 1 .. pos - 1})
  BY <1>1 DEF PropInv
<1>5. ASSUME NEW j \in {1} \cup Seen(chain, 2) PROVE N!Status(dom, chain[j]) # "subsumed"
  <2>1. j \in Nat /\ j >= 1 /\ (j <= Len(chain) \/ j = 1)
    BY <1>3
  <2>2. CASE j < pos
    <3>1. j \in 1 .. pos - 1
      BY <1>3, <2>1, <2>2
    <3> QED BY <1>4, <3>1 DEF NotSubsumed
  <2>3. CASE ~(j < pos)
    <3>1. j \in Seen(chain, 2) /\ pos <= Len(chain)
      BY <1>3, <2>1, <2>3
    <3>2. ~chain[pos].leaf /\ N!Status(dom, chain[pos]) = "none"
      BY <1>1, <3>1
    <3>3. ~(pos \in 2 .. j - 1)
      BY <3>1, <3>2 DEF Seen
    <3>4. j = pos
      BY <1>3, <2>1, <2>3, <3>3
    <3> QED BY <3>2, <3>4
  <2> QED BY <2>2, <2>3
<1>6. NotSubsumed(dom', subs')
  BY <1>1, <1>3, <1>5 DEF NotSubsumed
<1>7. ASSUME Supported, NEW i \in Indexes, NEW a \in Left(i)
      PROVE  Dead(dom', i, a) \/ (npc' # "gone" /\ Has(Cur', i, a))
  BY <1>1, <1>7, CoveredBefore DEF Cur
<1>8. Supported' => Covered'
  BY <1>1, <1>7, PathStays
<1> QED BY <1>1, <1>6, <1>8 DEF PropInv, Filled

LEMMA PropNext ==
  ASSUME SubInv, KeepInv, PropInv, N!Next
  PROVE  PropInv'
<1>1. CASE N!DeleteSpace
  BY <1>1 DEF N!DeleteSpace, PropInv
<1> QED BY <1>1, PropOthers, PropPost, PropRoot, PropPrune, PropLeaf, PropSubtree, PropFinished DEF N!Next

LEMMA PropHolds ==
  ASSUME SubInv, KeepInv, PropInv
  PROVE  N!NoGoodsPropagated
<1> SUFFICES ASSUME npc \in {"idle", "gone"}, ~ngFailed, ~scheduled, Supported,
                    NEW i \in Indexes, NEW a \in Left(i)
             PROVE  \E b \in N!NoGood(i, a) :
                      \/ N!Status(dom, b) = "failed"
                      \/ N!Status(dom, b) = "none"
                         /\ \E c \in N!NoGood(i, a) : c # b /\ N!Status(dom, c) # "subsumed"
  BY DEF N!NoGoodsPropagated, Supported, Indexes, Left
<1>1. PathOK /\ Filled /\ (Dead(dom, i, a) \/ InCur(i, a))
  BY DEF SubInv, PropInv, Covered
<1>2. CASE Dead(dom, i, a)
  <2>1. PICK b \in N!NoGood(i, a) : \A w \in dom[b.x] : ~N!Allows(b, w)
    BY <1>2 DEF Dead
  <2>2. dom[b.x] # {}
    BY <1>1, NoGoodIs DEF Filled
  <2>3. N!Status(dom, b) = "failed"
    BY <2>1, <2>2, StatusIs
  <2> QED BY <2>3
<1>3. CASE InCur(i, a)
  <2>1. npc = "idle" /\ Has(chain, i, a)
    BY <1>3 DEF InCur, Cur
  <2>2. /\ Ready(chain) /\ Chain(chain) /\ subs = Watches(chain) /\ NotSubsumed(dom, subs)
    BY <2>1 DEF SubInv, IdleOK, Ready, PropInv
  <2>3. /\ subs = {chain[j] : j \in {1} \cup Seen(chain, 2)} /\ DOMAIN chain = 1 .. Len(chain)
        /\ Len(chain) \in Nat
    BY <2>2, WatchesIs
  <2>4. chain[1] \in N!NoGood(i, a) /\ chain[1] # N!Literal(i, a, TRUE)
    BY <1>1, <2>1, <2>2, RootIn
  <2>5. PICK j \in DOMAIN chain : chain[j] = N!Literal(i, a, TRUE)
    BY <2>1 DEF Has
  <2>6. j \in Nat /\ j >= 2 /\ j <= Len(chain)
    <3>1. j # 1
      BY <2>4, <2>5, Zenon
    <3> QED BY <2>3, <3>1
  <2>7. \E q \in Seen(chain, 2) : chain[q] \in N!NoGood(i, a) /\ q \in 2 .. Len(chain)
    <3>1. CASE \A h \in 2 .. j - 1 : chain[h].leaf
      <4>1. j \in Seen(chain, 2)
        BY <2>3, <2>6, <3>1 DEF Seen
      <4>2. chain[j] \in N!NoGood(i, a)
        BY <1>1, <2>5, NoGoodIs
      <4> QED BY <2>6, <4>1, <4>2
    <3>2. CASE \E h \in 2 .. j - 1 : ~chain[h].leaf
      <4> DEFINE T == {h \in 2 .. j - 1 : ~chain[h].leaf}
      <4>1. T \in SUBSET Nat /\ T # {}
        BY <3>2
      <4>2. PICK q \in T : \A h \in T : q <= h
        BY <4>1, HasLeast
      <4>3. q \in Nat /\ q >= 2 /\ q < j /\ ~chain[q].leaf
        BY <2>6
      <4>4. \A h \in 2 .. q - 1 : chain[h].leaf
        BY <2>6, <4>2, <4>3
      <4> HIDE DEF T
      <4>5. q \in Seen(chain, 2) /\ q \in DOMAIN chain /\ q \in 2 .. Len(chain)
        BY <2>3, <2>6, <4>3, <4>4 DEF Seen
      <4>6. chain[q] \in N!NoGood(i, a)
        BY <1>1, <2>2, <2>5, <4>3, <4>5, NonLeafIn
      <4> QED BY <4>5, <4>6
    <3> QED BY <3>1, <3>2
  <2>8. PICK q \in Seen(chain, 2) : chain[q] \in N!NoGood(i, a) /\ q \in 2 .. Len(chain)
    BY <2>7
  <2>9. q \in DOMAIN chain /\ 1 \in DOMAIN chain /\ q # 1
    BY <2>3, <2>8
  <2>10. chain[q] # chain[1]
    BY <2>2, <2>9, ChainIs
  <2>11. N!Status(dom, chain[1]) # "subsumed" /\ N!Status(dom, chain[q]) # "subsumed"
    BY <2>2, <2>3 DEF NotSubsumed
  <2>12. N!Status(dom, chain[1]) = "failed" \/ N!Status(dom, chain[1]) = "none"
    BY <2>11, StatusIs
  <2> QED BY <2>4, <2>8, <2>10, <2>11, <2>12
<1> QED BY <1>1, <1>2, <1>3

(* At fixpoint no no-good is violated or has a single literal left. *)
THEOREM AllIsPruned == N!Spec => []N!NoGoodsPropagated
<1> DEFINE Inv == SubInv /\ KeepInv /\ PropInv
<1>1. N!Init => Inv
  BY SubInvInit, KeepInit, PropInit
<1>2. Inv /\ [N!Next]_(N!vars) => Inv'
  <2>1. ASSUME PropInv, UNCHANGED N!vars PROVE PropInv'
    <3>1. UNCHANGED <<ngPath, dom, ngFailed, chain, lits, pos, subs, scheduled, npc>>
      BY <2>1 DEF N!vars, N!space
    <3>2. Covered => Covered'
      BY <3>1, PathStays DEF Covered, InCur, Cur
    <3> QED BY <2>1, <3>1, <3>2, PathStays DEF PropInv, Filled, NotSubsumed
  <2> QED BY <2>1, StutterKeeps, SubInvNext, KeepNext, PropNext
<1>3. Inv => N!NoGoodsPropagated
  BY PropHolds
<1> QED BY <1>1, <1>2, <1>3, PTL DEF N!Spec

-----------------------------------------------------------------------------
(* Cloning. *)

SourceType ==
  [pl : Seq(CPropagator), bl : Seq(CBrancher), prev : [C!Link -> {"own", "copy", "null"}],
   forwarding : [CPropagator -> BOOLEAN], council : [CPropagator -> SUBSET Advisor],
   base : [CVar -> {"null", "array", "copy"}], index : [CVar -> {"own", "next"}],
   subscribed : [CVar -> SUBSET (CPropagator \cup Advisor)], noticed : SUBSET C!Actor]

CloneType ==
  [pl : Seq(CPropagator), bl : Seq(CBrancher), local : Seq(Local),
   vars_u : SUBSET CVar, vars_noidx : SUBSET CVar, partial : BOOLEAN,
   base : [CVar -> {"null", "array", "shared"}],
   subscribed : [CVar -> SUBSET (CPropagator \cup Advisor)],
   advisors : [CPropagator -> Seq(Advisor)], noticed : SUBSET C!Actor]

IsVar(m, v) == m.kind = "var" /\ m.of = v
Distinct(q) == \A i, j \in DOMAIN q : q[i] = q[j] => i = j
InPl(s) == {s.pl[j] : j \in DOMAIN s.pl}
InBl(s) == {s.bl[j] : j \in DOMAIN s.bl}
InLocal(c) == {c.local[j] : j \in DOMAIN c.local}
Advisors(p) == {Council(p)[j] : j \in DOMAIN Council(p)}
Elements(q) == {q[j] : j \in DOMAIN q}
Copied(c, p) == {c.advisors[p][j] : j \in DOMAIN c.advisors[p]}
Updates(p, v) == \E j \in DOMAIN Members(p) : IsVar(Members(p)[j], v)

(* A space that is not being cloned: no forwarding pointers, the advisors in a chained are
   those of a propagator in the space, and who is subscribed is in it. *)
Original(s) ==
  /\ s \in SourceType /\ Distinct(s.pl) /\ Distinct(s.bl)
  /\ \A a \in C!Actor : s.prev[a] = "own"
  /\ \A l \in Local : s.prev[l] = "null"
  /\ \A a \in Advisor : s.prev[a] # "copy"
  /\ \A p \in CPropagator : /\ s.forwarding[p] = FALSE /\ s.council[p] \subseteq Advisors(p)
                            /\ p \notin InPl(s) => s.council[p] = {}
  /\ \A v \in CVar : /\ s.base[v] # "copy" /\ s.index[v] = "own"
                     /\ s.base[v] = "null" => s.subscribed[v] = {}
                     /\ \A l \in s.subscribed[v] :
                          \E p \in InPl(s) : (l = p \/ l \in C!Live(s, p)) /\ Updates(p, v)
  /\ s.noticed \subseteq InPl(s) \cup InBl(s)

(* The original s while its clone c is made, when it was b before; the copies of the
   actors in k have been started. *)
Registered(c) == c.vars_u \cup c.vars_noidx
Links(s, c, b, k) ==
  /\ \A a \in C!Actor : s.prev[a] = IF a \in k THEN "copy" ELSE "own"
  /\ \A l \in Local : s.prev[l] = IF l \in InLocal(c) THEN "copy" ELSE "null"
  /\ \A a \in Advisor :
       s.prev[a] = IF \E p \in CPropagator : a \in Copied(c, p) THEN "copy" ELSE b.prev[a]
Councils(s, c, b, k) ==
  \A p \in CPropagator :
    /\ s.forwarding[p] => p \in k
    /\ ~s.forwarding[p] => c.advisors[p] = <<>>
    /\ s.council[p] \subseteq b.council[p] /\ C!Live(b, p) \subseteq s.council[p]
    /\ Copied(c, p) \subseteq C!Live(b, p) /\ C!Reversed(p, c.advisors[p])
    /\ \A a \in Copied(c, p), d \in s.council[p] \ Copied(c, p) : C!Before(p, a, d)
Variables(s, c, b) ==
  \A v \in CVar :
    /\ v \in c.vars_u => b.base[v] = "array" /\ v \notin c.vars_noidx
    /\ v \in c.vars_noidx => b.base[v] = "null"
    /\ s.base[v] = IF v \in Registered(c) THEN "copy" ELSE b.base[v]
    /\ s.index[v] = IF v \in Registered(c) THEN "next" ELSE "own"
Copying(s, c, b, k) ==
  /\ s \in SourceType /\ c \in CloneType /\ c.partial
  /\ s.pl = b.pl /\ s.bl = b.bl /\ s.noticed = b.noticed /\ s.subscribed = b.subscribed
  /\ k \subseteq InPl(b) \cup InBl(b)
  /\ Links(s, c, b, k) /\ Councils(s, c, b, k) /\ Variables(s, c, b)

(* unless the council of p is being copied, its chain is what has been copied *)
AllCopied(s, c, p) == s.forwarding[p] => s.council[p] = Copied(c, p)

LEMMA ActorsAre ==
  /\ IsFiniteSet(CPropagator) /\ IsFiniteSet(CBrancher) /\ Noticed \subseteq C!Actor
  /\ CPropagator \cap CBrancher = {} /\ Advisor \cap C!Actor = {}
  /\ Local \cap (C!Actor \cup Advisor) = {}
  /\ C!Actor = CPropagator \cup CBrancher /\ C!Link = C!Actor \cup Advisor \cup Local
  /\ \A p \in CPropagator :
       /\ Advisors(p) \subseteq Advisor
       /\ \A q \in CPropagator : p # q => Advisors(p) \cap Advisors(q) = {}
       /\ Advisors(p) # {} => \E j \in DOMAIN Members(p) : Members(p)[j].kind = "council"
  /\ SpaceMembers \in Seq(C!Datum)
  /\ \A a \in C!Actor :
       /\ Members(a) \in Seq(C!Member(a))
       /\ \A j, h \in DOMAIN Members(a) :
            Members(a)[j].kind = "council" /\ Members(a)[h].kind = "council" => j = h
  /\ \A v \in CVar : \A l \in Subscribed(v) :
       \E p \in CPropagator : (l = p \/ l \in Advisors(p)) /\ Updates(p, v)
<1>1. \A p \in CPropagator :
        /\ Advisors(p) \subseteq Advisor
        /\ \A q \in CPropagator : p # q => Advisors(p) \cap Advisors(q) = {}
        /\ Advisors(p) # {} => \E j \in DOMAIN Members(p) : Members(p)[j].kind = "council"
  <2>1. \A p \in CPropagator : Advisors(p) = C!Range(Council(p))
    BY DEF Advisors, C!Range
  <2>2. \A p \in CPropagator : Council(p) \in Seq(Advisor) /\ Advisors(p) \subseteq Advisor
    BY ActorsAssumption DEF C!ActorsAssumption, Advisors
  <2>3. \A p \in CPropagator : Advisors(p) # {} => Council(p) # <<>>
    BY <2>2 DEF Advisors
  <2> QED BY <2>1, <2>2, <2>3, ActorsAssumption DEF C!ActorsAssumption
<1>2. \A v \in CVar : \A l \in Subscribed(v) :
        \E p \in CPropagator : (l = p \/ l \in Advisors(p)) /\ Updates(p, v)
  <2>1. \A p \in CPropagator : Advisors(p) = C!Range(Council(p))
    BY DEF Advisors, C!Range
  <2>2. \A p \in CPropagator, v \in CVar :
          (\E j \in DOMAIN Members(p) : Members(p)[j] = [kind |-> "var", of |-> v]) => Updates(p, v)
    BY DEF Updates, IsVar
  <2>3. \A v \in CVar : \A l \in Subscribed(v) :
          \E p \in CPropagator :
            /\ l = p \/ l \in C!Range(Council(p))
            /\ \E j \in DOMAIN Members(p) : Members(p)[j] = [kind |-> "var", of |-> v]
    BY ActorsAssumption DEF C!ActorsAssumption
  <2> QED BY <2>1, <2>2, <2>3
<1>3. IsFiniteSet(CPropagator) /\ IsFiniteSet(CBrancher)
  BY ActorsAssumption DEF C!ActorsAssumption, C!IsFiniteSet, IsFiniteSet
<1> QED BY <1>1, <1>2, <1>3, ActorsAssumption DEF C!ActorsAssumption, C!Actor, C!Link

-----------------------------------------------------------------------------
(* Copying *)

LEMMA CopyVarOK ==
  ASSUME NEW s, NEW c, NEW b, NEW k, Original(b), Copying(s, c, b, k), NEW v \in CVar,
         NEW t, NEW d, C!CopyVar(s, c, v) = [s |-> t, c |-> d]
  PROVE  /\ Copying(t, d, b, k) /\ Registered(d) = Registered(c) \cup {v}
         /\ d.pl = c.pl /\ d.bl = c.bl /\ d.local = c.local /\ d.advisors = c.advisors
         /\ t.forwarding = s.forwarding /\ t.council = s.council
<1> USE DEF Copying
<1>1. CASE s.base[v] = "copy"
  <2>1. t = s /\ d = c
    BY <1>1 DEF C!CopyVar
  <2>2. v \in Registered(c)
    BY <1>1 DEF Variables, Original
  <2> QED BY <2>1, <2>2
<1>2. CASE s.base[v] # "copy"
  <2>1. t = [s EXCEPT !.base[v] = "copy", !.index[v] = "next"]
    BY <1>2 DEF C!CopyVar
  <2>2. d = IF s.base[v] = "null" THEN [c EXCEPT !.vars_noidx = @ \cup {v}]
            ELSE [c EXCEPT !.vars_u = @ \cup {v}, !.base[v] = "shared"]
    BY <1>2 DEF C!CopyVar
  <2>3. /\ t \in SourceType /\ t.pl = s.pl /\ t.bl = s.bl /\ t.noticed = s.noticed
        /\ t.subscribed = s.subscribed /\ t.prev = s.prev /\ t.forwarding = s.forwarding
        /\ t.council = s.council /\ t.base = [s.base EXCEPT ![v] = "copy"]
        /\ t.index = [s.index EXCEPT ![v] = "next"]
    BY <2>1 DEF SourceType
  <2>4. /\ d \in CloneType /\ d.partial = c.partial /\ d.pl = c.pl /\ d.bl = c.bl
        /\ d.local = c.local /\ d.advisors = c.advisors
        /\ d.vars_u = IF s.base[v] = "null" THEN c.vars_u ELSE c.vars_u \cup {v}
        /\ d.vars_noidx = IF s.base[v] = "null" THEN c.vars_noidx \cup {v} ELSE c.vars_noidx
    BY <2>2 DEF CloneType
  <2>5. v \notin Registered(c) /\ s.base[v] = b.base[v] /\ (s.base[v] = "array" \/ s.base[v] = "null")
    BY <1>2 DEF Variables, SourceType
  <2>6. Registered(d) = Registered(c) \cup {v}
    BY <2>4 DEF Registered
  <2>7. Variables(t, d, b)
    BY <2>3, <2>4, <2>5, <2>6 DEF Variables, Registered, SourceType
  <2>8. Links(t, d, b, k) /\ Councils(t, d, b, k)
    BY <2>3, <2>4 DEF Links, Councils, InLocal, Copied
  <2> QED BY <2>3, <2>4, <2>6, <2>7, <2>8
<1> QED BY <1>1, <1>2

LEMMA CopyLocalOK ==
  ASSUME NEW s, NEW c, NEW b, NEW k, Original(b), Copying(s, c, b, k), NEW l \in Local,
         NEW t, NEW d, C!CopyLocal(s, c, l) = [s |-> t, c |-> d]
  PROVE  /\ Copying(t, d, b, k) /\ InLocal(d) = InLocal(c) \cup {l}
         /\ d.pl = c.pl /\ d.bl = c.bl /\ d.advisors = c.advisors /\ Registered(d) = Registered(c)
         /\ t.forwarding = s.forwarding /\ t.council = s.council
<1> USE DEF Copying
<1>1. CASE s.prev[l] # "null"
  <2>1. t = s /\ d = c
    BY <1>1 DEF C!CopyLocal
  <2>2. l \in InLocal(c)
    BY <1>1 DEF Links
  <2> QED BY <2>1, <2>2
<1>2. CASE s.prev[l] = "null"
  <2>1. t = [s EXCEPT !.prev[l] = "copy"] /\ d = [c EXCEPT !.local = <<l>> \o @]
    BY <1>2 DEF C!CopyLocal
  <2>2. /\ t \in SourceType /\ t.pl = s.pl /\ t.bl = s.bl /\ t.noticed = s.noticed
        /\ t.subscribed = s.subscribed /\ t.prev = [s.prev EXCEPT ![l] = "copy"]
        /\ t.forwarding = s.forwarding
        /\ t.council = s.council /\ t.base = s.base /\ t.index = s.index
    BY <2>1 DEF SourceType
  <2>3. /\ d \in CloneType /\ d.partial = c.partial /\ d.pl = c.pl /\ d.bl = c.bl
        /\ d.local = <<l>> \o c.local /\ d.advisors = c.advisors
        /\ d.vars_u = c.vars_u /\ d.vars_noidx = c.vars_noidx
    <3> DEFINE list == <<l>> \o c.local
    <3>1. c \in CloneType /\ list \in Seq(Local) /\ d = [c EXCEPT !.local = list]
      BY <2>1 DEF CloneType
    <3> HIDE DEF list
    <3>2. d \in CloneType /\ d.local = list
      BY <3>1 DEF CloneType
    <3> QED BY <3>1, <3>2 DEF CloneType, list
  <2>4. InLocal(d) = InLocal(c) \cup {l}
    <3>1. c.local \in Seq(Local) /\ Len(c.local) \in Nat
      BY DEF CloneType
    <3>2. /\ DOMAIN d.local = 1 .. Len(c.local) + 1
          /\ \A j \in DOMAIN d.local : d.local[j] = IF j = 1 THEN l ELSE c.local[j - 1]
      BY <2>3, <3>1
    <3>3. DOMAIN c.local = 1 .. Len(c.local)
      BY <3>1
    <3>4. ASSUME NEW x PROVE x \in InLocal(d) <=> x \in InLocal(c) \cup {l}
      <4>1. ASSUME NEW j \in DOMAIN d.local PROVE d.local[j] \in InLocal(c) \cup {l}
        <5>1. CASE j = 1
          BY <3>2, <5>1
        <5>2. CASE j # 1
          <6>1. j - 1 \in DOMAIN c.local /\ d.local[j] = c.local[j - 1]
            BY <3>1, <3>2, <3>3, <5>2
          <6> QED BY <6>1 DEF InLocal
        <5> QED BY <5>1, <5>2
      <4>2. ASSUME NEW j \in DOMAIN c.local PROVE c.local[j] \in InLocal(d)
        <5>1. j + 1 \in DOMAIN d.local /\ d.local[j + 1] = c.local[j]
          BY <3>1, <3>2, <3>3
        <5> QED BY <5>1 DEF InLocal
      <4>3. l \in InLocal(d)
        <5>1. 1 \in DOMAIN d.local /\ d.local[1] = l
          BY <3>1, <3>2
        <5> QED BY <5>1 DEF InLocal
      <4> QED BY <4>1, <4>2, <4>3 DEF InLocal
    <3> QED BY <3>4
  <2>5. Links(t, d, b, k)
    <3>1. \A p : Copied(d, p) = Copied(c, p)
      BY <2>3 DEF Copied
    <3> QED BY <2>2, <2>4, <3>1, ActorsAre DEF Links, SourceType
  <2>6. Councils(t, d, b, k) /\ Variables(t, d, b) /\ Registered(d) = Registered(c)
    <3>1. \A p : Copied(d, p) = Copied(c, p)
      BY <2>3 DEF Copied
    <3> QED BY <2>2, <2>3, <3>1 DEF Councils, Variables, Registered
  <2> QED BY <2>2, <2>3, <2>4, <2>5, <2>6
<1> QED BY <1>1, <1>2

(* the advisors of a propagator have a forwarding pointer if they have been copied *)
LEMMA AdvisorIs ==
  ASSUME NEW s, NEW c, NEW b, NEW k, Original(b), Copying(s, c, b, k), NEW p \in CPropagator
  PROVE  /\ C!Live(b, p) \subseteq Advisors(p) /\ s.council[p] \subseteq Advisors(p) /\ Advisors(p) \subseteq C!Link
         /\ \A a \in Advisors(p) : s.prev[a] = IF a \in Copied(c, p) THEN "copy" ELSE b.prev[a]
         /\ C!Live(s, p) = C!Live(b, p)
         /\ C!Left(s, p) = s.council[p] \ Copied(c, p)
<1>1. /\ \A q \in CPropagator : C!Live(b, q) \subseteq Advisors(q)
      /\ s.council[p] \subseteq Advisors(p) /\ s.council[p] \subseteq b.council[p]
      /\ Advisors(p) \subseteq Advisor /\ Advisors(p) \subseteq C!Link
      /\ C!Live(b, p) \subseteq s.council[p]
      /\ \A q \in CPropagator : Copied(c, q) \subseteq C!Live(b, q)
  BY ActorsAre DEF C!Live, Original, Copying, Councils
<1>2. ASSUME NEW a \in Advisors(p)
      PROVE  s.prev[a] = IF a \in Copied(c, p) THEN "copy" ELSE b.prev[a]
  <2>1. \A q \in CPropagator : a \in Copied(c, q) => q = p
    BY <1>1, ActorsAre
  <2> QED BY <1>1, <2>1 DEF Copying, Links
<1>3. \A a \in Advisors(p) : b.prev[a] # "copy"
  BY <1>1 DEF Original
<1>4. C!Live(s, p) = C!Live(b, p)
  BY <1>1, <1>2 DEF C!Live
<1>5. C!Left(s, p) = s.council[p] \ Copied(c, p)
  BY <1>1, <1>2, <1>3 DEF C!Left
<1> QED BY <1>1, <1>2, <1>4, <1>5

(* what EnterCouncil and CopyAdvisor make of the original and of the clone *)
Entered(s, p) == [s EXCEPT !.council[p] = C!Chain(s, p), !.forwarding[p] = C!Chain(s, p) # {}]
Forwarding(s, a) == [s EXCEPT !.prev[a] = "copy"]
Prefixed(c, p, a) == [c EXCEPT !.advisors[p] = <<a>> \o @]

LEMMA EnterOK ==
  ASSUME NEW s, NEW c, NEW b, NEW k, Original(b), Copying(s, c, b, k), NEW p \in k \cap CPropagator,
         ~s.forwarding[p], NEW t, t = Entered(s, p)
  PROVE  /\ Copying(t, c, b, k)
         /\ \A q \in CPropagator \ {p} : t.forwarding[q] = s.forwarding[q] /\ t.council[q] = s.council[q]
         /\ C!Chain(s, p) = {} => ~t.forwarding[p] /\ Copied(c, p) = C!Live(b, p)
<1> DEFINE rest == C!Chain(s, p)
           enters == rest # {}
           co == [s.council EXCEPT ![p] = rest]
           fw == [s.forwarding EXCEPT ![p] = enters]
<1>1. s \in SourceType /\ c \in CloneType /\ c.advisors[p] = <<>> /\ Copied(c, p) = {}
  BY DEF Copying, Councils, Copied
<1>2. /\ C!Live(b, p) \subseteq rest /\ rest \subseteq s.council[p] /\ rest \subseteq Advisor
      /\ t = [s EXCEPT !.council = co, !.forwarding = fw]
  <2>1. C!Live(b, p) = C!Live(s, p)
    BY AdvisorIs
  <2>2. C!Live(s, p) \subseteq rest /\ rest \subseteq s.council[p]
    BY DEF C!Chain, C!Live
  <2>3. s.council[p] \subseteq Advisor
    BY <1>1 DEF SourceType
  <2> QED BY <2>1, <2>2, <2>3 DEF Entered
<1>3. ~enters => C!Live(b, p) = {}
  BY <1>2
<1>10. /\ co \in [CPropagator -> SUBSET Advisor] /\ co[p] = rest
       /\ \A q \in CPropagator \ {p} : co[q] = s.council[q]
  BY <1>1, <1>2 DEF SourceType
<1>11. /\ fw \in [CPropagator -> BOOLEAN] /\ fw[p] = enters
       /\ \A q \in CPropagator \ {p} : fw[q] = s.forwarding[q]
  <2> HIDE DEF rest
  <2>1. s.forwarding \in [CPropagator -> BOOLEAN] /\ enters \in BOOLEAN
    BY <1>1 DEF SourceType
  <2> HIDE DEF enters
  <2> QED BY <2>1, Zenon
<1> HIDE DEF rest, enters, co, fw
<1>4. /\ t \in SourceType /\ t.pl = s.pl /\ t.bl = s.bl /\ t.noticed = s.noticed
      /\ t.subscribed = s.subscribed /\ t.prev = s.prev
      /\ t.council = co /\ t.forwarding = fw
      /\ t.base = s.base /\ t.index = s.index
  BY <1>1, <1>2, <1>10, <1>11 DEF SourceType
<1>5. /\ \A q \in CPropagator \ {p} : t.forwarding[q] = s.forwarding[q] /\ t.council[q] = s.council[q]
      /\ t.council[p] = rest /\ t.forwarding[p] = enters
  BY <1>4, <1>10, <1>11
<1>6. Links(t, c, b, k) /\ Variables(t, c, b)
  BY <1>4 DEF Copying, Links, Variables
<1>7. Councils(t, c, b, k)
  <2> SUFFICES ASSUME NEW q \in CPropagator
               PROVE  /\ t.forwarding[q] => q \in k
                      /\ ~t.forwarding[q] => c.advisors[q] = <<>>
                      /\ t.council[q] \subseteq b.council[q] /\ C!Live(b, q) \subseteq t.council[q]
                      /\ Copied(c, q) \subseteq C!Live(b, q) /\ C!Reversed(q, c.advisors[q])
                      /\ \A a \in Copied(c, q), d \in t.council[q] \ Copied(c, q) : C!Before(q, a, d)
    BY DEF Councils
  <2>1. CASE q = p
    BY <1>1, <1>2, <1>5, <2>1 DEF Copying, Councils
  <2>2. CASE q # p
    BY <1>5, <2>2 DEF Copying, Councils
  <2> QED BY <2>1, <2>2
<1>8. Copying(t, c, b, k)
  BY <1>4, <1>6, <1>7 DEF Copying
<1>9. rest = {} => ~t.forwarding[p] /\ Copied(c, p) = C!Live(b, p)
  BY <1>1, <1>2, <1>3, <1>5 DEF enters
<1> QED BY <1>5, <1>8, <1>9 DEF rest

(* an element in front of a list *)
InFront(x, q) == <<x>> \o q

LEMMA PrefixedIs ==
  ASSUME NEW S, NEW q \in Seq(S), NEW x \in S
  PROVE  /\ InFront(x, q) \in Seq(S) /\ DOMAIN InFront(x, q) = 1 .. Len(q) + 1
         /\ DOMAIN q = 1 .. Len(q) /\ Len(q) \in Nat /\ InFront(x, q)[1] = x
         /\ \A j \in DOMAIN InFront(x, q) :
              j # 1 => j - 1 \in DOMAIN q /\ InFront(x, q)[j] = q[j - 1]
         /\ Elements(InFront(x, q)) = Elements(q) \cup {x}
<1> DEFINE r == InFront(x, q)
<1>1. /\ r \in Seq(S) /\ DOMAIN r = 1 .. Len(q) + 1 /\ DOMAIN q = 1 .. Len(q) /\ Len(q) \in Nat
      /\ \A j \in DOMAIN r : r[j] = IF j = 1 THEN x ELSE q[j - 1]
  BY DEF InFront
<1> HIDE DEF r
<1>2. \A j \in DOMAIN r : j # 1 => j - 1 \in DOMAIN q
  BY <1>1
<1>3. \A j \in DOMAIN q : j + 1 \in DOMAIN r /\ r[j + 1] = q[j]
  BY <1>1
<1>4. 1 \in DOMAIN r /\ r[1] = x
  BY <1>1
<1>5. \A y \in {r[j] : j \in DOMAIN r} : y \in {q[j] : j \in DOMAIN q} \cup {x}
  BY <1>1, <1>2
<1>6. \A y \in {q[j] : j \in DOMAIN q} \cup {x} : y \in {r[j] : j \in DOMAIN r}
  BY <1>3, <1>4
<1>7. Elements(r) = Elements(q) \cup {x}
  BY <1>5, <1>6 DEF Elements
<1>8. \A j \in DOMAIN r : j # 1 => j - 1 \in DOMAIN q /\ r[j] = q[j - 1]
  BY <1>1, <1>2
<1> QED BY <1>1, <1>4, <1>7, <1>8 DEF r

LEMMA CopyAdvisorOK ==
  ASSUME NEW s, NEW c, NEW b, NEW k, Original(b), Copying(s, c, b, k), NEW p \in CPropagator,
         s.forwarding[p], NEW a \in C!Live(s, p), C!First(p, a, C!Left(s, p)), NEW t, NEW d,
         t = Forwarding(s, a), d = Prefixed(c, p, a)
  PROVE  /\ Copying(t, d, b, k) /\ t.forwarding = s.forwarding /\ t.council = s.council
         /\ d.pl = c.pl /\ d.bl = c.bl /\ d.local = c.local /\ Registered(d) = Registered(c)
         /\ \A q \in CPropagator \ {p} : d.advisors[q] = c.advisors[q]
<1> DEFINE list == InFront(a, c.advisors[p])
<1>1. /\ s \in SourceType /\ c \in CloneType /\ c.partial
      /\ c.advisors[p] \in Seq(Advisor) /\ C!Reversed(p, c.advisors[p])
      /\ Copied(c, p) \subseteq C!Live(b, p)
  BY DEF Copying, Councils, CloneType
<1>2. /\ C!Live(s, p) = C!Live(b, p) /\ C!Left(s, p) = s.council[p] \ Copied(c, p)
      /\ C!Live(b, p) \subseteq Advisors(p)
  BY AdvisorIs
<1>3. a \in s.council[p] \ Copied(c, p) /\ a \in C!Live(b, p) /\ a \in Advisor /\ a \in C!Link
      /\ a \notin C!Actor /\ a \notin Local /\ \A q \in CPropagator \ {p} : a \notin C!Live(b, q)
  <2>1. a \in s.council[p] \ Copied(c, p) /\ a \in C!Live(b, p) /\ a \in Advisors(p)
    BY <1>2 DEF C!First
  <2>2. \A q \in CPropagator : C!Live(b, q) \subseteq Advisors(q)
    BY DEF Original, C!Live
  <2> QED BY <2>1, <2>2, ActorsAre
<1>4. \A e \in s.council[p] \ (Copied(c, p) \cup {a}) : C!Before(p, a, e)
  BY <1>2 DEF C!First
<1>5. \A e \in Copied(c, p) : C!Before(p, e, a)
  BY <1>3 DEF Copying, Councils
<1>6. /\ list \in Seq(Advisor) /\ DOMAIN list = 1 .. Len(c.advisors[p]) + 1
      /\ DOMAIN c.advisors[p] = 1 .. Len(c.advisors[p]) /\ Len(c.advisors[p]) \in Nat /\ list[1] = a
      /\ \A j \in DOMAIN list : j # 1 => j - 1 \in DOMAIN c.advisors[p] /\ list[j] = c.advisors[p][j - 1]
      /\ Elements(list) = Elements(c.advisors[p]) \cup {a}
  <2> DEFINE q == c.advisors[p]
  <2>1. q \in Seq(Advisor) /\ a \in Advisor
    BY <1>1, <1>3
  <2> HIDE DEF q
  <2>2. InFront(a, q) \in Seq(Advisor) /\ DOMAIN InFront(a, q) = 1 .. Len(q) + 1
    BY <2>1, PrefixedIs
  <2>3. DOMAIN q = 1 .. Len(q) /\ Len(q) \in Nat /\ InFront(a, q)[1] = a
    BY <2>1, PrefixedIs
  <2>4. \A j \in DOMAIN InFront(a, q) :
              j # 1 => j - 1 \in DOMAIN q /\ InFront(a, q)[j] = q[j - 1]
    BY <2>1, PrefixedIs
  <2>5. Elements(InFront(a, q)) = Elements(q) \cup {a}
    BY <2>1, PrefixedIs
  <2> QED BY <2>2, <2>3, <2>4, <2>5 DEF q
<1>7. d = [c EXCEPT !.advisors[p] = list]
  BY DEF Prefixed, InFront
<1> HIDE DEF list
<1>8. /\ t \in SourceType /\ t.pl = s.pl /\ t.bl = s.bl /\ t.noticed = s.noticed
      /\ t.subscribed = s.subscribed /\ t.prev = [s.prev EXCEPT ![a] = "copy"]
      /\ t.council = s.council /\ t.forwarding = s.forwarding
      /\ t.base = s.base /\ t.index = s.index
  BY <1>1, <1>3 DEF SourceType, Forwarding
<1>9. /\ d \in CloneType /\ d.partial = c.partial /\ d.pl = c.pl /\ d.bl = c.bl
      /\ d.local = c.local /\ d.advisors = [c.advisors EXCEPT ![p] = list]
      /\ d.vars_u = c.vars_u /\ d.vars_noidx = c.vars_noidx
  <2>1. c.advisors \in [CPropagator -> Seq(Advisor)]
        /\ [c.advisors EXCEPT ![p] = list] \in [CPropagator -> Seq(Advisor)]
    BY <1>1, <1>6 DEF CloneType
  <2> DEFINE f == [c.advisors EXCEPT ![p] = list]
  <2>2. d = [c EXCEPT !.advisors = f] /\ f \in [CPropagator -> Seq(Advisor)]
    BY <1>1, <1>7, <2>1 DEF CloneType
  <2> HIDE DEF f
  <2>3. /\ d \in CloneType /\ d.partial = c.partial /\ d.pl = c.pl /\ d.bl = c.bl
        /\ d.local = c.local /\ d.advisors = f
        /\ d.vars_u = c.vars_u /\ d.vars_noidx = c.vars_noidx
    BY <1>1, <2>2 DEF CloneType
  <2> QED BY <2>3 DEF f
<1>10. d.advisors[p] = list /\ \A q \in CPropagator \ {p} : d.advisors[q] = c.advisors[q]
  BY <1>1, <1>9 DEF CloneType
<1>11. Copied(d, p) = Copied(c, p) \cup {a} /\ \A q \in CPropagator \ {p} : Copied(d, q) = Copied(c, q)
  <2>1. Copied(d, p) = Copied(c, p) \cup {a}
    <3>1. Copied(d, p) = Elements(d.advisors[p]) /\ Copied(c, p) = Elements(c.advisors[p])
      BY DEF Copied, Elements
    <3> QED BY <1>6, <1>10, <3>1
  <2>2. \A q \in CPropagator \ {p} : Copied(d, q) = Copied(c, q)
    BY <1>10 DEF Copied
  <2> QED BY <2>1, <2>2
<1>12. Links(t, d, b, k)
  <2>1. \A l \in C!Link : t.prev[l] = IF l = a THEN "copy" ELSE s.prev[l]
    BY <1>1, <1>8 DEF SourceType
  <2>2. \A l \in C!Actor \cup Local \cup Advisor : l \in C!Link
    BY ActorsAre
  <2>3. \A l \in Advisor : (\E q \in CPropagator : l \in Copied(d, q))
                             <=> l = a \/ \E q \in CPropagator : l \in Copied(c, q)
    BY <1>11
  <2> QED BY <1>3, <1>9, <2>1, <2>2, <2>3 DEF Copying, Links, InLocal
<1>13. C!Reversed(p, list)
  <2> SUFFICES ASSUME NEW i \in DOMAIN list, NEW j \in DOMAIN list, i < j
               PROVE  C!Before(p, list[j], list[i])
    BY DEF C!Reversed
  <2>1. j # 1 /\ j - 1 \in DOMAIN c.advisors[p] /\ list[j] = c.advisors[p][j - 1]
    <3>1. i \in Nat /\ j \in Nat /\ 1 \in DOMAIN list /\ i >= 1
      BY <1>6
    <3> QED BY <1>6, <3>1
  <2>2. CASE i = 1
    BY <1>5, <1>6, <2>1, <2>2 DEF Copied
  <2>3. CASE i # 1
    <3>1. i - 1 \in DOMAIN c.advisors[p] /\ list[i] = c.advisors[p][i - 1]
      BY <1>6, <2>3
    <3>2. i - 1 < j - 1
      BY <1>6
    <3> QED BY <1>1, <2>1, <3>1, <3>2 DEF C!Reversed
  <2> QED BY <2>2, <2>3
<1>14. Councils(t, d, b, k)
  <2> SUFFICES ASSUME NEW q \in CPropagator
               PROVE  /\ t.forwarding[q] => q \in k
                      /\ ~t.forwarding[q] => d.advisors[q] = <<>>
                      /\ t.council[q] \subseteq b.council[q] /\ C!Live(b, q) \subseteq t.council[q]
                      /\ Copied(d, q) \subseteq C!Live(b, q) /\ C!Reversed(q, d.advisors[q])
                      /\ \A x \in Copied(d, q), e \in t.council[q] \ Copied(d, q) : C!Before(q, x, e)
    BY DEF Councils
  <2>1. CASE q = p
    <3>1. /\ p \in k /\ s.council[p] \subseteq b.council[p] /\ C!Live(b, p) \subseteq s.council[p]
          /\ \A x \in Copied(c, p), e \in s.council[p] \ Copied(c, p) : C!Before(p, x, e)
      BY DEF Copying, Councils
    <3>2. \A x \in Copied(d, p), e \in s.council[p] \ Copied(d, p) : C!Before(p, x, e)
      BY <1>4, <1>11, <3>1
    <3> QED BY <1>1, <1>3, <1>8, <1>10, <1>11, <1>13, <2>1, <3>1, <3>2
  <2>2. CASE q # p
    BY <1>8, <1>10, <1>11, <2>2 DEF Copying, Councils
  <2> QED BY <2>1, <2>2
<1>15. Variables(t, d, b) /\ Registered(d) = Registered(c)
  BY <1>8, <1>9 DEF Copying, Variables, Registered
<1> QED BY <1>1, <1>8, <1>9, <1>10, <1>12, <1>14, <1>15 DEF Copying

LEMMA DropAdvisorOK ==
  ASSUME NEW s, NEW c, NEW b, NEW k, Original(b), Copying(s, c, b, k), NEW p \in CPropagator,
         NEW a \in s.council[p] \ C!Live(s, p), NEW t, t = [s EXCEPT !.council[p] = @ \ {a}]
  PROVE  /\ Copying(t, c, b, k) /\ t.forwarding = s.forwarding
         /\ \A q \in CPropagator \ {p} : t.council[q] = s.council[q]
<1>1. s \in SourceType /\ C!Live(s, p) = C!Live(b, p)
  BY AdvisorIs DEF Copying
<1>2. /\ t \in SourceType /\ t.pl = s.pl /\ t.bl = s.bl /\ t.noticed = s.noticed
      /\ t.subscribed = s.subscribed /\ t.prev = s.prev
      /\ t.council = [s.council EXCEPT ![p] = @ \ {a}] /\ t.forwarding = s.forwarding
      /\ t.base = s.base /\ t.index = s.index
  BY <1>1 DEF SourceType
<1>3. /\ \A q \in CPropagator \ {p} : t.council[q] = s.council[q]
      /\ t.council[p] = s.council[p] \ {a}
  BY <1>1, <1>2 DEF SourceType
<1>4. Links(t, c, b, k) /\ Variables(t, c, b)
  BY <1>2 DEF Copying, Links, Variables
<1>5. Councils(t, c, b, k)
  <2>1. \A q \in CPropagator : /\ t.council[q] \subseteq s.council[q]
                               /\ C!Live(b, q) \subseteq s.council[q] => C!Live(b, q) \subseteq t.council[q]
    BY <1>1, <1>3
  <2> QED BY <1>2, <2>1 DEF Copying, Councils
<1> QED BY <1>2, <1>3, <1>4, <1>5 DEF Copying

(* memory is exhausted when some of the advisors have been copied *)
LEMMA AdvisorsThrowOK ==
  ASSUME NEW s, NEW c, NEW b, NEW k, Original(b), Copying(s, c, b, k), NEW p \in CPropagator,
         NEW t, NEW d, C!AdvisorsThrow(s, c, p) = [s |-> t, c |-> d]
  PROVE  /\ Copying(t, d, b, k) /\ d.pl = c.pl /\ d.bl = c.bl /\ d.local = c.local
         /\ AllCopied(t, d, p)
         /\ \A q \in CPropagator \ {p} : AllCopied(s, c, q) => AllCopied(t, d, q)
<1>1. /\ s \in SourceType /\ c \in CloneType /\ b \in SourceType /\ c.partial
      /\ C!Live(b, p) \subseteq s.council[p] /\ Copied(c, p) \subseteq C!Live(b, p)
  BY DEF Copying, Original, Councils
<1>2. /\ t = [s EXCEPT !.forwarding[p] = FALSE,
                       !.prev = [l \in C!Link |-> IF l \in s.council[p] /\ @[l] = "copy" THEN "own" ELSE @[l]]]
      /\ d = [c EXCEPT !.advisors[p] = <<>>]
  BY DEF C!AdvisorsThrow
<1>3. /\ t \in SourceType /\ t.pl = s.pl /\ t.bl = s.bl /\ t.noticed = s.noticed
      /\ t.subscribed = s.subscribed /\ t.forwarding = [s.forwarding EXCEPT ![p] = FALSE]
      /\ t.council = s.council /\ t.base = s.base /\ t.index = s.index
      /\ \A l \in C!Link : t.prev[l] = IF l \in s.council[p] /\ s.prev[l] = "copy" THEN "own" ELSE s.prev[l]
  BY <1>1, <1>2 DEF SourceType
<1>4. <<>> \in Seq(Advisor) /\ DOMAIN <<>> = {}
  OBVIOUS
<1>5. /\ d \in CloneType /\ d.partial = c.partial /\ d.pl = c.pl /\ d.bl = c.bl
      /\ d.local = c.local /\ d.advisors = [c.advisors EXCEPT ![p] = <<>>]
      /\ d.vars_u = c.vars_u /\ d.vars_noidx = c.vars_noidx
  BY <1>1, <1>2, <1>4 DEF CloneType
<1>6. /\ \A q \in CPropagator \ {p} : t.forwarding[q] = s.forwarding[q] /\ d.advisors[q] = c.advisors[q]
      /\ t.forwarding[p] = FALSE /\ d.advisors[p] = <<>>
  BY <1>1, <1>3, <1>5 DEF SourceType, CloneType
<1>7. Copied(d, p) = {} /\ \A q \in CPropagator \ {p} : Copied(d, q) = Copied(c, q)
  BY <1>4, <1>6 DEF Copied
<1>8. Links(t, d, b, k)
  <2>1. /\ s.council[p] \subseteq Advisors(p) /\ Advisors(p) \subseteq Advisor
        /\ \A a \in Advisors(p) : s.prev[a] = IF a \in Copied(c, p) THEN "copy" ELSE b.prev[a]
    BY AdvisorIs, ActorsAre
  <2>2. \A l \in C!Actor \cup Local : t.prev[l] = s.prev[l]
    BY <1>3, <2>1, ActorsAre
  <2>3. ASSUME NEW a \in Advisor
        PROVE  t.prev[a] = IF \E q \in CPropagator : a \in Copied(d, q) THEN "copy" ELSE b.prev[a]
    <3>1. /\ a \in C!Link /\ b.prev[a] \in {"own", "null"}
          /\ s.prev[a] = IF \E q \in CPropagator : a \in Copied(c, q) THEN "copy" ELSE b.prev[a]
      BY <1>1, ActorsAre DEF Copying, Links, Original, SourceType
    <3>2. CASE a \in Copied(c, p)
      <4>1. a \in s.council[p] /\ s.prev[a] = "copy" /\ b.prev[a] = "own"
        BY <1>1, <3>1, <3>2 DEF C!Live
      <4>2. \A q \in CPropagator \ {p} : a \notin Copied(c, q)
        <5>1. \A q \in CPropagator : Copied(c, q) \subseteq Advisors(q)
          BY DEF Copying, Councils, Original, C!Live
        <5> QED BY <2>1, <4>1, <5>1, ActorsAre
      <4> QED BY <1>3, <1>7, <3>1, <4>1, <4>2
    <3>3. CASE a \notin Copied(c, p)
      <4>1. ~(a \in s.council[p] /\ s.prev[a] = "copy")
        BY <2>1, <3>1, <3>3
      <4>2. t.prev[a] = s.prev[a]
        BY <1>3, <3>1, <4>1
      <4>3. (\E q \in CPropagator : a \in Copied(d, q)) <=> \E q \in CPropagator : a \in Copied(c, q)
        BY <1>7, <3>3
      <4> QED BY <3>1, <4>2, <4>3
    <3> QED BY <3>2, <3>3
  <2> QED BY <1>5, <2>2, <2>3 DEF Copying, Links, InLocal
<1>9. Councils(t, d, b, k)
  <2> SUFFICES ASSUME NEW q \in CPropagator
               PROVE  /\ t.forwarding[q] => q \in k
                      /\ ~t.forwarding[q] => d.advisors[q] = <<>>
                      /\ t.council[q] \subseteq b.council[q] /\ C!Live(b, q) \subseteq t.council[q]
                      /\ Copied(d, q) \subseteq C!Live(b, q) /\ C!Reversed(q, d.advisors[q])
                      /\ \A x \in Copied(d, q), e \in t.council[q] \ Copied(d, q) : C!Before(q, x, e)
    BY DEF Councils
  <2>1. C!Reversed(p, <<>>)
    BY <1>4 DEF C!Reversed
  <2>2. CASE q = p
    BY <1>3, <1>6, <1>7, <2>1, <2>2 DEF Copying, Councils
  <2>3. CASE q # p
    BY <1>3, <1>6, <1>7, <2>3 DEF Copying, Councils
  <2> QED BY <2>2, <2>3
<1>10. Variables(t, d, b)
  BY <1>3, <1>5 DEF Copying, Variables, Registered
<1>11. AllCopied(t, d, p) /\ \A q \in CPropagator \ {p} : AllCopied(s, c, q) => AllCopied(t, d, q)
  BY <1>3, <1>6, <1>7 DEF AllCopied
<1> QED BY <1>3, <1>5, <1>8, <1>9, <1>10, <1>11 DEF Copying

(* the constructor of an actor, and the link to it *)
LEMMA StartOK ==
  ASSUME NEW s, NEW c, NEW b, NEW k, Original(b), Copying(s, c, b, k),
         NEW a \in InPl(b) \cup InBl(b), NEW t, t = [s EXCEPT !.prev[a] = "copy"]
  PROVE  /\ Copying(t, c, b, k \cup {a}) /\ t.forwarding = s.forwarding
         /\ t.council = s.council
<1>1. s \in SourceType /\ b \in SourceType
  BY DEF Copying, Original
<1>2. a \in C!Actor /\ a \in C!Link
  BY <1>1, ActorsAre DEF SourceType, InPl, InBl
<1>3. /\ t \in SourceType /\ t.pl = s.pl /\ t.bl = s.bl /\ t.noticed = s.noticed
      /\ t.subscribed = s.subscribed /\ t.prev = [s.prev EXCEPT ![a] = "copy"]
      /\ t.forwarding = s.forwarding
      /\ t.council = s.council /\ t.base = s.base /\ t.index = s.index
  BY <1>1, <1>2 DEF SourceType
<1>4. Links(t, c, b, k \cup {a})
  <2>1. \A l \in C!Link : t.prev[l] = IF l = a THEN "copy" ELSE s.prev[l]
    BY <1>1, <1>2, <1>3 DEF SourceType
  <2>2. \A l \in Local \cup Advisor : l # a /\ l \in C!Link
    BY <1>2, ActorsAre
  <2>3. \A l \in C!Actor : l \in C!Link
    BY ActorsAre
  <2> QED BY <1>2, <1>3, <2>1, <2>2, <2>3 DEF Copying, Links, Copied
<1>5. Councils(t, c, b, k \cup {a}) /\ Variables(t, c, b)
  BY <1>3 DEF Copying, Councils, Variables
<1> QED BY <1>3, <1>4, <1>5 DEF Copying

LEMMA LinkOK ==
  ASSUME NEW s, NEW c, NEW b, NEW k, Original(b), Copying(s, c, b, k), NEW d,
         \/ \E a \in CPropagator : d = [c EXCEPT !.pl = Append(@, a)]
         \/ \E a \in CBrancher : d = [c EXCEPT !.bl = Append(@, a)]
  PROVE  /\ Copying(s, d, b, k) /\ Registered(d) = Registered(c) /\ d.advisors = c.advisors
         /\ d.local = c.local
<1> DEFINE OK == /\ d \in CloneType /\ d.partial = c.partial /\ d.local = c.local
                 /\ d.advisors = c.advisors /\ d.vars_u = c.vars_u /\ d.vars_noidx = c.vars_noidx
<1>1. OK
  <2>1. c \in CloneType
    BY DEF Copying
  <2>2. ASSUME NEW a \in CPropagator, d = [c EXCEPT !.pl = Append(@, a)] PROVE OK
    <3> DEFINE list == Append(c.pl, a)
    <3>1. list \in Seq(CPropagator) /\ d = [c EXCEPT !.pl = list]
      BY <2>1, <2>2 DEF CloneType
    <3> HIDE DEF list
    <3> QED BY <2>1, <3>1 DEF CloneType
  <2>3. ASSUME NEW a \in CBrancher, d = [c EXCEPT !.bl = Append(@, a)] PROVE OK
    <3> DEFINE list == Append(c.bl, a)
    <3>1. list \in Seq(CBrancher) /\ d = [c EXCEPT !.bl = list]
      BY <2>1, <2>3 DEF CloneType
    <3> HIDE DEF list
    <3> QED BY <2>1, <3>1 DEF CloneType
  <2> QED BY <2>2, <2>3
<1>2. \A p : Copied(d, p) = Copied(c, p)
  BY <1>1 DEF Copied
<1> QED BY <1>1, <1>2 DEF Copying, Links, Councils, Variables, Registered, InLocal

-----------------------------------------------------------------------------
(* The end: s is the original, and b was before. *)
Same(s, b) ==
  /\ s \in SourceType
  /\ s.pl = b.pl /\ s.bl = b.bl /\ s.noticed = b.noticed /\ s.subscribed = b.subscribed
  /\ s.prev = b.prev /\ s.forwarding = b.forwarding /\ s.base = b.base /\ s.index = b.index
  /\ \A p \in CPropagator : s.council[p] \subseteq b.council[p] /\ C!Live(b, p) \subseteq s.council[p]

LEMMA SameLive ==
  ASSUME NEW s, NEW b, Same(s, b)
  PROVE  \A p \in CPropagator : C!Live(s, p) = C!Live(b, p)
BY DEF Same, C!Live

LEMMA SameIsOriginal ==
  ASSUME NEW s, NEW b, Original(b), Same(s, b)
  PROVE  Original(s)
<1>1. InPl(s) = InPl(b) /\ InBl(s) = InBl(b)
  BY DEF Same, InPl, InBl
<1>2. \A v \in CVar : \A l \in s.subscribed[v] :
        \E p \in InPl(s) : (l = p \/ l \in C!Live(s, p)) /\ Updates(p, v)
  <2>1. \A p \in InPl(b) : p \in CPropagator
    BY DEF Original, SourceType, InPl
  <2>2. \A v \in CVar : \A l \in b.subscribed[v] :
        \E p \in InPl(b) : (l = p \/ l \in C!Live(b, p)) /\ Updates(p, v)
    BY DEF Original
  <2>3. s.subscribed = b.subscribed
    BY DEF Same
  <2> QED BY <1>1, <2>1, <2>2, <2>3, SameLive
<1>3. \A p \in CPropagator : s.council[p] \subseteq Advisors(p) /\ (p \notin InPl(s) => s.council[p] = {})
  <2>1. \A p \in CPropagator : /\ s.council[p] \subseteq b.council[p] /\ b.council[p] \subseteq Advisors(p)
                               /\ (p \notin InPl(b) => b.council[p] = {})
    BY DEF Same, Original
  <2> QED BY <1>1, <2>1
<1> QED BY <1>1, <1>2, <1>3 DEF Same, Original

LEMMA RestoredIs ==
  ASSUME NEW s, NEW c, NEW b, NEW k, Original(b), Copying(s, c, b, k),
         \A p \in CPropagator : AllCopied(s, c, p)
  PROVE  Same(C!RestoreVars(C!RestoreLinks(s, c), c), b)
<1> DEFINE u == C!RestoreLinks(s, c)
           t == C!RestoreVars(u, c)
           as == UNION {s.council[p] : p \in {q \in C!Range(s.pl) : s.forwarding[q]}}
<1>1. /\ s \in SourceType /\ c \in CloneType /\ b \in SourceType
      /\ C!Range(s.pl) = InPl(b) /\ C!Linked(s) = InPl(b) \cup InBl(b) /\ C!Range(c.local) = InLocal(c)
      /\ InPl(b) \subseteq CPropagator /\ InBl(b) \subseteq CBrancher /\ InLocal(c) \subseteq Local
  BY DEF CloneType, Copying, Original, C!Range, InPl, InBl, InLocal, C!Linked, SourceType
<1>2. /\ u.prev = [l \in C!Link |-> IF l \in as \cup C!Linked(s) THEN "own"
                                    ELSE IF l \in C!Range(c.local) THEN "null" ELSE s.prev[l]]
      /\ u.forwarding = [p \in CPropagator |-> IF p \in C!Range(s.pl) THEN FALSE ELSE s.forwarding[p]]
      /\ u \in SourceType /\ u.pl = s.pl /\ u.bl = s.bl /\ u.noticed = s.noticed
      /\ u.subscribed = s.subscribed /\ u.council = s.council /\ u.base = s.base /\ u.index = s.index
  <2>1. u = [s EXCEPT !.prev = [l \in C!Link |-> IF l \in as \cup C!Linked(s) THEN "own"
                                                 ELSE IF l \in C!Range(c.local) THEN "null" ELSE @[l]],
                      !.forwarding = [p \in CPropagator |-> IF p \in C!Range(s.pl) THEN FALSE ELSE @[p]]]
    BY DEF C!RestoreLinks
  <2> HIDE DEF u, as
  <2> QED BY <1>1, <2>1 DEF SourceType
<1>3. /\ t.base = [v \in CVar |-> CASE v \in c.vars_noidx -> "null" [] v \in c.vars_u -> "array"
                                    [] OTHER -> u.base[v]]
      /\ t.index = [v \in CVar |-> IF v \in c.vars_noidx \cup c.vars_u THEN "own" ELSE u.index[v]]
      /\ t \in SourceType /\ t.pl = u.pl /\ t.bl = u.bl /\ t.noticed = u.noticed
      /\ t.subscribed = u.subscribed /\ t.council = u.council /\ t.prev = u.prev
      /\ t.forwarding = u.forwarding
  <2>1. t = [u EXCEPT !.base = [v \in CVar |-> CASE v \in c.vars_noidx -> "null" [] v \in c.vars_u -> "array"
                                                 [] OTHER -> @[v]],
                      !.index = [v \in CVar |-> IF v \in c.vars_noidx \cup c.vars_u THEN "own" ELSE @[v]]]
    BY DEF C!RestoreVars
  <2> HIDE DEF u, t
  <2> QED BY <1>2, <2>1 DEF SourceType
<1> HIDE DEF u, t
<1>4. k \subseteq InPl(b) \cup InBl(b) /\ \A p \in CPropagator : s.forwarding[p] => p \in InPl(b)
  <2>1. k \subseteq InPl(b) \cup InBl(b) /\ \A p \in CPropagator : s.forwarding[p] => p \in k
    BY DEF Copying, Councils
  <2> QED BY <1>1, <2>1, ActorsAre
<1>5. \A a \in Advisor : a \in as <=> \E p \in CPropagator : a \in Copied(c, p)
  <2>1. \A p \in CPropagator : s.forwarding[p] => s.council[p] = Copied(c, p)
    BY DEF AllCopied
  <2>2. \A p \in CPropagator : ~s.forwarding[p] => Copied(c, p) = {}
    BY DEF Copying, Councils, Copied
  <2> QED BY <1>1, <1>4, <2>1, <2>2
<1>6. as \subseteq Advisor
  BY <1>1 DEF SourceType
<1> HIDE DEF as
<1>7. \A l \in C!Link : u.prev[l] = b.prev[l]
  <2>1. ASSUME NEW l \in C!Actor PROVE u.prev[l] = b.prev[l]
    <3>1. l \notin as /\ l \notin InLocal(c) /\ l \in C!Link
      BY <1>1, <1>6, ActorsAre
    <3>2. b.prev[l] = "own" /\ (s.prev[l] = "own" \/ l \in k)
      BY DEF Original, Copying, Links
    <3> QED BY <1>1, <1>2, <1>4, <3>1, <3>2
  <2>2. ASSUME NEW l \in Local PROVE u.prev[l] = b.prev[l]
    <3>1. l \notin as /\ l \notin C!Linked(s) /\ l \in C!Link
      BY <1>1, <1>6, ActorsAre
    <3>2. b.prev[l] = "null" /\ (s.prev[l] = "null" \/ l \in InLocal(c))
      BY DEF Original, Copying, Links
    <3> QED BY <1>1, <1>2, <3>1, <3>2
  <2>3. ASSUME NEW l \in Advisor PROVE u.prev[l] = b.prev[l]
    <3>1. l \notin InLocal(c) /\ l \notin C!Linked(s) /\ l \in C!Link
      BY <1>1, ActorsAre
    <3>2. CASE l \in as
      <4>1. \E p \in CPropagator : l \in C!Live(b, p)
        BY <1>5, <3>2 DEF Copying, Councils
      <4>2. b.prev[l] # "null" /\ b.prev[l] # "copy" /\ b.prev[l] \in {"own", "copy", "null"}
        BY <1>1, <3>1, <4>1 DEF Original, C!Live, SourceType
      <4> QED BY <1>2, <3>1, <3>2, <4>2
    <3>3. CASE l \notin as
      <4>1. s.prev[l] = b.prev[l]
        BY <1>5, <3>3 DEF Copying, Links
      <4> QED BY <1>1, <1>2, <3>1, <3>3, <4>1
    <3> QED BY <3>2, <3>3
  <2> QED BY <2>1, <2>2, <2>3, ActorsAre
<1>8. u.prev = b.prev
  <2>1. u.prev \in [C!Link -> {"own", "copy", "null"}] /\ b.prev \in [C!Link -> {"own", "copy", "null"}]
    BY <1>1, <1>2 DEF SourceType
  <2> QED BY <1>7, <2>1
<1>9. u.forwarding = b.forwarding
  <2>1. u.forwarding \in [CPropagator -> BOOLEAN] /\ b.forwarding \in [CPropagator -> BOOLEAN]
        /\ s.forwarding \in [CPropagator -> BOOLEAN]
    BY <1>1, <1>2 DEF SourceType
  <2>2. \A p \in CPropagator : b.forwarding[p] = FALSE
    BY DEF Original
  <2>3. \A p \in CPropagator : u.forwarding[p] = FALSE
    BY <1>1, <1>2, <1>4, <2>1
  <2> QED BY <2>1, <2>2, <2>3
<1>10. t.base = b.base /\ t.index = b.index
  <2>1. /\ t.base \in [CVar -> {"null", "array", "copy"}] /\ b.base \in [CVar -> {"null", "array", "copy"}]
        /\ t.index \in [CVar -> {"own", "next"}] /\ b.index \in [CVar -> {"own", "next"}]
    BY <1>1, <1>3 DEF SourceType
  <2>2. ASSUME NEW v \in CVar PROVE t.base[v] = b.base[v] /\ t.index[v] = b.index[v]
    <3>1. /\ v \in c.vars_u => b.base[v] = "array" /\ v \notin c.vars_noidx
          /\ v \in c.vars_noidx => b.base[v] = "null"
          /\ s.base[v] = IF v \in c.vars_u \cup c.vars_noidx THEN "copy" ELSE b.base[v]
          /\ s.index[v] = IF v \in c.vars_u \cup c.vars_noidx THEN "next" ELSE "own"
          /\ b.index[v] = "own"
      BY DEF Copying, Variables, Registered, Original
    <3>2. t.base[v] = CASE v \in c.vars_noidx -> "null" [] v \in c.vars_u -> "array" [] OTHER -> s.base[v]
      BY <1>2, <1>3
    <3>3. t.index[v] = IF v \in c.vars_noidx \cup c.vars_u THEN "own" ELSE s.index[v]
      BY <1>2, <1>3
    <3> QED BY <3>1, <3>2, <3>3
  <2> QED BY <2>1, <2>2
<1>11. Same(t, b)
  <2>1. /\ s.pl = b.pl /\ s.bl = b.bl /\ s.noticed = b.noticed /\ s.subscribed = b.subscribed
        /\ \A p \in CPropagator : s.council[p] \subseteq b.council[p] /\ C!Live(b, p) \subseteq s.council[p]
    BY DEF Copying, Councils
  <2> QED BY <1>2, <1>3, <1>8, <1>9, <1>10, <2>1 DEF Same
<1> QED BY <1>11 DEF t, u

(* in a partial clone nothing is cancelled *)
LEMMA RecoveredIs ==
  ASSUME NEW s, NEW c, NEW b, NEW k, Original(b), Copying(s, c, b, k),
         \A p \in CPropagator : AllCopied(s, c, p)
  PROVE  Same(C!Recovered(s, c), b)
<1> DEFINE as == C!Range(c.pl) \cup UNION {C!Range(c.advisors[p]) : p \in C!Range(c.pl)}
           u == C!Cancel(s, c, as)
<1>1. u = [s EXCEPT !.subscribed = [v \in CVar |-> IF c.base[v] = "shared" /\ ~c.partial THEN @[v] \ as ELSE @[v]]]
  BY DEF C!Cancel
<1>2. C!Recovered(s, c) = C!RestoreVars(C!RestoreLinks(u, c), c)
  BY DEF C!Recovered
<1> HIDE DEF as, u
<1>3. s \in SourceType /\ c.partial
  BY DEF Copying
<1>4. u = [s EXCEPT !.subscribed = [v \in CVar |-> s.subscribed[v]]]
  BY <1>1, <1>3
<1>5. [v \in CVar |-> s.subscribed[v]] = s.subscribed
  BY <1>3 DEF SourceType
<1>6. /\ u \in SourceType /\ u.pl = s.pl /\ u.bl = s.bl /\ u.noticed = s.noticed
      /\ u.subscribed = s.subscribed /\ u.council = s.council /\ u.base = s.base /\ u.index = s.index
      /\ u.prev = s.prev /\ u.forwarding = s.forwarding
  BY <1>3, <1>4, <1>5 DEF SourceType
<1>7. Copying(u, c, b, k) /\ \A p \in CPropagator : AllCopied(u, c, p)
  BY <1>6 DEF Copying, Links, Councils, Variables, AllCopied
<1> QED BY <1>2, <1>7, RestoredIs

-----------------------------------------------------------------------------
(* Lists without duplicates *)
LEMMA ListOf ==
  ASSUME NEW S, IsFiniteSet(S), NEW q, q = C!SetToSeq(S)
  PROVE  q \in Seq(S) /\ Distinct(q) /\ S = {q[j] : j \in DOMAIN q}
<1> DEFINE n == Cardinality(S)
<1>1. n \in Nat /\ ExistsBijection(1 .. n, S)
  BY FS_CardinalityType
<1>2. C!Cardinality(S) = n
  BY Zenon DEF C!Cardinality, Cardinality
<1> HIDE DEF n
<1>3. PICK f \in [1 .. n -> S] : IsInjective(f)
  BY <1>1 DEF ExistsBijection, Bijection, Injection
<1>4. C!IsInjective(f)
  BY <1>3 DEF C!IsInjective, IsInjective
<1>5. q \in [1 .. n -> S] /\ C!IsInjective(q)
  BY <1>2, <1>4 DEF C!SetToSeq
<1>6. q \in Injection(1 .. n, S)
  BY <1>5 DEF Injection, IsInjective, C!IsInjective
<1>7. Cardinality(1 .. n) = Cardinality(S)
  <2>1. Cardinality(1 .. n) = n
    BY <1>1, FS_Interval
  <2> QED BY <2>1 DEF n
<1>8. q \in Surjection(1 .. n, S)
  BY <1>6, <1>7, FS_Injection
<1>9. Distinct(q)
  BY <1>5 DEF Distinct, C!IsInjective
<1> QED BY <1>1, <1>5, <1>8, <1>9 DEF Surjection

LEMMA PrefixIs ==
  ASSUME NEW S, NEW q \in Seq(S), NEW n \in 0 .. Len(q), NEW r, r = SubSeq(q, 1, n)
  PROVE  /\ r \in Seq(S) /\ {r[j] : j \in DOMAIN r} = {q[j] : j \in 1 .. n}
         /\ n < Len(q) => Append(r, q[n + 1]) = SubSeq(q, 1, n + 1)
         /\ n = Len(q) => r = q
         /\ n = 0 => r = <<>>
<1>1. /\ r \in Seq(S) /\ Len(r) = n /\ DOMAIN r = 1 .. n /\ Len(q) \in Nat
      /\ \A j \in 1 .. n : r[j] = q[j]
  OBVIOUS
<1>2. ASSUME n < Len(q) PROVE Append(r, q[n + 1]) = SubSeq(q, 1, n + 1)
  <2> DEFINE x == Append(r, q[n + 1])
             y == SubSeq(q, 1, n + 1)
  <2>1. n + 1 \in 1 .. Len(q) /\ q[n + 1] \in S
    BY <1>1, <1>2
  <2>2. /\ x \in Seq(S) /\ Len(x) = n + 1 /\ DOMAIN x = 1 .. n + 1
        /\ \A j \in 1 .. n + 1 : x[j] = IF j = n + 1 THEN q[n + 1] ELSE r[j]
    BY <1>1, <2>1
  <2>3. y \in Seq(S) /\ Len(y) = n + 1 /\ DOMAIN y = 1 .. n + 1 /\ \A j \in 1 .. n + 1 : y[j] = q[j]
    BY <1>1, <2>1
  <2> HIDE DEF x, y
  <2>4. \A j \in 1 .. n + 1 : x[j] = y[j]
    BY <1>1, <2>2, <2>3
  <2>5. x = y
    BY <2>2, <2>3, <2>4, SeqEqual
  <2> QED BY <2>5 DEF x, y
<1>3. n = Len(q) => r = q
  BY <1>1, SeqEqual
<1>4. n = 0 => r = <<>>
  BY <1>1
<1> QED BY <1>1, <1>2, <1>3, <1>4

LEMMA RemovedIs ==
  ASSUME NEW S, NEW q \in Seq(S), Distinct(q), NEW m \in DOMAIN q, NEW r, r = C!RemoveAt(q, m)
  PROVE  r \in Seq(S) /\ Distinct(r) /\ Elements(r) = Elements(q) \ {q[m]}
<1> DEFINE n == Len(q)
           a == SubSeq(q, 1, m - 1)
           b == SubSeq(q, m + 1, n)
           orig(x) == IF x < m THEN x ELSE x + 1
<1>1. n \in Nat /\ DOMAIN q = 1 .. n /\ m \in Nat /\ m >= 1 /\ m <= n
  OBVIOUS
<1>2. /\ a \in Seq(S) /\ Len(a) = m - 1 /\ \A j \in 1 .. m - 1 : a[j] = q[j]
      /\ b \in Seq(S) /\ Len(b) = n - m /\ \A j \in 1 .. n - m : b[j] = q[j + m]
  BY <1>1
<1>3. r = a \o b
  BY DEF C!RemoveAt
<1> HIDE DEF a, b, n
<1>4. /\ r \in Seq(S) /\ Len(r) = (m - 1) + (n - m) /\ DOMAIN r = 1 .. Len(r)
      /\ \A j \in 1 .. (m - 1) + (n - m) : r[j] = IF j <= m - 1 THEN a[j] ELSE b[j - (m - 1)]
  <2>1. /\ r \in Seq(S) /\ Len(r) = Len(a) + Len(b) /\ DOMAIN r = 1 .. Len(r)
        /\ \A j \in 1 .. Len(a) + Len(b) : r[j] = IF j <= Len(a) THEN a[j] ELSE b[j - Len(a)]
    BY <1>2, <1>3, ConcatProperties
  <2> QED BY <1>2, <2>1, Zenon
<1>5. (m - 1) + (n - m) = n - 1
  BY <1>1
<1>6. DOMAIN r = 1 .. n - 1 /\ \A j \in 1 .. n - 1 : r[j] = IF j <= m - 1 THEN a[j] ELSE b[j - (m - 1)]
  BY <1>4, <1>5
<1>7. ASSUME NEW j \in 1 .. n - 1 PROVE r[j] = q[orig(j)] /\ orig(j) \in DOMAIN q /\ orig(j) # m
  <2>1. CASE j < m
    BY <1>1, <1>2, <1>6, <2>1
  <2>2. CASE ~(j < m)
    <3>1. j - (m - 1) \in 1 .. n - m /\ (j - (m - 1)) + m = j + 1
      BY <1>1, <2>2
    <3>2. r[j] = b[j - (m - 1)]
      BY <1>1, <1>6, <2>2
    <3>3. r[j] = q[j + 1]
      BY <1>2, <3>1, <3>2
    <3> QED BY <1>1, <2>2, <3>3
  <2> QED BY <2>1, <2>2
<1>8. Distinct(r)
  <2> SUFFICES ASSUME NEW j \in DOMAIN r, NEW h \in DOMAIN r, r[j] = r[h] PROVE j = h
    BY DEF Distinct
  <2>1. j \in 1 .. n - 1 /\ h \in 1 .. n - 1
    BY <1>6
  <2>2. orig(j) = orig(h)
    BY <1>7, <2>1 DEF Distinct
  <2> QED BY <1>1, <2>1, <2>2
<1>9. ASSUME NEW i \in DOMAIN q, i # m PROVE \E j \in DOMAIN r : r[j] = q[i]
  <2> DEFINE j == IF i < m THEN i ELSE i - 1
  <2>1. j \in 1 .. n - 1 /\ orig(j) = i
    BY <1>1, <1>9
  <2> QED BY <1>6, <1>7, <2>1
<1>10. \A j \in DOMAIN r : r[j] \in {q[i] : i \in DOMAIN q} /\ r[j] # q[m]
  BY <1>6, <1>7 DEF Distinct
<1> QED BY <1>4, <1>8, <1>9, <1>10 DEF Elements

-----------------------------------------------------------------------------
(* Between two calls of clone() *)

LEMMA FirstIsOriginal ==
  ASSUME C!Init
  PROVE  Original(src) /\ cpc = "user"
<1>1. src = C!InitSource /\ cpc = "user"
  BY DEF C!Init
<1>2. /\ src.pl = C!SetToSeq(CPropagator) /\ src.bl = C!SetToSeq(CBrancher)
      /\ src.prev = [l \in C!Link |-> IF l \in Local THEN "null" ELSE "own"]
      /\ src.forwarding = [p \in CPropagator |-> FALSE]
      /\ src.council = [p \in CPropagator |-> C!Range(Council(p))]
      /\ src.base = [v \in CVar |-> IF Subscribed(v) = {} THEN "null" ELSE "array"]
      /\ src.index = [v \in CVar |-> "own"]
      /\ src.subscribed = [v \in CVar |-> Subscribed(v)]
      /\ src.noticed = Noticed
  BY <1>1 DEF C!InitSource
<1>3. /\ src.pl \in Seq(CPropagator) /\ Distinct(src.pl) /\ InPl(src) = CPropagator
      /\ src.bl \in Seq(CBrancher) /\ Distinct(src.bl) /\ InBl(src) = CBrancher
  BY <1>2, ListOf, ActorsAre DEF InPl, InBl
<1>4. /\ \A v \in CVar : \A l \in Subscribed(v) :
           \E p \in CPropagator : (l = p \/ l \in Advisors(p)) /\ Updates(p, v)
      /\ \A p \in CPropagator : Advisors(p) \subseteq Advisor
      /\ \A p \in CPropagator : C!Range(Council(p)) = Advisors(p)
      /\ Advisor \cap C!Actor = {} /\ Local \cap (C!Actor \cup Advisor) = {}
      /\ Noticed \subseteq C!Actor /\ C!Actor = CPropagator \cup CBrancher
      /\ C!Link = C!Actor \cup Advisor \cup Local
  BY ActorsAre DEF Advisors, C!Range
<1>5. src \in SourceType
  <2>1. \A v \in CVar : Subscribed(v) \subseteq CPropagator \cup Advisor
    BY <1>4
  <2>2. src = [pl |-> src.pl, bl |-> src.bl, prev |-> src.prev, forwarding |-> src.forwarding,
               council |-> src.council, base |-> src.base, index |-> src.index,
               subscribed |-> src.subscribed, noticed |-> src.noticed]
    BY <1>1 DEF C!InitSource
  <2>3. /\ src.prev \in [C!Link -> {"own", "copy", "null"}] /\ src.forwarding \in [CPropagator -> BOOLEAN]
        /\ src.council \in [CPropagator -> SUBSET Advisor] /\ src.base \in [CVar -> {"null", "array", "copy"}]
        /\ src.index \in [CVar -> {"own", "next"}]
        /\ src.subscribed \in [CVar -> SUBSET (CPropagator \cup Advisor)] /\ src.noticed \in SUBSET C!Actor
    BY <1>2, <1>4, <2>1
  <2> HIDE <1>1, <1>2
  <2> QED BY <1>3, <2>2, <2>3 DEF SourceType
<1>6. /\ \A a \in C!Actor : src.prev[a] = "own"
      /\ \A l \in Local : src.prev[l] = "null"
      /\ \A a \in Advisor : src.prev[a] = "own"
  BY <1>2, <1>4
<1>7. \A p \in CPropagator : C!Live(src, p) = Advisors(p)
  BY <1>2, <1>4, <1>6 DEF C!Live
<1>8. \A v \in CVar : \A l \in src.subscribed[v] :
        \E p \in InPl(src) : (l = p \/ l \in C!Live(src, p)) /\ Updates(p, v)
  BY <1>2, <1>3, <1>4, <1>7
<1>9. \A p \in CPropagator : /\ src.forwarding[p] = FALSE /\ src.council[p] = Advisors(p) /\ p \in InPl(src)
  BY <1>2, <1>3, <1>4
<1>10. \A v \in CVar : /\ src.base[v] # "copy" /\ src.index[v] = "own"
                       /\ src.base[v] = "null" => src.subscribed[v] = {}
  BY <1>2
<1>11. src.noticed \subseteq InPl(src) \cup InBl(src)
  BY <1>2, <1>3, <1>4
<1> QED BY <1>1, <1>3, <1>5, <1>6, <1>8, <1>9, <1>10, <1>11 DEF Original

LEMMA DisposeKeeps ==
  ASSUME Original(src), NEW p \in CPropagator, NEW a \in Advisor, C!DisposeAdvisor(p, a)
  PROVE  Original(src')
<1> DEFINE after == {b \in src.council[p] : C!Before(p, a, b)}
           next == {b \in after : \A b2 \in after : ~C!Before(p, b2, b)}
           gap == {b \in next : src.prev[b] = "null"}
<1>1. src' = C!Unsubscribe([src EXCEPT !.prev[a] = "null", !.council[p] = @ \ gap], {a})
      /\ a \in C!Live(src, p)
  BY DEF C!DisposeAdvisor
<1>2. src \in SourceType /\ \A b \in gap : src.prev[b] = "null"
  BY DEF Original
<1> HIDE DEF gap
<1>3. /\ src' \in SourceType /\ src'.pl = src.pl /\ src'.bl = src.bl /\ src'.noticed = src.noticed
      /\ src'.subscribed = [v \in CVar |-> src.subscribed[v] \ {a}]
      /\ src'.council = [src.council EXCEPT ![p] = @ \ gap] /\ src'.base = src.base
      /\ src'.index = src.index /\ src'.prev = [src.prev EXCEPT ![a] = "null"]
      /\ src'.forwarding = src.forwarding
  <2> DEFINE s == [src EXCEPT !.prev[a] = "null", !.council[p] = @ \ gap]
  <2>1. /\ s \in SourceType /\ s.pl = src.pl /\ s.bl = src.bl /\ s.noticed = src.noticed
        /\ s.subscribed = src.subscribed
        /\ s.council = [src.council EXCEPT ![p] = @ \ gap] /\ s.base = src.base
        /\ s.index = src.index /\ s.prev = [src.prev EXCEPT ![a] = "null"]
        /\ s.forwarding = src.forwarding
    BY <1>2, ActorsAre DEF SourceType
  <2>2. src' = [s EXCEPT !.subscribed = [v \in CVar |-> @[v] \ {a}]]
    BY <1>1 DEF C!Unsubscribe
  <2> HIDE DEF s
  <2> QED BY <2>1, <2>2 DEF SourceType
<1>4. \A l \in C!Link : src'.prev[l] = IF l = a THEN "null" ELSE src.prev[l]
  BY <1>2, <1>3 DEF SourceType
<1>5. InPl(src') = InPl(src) /\ InBl(src') = InBl(src)
  BY <1>3 DEF InPl, InBl
<1>6. \A q \in CPropagator : src'.council[q] \subseteq src.council[q]
                             /\ C!Live(src, q) \ {a} \subseteq C!Live(src', q)
  <2>1. \A q \in CPropagator : src'.council[q] = IF q = p THEN src.council[p] \ gap ELSE src.council[q]
    BY <1>2, <1>3 DEF SourceType
  <2>2. \A q \in CPropagator : src.council[q] \subseteq C!Link
    BY <1>2, ActorsAre DEF SourceType
  <2> QED BY <1>2, <1>4, <2>1, <2>2 DEF C!Live
<1>7. \A v \in CVar : \A l \in src'.subscribed[v] :
        \E q \in InPl(src') : (l = q \/ l \in C!Live(src', q)) /\ Updates(q, v)
  <2>1. \A q \in InPl(src) : q \in CPropagator
    BY <1>2 DEF SourceType, InPl
  <2>2. \A v \in CVar : \A l \in src.subscribed[v] :
        \E q \in InPl(src) : (l = q \/ l \in C!Live(src, q)) /\ Updates(q, v)
    BY DEF Original
  <2> QED BY <1>3, <1>5, <1>6, <2>1, <2>2
<1>8. /\ \A b \in C!Actor : src'.prev[b] = "own"
      /\ \A l \in Local : src'.prev[l] = "null"
      /\ \A b \in Advisor : src'.prev[b] # "copy"
  BY <1>4, ActorsAre DEF Original
<1>9. \A v \in CVar : /\ src'.base[v] # "copy" /\ src'.index[v] = "own"
                      /\ src'.base[v] = "null" => src'.subscribed[v] = {}
  BY <1>3 DEF Original
<1>10. \A q \in CPropagator : /\ src'.forwarding[q] = FALSE /\ src'.council[q] \subseteq Advisors(q)
                              /\ q \notin InPl(src') => src'.council[q] = {}
  BY <1>3, <1>5, <1>6 DEF Original
<1> QED BY <1>3, <1>5, <1>7, <1>8, <1>9, <1>10 DEF Original

LEMMA KillKeeps ==
  ASSUME Original(src), NEW p \in CPropagator, C!KillPropagator(p)
  PROVE  Original(src')
<1> DEFINE as == {p} \cup C!Live(src, p)
<1>1. PICK m \in DOMAIN src.pl :
        /\ src.pl[m] = p
        /\ src' = C!Unsubscribe([src EXCEPT !.pl = C!RemoveAt(@, m), !.noticed = @ \ {p},
                                            !.council[p] = {}], as)
  BY DEF C!KillPropagator
<1>2. src \in SourceType /\ src.pl \in Seq(CPropagator) /\ Distinct(src.pl)
  BY DEF Original, SourceType
<1> DEFINE rest == C!RemoveAt(src.pl, m)
<1>3. rest \in Seq(CPropagator) /\ Distinct(rest) /\ Elements(rest) = InPl(src) \ {p}
  <2>1. Elements(src.pl) = InPl(src)
    BY DEF InPl, Elements
  <2>2. \A r : r = C!RemoveAt(src.pl, m) =>
          r \in Seq(CPropagator) /\ Distinct(r) /\ Elements(r) = Elements(src.pl) \ {src.pl[m]}
    BY <1>2, RemovedIs
  <2> QED BY <1>1, <2>1, <2>2
<1>4. src' = C!Unsubscribe([src EXCEPT !.pl = rest, !.noticed = @ \ {p}, !.council[p] = {}], as)
  BY <1>1
<1> HIDE DEF rest
<1>5. /\ src' \in SourceType /\ src'.pl = rest /\ src'.bl = src.bl /\ src'.noticed = src.noticed \ {p}
      /\ src'.subscribed = [v \in CVar |-> src.subscribed[v] \ as]
      /\ src'.council = [src.council EXCEPT ![p] = {}] /\ src'.base = src.base
      /\ src'.index = src.index /\ src'.prev = src.prev /\ src'.forwarding = src.forwarding
  <2> DEFINE s == [src EXCEPT !.pl = rest, !.noticed = @ \ {p}, !.council[p] = {}]
  <2>1. /\ s \in SourceType /\ s.pl = rest /\ s.bl = src.bl /\ s.noticed = src.noticed \ {p}
        /\ s.subscribed = src.subscribed
        /\ s.council = [src.council EXCEPT ![p] = {}] /\ s.base = src.base
        /\ s.index = src.index /\ s.prev = src.prev /\ s.forwarding = src.forwarding
    BY <1>2, <1>3 DEF SourceType
  <2>2. src' = [s EXCEPT !.subscribed = [v \in CVar |-> @[v] \ as]]
    BY <1>4 DEF C!Unsubscribe
  <2> HIDE DEF s, as
  <2> QED BY <2>1, <2>2 DEF SourceType
<1>6. InPl(src') = InPl(src) \ {p} /\ InBl(src') = InBl(src) /\ InPl(src) \subseteq CPropagator
  <2>1. InPl(src') = Elements(src'.pl)
    BY DEF InPl, Elements
  <2>2. InPl(src') = InPl(src) \ {p}
    BY <1>3, <1>5, <2>1
  <2>3. InBl(src') = InBl(src) /\ InPl(src) \subseteq CPropagator
    BY <1>2, <1>5 DEF InPl, InBl
  <2> QED BY <2>2, <2>3
<1>7. \A q \in CPropagator : src'.council[q] = IF q = p THEN {} ELSE src.council[q]
  BY <1>2, <1>5 DEF SourceType
<1>8. \A q \in CPropagator \ {p} : C!Live(src', q) = C!Live(src, q)
  BY <1>5, <1>7 DEF C!Live
<1>9. ASSUME NEW v \in CVar, NEW l \in src'.subscribed[v]
      PROVE  \E q \in InPl(src') : (l = q \/ l \in C!Live(src', q)) /\ Updates(q, v)
  <2>1. l \in src.subscribed[v] /\ l # p /\ l \notin C!Live(src, p)
    BY <1>5, <1>9
  <2>2. PICK q \in InPl(src) : (l = q \/ l \in C!Live(src, q)) /\ Updates(q, v)
    BY <2>1 DEF Original
  <2>3. q # p
    BY <2>1, <2>2
  <2> QED BY <1>6, <1>8, <2>2, <2>3
<1>10. \A q \in CPropagator : /\ src'.forwarding[q] = FALSE /\ src'.council[q] \subseteq Advisors(q)
                              /\ q \notin InPl(src') => src'.council[q] = {}
  BY <1>5, <1>6, <1>7 DEF Original
<1>11. /\ \A b \in C!Actor : src'.prev[b] = "own"
       /\ \A l \in Local : src'.prev[l] = "null"
       /\ \A b \in Advisor : src'.prev[b] # "copy"
  BY <1>5 DEF Original
<1>12. \A v \in CVar : /\ src'.base[v] # "copy" /\ src'.index[v] = "own"
                       /\ src'.base[v] = "null" => src'.subscribed[v] = {}
  BY <1>5 DEF Original
<1>13. src'.noticed \subseteq InPl(src') \cup InBl(src')
  BY <1>5, <1>6 DEF Original
<1> QED BY <1>3, <1>5, <1>9, <1>10, <1>11, <1>12, <1>13 DEF Original

LEMMA AssignKeeps ==
  ASSUME Original(src), NEW v \in CVar, C!Assign(v)
  PROVE  Original(src')
<1>1. src \in SourceType /\ src' = [src EXCEPT !.base[v] = "null", !.subscribed[v] = {}]
  BY DEF C!Assign, Original
<1>2. /\ src' \in SourceType /\ src'.pl = src.pl /\ src'.bl = src.bl /\ src'.noticed = src.noticed
      /\ src'.subscribed = [src.subscribed EXCEPT ![v] = {}]
      /\ src'.council = src.council /\ src'.base = [src.base EXCEPT ![v] = "null"]
      /\ src'.index = src.index /\ src'.prev = src.prev /\ src'.forwarding = src.forwarding
  BY <1>1 DEF SourceType
<1>3. InPl(src') = InPl(src) /\ InBl(src') = InBl(src) /\ \A p : C!Live(src', p) = C!Live(src, p)
  BY <1>2 DEF InPl, InBl, C!Live
<1>4. /\ \A w \in CVar : src'.base[w] = IF w = v THEN "null" ELSE src.base[w]
      /\ \A w \in CVar : src'.subscribed[w] = IF w = v THEN {} ELSE src.subscribed[w]
  BY <1>1, <1>2 DEF SourceType
<1>5. \A w \in CVar : /\ src'.base[w] # "copy" /\ src'.index[w] = "own"
                      /\ src'.base[w] = "null" => src'.subscribed[w] = {}
                      /\ \A l \in src'.subscribed[w] :
                           \E p \in InPl(src') : (l = p \/ l \in C!Live(src', p)) /\ Updates(p, w)
  BY <1>2, <1>3, <1>4 DEF Original
<1>6. \A q \in CPropagator : /\ src'.forwarding[q] = FALSE /\ src'.council[q] \subseteq Advisors(q)
                             /\ q \notin InPl(src') => src'.council[q] = {}
  BY <1>2, <1>3 DEF Original
<1> QED BY <1>2, <1>3, <1>5, <1>6 DEF Original

-----------------------------------------------------------------------------
(* While clone() is running: what has been linked, what has been started, and what the
   copy constructors have done so far. *)
Complete(c, b, p, n) ==
  \A j \in 1 .. n :
    j \in DOMAIN Members(p) =>
      /\ Members(p)[j].kind = "var" => Members(p)[j].of \in Registered(c)
      /\ Members(p)[j].kind = "council" => Copied(c, p) = C!Live(b, p)

InActor == cpc \in {"pl", "bl"} /\ member > 0
Started == InPl(cl) \cup InBl(cl) \cup (IF InActor THEN {C!Current} ELSE {})

CopyInv ==
  /\ Original(before) /\ Copying(src, cl, before, Started)
  /\ actor \in Nat \ {0} /\ member \in Nat
  /\ cpc = "pl" => /\ actor <= Len(before.pl) + 1 /\ (InActor => actor <= Len(before.pl))
                   /\ cl.pl = SubSeq(before.pl, 1, actor - 1) /\ cl.bl = <<>>
  /\ cpc = "bl" => /\ actor <= Len(before.bl) + 1 /\ (InActor => actor <= Len(before.bl))
                   /\ cl.pl = before.pl /\ cl.bl = SubSeq(before.bl, 1, actor - 1)
  /\ cpc \in {"space", "array"} => cl.pl = before.pl /\ cl.bl = before.bl
  /\ made = InPl(cl) \cup InBl(cl) \cup InLocal(cl) /\ gone = [l \in C!Link |-> 0]
  /\ \A p \in InPl(cl) : Complete(cl, before, p, Len(Members(p)))
  /\ cpc = "pl" /\ InActor => Complete(cl, before, C!Current, member - 1)
  /\ \A p \in CPropagator : AllCopied(src, cl, p) \/ (C!Visiting /\ p = C!Current)

InClone == {"pl", "bl", "space", "array"}
CloneInv ==
  /\ cpc \in {"user", "returned", "thrown"} \cup InClone
  /\ cpc = "user" => Original(src)
  /\ cpc \in InClone => CopyInv
  /\ cpc \in {"returned", "thrown"} => Original(before) /\ Same(src, before)
  /\ cpc = "returned" => C!CloneFaithful
  /\ cpc = "thrown" => \A l \in C!Link : gone[l] = IF l \in made THEN 1 ELSE 0

(* where the actor is that is copied *)
LEMMA CurrentIs ==
  ASSUME CopyInv, cpc \in {"pl", "bl"}, actor <= Len(C!List(cpc))
  PROVE  /\ C!Current \in C!Actor
         /\ cpc = "pl" => /\ C!Current = before.pl[actor] /\ C!Current \in InPl(before)
                          /\ C!Current \in CPropagator /\ C!Current \notin InPl(cl)
                          /\ Append(cl.pl, C!Current) = SubSeq(before.pl, 1, actor)
         /\ cpc = "bl" => /\ C!Current = before.bl[actor] /\ C!Current \in InBl(before)
                          /\ C!Current \in CBrancher
                          /\ Append(cl.bl, C!Current) = SubSeq(before.bl, 1, actor)
<1>1. /\ before.pl \in Seq(CPropagator) /\ Distinct(before.pl)
      /\ before.bl \in Seq(CBrancher) /\ Distinct(before.bl)
      /\ src.pl = before.pl /\ src.bl = before.bl
  BY DEF CopyInv, Copying, Original, SourceType
<1>2. actor \in Nat /\ actor >= 1
  BY DEF CopyInv
<1>3. CASE cpc = "pl"
  <2>1. C!List(cpc) = before.pl /\ C!Current = before.pl[actor]
    BY <1>1, <1>3 DEF C!List, C!Current
  <2>2. cl.pl = SubSeq(before.pl, 1, actor - 1)
    BY <1>3 DEF CopyInv
  <2>3. actor - 1 \in 0 .. Len(before.pl) /\ actor - 1 < Len(before.pl) /\ actor \in DOMAIN before.pl
        /\ (actor - 1) + 1 = actor
    BY <1>1, <1>2, <2>1
  <2>4. Append(cl.pl, C!Current) = SubSeq(before.pl, 1, actor)
    BY <1>1, <2>1, <2>2, <2>3, PrefixIs
  <2>5. \A x \in InPl(cl) : \E j \in 1 .. actor - 1 : x = before.pl[j]
    BY <1>1, <2>2, <2>3, PrefixIs DEF InPl
  <2>6. C!Current \notin InPl(cl)
    <3>1. \A j \in 1 .. actor - 1 : j \in DOMAIN before.pl /\ j # actor
      BY <1>1, <2>3
    <3> QED BY <1>1, <2>1, <2>3, <2>5, <3>1 DEF Distinct
  <2> QED BY <1>1, <1>3, <2>1, <2>3, <2>4, <2>6, ActorsAre DEF InPl
<1>4. CASE cpc = "bl"
  <2>1. C!List(cpc) = before.bl /\ C!Current = before.bl[actor]
    BY <1>1, <1>4 DEF C!List, C!Current
  <2>2. cl.bl = SubSeq(before.bl, 1, actor - 1)
    BY <1>4 DEF CopyInv
  <2>3. actor - 1 \in 0 .. Len(before.bl) /\ actor - 1 < Len(before.bl) /\ actor \in DOMAIN before.bl
        /\ (actor - 1) + 1 = actor
    BY <1>1, <1>2, <2>1
  <2>4. Append(cl.bl, C!Current) = SubSeq(before.bl, 1, actor)
    BY <1>1, <2>1, <2>2, <2>3, PrefixIs
  <2> QED BY <1>1, <1>4, <2>1, <2>3, <2>4, ActorsAre DEF InBl
<1> QED BY <1>3, <1>4

LEMMA CloneStarts ==
  ASSUME Original(src), C!Clone
  PROVE  CopyInv' /\ cpc' \in InClone
<1>1. /\ src' = src /\ before' = src /\ made' = {} /\ gone' = [l \in C!Link |-> 0]
      /\ cl' = C!NoClone /\ cpc' = "pl" /\ actor' = 1 /\ member' = 0
  BY DEF C!Clone
<1>2. /\ cl' \in CloneType /\ cl'.partial = TRUE /\ cl'.pl = <<>> /\ cl'.bl = <<>> /\ cl'.local = <<>>
      /\ cl'.vars_u = {} /\ cl'.vars_noidx = {} /\ cl'.advisors = [p \in CPropagator |-> <<>>]
  BY <1>1 DEF C!NoClone, CloneType
<1>3. /\ InPl(cl') = {} /\ InBl(cl') = {} /\ InLocal(cl') = {}
      /\ \A p \in CPropagator : Copied(cl', p) = {} /\ C!Reversed(p, cl'.advisors[p])
  BY <1>2 DEF InPl, InBl, InLocal, Copied, C!Reversed
<1>4. ~InActor' /\ Started' = {}
  BY <1>1, <1>3 DEF InActor, Started
<1>5. Copying(src, cl', src, {})
  <2>1. Links(src, cl', src, {})
    BY <1>3 DEF Links, Original
  <2>2. Councils(src, cl', src, {})
    <3>1. \A p \in CPropagator : src.forwarding[p] = FALSE /\ C!Live(src, p) \subseteq src.council[p]
      BY DEF Original, C!Live
    <3> QED BY <1>2, <1>3, <3>1 DEF Councils
  <2>3. Variables(src, cl', src)
    BY <1>2 DEF Variables, Registered, Original
  <2> QED BY <1>2, <2>1, <2>2, <2>3 DEF Copying, Original
<1>6. src.pl \in Seq(CPropagator) /\ Len(src.pl) \in Nat /\ SubSeq(src.pl, 1, 1 - 1) = <<>>
  <2>1. src.pl \in Seq(CPropagator) /\ Len(src.pl) \in Nat
    BY DEF Original, SourceType
  <2> QED BY <2>1
<1>7. \A p \in CPropagator : AllCopied(src', cl', p)
  BY <1>1 DEF Original, AllCopied
<1> QED BY <1>1, <1>2, <1>3, <1>4, <1>5, <1>6, <1>7 DEF CopyInv, InClone

LEMMA ActorStarts ==
  ASSUME CopyInv, C!StartActor
  PROVE  CopyInv' /\ cpc' \in InClone
<1>1. /\ cpc \in {"pl", "bl"} /\ actor <= Len(C!List(cpc)) /\ member = 0 /\ member' = 1
      /\ src' = [src EXCEPT !.prev[C!Current] = "copy"]
      /\ UNCHANGED <<cl, cpc, actor, before, made, gone>>
  BY DEF C!StartActor
<1>2. /\ C!Current \in InPl(before) \cup InBl(before)
      /\ Original(before) /\ Copying(src, cl, before, Started)
  BY <1>1, CurrentIs DEF CopyInv
<1>3. /\ Copying(src', cl, before, Started \cup {C!Current}) /\ src'.forwarding = src.forwarding
      /\ src'.council = src.council
  <2> DEFINE k == Started
             a == C!Current
  <2> HIDE DEF k, a
  <2>1. Original(before) /\ Copying(src, cl, before, k) /\ a \in InPl(before) \cup InBl(before)
    BY <1>2 DEF k, a
  <2>2. \A t : t = [src EXCEPT !.prev[a] = "copy"] =>
               /\ Copying(t, cl, before, k \cup {a}) /\ t.forwarding = src.forwarding
               /\ t.council = src.council
    BY <2>1, StartOK
  <2> QED BY <1>1, <2>2 DEF k, a
<1>4. src'.pl = src.pl /\ src'.bl = src.bl
  BY <1>2, <1>3 DEF Copying
<1>5. C!Current' = C!Current
  BY <1>1, <1>4 DEF C!Current, C!List
<1>6. ~InActor /\ InActor' /\ Started' = Started \cup {C!Current}
  BY <1>1, <1>5 DEF InActor, Started
<1>7. Copying(src', cl', before', Started')
  BY <1>1, <1>3, <1>6
<1>8. Complete(cl', before', C!Current', member' - 1)
  BY <1>1 DEF Complete
<1>9. actor' <= Len(C!List(cpc)) /\ (cpc = "pl" => C!List(cpc) = before.pl) /\ (cpc = "bl" => C!List(cpc) = before.bl)
  BY <1>1, <1>2 DEF C!List, Copying
<1>10. \A p \in CPropagator : AllCopied(src', cl', p)
  <2>1. ~C!Visiting
    BY <1>1 DEF C!Visiting, C!InCouncil
  <2> QED BY <1>1, <1>3, <2>1 DEF CopyInv, AllCopied
<1> QED BY <1>1, <1>6, <1>7, <1>8, <1>9, <1>10 DEF CopyInv, InClone

LEMMA TodoIs ==
  ASSUME CopyInv, cpc \in {"pl", "bl", "space"}, member \in 1 .. Len(C!Todo),
         InActor => actor <= Len(C!List(cpc))
  PROVE  /\ C!Todo[member] \in C!Datum \/ (cpc = "pl" /\ C!Todo[member] \in C!Member(C!Current))
         /\ cpc = "pl" => C!Todo = Members(C!Current) /\ C!Current \in CPropagator
<1>1. cpc = "space" => C!Todo = SpaceMembers
  BY DEF C!Todo
<1>2. CASE cpc = "space"
  BY <1>1, <1>2, ActorsAre
<1>3. CASE cpc # "space"
  <2>1. InActor /\ C!Todo = Members(C!Current)
    BY <1>3 DEF InActor, C!Todo
  <2>2. Members(C!Current) \in Seq(C!Member(C!Current))
    BY <1>3, <2>1, CurrentIs, ActorsAre
  <2>3. C!Todo[member] \in C!Member(C!Current)
    BY <2>1, <2>2
  <2>4. cpc = "bl" => C!Current \notin CPropagator
    BY <2>1, CurrentIs, ActorsAre
  <2>5. cpc = "pl" => C!Current \in CPropagator
    BY <2>1, CurrentIs
  <2> QED BY <1>3, <2>1, <2>3, <2>4, <2>5 DEF C!Member
<1> QED BY <1>2, <1>3

LEMMA MemberIs ==
  ASSUME CopyInv, C!CopyMember
  PROVE  LET m == C!Todo[member]
         IN /\ Copying(src', cl', before, Started) /\ cl'.pl = cl.pl /\ cl'.bl = cl.bl
            /\ InLocal(cl) \subseteq InLocal(cl') /\ Registered(cl) \subseteq Registered(cl')
            /\ m.kind = "var" => m.of \in Registered(cl')
            /\ cl'.advisors = cl.advisors /\ src'.forwarding = src.forwarding
            /\ src'.council = src.council
<1> DEFINE m == C!Todo[member]
<1>1. /\ cpc \in {"pl", "bl", "space"} /\ 0 < member /\ member <= Len(C!Todo) /\ m.kind # "council"
      /\ src' = C!Update(src, cl, m).s /\ cl' = C!Update(src, cl, m).c
  BY DEF C!CopyMember
<1>2. /\ Original(before) /\ Copying(src, cl, before, Started) /\ member \in Nat
      /\ InActor => actor <= Len(C!List(cpc))
  BY <1>1 DEF CopyInv, Copying, C!List, InActor
<1>3. member \in 1 .. Len(C!Todo)
  BY <1>1, <1>2, ActorsAre, CurrentIs DEF C!Todo, InActor
<1>4. m \in C!Datum \/ (cpc = "pl" /\ m \in C!Member(C!Current))
  BY <1>1, <1>2, <1>3, TodoIs
<1> HIDE DEF m
<1>5. \/ m.kind = "var" /\ m.of \in CVar
      \/ m.kind = "local" /\ m.of \in Local
  BY <1>1, <1>4 DEF C!Datum, C!Member
<1>6. CASE m.kind = "var"
  <2>1. m.of \in CVar
    BY <1>5, <1>6
  <2>2. C!Update(src, cl, m) = C!CopyVar(src, cl, m.of)
    BY <1>6 DEF C!Update
  <2>3. C!CopyVar(src, cl, m.of) = [s |-> src', c |-> cl']
    BY <1>1, <2>2 DEF C!CopyVar
  <2>4. /\ Copying(src', cl', before, Started) /\ Registered(cl') = Registered(cl) \cup {m.of}
        /\ cl'.pl = cl.pl /\ cl'.bl = cl.bl /\ cl'.local = cl.local /\ cl'.advisors = cl.advisors
        /\ src'.forwarding = src.forwarding /\ src'.council = src.council
    BY <1>2, <2>1, <2>3, CopyVarOK
  <2> QED BY <1>6, <2>4 DEF m, InLocal
<1>7. CASE m.kind = "local"
  <2>1. m.of \in Local
    BY <1>5, <1>7
  <2>2. C!Update(src, cl, m) = C!CopyLocal(src, cl, m.of)
    BY <1>7 DEF C!Update
  <2>3. C!CopyLocal(src, cl, m.of) = [s |-> src', c |-> cl']
    BY <1>1, <2>2 DEF C!CopyLocal
  <2>4. /\ Copying(src', cl', before, Started) /\ InLocal(cl') = InLocal(cl) \cup {m.of}
        /\ cl'.pl = cl.pl /\ cl'.bl = cl.bl /\ cl'.advisors = cl.advisors
        /\ Registered(cl') = Registered(cl) /\ src'.forwarding = src.forwarding
        /\ src'.council = src.council
    BY <1>2, <2>1, <2>3, CopyLocalOK
  <2> QED BY <1>7, <2>4 DEF m
<1> QED BY <1>5, <1>6, <1>7

LEMMA MemberCopied ==
  ASSUME CopyInv, C!CopyMember
  PROVE  CopyInv' /\ cpc' \in InClone
<1> DEFINE m == C!Todo[member]
<1>1. /\ cpc \in {"pl", "bl", "space"} /\ 0 < member /\ member <= Len(C!Todo) /\ m.kind # "council"
      /\ made' = made \cup C!Made /\ member' = member + 1
      /\ UNCHANGED <<cpc, actor, before, gone>>
  BY DEF C!CopyMember
<1>2. /\ Copying(src', cl', before, Started) /\ cl'.pl = cl.pl /\ cl'.bl = cl.bl
      /\ InLocal(cl) \subseteq InLocal(cl') /\ Registered(cl) \subseteq Registered(cl')
      /\ m.kind = "var" => m.of \in Registered(cl')
      /\ cl'.advisors = cl.advisors /\ src'.forwarding = src.forwarding
      /\ src'.council = src.council
  <2> HIDE DEF C!CopyMember
  <2> QED BY MemberIs
<1>3. /\ Original(before) /\ Copying(src, cl, before, Started) /\ member \in Nat
      /\ src'.pl = src.pl /\ src'.bl = src.bl
  BY <1>2 DEF CopyInv, Copying
<1>4. C!Current' = C!Current /\ C!List(cpc)' = C!List(cpc)
  BY <1>1, <1>3 DEF C!Current, C!List
<1>5. InActor' = InActor /\ Started' = Started
  <2>1. InActor <=> cpc \in {"pl", "bl"}
    BY <1>1 DEF InActor
  <2>2. InActor' <=> cpc \in {"pl", "bl"}
    BY <1>1, <1>3 DEF InActor
  <2>3. InPl(cl') = InPl(cl) /\ InBl(cl') = InBl(cl)
    BY <1>2 DEF InPl, InBl
  <2>4. InActor' = InActor
    BY <2>1, <2>2 DEF InActor
  <2> QED BY <1>4, <2>3, <2>4 DEF Started
<1>6. Copying(src', cl', before', Started')
  BY <1>1, <1>2, <1>5
<1>7. made' = InPl(cl') \cup InBl(cl') \cup InLocal(cl')
  <2>1. C!Made = InLocal(cl') \ InLocal(cl)
    BY DEF C!Made, C!Range, InLocal
  <2>2. InPl(cl') = InPl(cl) /\ InBl(cl') = InBl(cl)
    BY <1>2 DEF InPl, InBl
  <2>3. made = InPl(cl) \cup InBl(cl) \cup InLocal(cl)
    BY DEF CopyInv
  <2> QED BY <1>1, <1>2, <2>1, <2>2, <2>3
<1>8. cpc = "pl" => m = Members(C!Current)[member] /\ InActor
  BY <1>1 DEF C!Todo, InActor
<1>9. \A q, n : Complete(cl, before, q, n) => Complete(cl', before, q, n)
  BY <1>2 DEF Complete, Copied
<1>10. ASSUME cpc = "pl" PROVE Complete(cl', before, C!Current, member)
  <2> DEFINE p == C!Current
  <2>1. Complete(cl', before, p, member - 1)
    BY <1>8, <1>9, <1>10 DEF CopyInv
  <2> HIDE DEF p
  <2> SUFFICES ASSUME NEW j \in 1 .. member, j \in DOMAIN Members(p)
               PROVE  /\ Members(p)[j].kind = "var" => Members(p)[j].of \in Registered(cl')
                      /\ Members(p)[j].kind = "council" => Copied(cl', p) = C!Live(before, p)
    BY DEF Complete, p
  <2>2. CASE j = member
    BY <1>1, <1>2, <1>8, <1>10, <2>2 DEF p
  <2>3. CASE j # member
    <3>1. j \in 1 .. member - 1
      BY <1>3, <2>3
    <3> QED BY <2>1, <3>1 DEF Complete
  <2> QED BY <2>2, <2>3
<1>11. \A q \in CPropagator : AllCopied(src', cl', q)
  <2>1. ~C!Visiting
    BY <1>1 DEF C!Visiting, C!InCouncil
  <2> QED BY <1>2, <2>1 DEF CopyInv, AllCopied, Copied
<1>12. InPl(cl') = InPl(cl)
  BY <1>2 DEF InPl
<1>13. member' - 1 = member /\ member' \in Nat
  BY <1>1, <1>3
<1>14. /\ \A q \in InPl(cl') : Complete(cl', before', q, Len(Members(q)))
       /\ cpc' = "pl" /\ InActor' => Complete(cl', before', C!Current', member' - 1)
  <2>1. \A q \in InPl(cl) : Complete(cl, before, q, Len(Members(q)))
    BY DEF CopyInv
  <2> QED BY <1>1, <1>4, <1>9, <1>10, <1>12, <1>13, <2>1
<1>15. /\ Original(before') /\ actor' \in Nat \ {0}
       /\ cpc' = "pl" => /\ actor' <= Len(before'.pl) + 1 /\ (InActor' => actor' <= Len(before'.pl))
                         /\ cl'.pl = SubSeq(before'.pl, 1, actor' - 1) /\ cl'.bl = <<>>
       /\ cpc' = "bl" => /\ actor' <= Len(before'.bl) + 1 /\ (InActor' => actor' <= Len(before'.bl))
                         /\ cl'.pl = before'.pl /\ cl'.bl = SubSeq(before'.bl, 1, actor' - 1)
       /\ cpc' \in {"space", "array"} => cl'.pl = before'.pl /\ cl'.bl = before'.bl
       /\ gone' = [l \in C!Link |-> 0]
  <2> HIDE DEF InActor
  <2> QED BY <1>1, <1>2, <1>5, <1>13 DEF CopyInv
<1> QED BY <1>1, <1>6, <1>7, <1>11, <1>13, <1>14, <1>15 DEF CopyInv, InClone

(* In Council::update(): only the propagator being copied, its chain and the copies of its
   advisors change, and all of these have been made when it is left. *)
LEMMA CouncilStep ==
  ASSUME CopyInv, C!InCouncil, UNCHANGED <<cpc, actor, before, made, gone>>,
         Copying(src', cl', before, Started), cl'.pl = cl.pl, cl'.bl = cl.bl, cl'.local = cl.local,
         Registered(cl') = Registered(cl),
         \A q \in CPropagator \ {C!Current} : /\ src'.forwarding[q] = src.forwarding[q]
                                              /\ src'.council[q] = src.council[q]
                                              /\ cl'.advisors[q] = cl.advisors[q],
         \/ member' = member
         \/ /\ member' = member + 1 /\ AllCopied(src', cl', C!Current)
            /\ Copied(cl', C!Current) = C!Live(before, C!Current)
  PROVE  CopyInv' /\ cpc' \in InClone
<1> DEFINE p == C!Current
<1>1. /\ cpc = "pl" /\ 0 < member /\ member <= Len(C!Todo) /\ C!Todo[member].kind = "council"
      /\ member \in Nat /\ InActor /\ actor <= Len(C!List(cpc))
      /\ Copying(src, cl, before, Started)
  BY DEF C!InCouncil, CopyInv, InActor, C!List, Copying
<1>2. p \in CPropagator /\ p \notin InPl(cl) /\ p \in C!Actor
  BY <1>1, CurrentIs
<1>3. /\ C!Todo = Members(p) /\ member \in DOMAIN Members(p) /\ Members(p)[member].kind = "council"
      /\ \A j \in DOMAIN Members(p) : Members(p)[j].kind = "council" => j = member
  <2>1. C!Todo = Members(p) /\ Members(p) \in Seq(C!Member(p))
    BY <1>1, <1>2, ActorsAre DEF C!Todo
  <2>2. member \in DOMAIN Members(p) /\ Members(p)[member].kind = "council"
    BY <1>1, <2>1
  <2> QED BY <1>2, <2>1, <2>2, ActorsAre
<1>4. member' \in Nat /\ member' > 0 /\ src'.pl = src.pl /\ src'.bl = src.bl
  BY <1>1 DEF Copying
<1>5. C!Current' = p /\ InActor'
  BY <1>1, <1>4 DEF C!Current, C!List, InActor
<1>6. InPl(cl') = InPl(cl) /\ InBl(cl') = InBl(cl) /\ InLocal(cl') = InLocal(cl)
  BY DEF InPl, InBl, InLocal
<1>7. Started' = Started
  BY <1>1, <1>5, <1>6 DEF Started
<1>8. \A q \in CPropagator : AllCopied(src', cl', q) \/ (C!Visiting' /\ q = C!Current')
  <2>1. ASSUME NEW q \in CPropagator, q # p PROVE AllCopied(src', cl', q)
    BY <2>1 DEF CopyInv, AllCopied, Copied
  <2>2. CASE member' = member
    <3>1. C!Visiting' <=> src'.forwarding[p]
      <4>1. C!Todo' = C!Todo
        BY <1>1, <1>3, <1>5 DEF C!Todo
      <4> QED BY <1>1, <1>5, <2>2, <4>1 DEF C!Visiting, C!InCouncil
    <3> QED BY <1>5, <2>1, <3>1 DEF AllCopied
  <2>3. CASE member' # member
    BY <2>1, <2>3
  <2> QED BY <2>2, <2>3
<1>9. \A q \in InPl(cl') : Complete(cl', before, q, Len(Members(q)))
  <2>1. \A q \in InPl(cl) : q # p /\ q \in CPropagator /\ Complete(cl, before, q, Len(Members(q)))
    BY <1>1, <1>2 DEF CopyInv, Copying, CloneType, InPl
  <2> QED BY <1>6, <2>1 DEF Complete, Copied
<1>10. Complete(cl', before, p, member' - 1)
  <2> SUFFICES ASSUME NEW j \in 1 .. member' - 1, j \in DOMAIN Members(p)
               PROVE  /\ Members(p)[j].kind = "var" => Members(p)[j].of \in Registered(cl')
                      /\ Members(p)[j].kind = "council" => Copied(cl', p) = C!Live(before, p)
    BY DEF Complete
  <2>1. CASE j = member
    <3>1. member' = member + 1
      BY <1>1, <2>1
    <3> QED BY <1>1, <1>3, <2>1, <3>1
  <2>2. CASE j # member
    <3>1. j \in 1 .. member - 1 /\ Members(p)[j].kind # "council"
      BY <1>1, <1>3, <2>2
    <3>2. Complete(cl, before, p, member - 1)
      BY <1>1 DEF CopyInv
    <3> QED BY <3>1, <3>2 DEF Complete
  <2> QED BY <2>1, <2>2
<1> HIDE DEF p
<1>11. cpc' = "pl" /\ InActor' => Complete(cl', before', C!Current', member' - 1)
  BY <1>5, <1>10
<1>12. Copying(src', cl', before', Started')
  BY <1>7
<1>13. /\ Original(before') /\ actor' \in Nat \ {0}
       /\ actor' <= Len(before'.pl) + 1 /\ actor' <= Len(before'.pl)
       /\ cl'.pl = SubSeq(before'.pl, 1, actor' - 1) /\ cl'.bl = <<>>
       /\ gone' = [l \in C!Link |-> 0]
       /\ made' = InPl(cl') \cup InBl(cl') \cup InLocal(cl')
  BY <1>1, <1>6 DEF CopyInv
<1> QED BY <1>1, <1>4, <1>8, <1>9, <1>11, <1>12, <1>13 DEF CopyInv, InClone

LEMMA AdvisorsCopied ==
  ASSUME CopyInv, C!EnterCouncil \/ C!CopyAdvisor \/ C!DropAdvisor \/ C!LeaveCouncil
  PROVE  CopyInv' /\ cpc' \in InClone
<1> DEFINE p == C!Current
           k == Started
<1>1. C!InCouncil /\ UNCHANGED <<cpc, actor, before, made, gone>>
  BY DEF C!EnterCouncil, C!CopyAdvisor, C!DropAdvisor, C!LeaveCouncil, C!Visiting
<1>2. Original(before) /\ Copying(src, cl, before, k) /\ p \in k \cap CPropagator
  <2>1. cpc = "pl" /\ InActor /\ actor <= Len(C!List(cpc))
    BY <1>1 DEF C!InCouncil, CopyInv, InActor, C!List, Copying
  <2> QED BY <2>1, CurrentIs DEF CopyInv, Started
<1> HIDE DEF p, k
<1>3. C!Live(src, p) = C!Live(before, p) /\ C!Left(src, p) = src.council[p] \ Copied(cl, p)
      /\ Copied(cl, p) \subseteq C!Live(before, p) /\ C!Live(before, p) \subseteq src.council[p]
  BY <1>2, AdvisorIs DEF Copying, Councils
<1>4. CASE C!EnterCouncil
  <2>1. /\ ~src.forwarding[p] /\ cl' = cl
        /\ src' = Entered(src, p)
        /\ member' = IF C!Chain(src, p) = {} THEN member + 1 ELSE member
    BY <1>4 DEF C!EnterCouncil, Entered, p
  <2>2. /\ Copying(src', cl, before, k)
        /\ \A q \in CPropagator \ {p} : /\ src'.forwarding[q] = src.forwarding[q]
                                        /\ src'.council[q] = src.council[q]
        /\ C!Chain(src, p) = {} => ~src'.forwarding[p] /\ Copied(cl, p) = C!Live(before, p)
    BY <1>2, <2>1, EnterOK
  <2>3. \/ member' = member
        \/ member' = member + 1 /\ AllCopied(src', cl', p) /\ Copied(cl', p) = C!Live(before, p)
    BY <2>1, <2>2 DEF AllCopied
  <2> QED BY <1>1, <2>1, <2>2, <2>3, CouncilStep DEF p, k
<1>5. CASE C!CopyAdvisor
  <2>1. PICK a \in C!Live(src, p) :
          /\ src.forwarding[p] /\ C!First(p, a, C!Left(src, p)) /\ member' = member
          /\ src' = Forwarding(src, a) /\ cl' = Prefixed(cl, p, a)
    BY <1>5 DEF C!CopyAdvisor, C!Visiting, Forwarding, Prefixed, p
  <2>2. /\ Copying(src', cl', before, k) /\ src'.forwarding = src.forwarding /\ src'.council = src.council
        /\ cl'.pl = cl.pl /\ cl'.bl = cl.bl /\ cl'.local = cl.local /\ Registered(cl') = Registered(cl)
        /\ \A q \in CPropagator \ {p} : cl'.advisors[q] = cl.advisors[q]
    BY <1>2, <2>1, CopyAdvisorOK
  <2> QED BY <1>1, <2>1, <2>2, CouncilStep DEF p, k
<1>6. CASE C!DropAdvisor
  <2>1. PICK a \in src.council[p] \ C!Live(src, p) :
          member' = member /\ cl' = cl /\ src' = [src EXCEPT !.council[p] = @ \ {a}]
    BY <1>6 DEF C!DropAdvisor, p
  <2>2. /\ Copying(src', cl, before, k) /\ src'.forwarding = src.forwarding
        /\ \A q \in CPropagator \ {p} : src'.council[q] = src.council[q]
    BY <1>2, <2>1, DropAdvisorOK
  <2> QED BY <1>1, <2>1, <2>2, CouncilStep DEF p, k
<1>7. CASE C!LeaveCouncil
  <2>1. /\ C!Left(src, p) = {} /\ member' = member + 1 /\ src' = src /\ cl' = cl
    BY <1>7 DEF C!LeaveCouncil, p
  <2>2. src.council[p] = Copied(cl, p) /\ Copied(cl, p) = C!Live(before, p)
    BY <1>3, <2>1
  <2>3. AllCopied(src', cl', p) /\ Copied(cl', p) = C!Live(before, p)
    BY <2>1, <2>2 DEF AllCopied
  <2> QED BY <1>1, <1>2, <2>1, <2>3, CouncilStep DEF p, k
<1> QED BY <1>4, <1>5, <1>6, <1>7

(* the elements of a list and one more *)
LEMMA AppendedIs ==
  ASSUME NEW S, NEW q \in Seq(S), NEW x \in S
  PROVE  Elements(Append(q, x)) = Elements(q) \cup {x}
<1> DEFINE r == Append(q, x)
<1>1. /\ Len(q) \in Nat /\ DOMAIN q = 1 .. Len(q) /\ r \in Seq(S) /\ DOMAIN r = 1 .. Len(q) + 1
      /\ \A j \in 1 .. Len(q) + 1 : r[j] = IF j = Len(q) + 1 THEN x ELSE q[j]
  OBVIOUS
<1> HIDE DEF r
<1>2. ASSUME NEW y \in Elements(q) PROVE y \in Elements(r)
  <2>1. PICK j \in DOMAIN q : y = q[j]
    BY <1>2 DEF Elements
  <2>2. j \in DOMAIN r /\ r[j] = y
    BY <1>1, <2>1
  <2> QED BY <2>2 DEF Elements
<1>3. x \in Elements(r)
  <2>1. Len(q) + 1 \in DOMAIN r /\ r[Len(q) + 1] = x
    BY <1>1
  <2> QED BY <2>1 DEF Elements
<1>4. \A y \in Elements(r) : y \in Elements(q) \cup {x}
  BY <1>1 DEF Elements
<1> QED BY <1>2, <1>3, <1>4 DEF r

LEMMA ActorLinked ==
  ASSUME CopyInv, C!LinkActor
  PROVE  CopyInv' /\ cpc' \in InClone
<1>1. /\ cpc \in {"pl", "bl"} /\ actor <= Len(C!List(cpc)) /\ member > Len(C!Todo)
      /\ cl' = IF cpc = "pl" THEN [cl EXCEPT !.pl = Append(@, C!Current)]
               ELSE [cl EXCEPT !.bl = Append(@, C!Current)]
      /\ made' = made \cup {C!Current} /\ actor' = actor + 1 /\ member' = 0
      /\ UNCHANGED <<src, cpc, before, gone>>
  BY DEF C!LinkActor
<1>2. /\ Original(before) /\ Copying(src, cl, before, Started) /\ member \in Nat /\ actor \in Nat
      /\ cl \in CloneType /\ cl.pl \in Seq(CPropagator) /\ cl.bl \in Seq(CBrancher)
      /\ before.pl \in Seq(CPropagator) /\ before.bl \in Seq(CBrancher)
      /\ src.pl = before.pl /\ src.bl = before.bl
  BY DEF CopyInv, Copying, CloneType, Original, SourceType
<1> DEFINE a == C!Current
<1>3. /\ a \in C!Actor
      /\ cpc = "pl" => a \in CPropagator /\ a \notin InPl(cl) /\ Append(cl.pl, a) = SubSeq(before.pl, 1, actor)
      /\ cpc = "bl" => a \in CBrancher /\ Append(cl.bl, a) = SubSeq(before.bl, 1, actor)
  BY <1>1, CurrentIs
<1>4. member > Len(Members(a)) /\ Len(Members(a)) \in Nat /\ InActor
  <2>1. Members(a) \in Seq(C!Member(a))
    BY <1>3, ActorsAre
  <2>2. C!Todo = Members(a)
    BY <1>1 DEF C!Todo
  <2> QED BY <1>1, <1>2, <2>1, <2>2 DEF InActor
<1> HIDE DEF a
<1>5. /\ Copying(src, cl', before, Started) /\ Registered(cl') = Registered(cl)
      /\ cl'.advisors = cl.advisors /\ cl'.local = cl.local
  <2>1. \/ \E x \in CPropagator : cl' = [cl EXCEPT !.pl = Append(@, x)]
        \/ \E x \in CBrancher : cl' = [cl EXCEPT !.bl = Append(@, x)]
    BY <1>1, <1>3 DEF a
  <2> DEFINE k == Started
  <2> HIDE DEF k
  <2>2. Copying(src, cl, before, k)
    BY <1>2 DEF k
  <2>3. \A d : (\/ \E x \in CPropagator : d = [cl EXCEPT !.pl = Append(@, x)]
                \/ \E x \in CBrancher : d = [cl EXCEPT !.bl = Append(@, x)]) =>
           /\ Copying(src, d, before, k) /\ Registered(d) = Registered(cl)
           /\ d.advisors = cl.advisors /\ d.local = cl.local
    BY <1>2, <2>2, LinkOK
  <2> QED BY <2>1, <2>3 DEF k
<1>6. /\ cpc = "pl" => cl'.pl = Append(cl.pl, a) /\ cl'.bl = cl.bl
      /\ cpc = "bl" => cl'.bl = Append(cl.bl, a) /\ cl'.pl = cl.pl
  <2>1. cpc = "pl" => cl' = [cl EXCEPT !.pl = Append(cl.pl, a)]
    BY <1>1 DEF a
  <2>2. cpc = "bl" => cl' = [cl EXCEPT !.bl = Append(cl.bl, a)]
    BY <1>1 DEF a
  <2> DEFINE x == Append(cl.pl, a)
             y == Append(cl.bl, a)
  <2> HIDE DEF x, y
  <2>3. cpc = "pl" => cl' = [cl EXCEPT !.pl = x]
    BY <2>1 DEF x
  <2>4. cpc = "bl" => cl' = [cl EXCEPT !.bl = y]
    BY <2>2 DEF y
  <2>5. /\ cpc = "pl" => cl'.pl = x /\ cl'.bl = cl.bl
        /\ cpc = "bl" => cl'.bl = y /\ cl'.pl = cl.pl
    BY <1>2, <2>3, <2>4 DEF CloneType
  <2> QED BY <2>5 DEF x, y
<1>7. /\ cpc = "pl" => InPl(cl') = InPl(cl) \cup {a} /\ InBl(cl') = InBl(cl)
      /\ cpc = "bl" => InBl(cl') = InBl(cl) \cup {a} /\ InPl(cl') = InPl(cl)
  <2>1. cpc = "pl" => Elements(Append(cl.pl, a)) = Elements(cl.pl) \cup {a}
    BY <1>2, <1>3, AppendedIs
  <2>2. cpc = "bl" => Elements(Append(cl.bl, a)) = Elements(cl.bl) \cup {a}
    BY <1>2, <1>3, AppendedIs
  <2>3. \A c : InPl(c) = Elements(c.pl) /\ InBl(c) = Elements(c.bl)
    BY DEF InPl, InBl, Elements
  <2> QED BY <1>6, <2>1, <2>2, <2>3
<1>8. ~InActor' /\ Started' = Started
  <2>1. ~InActor'
    BY <1>1 DEF InActor
  <2>2. Started' = InPl(cl') \cup InBl(cl')
    BY <2>1 DEF Started
  <2>3. Started = InPl(cl) \cup InBl(cl) \cup {a}
    BY <1>4 DEF Started, a
  <2> QED BY <1>1, <1>7, <2>1, <2>2, <2>3
<1>9. made' = InPl(cl') \cup InBl(cl') \cup InLocal(cl')
  <2>1. InLocal(cl') = InLocal(cl) /\ made = InPl(cl) \cup InBl(cl) \cup InLocal(cl)
    BY <1>5 DEF InLocal, CopyInv
  <2>2. made' = made \cup {a}
    BY <1>1 DEF a
  <2> QED BY <1>1, <1>7, <2>1, <2>2
<1>10. ASSUME NEW q \in InPl(cl') PROVE Complete(cl', before, q, Len(Members(q)))
  <2>1. CASE q \in InPl(cl)
    <3>1. Complete(cl, before, q, Len(Members(q)))
      BY <2>1 DEF CopyInv
    <3> QED BY <1>5, <3>1 DEF Complete, Copied
  <2>2. CASE q \notin InPl(cl)
    <3>1. cpc = "pl" /\ q = a
      BY <1>1, <1>7, <1>10, <2>2
    <3>2. Complete(cl, before, a, member - 1)
      BY <1>4, <3>1 DEF CopyInv, a
    <3>3. \A j \in 1 .. Len(Members(a)) : j \in 1 .. member - 1
      BY <1>2, <1>4
    <3> QED BY <1>5, <3>1, <3>2, <3>3 DEF Complete, Copied
  <2> QED BY <2>1, <2>2
<1>11. \A q \in CPropagator : AllCopied(src', cl', q)
  <2>1. ~C!Visiting
    <3>1. Len(C!Todo) \in Nat
      BY <1>1, <1>4 DEF C!Todo, a
    <3> QED BY <1>1, <1>2, <3>1 DEF C!Visiting, C!InCouncil
  <2> QED BY <1>1, <1>5, <2>1 DEF CopyInv, AllCopied, Copied
<1>12. /\ actor' \in Nat \ {0} /\ actor' - 1 = actor
       /\ cpc = "pl" => actor' <= Len(before.pl) + 1
       /\ cpc = "bl" => actor' <= Len(before.bl) + 1
  <2>1. /\ cpc = "pl" => C!List(cpc) = before.pl
        /\ cpc = "bl" => C!List(cpc) = before.bl
    BY <1>2 DEF C!List
  <2>2. Len(before.pl) \in Nat /\ Len(before.bl) \in Nat
    BY <1>2
  <2>3. /\ cpc = "pl" => actor <= Len(before.pl)
        /\ cpc = "bl" => actor <= Len(before.bl)
    BY <1>1, <2>1, Zenon
  <2>4. actor' = actor + 1 /\ actor \in Nat
    BY <1>1, <1>2
  <2> QED BY <2>2, <2>3, <2>4
<1>13. /\ cpc = "pl" => cl'.pl = SubSeq(before.pl, 1, actor' - 1) /\ cl'.bl = <<>>
       /\ cpc = "bl" => cl'.bl = SubSeq(before.bl, 1, actor' - 1) /\ cl'.pl = before.pl
  BY <1>3, <1>6, <1>12 DEF CopyInv
<1>14. Original(before) /\ gone = [l \in C!Link |-> 0]
  BY DEF CopyInv
<1>15. member' \in Nat /\ member' - 1 \in Int
  BY <1>1
<1> QED BY <1>1, <1>5, <1>8, <1>9, <1>10, <1>11, <1>12, <1>13, <1>14, <1>15 DEF CopyInv, InClone

LEMMA ListDone ==
  ASSUME CopyInv, C!NextList \/ C!CopiedSpace
  PROVE  CopyInv' /\ cpc' \in InClone
<1>1. /\ Original(before) /\ Copying(src, cl, before, Started) /\ member \in Nat /\ actor \in Nat
      /\ before.pl \in Seq(CPropagator) /\ before.bl \in Seq(CBrancher)
      /\ src.pl = before.pl /\ src.bl = before.bl /\ Len(before.pl) \in Nat /\ Len(before.bl) \in Nat
  BY DEF CopyInv, Copying, Original, SourceType
<1>2. UNCHANGED <<src, cl, before, made, gone>>
  BY DEF C!NextList, C!CopiedSpace
<1>3. CASE C!NextList
  <2>1. /\ cpc \in {"pl", "bl"} /\ actor > Len(C!List(cpc)) /\ actor' = 1
        /\ cpc = "pl" => cpc' = "bl" /\ member' = 0
        /\ cpc = "bl" => cpc' = "space" /\ member' = 1
    BY <1>3 DEF C!NextList
  <2>2. /\ cpc = "pl" => actor - 1 = Len(before.pl) /\ ~InActor
        /\ cpc = "bl" => actor - 1 = Len(before.bl) /\ ~InActor
    BY <1>1, <2>1 DEF CopyInv, C!List
  <2>3. ~InActor /\ ~InActor'
    BY <2>1, <2>2 DEF InActor
  <2>4. /\ cpc = "pl" => cl.pl = before.pl /\ cl.bl = <<>>
        /\ cpc = "bl" => cl.bl = before.bl /\ cl.pl = before.pl
    <3>1. SubSeq(before.pl, 1, Len(before.pl)) = before.pl /\ SubSeq(before.bl, 1, Len(before.bl)) = before.bl
      BY <1>1, PrefixIs
    <3> QED BY <2>2, <3>1 DEF CopyInv
  <2>5. Started' = Started
    BY <1>2, <2>3 DEF Started
  <2>6. actor' \in Nat \ {0} /\ member' \in Nat /\ SubSeq(before.bl, 1, actor' - 1) = <<>>
        /\ actor' <= Len(before.bl) + 1
    BY <1>1, <2>1
  <2>7. /\ \A p \in InPl(cl) : Complete(cl, before, p, Len(Members(p)))
        /\ \A p \in CPropagator : AllCopied(src, cl, p)
        /\ made = InPl(cl) \cup InBl(cl) \cup InLocal(cl) /\ gone = [l \in C!Link |-> 0]
    BY <2>3 DEF CopyInv, C!Visiting, C!InCouncil, InActor
  <2> QED BY <1>1, <1>2, <2>1, <2>3, <2>4, <2>5, <2>6, <2>7 DEF CopyInv, InClone
<1>4. CASE C!CopiedSpace
  <2>1. cpc = "space" /\ cpc' = "array" /\ actor' = actor /\ member' = member
    BY <1>4 DEF C!CopiedSpace
  <2>2. ~InActor /\ ~InActor'
    BY <2>1 DEF InActor
  <2>3. Started' = Started
    BY <1>2, <2>2 DEF Started
  <2>4. ~C!Visiting
    BY <2>1 DEF C!Visiting, C!InCouncil
  <2> QED BY <1>1, <1>2, <2>1, <2>2, <2>3, <2>4 DEF CopyInv, InClone
<1> QED BY <1>3, <1>4

(* everything that has been constructed is disposed of once, the original restored *)
LEMMA ThrownIs ==
  ASSUME CopyInv, NEW s, NEW c, NEW k, Copying(s, c, before, k),
         \A p \in CPropagator : AllCopied(s, c, p),
         c.pl = cl.pl, c.bl = cl.bl, c.local = cl.local, C!Throw(s, c), UNCHANGED <<before, made>>
  PROVE  /\ cpc' = "thrown" /\ Original(before') /\ Same(src', before')
         /\ \A l \in C!Link : gone'[l] = IF l \in made' THEN 1 ELSE 0
<1>1. /\ src' = C!Recovered(s, c) /\ cpc' = "thrown"
      /\ gone' = [l \in C!Link |-> IF l \in C!Disposed(c) THEN gone[l] + 1 ELSE gone[l]]
  BY DEF C!Throw
<1>2. Original(before) /\ Same(src', before)
  BY <1>1, RecoveredIs DEF CopyInv
<1>3. C!Disposed(c) = made
  <2>1. C!Disposed(c) = InPl(cl) \cup InBl(cl) \cup InLocal(cl)
    BY DEF C!Disposed, C!Range, InPl, InBl, InLocal
  <2> QED BY <2>1 DEF CopyInv
<1>4. gone = [l \in C!Link |-> 0]
  BY DEF CopyInv
<1>5. \A l \in C!Link : gone'[l] = IF l \in made' THEN 1 ELSE 0
  BY <1>1, <1>3, <1>4
<1> QED BY <1>1, <1>2, <1>5

LEMMA CopyingThrows ==
  ASSUME CopyInv, cpc \in InClone, C!Throws \/ C!ArrayThrows
  PROVE  /\ cpc' = "thrown" /\ Original(before') /\ Same(src', before')
         /\ \A l \in C!Link : gone'[l] = IF l \in made' THEN 1 ELSE 0
<1> DEFINE k == Started
<1>1. Original(before) /\ Copying(src, cl, before, k) /\ UNCHANGED <<before, made>>
  BY DEF CopyInv, C!Throws, C!ArrayThrows
<1>2. CASE C!Throw(src, cl) /\ ~C!Visiting
  <2>1. \A p \in CPropagator : AllCopied(src, cl, p)
    BY <1>2 DEF CopyInv
  <2> QED BY <1>1, <1>2, <2>1, ThrownIs
<1>3. CASE /\ cpc \in {"pl", "bl", "space"} /\ member > 0 /\ member <= Len(C!Todo)
           /\ C!Todo[member].kind = "var"
           /\ LET u == C!CopyVar(src, cl, C!Todo[member].of) IN C!Throw(u.s, u.c)
  <2> DEFINE v == C!Todo[member].of
             u == C!CopyVar(src, cl, v)
  <2>1. v \in CVar
    <3>1. cpc \in {"pl", "bl", "space"} /\ member > 0 /\ member <= Len(C!Todo) /\ member \in Nat
      BY <1>3 DEF CopyInv
    <3>2. InActor => actor <= Len(C!List(cpc))
      BY DEF CopyInv, Copying, InActor, C!List
    <3>3. member \in 1 .. Len(C!Todo)
      BY <3>1, <3>2, ActorsAre, CurrentIs DEF C!Todo, InActor
    <3>4. C!Todo[member] \in C!Datum \/ (cpc = "pl" /\ C!Todo[member] \in C!Member(C!Current))
      BY <3>1, <3>2, <3>3, TodoIs
    <3> QED BY <1>3, <3>4 DEF C!Datum, C!Member
  <2>2. u = [s |-> u.s, c |-> u.c]
    BY DEF C!CopyVar
  <2>3. \A p \in CPropagator : AllCopied(src, cl, p)
    <3>1. ~C!Visiting
      BY <1>3 DEF C!Visiting, C!InCouncil
    <3> QED BY <3>1 DEF CopyInv
  <2> HIDE DEF k, v, u
  <2>4. \A t, d : u = [s |-> t, c |-> d] =>
          /\ Copying(t, d, before, k) /\ d.pl = cl.pl /\ d.bl = cl.bl /\ d.local = cl.local
          /\ d.advisors = cl.advisors /\ t.forwarding = src.forwarding /\ t.council = src.council
    BY <1>1, <2>1, CopyVarOK DEF u
  <2>5. C!Throw(u.s, u.c)
    BY <1>3 DEF u, v
  <2>6. /\ Copying(u.s, u.c, before, k) /\ u.c.pl = cl.pl /\ u.c.bl = cl.bl /\ u.c.local = cl.local
        /\ \A p \in CPropagator : AllCopied(u.s, u.c, p)
    BY <2>2, <2>3, <2>4 DEF AllCopied, Copied
  <2> QED BY <1>1, <2>5, <2>6, ThrownIs
<1>4. CASE /\ C!Visiting
           /\ LET u == C!AdvisorsThrow(src, cl, C!Current) IN C!Throw(u.s, u.c)
  <2> DEFINE p == C!Current
             u == C!AdvisorsThrow(src, cl, p)
  <2>1. p \in CPropagator
    <3>1. cpc = "pl" /\ actor <= Len(C!List(cpc))
      BY <1>1, <1>4 DEF C!Visiting, C!InCouncil, CopyInv, Copying, InActor, C!List
    <3> QED BY <3>1, CurrentIs
  <2>2. u = [s |-> u.s, c |-> u.c]
    BY DEF C!AdvisorsThrow
  <2>3. C!Throw(u.s, u.c)
    BY <1>4
  <2>4. \A q \in CPropagator \ {p} : AllCopied(src, cl, q)
    BY DEF CopyInv
  <2> HIDE DEF k, p, u
  <2>5. \A t, d : u = [s |-> t, c |-> d] =>
          /\ Copying(t, d, before, k) /\ d.pl = cl.pl /\ d.bl = cl.bl /\ d.local = cl.local
          /\ AllCopied(t, d, p)
          /\ \A q \in CPropagator \ {p} : AllCopied(src, cl, q) => AllCopied(t, d, q)
    BY <1>1, <2>1, AdvisorsThrowOK DEF u
  <2>6. /\ Copying(u.s, u.c, before, k) /\ u.c.pl = cl.pl /\ u.c.bl = cl.bl /\ u.c.local = cl.local
        /\ \A q \in CPropagator : AllCopied(u.s, u.c, q)
    BY <2>2, <2>4, <2>5
  <2> QED BY <1>1, <2>3, <2>6, ThrownIs
<1>5. C!Throws => \/ C!Throw(src, cl) /\ ~C!Visiting
                  \/ /\ cpc \in {"pl", "bl", "space"} /\ member > 0 /\ member <= Len(C!Todo)
                     /\ C!Todo[member].kind = "var"
                     /\ LET u == C!CopyVar(src, cl, C!Todo[member].of) IN C!Throw(u.s, u.c)
                  \/ /\ C!Visiting
                     /\ LET u == C!AdvisorsThrow(src, cl, C!Current) IN C!Throw(u.s, u.c)
  <2>1. member = 0 => ~C!Visiting
    BY DEF C!Visiting, C!InCouncil
  <2> QED BY <2>1, Zenon DEF C!Throws
<1>6. C!ArrayThrows => C!Throw(src, cl) /\ ~C!Visiting
  BY DEF C!ArrayThrows, C!Visiting, C!InCouncil
<1> QED BY <1>2, <1>3, <1>4, <1>5, <1>6

(* what the clone is when it is returned *)
LEMMA ReturnedIs ==
  ASSUME CopyInv, C!Returns
  PROVE  /\ cpc' = "returned" /\ Original(before') /\ Same(src', before')
         /\ (C!CloneFaithful)'
<1> DEFINE ls == C!Forwarded(src.noticed)
           ss == [v \in CVar |-> IF v \in cl.vars_u THEN C!Forwarded(src.subscribed[v]) ELSE {}]
           bs == [v \in CVar |-> IF v \in cl.vars_u THEN "array" ELSE "null"]
<1>1. /\ cpc = "array" /\ cpc' = "returned" /\ before' = before
      /\ cl' = [cl EXCEPT !.partial = FALSE, !.noticed = ls, !.base = bs, !.subscribed = ss]
      /\ src' = C!RestoreVars(C!RestoreLinks(src, cl), cl)
  BY DEF C!Returns
<1>2. /\ Original(before) /\ Copying(src, cl, before, Started) /\ cl.pl = before.pl /\ cl.bl = before.bl
      /\ Started = InPl(before) \cup InBl(before) /\ ~InActor
  <2>1. ~InActor /\ cl.pl = before.pl /\ cl.bl = before.bl
    BY <1>1 DEF CopyInv, InActor
  <2>2. Started = InPl(before) \cup InBl(before)
    BY <2>1 DEF Started, InPl, InBl
  <2> QED BY <2>1, <2>2 DEF CopyInv
<1>3. Same(src', before)
  <2>1. \A p \in CPropagator : AllCopied(src, cl, p)
    BY <1>1 DEF CopyInv, C!Visiting, C!InCouncil
  <2> QED BY <1>1, <1>2, <2>1, RestoredIs
<1>4. /\ before \in SourceType /\ cl \in CloneType /\ src \in SourceType
      /\ src.noticed = before.noticed /\ src.subscribed = before.subscribed
      /\ InPl(before) \subseteq CPropagator /\ InBl(before) \subseteq CBrancher
      /\ \A a \in C!Actor : a \in Started => src.prev[a] = "copy"
  BY <1>2 DEF Original, Copying, Links, SourceType, InPl, InBl
<1>5. ASSUME NEW p \in InPl(before)
      PROVE  /\ Copied(cl, p) = C!Live(before, p) /\ C!Reversed(p, cl.advisors[p])
             /\ \A a \in C!Live(before, p) : src.prev[a] = "copy"
             /\ \A v \in CVar : Updates(p, v) => v \in Registered(cl)
  <2>1. Complete(cl, before, p, Len(Members(p)))
    <3>1. InPl(cl) = InPl(before)
      BY <1>2 DEF InPl
    <3> QED BY <3>1 DEF CopyInv
  <2>2. p \in CPropagator /\ p \in C!Actor
    BY <1>4, ActorsAre
  <2>3. DOMAIN Members(p) = 1 .. Len(Members(p))
    <3>1. Members(p) \in Seq(C!Member(p))
      BY <2>2, ActorsAre
    <3> QED BY <3>1
  <2>4. C!Live(before, p) \subseteq Advisors(p) /\ C!Live(before, p) \subseteq Advisor
    BY <2>2, ActorsAre DEF C!Live, Original, CopyInv
  <2>5. /\ Copied(cl, p) \subseteq C!Live(before, p) /\ C!Reversed(p, cl.advisors[p])
        /\ \A a \in Advisor : (\E q \in CPropagator : a \in Copied(cl, q)) => src.prev[a] = "copy"
    BY <1>2, <2>2 DEF Copying, Councils, Links
  <2>6. Copied(cl, p) = C!Live(before, p)
    <3>1. CASE C!Live(before, p) = {}
      BY <2>5, <3>1
    <3>2. CASE C!Live(before, p) # {}
      <4>1. PICK j \in DOMAIN Members(p) : Members(p)[j].kind = "council"
        BY <2>2, <2>4, <3>2, ActorsAre
      <4> QED BY <2>1, <2>3, <4>1 DEF Complete
    <3> QED BY <3>1, <3>2
  <2>7. \A a \in C!Live(before, p) : src.prev[a] = "copy"
    BY <2>2, <2>4, <2>5, <2>6
  <2>8. \A v \in CVar : Updates(p, v) => v \in Registered(cl)
    BY <2>1, <2>3 DEF Complete, Updates, IsVar
  <2> QED BY <2>5, <2>6, <2>7, <2>8
<1>6. ls = before.noticed
  <2>1. before.noticed \subseteq InPl(before) \cup InBl(before) /\ before.noticed \subseteq C!Actor
    BY <1>2, <1>4 DEF Original, SourceType
  <2> QED BY <1>2, <1>4, <2>1 DEF C!Forwarded
<1>7. ASSUME NEW v \in CVar PROVE ss[v] = before.subscribed[v]
  <2>1. \A l \in before.subscribed[v] :
          \E p \in InPl(before) : (l = p \/ l \in C!Live(before, p)) /\ Updates(p, v)
    BY <1>2 DEF Original
  <2>2. \A l \in before.subscribed[v] : src.prev[l] = "copy" /\ v \in Registered(cl)
    <3> SUFFICES ASSUME NEW l \in before.subscribed[v]
                 PROVE  src.prev[l] = "copy" /\ v \in Registered(cl)
      OBVIOUS
    <3>1. PICK p \in InPl(before) : (l = p \/ l \in C!Live(before, p)) /\ Updates(p, v)
      BY <2>1
    <3>2. p \in C!Actor /\ p \in Started
      BY <1>2, <1>4, ActorsAre
    <3> QED BY <1>4, <1>5, <3>1, <3>2
  <2>3. /\ v \in cl.vars_noidx => before.base[v] = "null"
        /\ before.base[v] = "null" => before.subscribed[v] = {}
    BY <1>2 DEF Original, Copying, Variables
  <2>4. CASE v \in cl.vars_u
    BY <1>4, <2>2, <2>4 DEF C!Forwarded
  <2>5. CASE v \notin cl.vars_u
    <3>1. before.subscribed[v] = {}
      BY <2>2, <2>3, <2>5 DEF Registered
    <3> QED BY <2>5, <3>1
  <2> QED BY <2>4, <2>5
<1>8. ss = before.subscribed
  <2>1. before.subscribed \in [CVar -> SUBSET (CPropagator \cup Advisor)]
    BY <1>4 DEF SourceType
  <2>2. before.subscribed = [v \in CVar |-> before.subscribed[v]]
    BY <2>1
  <2>3. ss = [v \in CVar |-> before.subscribed[v]]
    BY <1>7
  <2> QED BY <2>2, <2>3
<1> HIDE DEF ls, ss, bs
<1>9. /\ cl'.pl = cl.pl /\ cl'.bl = cl.bl /\ cl'.noticed = ls /\ cl'.subscribed = ss
      /\ cl'.advisors = cl.advisors
  BY <1>1, <1>4 DEF CloneType
<1>10. /\ src'.pl = before.pl /\ src'.bl = before.bl /\ src'.noticed = before.noticed
       /\ src'.subscribed = before.subscribed
  BY <1>3 DEF Same
<1>11. \A p \in C!Range(src'.pl) : /\ C!Range(cl'.advisors[p]) = C!Live(src', p)
                                  /\ C!Reversed(p, cl'.advisors[p])
  <2>1. C!Range(src'.pl) = InPl(before)
    BY <1>10 DEF C!Range, InPl
  <2>2. \A p \in CPropagator : C!Live(src', p) = C!Live(before, p)
    BY <1>3, SameLive
  <2>3. \A p : C!Range(cl.advisors[p]) = Copied(cl, p)
    BY DEF C!Range, Copied
  <2> QED BY <1>4, <1>5, <1>9, <2>1, <2>2, <2>3
<1>12. (C!CloneFaithful)'
  BY <1>2, <1>6, <1>8, <1>9, <1>10, <1>11 DEF C!CloneFaithful
<1> QED BY <1>1, <1>2, <1>3, <1>12

LEMMA CloningKeepsInv == CloneInv /\ [C!Next]_(C!vars) => CloneInv'
<1> SUFFICES ASSUME CloneInv, [C!Next]_(C!vars) PROVE CloneInv'
  OBVIOUS
<1> USE DEF InClone
<1>1. CASE C!Clone
  <2>1. cpc = "user" /\ Original(src)
    BY <1>1 DEF C!Clone, CloneInv
  <2>2. CopyInv' /\ cpc' \in InClone
    BY <1>1, <2>1, CloneStarts
  <2> QED BY <2>2 DEF CloneInv
<1>2. CASE \/ C!StartActor \/ C!CopyMember \/ C!EnterCouncil \/ C!CopyAdvisor \/ C!DropAdvisor
           \/ C!LeaveCouncil \/ C!LinkActor \/ C!NextList \/ C!CopiedSpace
  <2>1. cpc \in InClone
    BY <1>2 DEF C!StartActor, C!CopyMember, C!EnterCouncil, C!CopyAdvisor, C!DropAdvisor,
                C!LeaveCouncil, C!Visiting, C!InCouncil, C!LinkActor, C!NextList, C!CopiedSpace
  <2>2. CopyInv
    BY <2>1 DEF CloneInv
  <2>3. CopyInv' /\ cpc' \in InClone
    BY <1>2, <2>2, ActorStarts, MemberCopied, AdvisorsCopied, ActorLinked, ListDone
  <2> QED BY <2>3 DEF CloneInv
<1>3. CASE C!Throws \/ C!ArrayThrows
  <2>1. cpc \in InClone
    BY <1>3 DEF C!Throws, C!ArrayThrows
  <2>2. CopyInv
    BY <2>1 DEF CloneInv
  <2>3. /\ cpc' = "thrown" /\ Original(before') /\ Same(src', before')
        /\ \A l \in C!Link : gone'[l] = IF l \in made' THEN 1 ELSE 0
    BY <1>3, <2>1, <2>2, CopyingThrows
  <2> QED BY <2>3 DEF CloneInv
<1>4. CASE C!Returns
  <2>1. CopyInv
    BY <1>4 DEF CloneInv, C!Returns
  <2>2. cpc' = "returned" /\ Original(before') /\ Same(src', before') /\ (C!CloneFaithful)'
    BY <1>4, <2>1, ReturnedIs
  <2> QED BY <2>2 DEF CloneInv
<1>5. CASE C!Back
  <2>1. cpc \in {"returned", "thrown"} /\ cpc' = "user" /\ src' = src
    BY <1>5 DEF C!Back
  <2>2. Original(src)
    BY <2>1, SameIsOriginal DEF CloneInv
  <2> QED BY <2>1, <2>2 DEF CloneInv
<1>6. CASE \/ \E p \in CPropagator : C!KillPropagator(p) \/ \E a \in Advisor : C!DisposeAdvisor(p, a)
           \/ \E v \in CVar : C!Assign(v)
  <2>1. cpc = "user" /\ cpc' = cpc
    BY <1>6 DEF C!KillPropagator, C!DisposeAdvisor, C!Assign
  <2>2. Original(src)
    BY <2>1 DEF CloneInv
  <2>3. Original(src')
    BY <1>6, <2>2, KillKeeps, DisposeKeeps, AssignKeeps
  <2> QED BY <2>1, <2>3 DEF CloneInv
<1>7. CASE UNCHANGED C!vars
  <2>1. UNCHANGED <<src, cl, cpc, actor, member, before, made, gone>>
    BY <1>7 DEF C!vars
  <2> QED BY <2>1 DEF CloneInv, CopyInv, InActor, Started, C!Current, C!List, C!CloneFaithful,
                         C!Visiting, C!InCouncil, C!Todo
<1> QED BY <1>1, <1>2, <1>3, <1>4, <1>5, <1>6, <1>7 DEF C!Next

LEMMA CloneInvHolds == C!Spec => []CloneInv
<1>1. C!Init => CloneInv
  BY FirstIsOriginal DEF CloneInv, InClone
<1> QED BY <1>1, CloningKeepsInv, PTL DEF C!Spec

(* Whether it returns or throws, clone() leaves the original as it was, but for advisors
   that have been disposed of and leave their council; when it throws, what has been copied
   is disposed of once (Space::_clone(), recover()): for any actors, with any advisors, that
   update any variables and local objects in any order, and wherever memory is exhausted. *)
THEOREM CloneOrNothing == C!Spec => []C!Transactional
<1>1. ASSUME CloneInv, cpc \in {"returned", "thrown"} PROVE C!SameSource
  <2>1. Original(before) /\ Same(src, before)
    BY <1>1 DEF CloneInv
  <2>2. DOMAIN before = {"pl", "bl", "prev", "forwarding", "council", "base", "index", "subscribed", "noticed"}
    BY <2>1 DEF Original, SourceType
  <2>3. \A f \in DOMAIN before \ {"council"} : src[f] = before[f]
    BY <2>1, <2>2 DEF Same
  <2>4. \A p \in CPropagator : src.council[p] \subseteq before.council[p] /\ C!Live(src, p) = C!Live(before, p)
    BY <2>1, SameLive DEF Same
  <2> QED BY <2>3, <2>4 DEF C!SameSource
<1>2. CloneInv => C!Transactional
  BY <1>1 DEF CloneInv, C!Transactional
<1> QED BY <1>2, CloneInvHolds, PTL

(* What clone() returns has the propagators and branchers of the original in their order
   and the advisors that live in the reverse order, see CloneFaithful (Space::_clone(),
   Council::update()). *)
THEOREM ClonesAreCopies == C!Spec => []C!CloneFaithful
<1>1. CloneInv => C!CloneFaithful
  BY DEF CloneInv, C!CloneFaithful
<1> QED BY <1>1, CloneInvHolds, PTL

-----------------------------------------------------------------------------
(* Branchers.  A space is well formed when its numbers are unique and below the
   next one, its pointers are at branchers, and who is left of b_status has said that
   it is exhausted. *)
BRecord == [id : Nat \ {0}, kind : Kind, used : Nat]
BSpace == [bl : SUBSET BRecord, b_status : Nat, b_commit : Nat, bid : Nat \ {0}, asked : SUBSET Nat]
SpaceOK(s) ==
  /\ s \in BSpace
  /\ \A b \in s.bl : b.id < s.bid
  /\ \A b, c \in s.bl : b.id = c.id => b = c
  /\ {s.b_status, s.b_commit} \subseteq B!Ids(s.bl) \cup {B!END}
  /\ B!Ids(B!Before(s, s.b_status)) \subseteq s.asked

(* What a choice has to find again: a number and a kind.  Offers: a space holds such
   pairs; Fits: and what status() has still to ask is among them. *)
Pairs(S) == {<<b.id, b.kind>> : b \in S}
Offers(s, av, n) == SpaceOK(s) /\ s.bid = n /\ av \subseteq Pairs(s.bl)
Fits(s, av, n) == Offers(s, av, n) /\ Pairs(B!From(s, s.b_status)) \subseteq av

(* The pairs after the commit of e, where n is the next number. *)
NewPairs(n, ks) == {<<n + j - 1, ks[j]>> : j \in DOMAIN ks}
After(av, n, e) ==
  {x \in av : x[2] \notin Kills(e.kind, e.alt)} \cup NewPairs(n, Posts(e.kind, e.alt))

LEMMA PairIs ==
  ASSUME NEW s, SpaceOK(s), NEW id, NEW k, <<id, k>> \in Pairs(s.bl)
  PROVE  /\ B!Brancher(s, id) \in s.bl /\ B!Brancher(s, id).id = id
         /\ B!Brancher(s, id).kind = k /\ id \in Nat \ {0} /\ k \in Kind
<1>1. PICK b \in s.bl : <<id, k>> = <<b.id, b.kind>>
  BY DEF Pairs
<1>2. b.id = id /\ b.kind = k /\ b \in BRecord
  BY <1>1 DEF SpaceOK, BSpace
<1>3. B!Brancher(s, id) \in s.bl /\ B!Brancher(s, id).id = id
  BY <1>2 DEF B!Brancher
<1>4. B!Brancher(s, id) = b
  BY <1>2, <1>3 DEF SpaceOK
<1> QED BY <1>2, <1>3, <1>4 DEF BRecord

(* status() *)
LEMMA StatusFits ==
  ASSUME NEW s, NEW av, NEW n, Fits(s, av, n), NEW t \in B!Statuses(s)
  PROVE  Fits(t, av, n)
<1>1. PICK p \in B!Stops(s) :
        t = [s EXCEPT !.b_status = p, !.asked = @ \cup B!Ids(B!Passed(s, p))]
  BY DEF B!Statuses
<1>2. SpaceOK(s) /\ s \in BSpace /\ s.bid = n
  BY DEF Fits, Offers, SpaceOK
<1>3. /\ t.bl = s.bl /\ t.b_status = p /\ t.b_commit = s.b_commit /\ t.bid = s.bid
      /\ t.asked = s.asked \cup B!Ids(B!Passed(s, p))
  BY <1>1, <1>2 DEF BSpace
<1>4. p \in B!Ids(B!From(s, s.b_status)) \cup {B!END}
  BY DEF B!Stops
<1>5. \A b \in s.bl : b.id \in Nat \ {0} /\ b.id < s.bid /\ s.bid \in Nat
  BY <1>2 DEF SpaceOK, BSpace, BRecord
<1>6. p \in Nat /\ p \in B!Ids(s.bl) \cup {B!END}
  BY <1>4, <1>5 DEF B!Ids, B!From, B!END
<1>7. B!Ids(B!Passed(s, p)) \subseteq Nat
  BY <1>5 DEF B!Ids, B!Passed, B!From
<1>8. t \in BSpace
  BY <1>1, <1>2, <1>6, <1>7 DEF BSpace
<1>9. s.b_status \in Nat
  BY <1>2 DEF BSpace
<1>10. B!Place(s, s.b_status) \in Nat /\ B!Place(s, p) \in Nat /\ B!Place(t, p) = B!Place(s, p)
  BY <1>2, <1>3, <1>6, <1>9 DEF B!Place, BSpace
<1>11. B!Place(s, s.b_status) <= B!Place(s, p)
  <2>1. CASE p = B!END
    <3>1. B!Place(s, p) = s.bid
      BY <2>1 DEF B!Place
    <3>2. CASE s.b_status = B!END
      BY <3>1, <3>2, <1>10 DEF B!Place
    <3>3. CASE s.b_status # B!END
      <4>1. PICK b \in s.bl : b.id = s.b_status
        BY <3>3, <1>2 DEF SpaceOK, B!Ids
      <4> QED BY <3>1, <3>3, <4>1, <1>5 DEF B!Place
    <3> QED BY <3>2, <3>3
  <2>2. CASE p # B!END
    <3>1. PICK b \in B!From(s, s.b_status) : b.id = p
      BY <2>2, <1>4 DEF B!Ids
    <3> QED BY <2>2, <3>1 DEF B!From, B!Place
  <2> QED BY <2>1, <2>2
<1>12. B!From(t, t.b_status) \subseteq B!From(s, s.b_status)
  BY <1>3, <1>5, <1>10, <1>11 DEF B!From
<1>13. B!Ids(B!Before(t, t.b_status)) \subseteq t.asked
  <2> SUFFICES ASSUME NEW b \in B!Before(t, t.b_status) PROVE b.id \in t.asked
    BY DEF B!Ids
  <2>1. b \in s.bl /\ b.id < B!Place(s, p) /\ b.id \in Nat
    BY <1>3, <1>5, <1>10 DEF B!Before
  <2>2. CASE b.id < B!Place(s, s.b_status)
    <3>1. b \in B!Before(s, s.b_status)
      BY <2>1, <2>2 DEF B!Before
    <3>2. b.id \in s.asked
      BY <3>1, <1>2 DEF SpaceOK, B!Ids
    <3> QED BY <3>2, <1>3
  <2>3. CASE ~(b.id < B!Place(s, s.b_status))
    <3>1. b \in B!Passed(s, p)
      BY <2>1, <2>3, <1>10 DEF B!Passed, B!From, B!Before
    <3> QED BY <3>1, <1>3 DEF B!Ids
  <2> QED BY <2>2, <2>3
<1>14. SpaceOK(t)
  BY <1>2, <1>3, <1>6, <1>8, <1>13 DEF SpaceOK
<1>15. Pairs(B!From(t, t.b_status)) \subseteq Pairs(B!From(s, s.b_status))
  BY <1>12 DEF Pairs
<1> QED BY <1>3, <1>14, <1>15 DEF Fits, Offers

LEMMA FirstIdIs ==
  ASSUME NEW S \in SUBSET BRecord, S # {}
  PROVE  \E b \in S : b.id = B!First(S) /\ \A c \in S : b.id <= c.id
<1> DEFINE I == B!Ids(S)
<1>1. I \in SUBSET Nat /\ \E m : m \in I
  BY DEF B!Ids, BRecord
<1>2. PICK m \in I : \A j \in I : m <= j
  BY <1>1, HasLeast
<1>3. \E x \in I : \A y \in I : x =< y
  BY <1>2
<1>4. B!Min(I) \in I /\ \A y \in I : B!Min(I) <= y
  BY <1>3 DEF B!Min
<1>5. B!First(S) = B!Min(I)
  BY DEF B!First
<1>6. PICK b \in S : b.id = B!First(S)
  BY <1>4, <1>5 DEF B!Ids
<1>7. \A c \in S : c.id \in I
  BY DEF B!Ids
<1> QED BY <1>4, <1>5, <1>6, <1>7

(* choice() deletes who is left of b_status. *)
LEMMA ChooseFits ==
  ASSUME NEW s, NEW av, NEW n, Fits(s, av, n)
  PROVE  /\ Fits(B!Choose(s), Pairs(B!From(s, s.b_status)), n)
         /\ B!Choose(s).bl = B!From(s, s.b_status)
         /\ B!Choose(s).b_status = s.b_status /\ B!Choose(s).b_commit = s.b_status
<1> DEFINE t == B!Choose(s)
<1>1. SpaceOK(s) /\ s \in BSpace /\ s.bid = n
  BY DEF Fits, Offers, SpaceOK
<1>2. /\ t.bl = B!From(s, s.b_status) /\ t.b_status = s.b_status /\ t.b_commit = s.b_status
      /\ t.bid = s.bid /\ t.asked = s.asked
  BY <1>1 DEF B!Choose, BSpace
<1>3. B!From(s, s.b_status) \subseteq s.bl
  BY DEF B!From
<1>4. t \in BSpace
  BY <1>1, <1>3 DEF B!Choose, BSpace
<1> HIDE DEF t
<1>5. \A b \in s.bl : b.id \in Nat \ {0} /\ b.id < s.bid /\ s.bid \in Nat
  BY <1>1 DEF SpaceOK, BSpace, BRecord
<1>6. s.b_status \in B!Ids(t.bl) \cup {B!END}
  <2> SUFFICES ASSUME s.b_status # B!END PROVE s.b_status \in B!Ids(t.bl)
    OBVIOUS
  <2>1. PICK b \in s.bl : b.id = s.b_status
    BY <1>1 DEF SpaceOK, B!Ids
  <2>2. b \in B!From(s, s.b_status)
    BY <2>1, <1>5 DEF B!From, B!Place
  <2> QED BY <1>2, <2>1, <2>2 DEF B!Ids
<1>7. B!Place(t, t.b_status) = B!Place(s, s.b_status) /\ B!Place(s, s.b_status) \in Nat
  BY <1>1, <1>2 DEF B!Place, BSpace
<1>8. B!Before(t, t.b_status) = {}
  BY <1>2, <1>5, <1>7 DEF B!Before, B!From
<1>9. B!From(t, t.b_status) \subseteq t.bl
  BY DEF B!From
<1>10. SpaceOK(t)
  BY <1>1, <1>2, <1>3, <1>4, <1>6, <1>8 DEF SpaceOK, B!Ids
<1>11. Fits(t, Pairs(t.bl), n)
  BY <1>1, <1>2, <1>9, <1>10 DEF Fits, Offers, Pairs
<1> QED BY <1>2, <1>11 DEF t

(* commit(): the brancher commits, *)
LEMMA CommittedFits ==
  ASSUME NEW s, SpaceOK(s), NEW id, NEW k, <<id, k>> \in Pairs(s.bl)
  PROVE  LET t == B!Committed(s, id) IN
         /\ SpaceOK(t) /\ t.bid = s.bid
         /\ Pairs(t.bl) = Pairs(s.bl)
         /\ Pairs(B!From(t, t.b_status)) = Pairs(B!From(s, s.b_status))
<1> DEFINE t == B!Committed(s, id)
           b == B!Brancher(s, id)
           c == [b EXCEPT !.used = @ + 1]
<1>1. b \in s.bl /\ b.id = id /\ b.kind = k /\ id \in Nat \ {0} /\ k \in Kind
  BY PairIs
<1>2. s \in BSpace
  BY DEF SpaceOK
<1>3. b \in BRecord
  BY <1>1, <1>2 DEF BSpace
<1>4. c \in BRecord /\ c.id = id /\ c.kind = k
  BY <1>1, <1>3 DEF BRecord
<1>5. t = [s EXCEPT !.b_commit = id, !.bl = (@ \ {b}) \cup {c}]
  BY DEF B!Committed
<1> HIDE DEF b, c, t
<1>6. /\ t.bl = (s.bl \ {b}) \cup {c} /\ t.b_status = s.b_status /\ t.b_commit = id
      /\ t.bid = s.bid /\ t.asked = s.asked
  BY <1>2, <1>5 DEF BSpace
<1>7. t \in BSpace
  <2>1. (s.bl \ {b}) \cup {c} \in SUBSET BRecord
    BY <1>2, <1>4 DEF BSpace
  <2> QED BY <1>1, <1>2, <1>5, <2>1 DEF BSpace
<1>8. \A x \in t.bl : x = c \/ (x \in s.bl /\ x # b)
  BY <1>6
<1>9. \A x \in s.bl : x # b => x.id # id
  BY <1>1 DEF SpaceOK
<1>10. \A x \in t.bl : \E y \in s.bl : x.id = y.id /\ x.kind = y.kind
  BY <1>1, <1>4, <1>8
<1>11. \A y \in s.bl : \E x \in t.bl : x.id = y.id /\ x.kind = y.kind
  BY <1>1, <1>4, <1>6
<1>12. Pairs(t.bl) = Pairs(s.bl)
  BY <1>10, <1>11 DEF Pairs
<1>13. B!Ids(t.bl) = B!Ids(s.bl)
  BY <1>10, <1>11 DEF B!Ids
<1>14. B!Place(t, t.b_status) = B!Place(s, s.b_status)
  BY <1>6 DEF B!Place
<1>15. Pairs(B!From(t, t.b_status)) = Pairs(B!From(s, s.b_status))
  <2>1. \A x \in B!From(t, t.b_status) : \E y \in B!From(s, s.b_status) : x.id = y.id /\ x.kind = y.kind
    BY <1>10, <1>14 DEF B!From
  <2>2. \A y \in B!From(s, s.b_status) : \E x \in B!From(t, t.b_status) : x.id = y.id /\ x.kind = y.kind
    BY <1>11, <1>14 DEF B!From
  <2> QED BY <2>1, <2>2 DEF Pairs
<1>16. B!Ids(B!Before(t, t.b_status)) \subseteq B!Ids(B!Before(s, s.b_status))
  BY <1>10, <1>14 DEF B!Before, B!Ids
<1>17. \A x, y \in t.bl : x.id = y.id => x = y
  <2> SUFFICES ASSUME NEW x \in t.bl, NEW y \in t.bl, x.id = y.id PROVE x = y
    OBVIOUS
  <2> QED BY <1>4, <1>8, <1>9 DEF SpaceOK
<1>18. \A x \in t.bl : x.id < t.bid
  BY <1>6, <1>10 DEF SpaceOK
<1>19. {t.b_status, t.b_commit} \subseteq B!Ids(t.bl) \cup {B!END}
  <2>1. id \in B!Ids(s.bl)
    BY <1>1 DEF B!Ids
  <2> QED BY <1>6, <1>13, <2>1 DEF SpaceOK
<1>20. B!Ids(B!Before(t, t.b_status)) \subseteq t.asked
  BY <1>6, <1>16 DEF SpaceOK
<1>21. SpaceOK(t)
  BY <1>7, <1>17, <1>18, <1>19, <1>20 DEF SpaceOK
<1> QED BY <1>6, <1>12, <1>15, <1>21 DEF t
(* kills the branchers of some kinds, *)
LEMMA KilledFits ==
  ASSUME NEW s, SpaceOK(s), NEW ks
  PROVE  LET t == B!KillKinds(s, ks) IN
         /\ SpaceOK(t) /\ t.bid = s.bid
         /\ Pairs(t.bl) = {x \in Pairs(s.bl) : x[2] \notin ks}
         /\ \A x \in Pairs(B!From(t, t.b_status)) : x \in Pairs(B!From(s, s.b_status)) /\ x[2] \notin ks
<1> DEFINE t == B!KillKinds(s, ks)
           kept == B!Kept(s, ks)
           rest(p) == {b \in kept : b.id >= B!Place(s, p)}
<1>1. s \in BSpace
  BY DEF SpaceOK
<1>2. kept = {b \in s.bl : b.kind \notin ks}
  BY DEF B!Kept
<1>3. t = [s EXCEPT !.bl = kept, !.b_status = B!First(rest(@)), !.b_commit = B!First(rest(@))]
  BY DEF B!KillKinds, B!Moved
<1> HIDE DEF kept, t
<1>4. /\ t.bl = kept /\ t.b_status = B!First(rest(s.b_status))
      /\ t.b_commit = B!First(rest(s.b_commit))
      /\ t.bid = s.bid /\ t.asked = s.asked
  BY <1>1, <1>3 DEF BSpace
<1>5. \A b \in s.bl : b \in BRecord /\ b.id \in Nat \ {0} /\ b.id < s.bid /\ s.bid \in Nat
  BY <1>1 DEF SpaceOK, BSpace, BRecord
<1>6. \A p : rest(p) \in SUBSET BRecord /\ rest(p) \subseteq kept
  BY <1>2, <1>5
<1>7. \A p : B!First(rest(p)) \in Nat /\ B!First(rest(p)) \in B!Ids(kept) \cup {B!END}
  <2> TAKE p
  <2>1. CASE rest(p) = {}
    BY <2>1 DEF B!First, B!END
  <2>2. CASE rest(p) # {}
    <3>1. PICK b \in rest(p) : b.id = B!First(rest(p))
      BY <1>6, <2>2, FirstIdIs
    <3>2. b \in kept /\ b \in BRecord
      BY <1>6
    <3> QED BY <3>1, <3>2 DEF B!Ids, BRecord
  <2> QED BY <2>1, <2>2
<1>8. t \in BSpace
  <2>1. kept \in SUBSET BRecord
    BY <1>2, <1>5
  <2>2. B!First(rest(s.b_status)) \in Nat /\ B!First(rest(s.b_commit)) \in Nat
    BY <1>7
  <2>3. t = [s EXCEPT !.bl = kept, !.b_status = t.b_status, !.b_commit = t.b_commit]
    BY <1>1, <1>3, <1>4 DEF BSpace
  <2> QED BY <1>1, <1>4, <2>1, <2>2, <2>3 DEF BSpace
<1>9. Pairs(t.bl) = {x \in Pairs(s.bl) : x[2] \notin ks}
  BY <1>2, <1>4 DEF Pairs
<1>10. B!Place(s, s.b_status) \in Nat /\ s.b_status \in Nat
  BY <1>1 DEF B!Place, BSpace
<1>11. \A b \in kept : b.id >= B!Place(t, t.b_status) <=> b.id >= B!Place(s, s.b_status)
  <2>1. CASE rest(s.b_status) = {}
    <3>1. t.b_status = B!END /\ B!Place(t, t.b_status) = s.bid
      BY <1>4, <2>1 DEF B!First, B!Place
    <3>2. \A b \in kept : ~(b.id >= B!Place(s, s.b_status)) /\ b \in s.bl
      BY <1>2, <2>1
    <3> QED BY <1>5, <3>1, <3>2
  <2>2. CASE rest(s.b_status) # {}
    <3>1. PICK b \in rest(s.b_status) : b.id = t.b_status /\ \A c \in rest(s.b_status) : b.id <= c.id
      BY <1>4, <1>6, <2>2, FirstIdIs
    <3>2. b \in s.bl /\ b.id >= B!Place(s, s.b_status)
      BY <1>2
    <3>3. B!Place(t, t.b_status) = b.id
      BY <1>5, <3>1, <3>2 DEF B!Place, B!END
    <3> SUFFICES ASSUME NEW c \in kept
                 PROVE  c.id >= b.id <=> c.id >= B!Place(s, s.b_status)
      BY <3>3
    <3>4. c \in s.bl /\ c.id \in Nat /\ b.id \in Nat
      BY <1>2, <1>5, <3>2
    <3>5. c.id >= B!Place(s, s.b_status) => b.id <= c.id
      BY <3>1
    <3> QED BY <1>10, <3>2, <3>4, <3>5
  <2> QED BY <2>1, <2>2
<1>12. B!Place(t, t.b_status) \in Nat
  BY <1>8 DEF B!Place, BSpace
<1>13. \A x \in Pairs(B!From(t, t.b_status)) : x \in Pairs(B!From(s, s.b_status)) /\ x[2] \notin ks
  <2> SUFFICES ASSUME NEW b \in B!From(t, t.b_status)
               PROVE  b \in B!From(s, s.b_status) /\ b.kind \notin ks
    BY DEF Pairs
  <2>1. b \in kept /\ b.id >= B!Place(t, t.b_status)
    BY <1>4 DEF B!From
  <2> QED BY <1>2, <1>11, <2>1 DEF B!From
<1>14. B!Ids(B!Before(t, t.b_status)) \subseteq t.asked
  <2> SUFFICES ASSUME NEW b \in B!Before(t, t.b_status) PROVE b.id \in t.asked
    BY DEF B!Ids
  <2>1. b \in kept /\ b \in s.bl /\ b.id < B!Place(t, t.b_status) /\ b.id \in Nat
    BY <1>2, <1>4, <1>5 DEF B!Before
  <2>2. b.id < B!Place(s, s.b_status)
    BY <1>10, <1>11, <1>12, <2>1
  <2>3. b \in B!Before(s, s.b_status)
    BY <2>1, <2>2 DEF B!Before
  <2> QED BY <1>4, <2>3 DEF SpaceOK, B!Ids
<1>15. SpaceOK(t)
  <2>1. \A b \in t.bl : b \in s.bl
    BY <1>2, <1>4
  <2>2. {t.b_status, t.b_commit} \subseteq B!Ids(t.bl) \cup {B!END}
    BY <1>4, <1>7
  <2> QED BY <1>4, <1>8, <1>14, <2>1, <2>2 DEF SpaceOK
<1> QED BY <1>4, <1>9, <1>13, <1>15 DEF t

(* and posts others. *)
LEMMA PostedFits ==
  ASSUME NEW s, SpaceOK(s), NEW ks \in Seq(Kind)
  PROVE  LET t == B!PostAll(s, ks) IN
         /\ SpaceOK(t) /\ t.bid = s.bid + Len(ks)
         /\ Pairs(t.bl) = Pairs(s.bl) \cup NewPairs(s.bid, ks)
         /\ Pairs(B!From(t, t.b_status)) \subseteq Pairs(B!From(s, s.b_status)) \cup NewPairs(s.bid, ks)
<1> DEFINE t == B!PostAll(s, ks)
           more == B!Posted(s.bid, ks)
<1>1. s \in BSpace /\ s.bid \in Nat \ {0}
  BY DEF SpaceOK, BSpace
<1>2. Len(ks) \in Nat /\ DOMAIN ks = 1 .. Len(ks) /\ \A j \in 1 .. Len(ks) : ks[j] \in Kind
  OBVIOUS
<1>3. CASE ks = <<>>
  <2>1. t = s /\ Len(ks) = 0 /\ NewPairs(s.bid, ks) = {}
    BY <1>3 DEF B!PostAll, NewPairs
  <2> HIDE DEF t
  <2> QED BY <1>1, <2>1 DEF t
<1>4. CASE ks # <<>>
  <2>1. t = [s EXCEPT !.bl = @ \cup more, !.bid = @ + Len(ks),
                      !.b_status = IF @ = B!END THEN s.bid ELSE @,
                      !.b_commit = IF s.b_status = B!END /\ @ = B!END THEN s.bid ELSE @]
    BY <1>4 DEF B!PostAll
  <2>2. more = {[id |-> s.bid + j - 1, kind |-> ks[j], used |-> 0] : j \in 1 .. Len(ks)}
    BY <1>2 DEF B!Posted
  <2>3. Len(ks) # 0
    BY <1>4, EmptySeq
  <2> HIDE DEF more, t
  <2>4. /\ t.bl = s.bl \cup more /\ t.bid = s.bid + Len(ks) /\ t.asked = s.asked
        /\ t.b_status = (IF s.b_status = B!END THEN s.bid ELSE s.b_status)
        /\ t.b_commit = (IF s.b_status = B!END /\ s.b_commit = B!END THEN s.bid ELSE s.b_commit)
    BY <1>1, <2>1 DEF BSpace
  <2>5. \A x \in more : \E j \in 1 .. Len(ks) :
          x = [id |-> s.bid + j - 1, kind |-> ks[j], used |-> 0]
    BY <2>2
  <2>6. \A x \in more : x \in BRecord /\ s.bid <= x.id /\ x.id < s.bid + Len(ks)
    BY <1>1, <1>2, <2>5 DEF BRecord
  <2>7. \A x, y \in more : x.id = y.id => x = y
    <3> SUFFICES ASSUME NEW x \in more, NEW y \in more, x.id = y.id PROVE x = y
      OBVIOUS
    <3>1. PICK j \in 1 .. Len(ks) : x = [id |-> s.bid + j - 1, kind |-> ks[j], used |-> 0]
      BY <2>5
    <3>2. PICK h \in 1 .. Len(ks) : y = [id |-> s.bid + h - 1, kind |-> ks[h], used |-> 0]
      BY <2>5
    <3>3. j = h
      BY <1>1, <1>2, <3>1, <3>2
    <3> QED BY <3>1, <3>2, <3>3
  <2>8. \E x \in more : x.id = s.bid
    <3>1. 1 \in 1 .. Len(ks)
      BY <1>2, <2>3
    <3>2. [id |-> s.bid + 1 - 1, kind |-> ks[1], used |-> 0] \in more
      BY <2>2, <3>1
    <3> QED BY <1>1, <3>2
  <2>9. \A b \in s.bl : b.id \in Nat /\ b.id # 0 /\ b.id < s.bid
    BY <1>1 DEF SpaceOK, BSpace, BRecord
  <2>10. t.b_status \in Nat /\ t.b_commit \in Nat
    BY <1>1, <2>4 DEF BSpace
  <2>11. t \in BSpace
    <3>1. s.bl \cup more \in SUBSET BRecord
      BY <1>1, <2>6 DEF BSpace
    <3>2. t = [s EXCEPT !.bl = s.bl \cup more, !.bid = s.bid + Len(ks),
                        !.b_status = t.b_status, !.b_commit = t.b_commit]
      BY <1>1, <2>1, <2>4 DEF BSpace
    <3>3. s.bid + Len(ks) \in Nat \ {0}
      BY <1>1, <1>2
    <3> QED BY <1>1, <2>10, <3>1, <3>2, <3>3 DEF BSpace
  <2>12. \A b \in t.bl : b.id < t.bid
    BY <1>1, <1>2, <2>4, <2>6, <2>9
  <2>13. \A b, c \in t.bl : b.id = c.id => b = c
    <3> SUFFICES ASSUME NEW b \in t.bl, NEW c \in t.bl, b.id = c.id PROVE b = c
      OBVIOUS
    <3>1. b \in s.bl /\ c \in s.bl => b = c
      BY DEF SpaceOK
    <3>2. b \in s.bl => c \notin more
      BY <1>1, <2>6, <2>9
    <3>3. c \in s.bl => b \notin more
      BY <1>1, <2>6, <2>9
    <3> QED BY <2>4, <2>7, <3>1, <3>2, <3>3
  <2>14. B!Ids(t.bl) = B!Ids(s.bl) \cup B!Ids(more) /\ s.bid \in B!Ids(t.bl)
    BY <2>4, <2>8 DEF B!Ids
  <2>15. {t.b_status, t.b_commit} \subseteq B!Ids(t.bl) \cup {B!END}
    BY <2>4, <2>14 DEF SpaceOK
  <2>16. B!Place(t, t.b_status) = B!Place(s, s.b_status)
    BY <1>1, <2>4 DEF B!Place, B!END
  <2>17. B!Place(s, s.b_status) \in Nat /\ B!Place(s, s.b_status) <= s.bid
    <3>1. CASE s.b_status = B!END
      BY <1>1, <3>1 DEF B!Place
    <3>2. CASE s.b_status # B!END
      <4>1. PICK b \in s.bl : b.id = s.b_status
        BY <3>2 DEF SpaceOK, B!Ids
      <4> QED BY <1>1, <2>9, <3>2, <4>1 DEF B!Place
    <3> QED BY <3>1, <3>2
  <2>18. B!Ids(B!Before(t, t.b_status)) \subseteq t.asked
    <3> SUFFICES ASSUME NEW b \in B!Before(t, t.b_status) PROVE b.id \in t.asked
      BY DEF B!Ids
    <3>1. b \in t.bl /\ b.id < B!Place(s, s.b_status)
      BY <2>16 DEF B!Before
    <3>2. b \notin more
      <4>1. b \in more => s.bid <= b.id /\ b.id \in Nat
        BY <2>6 DEF BRecord
      <4> QED BY <1>1, <2>17, <3>1, <4>1
    <3>3. b \in B!Before(s, s.b_status)
      BY <2>4, <3>1, <3>2 DEF B!Before
    <3> QED BY <2>4, <3>3 DEF SpaceOK, B!Ids
  <2>19. SpaceOK(t)
    BY <2>11, <2>12, <2>13, <2>15, <2>18 DEF SpaceOK
  <2>20. Pairs(more) = NewPairs(s.bid, ks)
    <3>1. \A x \in more : \E j \in DOMAIN ks : x.id = s.bid + j - 1 /\ x.kind = ks[j]
      BY <1>2, <2>5
    <3>2. \A j \in DOMAIN ks : \E x \in more : x.id = s.bid + j - 1 /\ x.kind = ks[j]
      <4> TAKE j \in DOMAIN ks
      <4>1. [id |-> s.bid + j - 1, kind |-> ks[j], used |-> 0] \in more
        BY <1>2, <2>2
      <4> QED BY <4>1
    <3> QED BY <3>1, <3>2 DEF Pairs, NewPairs
  <2>21. Pairs(t.bl) = Pairs(s.bl) \cup Pairs(more)
    BY <2>4 DEF Pairs
  <2>22. B!From(t, t.b_status) \subseteq B!From(s, s.b_status) \cup more
    BY <2>4, <2>16 DEF B!From
  <2>23. Pairs(B!From(t, t.b_status)) \subseteq Pairs(B!From(s, s.b_status)) \cup Pairs(more)
    BY <2>22 DEF Pairs
  <2> QED BY <2>4, <2>19, <2>20, <2>21, <2>23 DEF t
<1> QED BY <1>3, <1>4

(* commit() as a whole: the brancher of a choice is found, and what has to be found
   next is there. *)
LEMMA CommitFits ==
  ASSUME NEW s, NEW av, NEW n, Offers(s, av, n), NEW e, <<e.bid, e.kind>> \in av,
         e.kind \in Kind, e.alt \in 0 .. Arity(e.kind) - 1
  PROVE  /\ B!Meets(s, e)
         /\ Offers(B!Commit(s, e), After(av, n, e), n + Len(Posts(e.kind, e.alt)))
         /\ Fits(s, av, n) => Fits(B!Commit(s, e), After(av, n, e), n + Len(Posts(e.kind, e.alt)))
<1> DEFINE ks == Posts(e.kind, e.alt)
           dead == Kills(e.kind, e.alt)
           c == B!Committed(s, e.bid)
           d == B!KillKinds(c, dead)
           t == B!PostAll(d, ks)
<1>1. SpaceOK(s) /\ s.bid = n /\ av \subseteq Pairs(s.bl)
  BY DEF Offers
<1>2. ks \in Seq(Kind)
  BY BranchersAssumption DEF B!BranchersAssumption
<1>3. /\ SpaceOK(c) /\ c.bid = s.bid /\ Pairs(c.bl) = Pairs(s.bl)
      /\ Pairs(B!From(c, c.b_status)) = Pairs(B!From(s, s.b_status))
  BY <1>1, CommittedFits
<1> HIDE DEF c
<1>4. /\ SpaceOK(d) /\ d.bid = s.bid /\ Pairs(d.bl) = {x \in Pairs(s.bl) : x[2] \notin dead}
      /\ \A x \in Pairs(B!From(d, d.b_status)) : x \in Pairs(B!From(s, s.b_status)) /\ x[2] \notin dead
  BY <1>3, KilledFits
<1> HIDE DEF d
<1>5. /\ SpaceOK(t) /\ t.bid = n + Len(ks)
      /\ Pairs(t.bl) = Pairs(d.bl) \cup NewPairs(n, ks)
      /\ Pairs(B!From(t, t.b_status)) \subseteq Pairs(B!From(d, d.b_status)) \cup NewPairs(n, ks)
  BY <1>1, <1>2, <1>4, PostedFits
<1>6. B!Commit(s, e) = t
  BY DEF B!Commit, c, d
<1> HIDE DEF t
<1>7. Offers(t, After(av, n, e), n + Len(ks))
  BY <1>1, <1>4, <1>5 DEF Offers, After
<1>8. ASSUME Fits(s, av, n) PROVE Fits(t, After(av, n, e), n + Len(ks))
  <2>1. Pairs(B!From(s, s.b_status)) \subseteq av
    BY <1>8 DEF Fits
  <2> QED BY <1>4, <1>5, <1>7, <2>1 DEF Fits, After
<1>9. B!Meets(s, e)
  <2>1. /\ B!Brancher(s, e.bid) \in s.bl /\ B!Brancher(s, e.bid).id = e.bid
        /\ B!Brancher(s, e.bid).kind = e.kind /\ e.bid \in Nat
    BY <1>1, PairIs
  <2>2. B!Place(s, s.b_commit) \in Nat
    BY <1>1 DEF SpaceOK, BSpace, B!Place
  <2>3. e.bid >= B!Place(s, s.b_commit) \/ e.bid < B!Place(s, s.b_commit)
    BY <2>1, <2>2
  <2>4. B!Found(s, e.bid)
    BY <2>1, <2>3 DEF B!Found, B!Ids, B!From, B!Before
  <2> QED BY <2>1, <2>4 DEF B!Meets
<1> QED BY <1>6, <1>7, <1>8, <1>9
-----------------------------------------------------------------------------
(* The path: av[k] are the pairs that every space before the commit of edge k has to
   offer, nx[k] is its next number. *)
GoodSpace == {s \in BSpace : SpaceOK(s)}
BEdge == {e \in [space : GoodSpace \cup {B!NoSpace}, bid : Nat, kind : Kind, alt : Nat] :
            e.alt < Arity(e.kind)}
Copies(p) == {k \in 1 .. Len(p) : B!HasSpace(p[k])}

Along(av, nx, p) ==
  /\ av \in [1 .. Len(p) + 1 -> SUBSET (Nat \X Kind)] /\ nx \in [1 .. Len(p) + 1 -> Nat]
  /\ \A k \in 1 .. Len(p) :
       /\ <<p[k].bid, p[k].kind>> \in av[k]
       /\ av[k + 1] \subseteq After(av[k], nx[k], p[k])
       /\ nx[k + 1] = nx[k] + Len(Posts(p[k].kind, p[k].alt))
       /\ B!HasSpace(p[k]) => Fits(p[k].space, av[k], nx[k])

LEMMA EdgeOK ==
  ASSUME NEW e \in BEdge
  PROVE  /\ e.bid \in Nat /\ e.kind \in Kind /\ e.alt \in 0 .. Arity(e.kind) - 1
         /\ e.alt \in Nat /\ Arity(e.kind) \in Nat
         /\ e.space \in GoodSpace \cup {B!NoSpace}
         /\ Posts(e.kind, e.alt) \in Seq(Kind) /\ Len(Posts(e.kind, e.alt)) \in Nat
<1>1. e.bid \in Nat /\ e.kind \in Kind /\ e.alt \in Nat /\ e.alt < Arity(e.kind)
      /\ e.space \in GoodSpace \cup {B!NoSpace}
  BY DEF BEdge
<1>2. Arity(e.kind) \in Nat /\ \A a \in 0 .. Arity(e.kind) - 1 : Posts(e.kind, a) \in Seq(Kind)
  BY <1>1, BranchersAssumption DEF B!BranchersAssumption
<1>3. e.alt \in 0 .. Arity(e.kind) - 1
  BY <1>1, <1>2
<1> QED BY <1>1, <1>2, <1>3

LEMMA IsSpace ==
  ASSUME NEW s, SpaceOK(s)
  PROVE  s # B!NoSpace /\ s \in GoodSpace
BY DEF SpaceOK, BSpace, B!NoSpace, GoodSpace

LEMMA AfterTyped ==
  ASSUME NEW av \in SUBSET (Nat \X Kind), NEW n \in Nat, NEW e \in BEdge
  PROVE  After(av, n, e) \in SUBSET (Nat \X Kind)
<1>1. Posts(e.kind, e.alt) \in Seq(Kind)
  BY EdgeOK
<1>2. \A j \in DOMAIN Posts(e.kind, e.alt) :
        n + j - 1 \in Nat /\ Posts(e.kind, e.alt)[j] \in Kind
  BY <1>1
<1> QED BY <1>2 DEF After, NewPairs

LEMMA AfterMore ==
  ASSUME NEW av, NEW bv, av \subseteq bv, NEW n, NEW e
  PROVE  After(av, n, e) \subseteq After(bv, n, e)
BY DEF After

LEMMA AlongPrefix ==
  ASSUME NEW p \in Seq(BEdge), NEW av, NEW nx, Along(av, nx, p), NEW m \in 0 .. Len(p)
  PROVE  /\ SubSeq(p, 1, m) \in Seq(BEdge) /\ Len(SubSeq(p, 1, m)) = m
         /\ \A k \in 1 .. m : SubSeq(p, 1, m)[k] = p[k]
         /\ Along([k \in 1 .. m + 1 |-> av[k]], [k \in 1 .. m + 1 |-> nx[k]], SubSeq(p, 1, m))
<1> DEFINE q == SubSeq(p, 1, m)
           bv == [k \in 1 .. m + 1 |-> av[k]]
           ny == [k \in 1 .. m + 1 |-> nx[k]]
<1>1. m \in Nat /\ Len(p) \in Nat /\ m <= Len(p)
  OBVIOUS
<1>2. q \in Seq(BEdge) /\ Len(q) = m /\ \A k \in 1 .. m : q[k] = p[k]
  BY <1>1, SubSeqProperties
<1> HIDE DEF q
<1>3. \A k \in 1 .. m + 1 : k \in 1 .. Len(p) + 1 /\ bv[k] = av[k] /\ ny[k] = nx[k]
  BY <1>1
<1>4. bv \in [1 .. m + 1 -> SUBSET (Nat \X Kind)] /\ ny \in [1 .. m + 1 -> Nat]
  BY <1>3 DEF Along
<1>5. \A k \in 1 .. m : k \in 1 .. Len(p) /\ k \in 1 .. m + 1 /\ k + 1 \in 1 .. m + 1
  BY <1>1
<1> HIDE DEF bv, ny
<1>6. Along(bv, ny, q)
  BY <1>2, <1>3, <1>4, <1>5 DEF Along
<1> QED BY <1>2, <1>6 DEF q, bv, ny

(* An edge is appended: more are the pairs that it leaves. *)
Extended(av, nx, p, e, more) ==
  \E bv, ny : /\ Along(bv, ny, Append(p, e))
              /\ bv[Len(p) + 2] = more
              /\ ny[Len(p) + 2] = nx[Len(p) + 1] + Len(Posts(e.kind, e.alt))
              /\ \A k \in 1 .. Len(p) + 1 : bv[k] = av[k] /\ ny[k] = nx[k]

LEMMA AlongAppend ==
  ASSUME NEW p \in Seq(BEdge), NEW av, NEW nx, Along(av, nx, p), NEW e \in BEdge,
         <<e.bid, e.kind>> \in av[Len(p) + 1],
         B!HasSpace(e) => Fits(e.space, av[Len(p) + 1], nx[Len(p) + 1]),
         NEW more, more \subseteq After(av[Len(p) + 1], nx[Len(p) + 1], e)
  PROVE  /\ Append(p, e) \in Seq(BEdge) /\ Len(Append(p, e)) = Len(p) + 1
         /\ \A k \in 1 .. Len(p) : Append(p, e)[k] = p[k]
         /\ Append(p, e)[Len(p) + 1] = e
         /\ Extended(av, nx, p, e, more)
<1> DEFINE q == Append(p, e)
           n == Len(p)
           bv == [k \in 1 .. n + 2 |-> IF k = n + 2 THEN more ELSE av[k]]
           ny == [k \in 1 .. n + 2 |-> IF k = n + 2 THEN nx[n + 1] + Len(Posts(e.kind, e.alt))
                                                    ELSE nx[k]]
<1>1. n \in Nat
  OBVIOUS
<1>2. q \in Seq(BEdge) /\ Len(q) = n + 1 /\ q[n + 1] = e /\ \A k \in 1 .. n : q[k] = p[k]
  BY AppendProperties
<1>3. /\ av \in [1 .. n + 1 -> SUBSET (Nat \X Kind)] /\ nx \in [1 .. n + 1 -> Nat]
      /\ \A k \in 1 .. n :
           /\ <<p[k].bid, p[k].kind>> \in av[k]
           /\ av[k + 1] \subseteq After(av[k], nx[k], p[k])
           /\ nx[k + 1] = nx[k] + Len(Posts(p[k].kind, p[k].alt))
           /\ B!HasSpace(p[k]) => Fits(p[k].space, av[k], nx[k])
  BY DEF Along
<1> HIDE DEF q, n
<1>4. n + 1 \in 1 .. n + 1 /\ av[n + 1] \in SUBSET (Nat \X Kind) /\ nx[n + 1] \in Nat
  BY <1>1, <1>3
<1>5. more \in SUBSET (Nat \X Kind) /\ nx[n + 1] + Len(Posts(e.kind, e.alt)) \in Nat
  BY <1>4, AfterTyped, EdgeOK DEF n
<1>6. \A k \in 1 .. n + 2 : k = n + 2 \/ k \in 1 .. n + 1
  BY <1>1
<1>7. \A k \in 1 .. n + 1 : k \in 1 .. n + 2 /\ k # n + 2
  BY <1>1
<1>8. bv \in [1 .. n + 2 -> SUBSET (Nat \X Kind)] /\ ny \in [1 .. n + 2 -> Nat]
  BY <1>3, <1>5, <1>6
<1>9. \A k \in 1 .. n + 1 : bv[k] = av[k] /\ ny[k] = nx[k]
  BY <1>7
<1>10. n + 2 \in 1 .. n + 2 /\ bv[n + 2] = more
       /\ ny[n + 2] = nx[n + 1] + Len(Posts(e.kind, e.alt))
  BY <1>1
<1> HIDE DEF bv, ny
<1>11. Along(bv, ny, q)
  <2>1. Len(q) + 1 = n + 2
    BY <1>1, <1>2
  <2> SUFFICES ASSUME NEW k \in 1 .. n + 1
               PROVE  /\ <<q[k].bid, q[k].kind>> \in bv[k]
                      /\ bv[k + 1] \subseteq After(bv[k], ny[k], q[k])
                      /\ ny[k + 1] = ny[k] + Len(Posts(q[k].kind, q[k].alt))
                      /\ B!HasSpace(q[k]) => Fits(q[k].space, bv[k], ny[k])
    BY <1>2, <1>8, <2>1 DEF Along
  <2>2. CASE k = n + 1
    <3>1. k + 1 = n + 2 /\ q[k] = e /\ bv[k] = av[n + 1] /\ ny[k] = nx[n + 1]
      BY <1>1, <1>2, <1>9, <2>2
    <3> QED BY <1>10, <3>1 DEF n
  <2>3. CASE k # n + 1
    <3>1. k \in 1 .. n /\ k + 1 \in 1 .. n + 1
      BY <1>1, <2>3
    <3>2. q[k] = p[k] /\ bv[k] = av[k] /\ ny[k] = nx[k] /\ bv[k + 1] = av[k + 1] /\ ny[k + 1] = nx[k + 1]
      BY <1>2, <1>9, <3>1
    <3> QED BY <1>3, <3>1, <3>2
  <2> QED BY <2>2, <2>3
<1>12. Extended(av, nx, p, e, more)
  BY <1>9, <1>10, <1>11 DEF Extended, q, n
<1> QED BY <1>2, <1>12 DEF q, n

LEMMA AlongReplace ==
  ASSUME NEW p \in Seq(BEdge), NEW av, NEW nx, Along(av, nx, p), NEW m \in 1 .. Len(p),
         \A k \in Copies(p) : k <= m
  PROVE  \E bv : /\ Along(bv, nx, p) /\ bv[m] = av[m]
                 /\ bv[m + 1] = After(av[m], nx[m], p[m])
<1> DEFINE n == Len(p)
           more == After(av[m], nx[m], p[m])
           bv == [av EXCEPT ![m + 1] = more]
<1>1. n \in Nat /\ m \in Nat /\ m <= n /\ m + 1 \in 1 .. n + 1 /\ m \in 1 .. n + 1
  OBVIOUS
<1>2. /\ av \in [1 .. n + 1 -> SUBSET (Nat \X Kind)] /\ nx \in [1 .. n + 1 -> Nat]
      /\ \A k \in 1 .. n :
           /\ <<p[k].bid, p[k].kind>> \in av[k]
           /\ av[k + 1] \subseteq After(av[k], nx[k], p[k])
           /\ nx[k + 1] = nx[k] + Len(Posts(p[k].kind, p[k].alt))
           /\ B!HasSpace(p[k]) => Fits(p[k].space, av[k], nx[k])
  BY DEF Along
<1>3. \A k \in 1 .. n : p[k] \in BEdge
  BY ElementOfSeq
<1>4. more \in SUBSET (Nat \X Kind)
  BY <1>1, <1>2, <1>3, AfterTyped
<1>5. av[m + 1] \subseteq more
  BY <1>2
<1> HIDE DEF more, n
<1>6. bv \in [1 .. n + 1 -> SUBSET (Nat \X Kind)] /\ bv[m + 1] = more
      /\ \A k \in 1 .. n + 1 : k # m + 1 => bv[k] = av[k]
  BY <1>1, <1>2, <1>4
<1> HIDE DEF bv
<1>7. bv[m] = av[m] /\ \A k \in 1 .. n + 1 : av[k] \subseteq bv[k]
  BY <1>1, <1>5, <1>6
<1>8. Along(bv, nx, p)
  <2> SUFFICES ASSUME NEW k \in 1 .. n
               PROVE  /\ <<p[k].bid, p[k].kind>> \in bv[k]
                      /\ bv[k + 1] \subseteq After(bv[k], nx[k], p[k])
                      /\ nx[k + 1] = nx[k] + Len(Posts(p[k].kind, p[k].alt))
                      /\ B!HasSpace(p[k]) => Fits(p[k].space, bv[k], nx[k])
    BY <1>2, <1>6 DEF Along, n
  <2>1. k \in 1 .. n + 1 /\ k + 1 \in 1 .. n + 1
    BY <1>1
  <2>2. <<p[k].bid, p[k].kind>> \in bv[k]
    BY <1>2, <1>7, <2>1
  <2>3. bv[k + 1] \subseteq After(bv[k], nx[k], p[k])
    <3>1. CASE k = m
      BY <1>6, <1>7, <3>1 DEF more
    <3>2. CASE k # m
      <4>1. bv[k + 1] = av[k + 1]
        BY <1>1, <1>6, <2>1, <3>2
      <4>2. av[k + 1] \subseteq After(av[k], nx[k], p[k]) /\ av[k] \subseteq bv[k]
        BY <1>2, <1>7, <2>1
      <4> QED BY <4>1, <4>2, AfterMore
    <3> QED BY <3>1, <3>2
  <2>4. ASSUME B!HasSpace(p[k]) PROVE Fits(p[k].space, bv[k], nx[k])
    <3>1. k \in Copies(p)
      BY <2>4 DEF Copies, n
    <3>2. k # m + 1
      BY <1>1, <3>1
    <3> QED BY <1>2, <1>6, <2>1, <2>4, <3>2
  <2> QED BY <1>2, <2>2, <2>3, <2>4
<1> QED BY <1>6, <1>7, <1>8 DEF more

LEMMA AlongClone ==
  ASSUME NEW p \in Seq(BEdge), NEW av, NEW nx, Along(av, nx, p), NEW m \in 1 .. Len(p),
         NEW s, Fits(s, av[m], nx[m])
  PROVE  LET q == [p EXCEPT ![m].space = s]
         IN /\ q \in Seq(BEdge) /\ Len(q) = Len(p)
            /\ \A k \in 1 .. Len(p) : B!Open(q[k]) <=> B!Open(p[k])
            /\ Copies(q) = Copies(p) \cup {m}
            /\ Along(av, nx, q)
<1> DEFINE q == [p EXCEPT ![m].space = s]
           e == [p[m] EXCEPT !.space = s]
<1>1. p[m] \in BEdge /\ p \in [1 .. Len(p) -> BEdge] /\ Len(p) \in Nat
  BY ElementOfSeq
<1>2. s \in GoodSpace /\ s # B!NoSpace
  BY IsSpace DEF Fits, Offers
<1>3. e \in BEdge /\ e.space = s /\ e.bid = p[m].bid /\ e.kind = p[m].kind /\ e.alt = p[m].alt
  BY <1>1, <1>2 DEF BEdge
<1>4. q[m] = e /\ (\A k \in 1 .. Len(p) : k # m => q[k] = p[k]) /\ DOMAIN q = 1 .. Len(p)
  BY <1>1
<1>5. q \in Seq(BEdge) /\ Len(q) = Len(p)
  <2>1. q = [k \in 1 .. Len(p) |-> IF k = m THEN e ELSE p[k]]
    BY <1>1
  <2>2. q \in [1 .. Len(p) -> BEdge]
    BY <1>1, <1>3, <2>1
  <2> HIDE DEF q
  <2> QED BY <1>1, <2>2
<1> HIDE DEF q, e
<1>6. \A k \in 1 .. Len(p) : B!Open(q[k]) <=> B!Open(p[k])
  BY <1>3, <1>4 DEF B!Open, B!Rightmost
<1>7. Copies(q) = Copies(p) \cup {m}
  <2>1. B!HasSpace(q[m])
    BY <1>2, <1>3, <1>4 DEF B!HasSpace
  <2> QED BY <1>4, <1>5, <2>1 DEF Copies
<1>8. Along(av, nx, q)
  <2> SUFFICES ASSUME NEW k \in 1 .. Len(p)
               PROVE  /\ <<q[k].bid, q[k].kind>> \in av[k]
                      /\ av[k + 1] \subseteq After(av[k], nx[k], q[k])
                      /\ nx[k + 1] = nx[k] + Len(Posts(q[k].kind, q[k].alt))
                      /\ B!HasSpace(q[k]) => Fits(q[k].space, av[k], nx[k])
    BY <1>5 DEF Along
  <2>1. /\ <<p[k].bid, p[k].kind>> \in av[k]
        /\ av[k + 1] \subseteq After(av[k], nx[k], p[k])
        /\ nx[k + 1] = nx[k] + Len(Posts(p[k].kind, p[k].alt))
        /\ B!HasSpace(p[k]) => Fits(p[k].space, av[k], nx[k])
    BY DEF Along
  <2>2. CASE k = m
    BY <1>3, <1>4, <2>1, <2>2 DEF After
  <2>3. CASE k # m
    BY <1>4, <2>1, <2>3
  <2> QED BY <2>2, <2>3
<1> QED BY <1>5, <1>6, <1>7, <1>8 DEF q

-----------------------------------------------------------------------------
Searching == {"status", "branch", "solved"}

(* The invariant: every open edge has a clone to be recomputed from, and the path can
   be explained: what the current space and the clones offer is what the choices on
   the path have to find. *)
Explained(av, nx) ==
  /\ Along(av, nx, path)
  /\ bpc \in Searching => Fits(cur, av[Len(path) + 1], nx[Len(path) + 1])
  /\ bpc = "recompute" => /\ at \in 1 .. Len(path) + 1 /\ Fits(cur, av[at], nx[at])
                          /\ \A k \in Copies(path) : k <= at
BranchInv ==
  /\ path \in Seq(BEdge) /\ cur \in GoodSpace \cup {B!NoSpace}
  /\ bpc \in Searching \cup {"next", "recompute", "done"}
  /\ bpc = "branch" => cur.b_status # B!END
  /\ bpc = "solved" => cur.b_status = B!END
  /\ \A k \in 1 .. Len(path) : B!Open(path[k]) => \E l \in Copies(path) : l <= k
  /\ bpc \in {"status", "branch", "recompute"} => fresh \/ Copies(path) # {}
  /\ \E av, nx : Explained(av, nx)

(* a search starts, from the root or from a solution *)
LEMMA Starts ==
  ASSUME NEW s, SpaceOK(s), s.bl = {}, NEW ks \in Seq(Kind)
  PROVE  /\ B!PostAll(s, ks) \in GoodSpace
         /\ \E av, nx : Along(av, nx, <<>>) /\ Fits(B!PostAll(s, ks), av[1], nx[1])
<1> DEFINE t == B!PostAll(s, ks)
           av == [k \in {1} |-> Pairs(t.bl)]
           nx == [k \in {1} |-> t.bid]
<1>1. SpaceOK(t)
  BY PostedFits
<1> HIDE DEF t
<1>2. t \in GoodSpace /\ t \in BSpace
  BY <1>1 DEF GoodSpace, SpaceOK
<1>3. Fits(t, Pairs(t.bl), t.bid)
  BY <1>1 DEF Fits, Offers, Pairs, B!From
<1>4. Pairs(t.bl) \in SUBSET (Nat \X Kind) /\ t.bid \in Nat
  BY <1>2 DEF Pairs, BSpace, BRecord
<1>5. Len(<<>>) = 0 /\ 1 .. Len(<<>>) + 1 = {1} /\ 1 .. Len(<<>>) = {}
  OBVIOUS
<1>6. Along(av, nx, <<>>)
  BY <1>4, <1>5 DEF Along
<1>7. Fits(t, av[1], nx[1])
  BY <1>3
<1> HIDE DEF av, nx
<1> QED BY <1>2, <1>6, <1>7 DEF t

LEMMA BranchInit == B!Init => BranchInv
<1> SUFFICES ASSUME B!Init PROVE BranchInv
  OBVIOUS
<1>1. cur = B!PostAll(B!Empty, Root) /\ path = <<>> /\ bpc = "status" /\ fresh = TRUE
  BY DEF B!Init
<1>2. SpaceOK(B!Empty) /\ B!Empty.bl = {}
  <2>1. B!Empty = [bl |-> {}, b_status |-> 0, b_commit |-> 0, bid |-> 1, asked |-> {}]
    BY DEF B!Empty, B!NoSpace, B!END
  <2>2. B!Empty \in BSpace
    BY <2>1 DEF BSpace
  <2> QED BY <2>1, <2>2 DEF SpaceOK, B!END, B!Ids, B!Before
<1>3. Root \in Seq(Kind)
  BY BranchersAssumption DEF B!BranchersAssumption
<1>4. cur \in GoodSpace
  BY <1>1, <1>2, <1>3, Starts
<1>5. PICK av, nx : Along(av, nx, <<>>) /\ Fits(cur, av[1], nx[1])
  BY <1>1, <1>2, <1>3, Starts
<1>6. Len(path) = 0 /\ path \in Seq(BEdge)
  BY <1>1
<1>7. Explained(av, nx)
  BY <1>1, <1>5, <1>6 DEF Explained
<1> QED BY <1>1, <1>4, <1>6, <1>7 DEF BranchInv, Searching
LEMMA LastIs ==
  ASSUME NEW p \in Seq(BEdge), NEW S, S \subseteq 1 .. Len(p)
  PROVE  LET m == IF S # {} THEN B!Max(S) ELSE 0
         IN /\ m = 0 => S = {}
            /\ m # 0 => m \in S /\ \A k \in S : k <= m
<1> DEFINE m == IF S # {} THEN B!Max(S) ELSE 0
<1>1. CASE S = {}
  BY <1>1
<1>2. CASE S # {}
  <2>1. S \in SUBSET Nat /\ Len(p) \in Nat /\ \A k \in S : k <= Len(p)
    OBVIOUS
  <2>2. PICK x \in S : \A y \in S : y <= x
    BY <1>2, <2>1, HasGreatest
  <2>3. \E x1 \in S : \A y \in S : x1 >= y
    BY <2>2
  <2>4. B!Max(S) \in S /\ \A y \in S : B!Max(S) >= y
    BY <2>3 DEF B!Max
  <2>5. 0 \notin S
    OBVIOUS
  <2> QED BY <1>2, <2>1, <2>4, <2>5
<1> QED BY <1>1, <1>2

LEMMA LastCopyIs ==
  ASSUME NEW p \in Seq(BEdge)
  PROVE  LET m == B!SelectLastInSeq(p, B!HasSpace)
         IN /\ m = 0 => Copies(p) = {}
            /\ m # 0 => m \in Copies(p) /\ \A k \in Copies(p) : k <= m
<1>1. Copies(p) \subseteq 1 .. Len(p)
  BY DEF Copies
<1>2. B!SelectLastInSeq(p, B!HasSpace) = IF Copies(p) # {} THEN B!Max(Copies(p)) ELSE 0
  BY DEF B!SelectLastInSeq, Copies
<1> QED BY <1>1, <1>2, LastIs

LEMMA LastOpenIs ==
  ASSUME NEW p \in Seq(BEdge)
  PROVE  LET m == B!SelectLastInSeq(p, B!Open)
         IN m # 0 => m \in 1 .. Len(p) /\ B!Open(p[m])
<1> DEFINE S == {k \in 1 .. Len(p) : B!Open(p[k])}
<1>1. S \subseteq 1 .. Len(p)
  OBVIOUS
<1>2. B!SelectLastInSeq(p, B!Open) = IF S # {} THEN B!Max(S) ELSE 0
  BY DEF B!SelectLastInSeq
<1> QED BY <1>1, <1>2, LastIs

(* the current space fails, or the depth is not searched further *)
LEMMA GivesUp ==
  ASSUME BranchInv, bpc \in Searching, bpc' = "next", cur' = B!NoSpace, path' = path
  PROVE  BranchInv'
<1>1. PICK av, nx : Explained(av, nx)
  BY DEF BranchInv
<1>2. Explained(av, nx)'
  BY <1>1 DEF Explained, Searching
<1> QED BY <1>2 DEF BranchInv, Searching

LEMMA StatusKeeps == ASSUME BranchInv, B!Status PROVE BranchInv'
<1>1. PICK av, nx : Explained(av, nx)
  BY DEF BranchInv
<1>2. /\ bpc = "status" /\ cur' \in B!Statuses(cur) /\ path' = path /\ fresh' = fresh
      /\ bpc' = (IF cur'.b_status = B!END THEN "solved" ELSE "branch")
  BY DEF B!Status
<1>3. Fits(cur', av[Len(path) + 1], nx[Len(path) + 1])
  BY <1>1, <1>2, StatusFits DEF Explained, Searching
<1>4. cur' \in GoodSpace
  BY <1>3, IsSpace DEF Fits, Offers
<1>5. Explained(av, nx)'
  BY <1>1, <1>2, <1>3 DEF Explained, Searching
<1> QED BY <1>2, <1>4, <1>5 DEF BranchInv, Searching

LEMMA SolvedKeeps == ASSUME BranchInv, B!Solved PROVE BranchInv'
<1>1. CASE bpc' = "next" /\ cur' = B!NoSpace /\ path' = path
  BY <1>1, GivesUp DEF B!Solved, Searching
<1>2. CASE fresh' = TRUE /\ cur' = B!PostAll(B!Choose(cur), Again) /\ path' = <<>> /\ bpc' = "status"
  <2>1. PICK av, nx : Explained(av, nx)
    BY DEF BranchInv
  <2>2. bpc = "solved" /\ cur.b_status = B!END
    BY DEF B!Solved, BranchInv
  <2>3. Fits(cur, av[Len(path) + 1], nx[Len(path) + 1])
    BY <2>1, <2>2 DEF Explained, Searching
  <2>4. SpaceOK(B!Choose(cur)) /\ B!Choose(cur).bl = B!From(cur, B!END)
    BY <2>2, <2>3, ChooseFits DEF Fits, Offers
  <2>5. SpaceOK(cur) /\ cur \in BSpace
    BY <2>3 DEF Fits, Offers, SpaceOK
  <2>6. \A b \in cur.bl : b.id \in Nat /\ cur.bid \in Nat /\ b.id < cur.bid
    BY <2>5 DEF SpaceOK, BSpace, BRecord
  <2>7. B!Choose(cur).bl = {}
    BY <2>4, <2>6 DEF B!From, B!Place
  <2>8. Again \in Seq(Kind)
    BY BranchersAssumption DEF B!BranchersAssumption
  <2>9. cur' \in GoodSpace
    BY <1>2, <2>4, <2>7, <2>8, Starts
  <2>10. PICK bv, ny : Along(bv, ny, <<>>) /\ Fits(cur', bv[1], ny[1])
    BY <1>2, <2>4, <2>7, <2>8, Starts
  <2>11. Len(path') = 0 /\ path' \in Seq(BEdge)
    BY <1>2
  <2>12. Explained(bv, ny)'
    BY <1>2, <2>10, <2>11 DEF Explained
  <2> QED BY <1>2, <2>9, <2>11, <2>12 DEF BranchInv, Searching
<1> QED BY <1>1, <1>2 DEF B!Solved

LEMMA BranchKeeps == ASSUME BranchInv, NEW copy \in BOOLEAN, B!Branch(copy) PROVE BranchInv'
<1> DEFINE e == [space |-> IF copy THEN cur ELSE B!NoSpace, bid |-> cur.b_status,
                 kind |-> B!Brancher(cur, cur.b_status).kind, alt |-> 0]
           from == B!From(cur, cur.b_status)
           n == Len(path)
<1>1. PICK av, nx : Explained(av, nx)
  BY DEF BranchInv
<1>2. /\ bpc = "branch" /\ (fresh => copy) /\ bpc' = "status"
      /\ path' = Append(path, e) /\ cur' = B!Commit(B!Choose(cur), e)
  BY DEF B!Branch
<1>3. Along(av, nx, path) /\ Fits(cur, av[n + 1], nx[n + 1]) /\ cur.b_status # B!END
  BY <1>1, <1>2 DEF Explained, Searching, BranchInv
<1>4. SpaceOK(cur) /\ cur \in BSpace /\ Pairs(from) \subseteq av[n + 1] /\ n \in Nat
      /\ path \in Seq(BEdge)
  BY <1>3 DEF Fits, Offers, SpaceOK, BranchInv
<1>5. PICK b \in cur.bl : b.id = cur.b_status
  BY <1>3, <1>4 DEF SpaceOK, B!Ids
<1>6. b \in from
  BY <1>3, <1>4, <1>5 DEF B!From, B!Place, BSpace
<1>7. <<b.id, b.kind>> \in Pairs(from) /\ <<b.id, b.kind>> \in Pairs(cur.bl)
  BY <1>6 DEF Pairs, B!From
<1>8. B!Brancher(cur, cur.b_status).kind = b.kind /\ b.kind \in Kind /\ b.id \in Nat
  BY <1>4, <1>5, <1>7, PairIs
<1>9. /\ e.bid = b.id /\ e.kind = b.kind /\ e.alt = 0
      /\ e.space = (IF copy THEN cur ELSE B!NoSpace)
  BY <1>5, <1>8
<1>10. 0 \in 0 .. Arity(b.kind) - 1 /\ 0 < Arity(b.kind)
  BY <1>8, BranchersAssumption DEF B!BranchersAssumption
<1>11. e \in BEdge
  <2>1. e.space \in GoodSpace \cup {B!NoSpace}
    BY <1>4, <1>9, IsSpace
  <2>2. e = [space |-> e.space, bid |-> e.bid, kind |-> e.kind, alt |-> e.alt]
    OBVIOUS
  <2> HIDE DEF e
  <2> QED BY <1>5, <1>8, <1>9, <1>10, <2>1, <2>2 DEF BEdge
<1>12. B!HasSpace(e) <=> copy
  BY <1>4, <1>9, IsSpace DEF B!HasSpace
<1> HIDE DEF e, n
<1> DEFINE t == B!Choose(cur)
           more == After(Pairs(from), nx[n + 1], e)
<1>13. Fits(t, Pairs(from), nx[n + 1])
  BY <1>3, ChooseFits
<1> HIDE DEF t
<1>14. Fits(cur', more, nx[n + 1] + Len(Posts(e.kind, e.alt)))
  BY <1>2, <1>7, <1>8, <1>9, <1>10, <1>13, CommitFits DEF t, Fits
<1>15. more \subseteq After(av[n + 1], nx[n + 1], e)
  BY <1>4, AfterMore
<1>16. <<e.bid, e.kind>> \in av[n + 1]
  BY <1>4, <1>7, <1>9
<1>17. B!HasSpace(e) => Fits(e.space, av[n + 1], nx[n + 1])
  BY <1>3, <1>9, <1>12
<1> HIDE DEF more
<1>18. /\ path' \in Seq(BEdge) /\ Len(path') = n + 1
       /\ \A k \in 1 .. n : path'[k] = path[k]
       /\ path'[n + 1] = e
       /\ \E bv, ny : /\ Along(bv, ny, path') /\ bv[n + 2] = more
                      /\ ny[n + 2] = nx[n + 1] + Len(Posts(e.kind, e.alt))
  <2>1. /\ Along(av, nx, path) /\ <<e.bid, e.kind>> \in av[Len(path) + 1]
        /\ more \subseteq After(av[Len(path) + 1], nx[Len(path) + 1], e)
        /\ B!HasSpace(e) => Fits(e.space, av[Len(path) + 1], nx[Len(path) + 1])
    BY <1>3, <1>15, <1>16, <1>17 DEF n
  <2>2. /\ Append(path, e) \in Seq(BEdge) /\ Len(Append(path, e)) = Len(path) + 1
        /\ \A k \in 1 .. Len(path) : Append(path, e)[k] = path[k]
        /\ Append(path, e)[Len(path) + 1] = e
    BY <1>4, <1>11, <2>1, AlongAppend
  <2>3. \E bv, ny : /\ Along(bv, ny, Append(path, e))
                    /\ bv[Len(path) + 2] = more
                    /\ ny[Len(path) + 2] = nx[Len(path) + 1] + Len(Posts(e.kind, e.alt))
                    /\ \A k \in 1 .. Len(path) + 1 : bv[k] = av[k] /\ ny[k] = nx[k]
    <3>1. Extended(av, nx, path, e, more)
      BY <1>4, <1>11, <2>1, AlongAppend
    <3> QED BY <3>1 DEF Extended
  <2> QED BY <1>2, <2>2, <2>3 DEF n
<1>19. PICK bv, ny : /\ Along(bv, ny, path') /\ bv[n + 2] = more
                     /\ ny[n + 2] = nx[n + 1] + Len(Posts(e.kind, e.alt))
  BY <1>18
<1>20. Explained(bv, ny)'
  <2>1. Len(path') + 1 = n + 2
    BY <1>4, <1>18
  <2> QED BY <1>2, <1>14, <1>19, <2>1 DEF Explained
<1>21. Copies(path) \subseteq Copies(path') /\ (copy => n + 1 \in Copies(path'))
  BY <1>4, <1>12, <1>18 DEF Copies, n
<1>22. Copies(path') # {}
  BY <1>2, <1>21 DEF BranchInv
<1>23. \A k \in 1 .. Len(path') : B!Open(path'[k]) => \E l \in Copies(path') : l <= k
  <2> SUFFICES ASSUME NEW k \in 1 .. n + 1, B!Open(path'[k]) PROVE \E l \in Copies(path') : l <= k
    BY <1>18
  <2>1. CASE k = n + 1
    <3>1. \A l \in Copies(path') : l <= k
      BY <1>4, <1>18, <2>1 DEF Copies
    <3> QED BY <1>22, <3>1
  <2>2. CASE k # n + 1
    <3>1. k \in 1 .. Len(path) /\ B!Open(path[k])
      BY <1>4, <1>18, <2>2 DEF n
    <3> QED BY <1>21, <3>1 DEF BranchInv
  <2> QED BY <2>1, <2>2
<1>24. cur' \in GoodSpace
  BY <1>14, IsSpace DEF Fits, Offers
<1> QED BY <1>2, <1>18, <1>20, <1>22, <1>23, <1>24 DEF BranchInv, Searching
LEMMA RecomputeKeeps == ASSUME BranchInv, B!Recompute PROVE BranchInv'
<1> DEFINE e == path[at]
           n == Len(path)
<1>1. PICK av, nx : Explained(av, nx)
  BY DEF BranchInv
<1>2. /\ bpc = "recompute" /\ at <= n /\ cur' = B!Commit(cur, e) /\ at' = at + 1
      /\ path' = path /\ bpc' = bpc /\ fresh' = fresh
  BY DEF B!Recompute
<1>3. /\ Along(av, nx, path) /\ at \in 1 .. n + 1 /\ Fits(cur, av[at], nx[at])
      /\ \A k \in Copies(path) : k <= at
  BY <1>1, <1>2 DEF Explained
<1>4. path \in Seq(BEdge) /\ n \in Nat
  BY DEF BranchInv
<1>5. at \in 1 .. n /\ at \in Nat /\ e \in BEdge
  BY <1>2, <1>3, <1>4, ElementOfSeq
<1>6. /\ <<e.bid, e.kind>> \in av[at]
      /\ nx[at + 1] = nx[at] + Len(Posts(e.kind, e.alt))
  BY <1>3, <1>5 DEF Along
<1>7. e.kind \in Kind /\ e.alt \in 0 .. Arity(e.kind) - 1
  BY <1>5, EdgeOK
<1> HIDE DEF e
<1>8. Fits(cur', After(av[at], nx[at], e), nx[at + 1])
  <2>1. Offers(cur, av[at], nx[at])
    BY <1>3 DEF Fits
  <2> QED BY <1>2, <1>3, <1>6, <1>7, <2>1, CommitFits
<1>9. PICK bv : Along(bv, nx, path) /\ bv[at + 1] = After(av[at], nx[at], e)
  BY <1>3, <1>4, <1>5, AlongReplace DEF e
<1>10. Explained(bv, nx)'
  <2>1. at + 1 \in 1 .. n + 1 /\ \A k \in Copies(path) : k <= at + 1
    BY <1>3, <1>4, <1>5 DEF Copies
  <2> QED BY <1>2, <1>8, <1>9, <2>1 DEF Explained, Searching
<1>11. cur' \in GoodSpace
  BY <1>8, IsSpace DEF Fits, Offers
<1> QED BY <1>2, <1>10, <1>11 DEF BranchInv, Searching

LEMMA NothingThrown == ASSUME BranchInv, B!NoBrancher PROVE FALSE
<1>1. PICK av, nx : Explained(av, nx)
  BY DEF BranchInv
<1>2. bpc = "recompute" /\ at <= Len(path) /\ ~B!Meets(cur, path[at])
  BY DEF B!NoBrancher
<1>3. Along(av, nx, path) /\ at \in 1 .. Len(path) + 1 /\ Fits(cur, av[at], nx[at])
  BY <1>1, <1>2 DEF Explained
<1>4. path \in Seq(BEdge) /\ at \in 1 .. Len(path) /\ path[at] \in BEdge
  BY <1>2, <1>3, ElementOfSeq DEF BranchInv
<1>5. <<path[at].bid, path[at].kind>> \in av[at]
  BY <1>3, <1>4 DEF Along
<1> QED BY <1>2, <1>3, <1>4, <1>5, EdgeOK, CommitFits DEF Fits

LEMMA RecomputedKeeps == ASSUME BranchInv, B!Recomputed PROVE BranchInv'
<1>1. PICK av, nx : Explained(av, nx)
  BY DEF BranchInv
<1>2. /\ bpc = "recompute" /\ at > Len(path) /\ bpc' = "status"
      /\ cur' = cur /\ path' = path /\ fresh' = fresh
  BY DEF B!Recomputed
<1>3. path \in Seq(BEdge) /\ Len(path) \in Nat
  BY DEF BranchInv
<1>4. at = Len(path) + 1
  BY <1>1, <1>2, <1>3 DEF Explained
<1>5. Explained(av, nx)'
  BY <1>1, <1>2, <1>4 DEF Explained, Searching
<1> QED BY <1>2, <1>5 DEF BranchInv, Searching

(* The path is cut off at an edge. *)
LEMMA CutKeeps ==
  ASSUME BranchInv, NEW m \in 0 .. Len(path), path' = SubSeq(path, 1, m),
         bpc' = "next", cur' = B!NoSpace
  PROVE  BranchInv'
<1>1. PICK av, nx : Explained(av, nx)
  BY DEF BranchInv
<1>2. path \in Seq(BEdge) /\ Along(av, nx, path) /\ Len(path) \in Nat
  BY <1>1 DEF BranchInv, Explained
<1>3. /\ path' \in Seq(BEdge) /\ Len(path') = m /\ \A k \in 1 .. m : path'[k] = path[k]
      /\ Along([k \in 1 .. m + 1 |-> av[k]], [k \in 1 .. m + 1 |-> nx[k]], path')
  BY <1>2, AlongPrefix
<1>4. Explained([k \in 1 .. m + 1 |-> av[k]], [k \in 1 .. m + 1 |-> nx[k]])'
  BY <1>3 DEF Explained, Searching
<1>5. \A k \in Copies(path) : k <= m => k \in Copies(path')
  BY <1>3 DEF Copies
<1>6. \A k \in 1 .. m : B!Open(path'[k]) => \E l \in Copies(path') : l <= k
  <2> SUFFICES ASSUME NEW k \in 1 .. m, B!Open(path'[k]) PROVE \E l \in Copies(path') : l <= k
    OBVIOUS
  <2>1. k \in 1 .. Len(path) /\ B!Open(path[k])
    BY <1>2, <1>3
  <2>2. PICK l \in Copies(path) : l <= k
    BY <2>1 DEF BranchInv
  <2>3. l <= m
    BY <2>2 DEF Copies
  <2> QED BY <1>5, <2>2, <2>3
<1> QED BY <1>3, <1>4, <1>6 DEF BranchInv, Searching

(* A clone is put on the path at the next edge to commit. *)
LEMMA CloneKeeps ==
  ASSUME BranchInv, bpc = "recompute", bpc' = bpc, at' = at, fresh' = fresh, at <= Len(path),
         cur' \in B!Statuses(cur), path' = [path EXCEPT ![at].space = cur']
  PROVE  BranchInv'
<1>1. PICK av, nx : Explained(av, nx)
  BY DEF BranchInv
<1>2. /\ Along(av, nx, path) /\ at \in 1 .. Len(path) + 1 /\ Fits(cur, av[at], nx[at])
      /\ \A k \in Copies(path) : k <= at
  BY <1>1 DEF Explained
<1>3. path \in Seq(BEdge) /\ Len(path) \in Nat /\ at \in 1 .. Len(path)
  BY <1>2 DEF BranchInv
<1>4. Fits(cur', av[at], nx[at])
  BY <1>2, StatusFits
<1>5. /\ path' \in Seq(BEdge) /\ Len(path') = Len(path)
      /\ \A k \in 1 .. Len(path) : B!Open(path'[k]) <=> B!Open(path[k])
      /\ Copies(path') = Copies(path) \cup {at}
      /\ Along(av, nx, path')
  <2> DEFINE q == [path EXCEPT ![at].space = cur']
  <2>1. /\ q \in Seq(BEdge) /\ Len(q) = Len(path)
        /\ \A k \in 1 .. Len(path) : B!Open(q[k]) <=> B!Open(path[k])
        /\ Copies(q) = Copies(path) \cup {at}
        /\ Along(av, nx, q)
    BY <1>2, <1>3, <1>4, AlongClone, Zenon
  <2>2. path' = q
    OBVIOUS
  <2> HIDE DEF q
  <2> QED BY <2>1, <2>2
<1>6. Explained(av, nx)'
  <2>1. \A k \in Copies(path') : k <= at
    <3> SUFFICES ASSUME NEW k \in Copies(path') PROVE k <= at
      OBVIOUS
    <3>1. k \in Copies(path) \/ k = at
      BY <1>5
    <3>2. at <= at
      BY <1>3
    <3> QED BY <1>2, <3>1, <3>2
  <2>2. Fits(cur', av[at'], nx[at']) /\ at' \in 1 .. Len(path') + 1 /\ Along(av, nx, path')
    BY <1>2, <1>4, <1>5
  <2>3. \A k \in Copies(path') : k <= at'
    BY <2>1
  <2>4. bpc' = "recompute"
    OBVIOUS
  <2> QED BY <2>2, <2>3, <2>4 DEF Explained, Searching
<1>7. cur' \in GoodSpace
  BY <1>4, IsSpace DEF Fits, Offers
<1> QED BY <1>5, <1>6, <1>7 DEF BranchInv, Searching

LEMMA AdaptKeeps == ASSUME BranchInv, B!Adapt PROVE BranchInv'
<1>1. bpc = "recompute" /\ at < Len(path) /\ fresh' = fresh /\ path \in Seq(BEdge)
  BY DEF B!Adapt, BranchInv
<1>2. at \in 1 .. Len(path) + 1
  BY <1>1 DEF BranchInv, Explained
<1>3. CASE path' = SubSeq(path, 1, at - 1) /\ bpc' = "next" /\ cur' = B!NoSpace
  <2>1. at - 1 \in 0 .. Len(path)
    BY <1>1, <1>2
  <2> QED BY <1>3, <2>1, CutKeeps
<1>4. CASE cur' \in B!Statuses(cur) /\ path' = [path EXCEPT ![at].space = cur']
           /\ bpc' = bpc /\ at' = at
  <2>1. at <= Len(path)
    BY <1>1, <1>2
  <2> QED BY <1>1, <1>4, <2>1, CloneKeeps
<1> QED BY <1>3, <1>4 DEF B!Adapt

LEMMA ConstrainKeeps == ASSUME BranchInv, B!Constrain PROVE BranchInv'
<1>1. /\ bpc = "recompute" /\ bpc' = bpc /\ at' = at /\ fresh' = fresh
      /\ B!LastCopy > 0 /\ at = B!LastCopy
      /\ cur' \in B!Statuses(cur) /\ path' = [path EXCEPT ![at].space = cur']
  BY DEF B!Constrain
<1>2. path \in Seq(BEdge)
  BY DEF BranchInv
<1>3. at # 0 /\ at = B!SelectLastInSeq(path, B!HasSpace)
  BY <1>1 DEF B!LastCopy
<1>4. at \in Copies(path)
  BY <1>2, <1>3, LastCopyIs
<1>5. at <= Len(path)
  BY <1>2, <1>4 DEF Copies
<1> QED BY <1>1, <1>5, CloneKeeps

LEMMA BacktrackKeeps == ASSUME BranchInv, B!Backtrack PROVE BranchInv'
<1> DEFINE m == B!SelectLastInSeq(path, B!Open)
<1>1. PICK av, nx : Explained(av, nx)
  BY DEF BranchInv
<1>2. path \in Seq(BEdge) /\ Along(av, nx, path) /\ Len(path) \in Nat
  BY <1>1 DEF BranchInv, Explained
<1>3. CASE m = 0
  <2>1. path' = <<>> /\ bpc' = "done" /\ cur' = cur
    BY <1>3 DEF B!Backtrack
  <2>2. SubSeq(path, 1, 0) = <<>>
    BY <1>2
  <2>3. Along([k \in 1 .. 0 + 1 |-> av[k]], [k \in 1 .. 0 + 1 |-> nx[k]], SubSeq(path, 1, 0))
    <3>1. 0 \in 0 .. Len(path)
      BY <1>2
    <3> QED BY <1>2, <3>1, AlongPrefix, Zenon
  <2>4. Along([k \in 1 .. 0 + 1 |-> av[k]], [k \in 1 .. 0 + 1 |-> nx[k]], path')
    BY <2>1, <2>2, <2>3
  <2>5. Explained([k \in 1 .. 0 + 1 |-> av[k]], [k \in 1 .. 0 + 1 |-> nx[k]])'
    BY <2>1, <2>4 DEF Explained, Searching
  <2>6. path' \in Seq(BEdge) /\ Len(path') = 0
    BY <2>1
  <2> QED BY <2>1, <2>5, <2>6 DEF BranchInv, Searching
<1>4. CASE m # 0
  <2> DEFINE p == [SubSeq(path, 1, m) EXCEPT ![m].alt = @ + 1]
             l == B!SelectLastInSeq(p, B!HasSpace)
             reuse == l = m /\ B!Rightmost(p[m])
  <2>1. /\ path' = (IF reuse THEN [p EXCEPT ![m].space = B!NoSpace] ELSE p)
        /\ cur' = p[l].space /\ at' = l /\ fresh' = reuse /\ bpc' = "recompute"
    BY <1>4 DEF B!Backtrack
  <2>2. m \in 1 .. Len(path) /\ B!Open(path[m]) /\ m \in Nat /\ path[m] \in BEdge
    <3>1. m \in 1 .. Len(path) /\ B!Open(path[m])
      BY <1>2, <1>4, LastOpenIs, Zenon
    <3> HIDE DEF m
    <3> QED BY <1>2, <3>1, ElementOfSeq
  <2> HIDE DEF m
  <2> DEFINE s == SubSeq(path, 1, m)
             q == SubSeq(path, 1, m - 1)
             e == [path[m] EXCEPT !.alt = @ + 1]
             f == IF reuse THEN [e EXCEPT !.space = B!NoSpace] ELSE e
  <2>3. s \in Seq(BEdge) /\ Len(s) = m /\ \A k \in 1 .. m : s[k] = path[k]
    BY <1>2, <2>2, AlongPrefix
  <2>4. m - 1 \in 0 .. Len(path)
    BY <1>2, <2>2
  <2>5. /\ q \in Seq(BEdge) /\ Len(q) = m - 1 /\ \A k \in 1 .. m - 1 : q[k] = path[k]
        /\ Along([k \in 1 .. m - 1 + 1 |-> av[k]], [k \in 1 .. m - 1 + 1 |-> nx[k]], q)
    BY <1>2, <2>4, AlongPrefix
  <2>6. e \in BEdge /\ e.space = path[m].space /\ e.bid = path[m].bid /\ e.kind = path[m].kind
    BY <2>2, EdgeOK DEF BEdge, B!Open, B!Rightmost
  <2> HIDE DEF s, e
  <2>7. p \in Seq(BEdge) /\ Len(p) = m /\ p[m] = e /\ \A k \in 1 .. m - 1 : p[k] = path[k]
    <3>2. s \in [1 .. m -> BEdge]
      BY <2>2, <2>3
    <3>5. p = [s EXCEPT ![m] = e]
      BY <2>2, <2>3, <3>2 DEF s, e
    <3> HIDE DEF p
    <3>1. p = [k \in 1 .. m |-> IF k = m THEN e ELSE s[k]]
      BY <3>2, <3>5
    <3>3. p \in [1 .. m -> BEdge]
      BY <2>6, <3>1, <3>2
    <3> HIDE DEF p
    <3>4. p \in Seq(BEdge) /\ Len(p) = m
      BY <2>2, <3>3
    <3> QED BY <2>2, <2>3, <3>1, <3>4
  <2> DEFINE r == [p EXCEPT ![m].space = B!NoSpace]
  <2>8. path' = Append(q, f)
    <3>1. Append(q, f) = [k \in 1 .. m |-> IF k = m THEN f ELSE q[k]]
      <4>1. f \in BEdge
        BY <2>6 DEF BEdge
      <4> HIDE DEF q, f
      <4>2. /\ Append(q, f) \in Seq(BEdge) /\ Len(Append(q, f)) = Len(q) + 1
            /\ \A k \in 1 .. Len(q) : Append(q, f)[k] = q[k]
            /\ Append(q, f)[Len(q) + 1] = f
        BY <2>5, <4>1, AppendProperties
      <4>3. Append(q, f) \in [1 .. m -> BEdge] /\ Append(q, f)[m] = f
        <5>1. \A x \in Seq(BEdge) : x \in [1 .. Len(x) -> BEdge]
          BY LenProperties
        <5>2. Len(q) + 1 = m
          BY <2>2, <2>5
        <5> QED BY <4>2, <5>1, <5>2, Zenon
      <4>4. \A k \in 1 .. m : k = m \/ k \in 1 .. Len(q)
        BY <2>2, <2>5
      <4>5. \A k \in 1 .. m : Append(q, f)[k] = IF k = m THEN f ELSE q[k]
        BY <4>2, <4>3, <4>4
      <4> QED BY <4>3, <4>5
    <3>2. p \in [1 .. m -> BEdge]
      BY <2>7
    <3>5. f = IF reuse THEN [e EXCEPT !.space = B!NoSpace] ELSE e
      OBVIOUS
    <3>6. r = [k \in 1 .. m |-> IF k = m THEN [p[m] EXCEPT !.space = B!NoSpace] ELSE p[k]]
      <4> HIDE DEF p
      <4> QED BY <2>2, <3>2
    <3> HIDE DEF p, f, r, q, reuse
    <3>7. p = [k \in 1 .. m |-> IF k = m THEN p[m] ELSE p[k]]
      BY <3>2
    <3>8. \A k \in 1 .. m : k # m => p[k] = q[k]
      <4>1. \A k \in 1 .. m : k # m => k \in 1 .. m - 1
        BY <2>2
      <4> QED BY <2>5, <2>7, <4>1
    <3>9. path' = IF reuse THEN r ELSE p
      BY <2>1 DEF r
    <3>3. CASE reuse
      <4>1. path' = r /\ f = [e EXCEPT !.space = B!NoSpace]
        BY <3>3, <3>5, <3>9
      <4>2. r = [k \in 1 .. m |-> IF k = m THEN f ELSE q[k]]
        BY <2>7, <3>6, <3>8, <4>1
      <4> QED BY <3>1, <4>1, <4>2
    <3>4. CASE ~reuse
      <4>1. path' = p /\ f = e
        BY <3>4, <3>5, <3>9
      <4>2. p = [k \in 1 .. m |-> IF k = m THEN f ELSE q[k]]
        BY <2>7, <3>7, <3>8, <4>1
      <4> QED BY <3>1, <4>1, <4>2
    <3> QED BY <3>3, <3>4
  <2> HIDE DEF p, l, reuse, q, r
  <2>9. f \in BEdge /\ f.bid = path[m].bid /\ f.kind = path[m].kind
        /\ f.space = (IF reuse THEN B!NoSpace ELSE path[m].space)
    BY <2>6 DEF BEdge
  <2> HIDE DEF f
  <2> DEFINE bv == [k \in 1 .. m - 1 + 1 |-> av[k]]
             ny == [k \in 1 .. m - 1 + 1 |-> nx[k]]
             more == After(av[m], nx[m], f)
  <2>10. Len(q) + 1 = m /\ bv[m] = av[m] /\ ny[m] = nx[m]
    BY <2>2, <2>5
  <2>11. Along(bv, ny, q)
    BY <2>5
  <2> HIDE DEF bv, ny
  <2>12. /\ <<path[m].bid, path[m].kind>> \in av[m]
         /\ B!HasSpace(path[m]) => Fits(path[m].space, av[m], nx[m])
    BY <1>2, <2>2 DEF Along
  <2>13. B!HasSpace(f) => ~reuse /\ B!HasSpace(path[m]) /\ f.space = path[m].space
    BY <2>9 DEF B!HasSpace
  <2>14. /\ <<f.bid, f.kind>> \in bv[Len(q) + 1]
         /\ B!HasSpace(f) => Fits(f.space, bv[Len(q) + 1], ny[Len(q) + 1])
         /\ more \subseteq After(bv[Len(q) + 1], ny[Len(q) + 1], f)
    BY <2>9, <2>10, <2>12, <2>13
  <2> HIDE DEF more
  <2>15. /\ path' \in Seq(BEdge) /\ Len(path') = m
         /\ (\A k \in 1 .. m - 1 : path'[k] = path[k]) /\ path'[m] = f
    <3>1. /\ Append(q, f) \in Seq(BEdge) /\ Len(Append(q, f)) = Len(q) + 1
          /\ \A k \in 1 .. Len(q) : Append(q, f)[k] = q[k]
          /\ Append(q, f)[Len(q) + 1] = f
      BY <2>5, <2>9, <2>11, <2>14, AlongAppend
    <3> QED BY <2>2, <2>5, <2>8, <2>10, <3>1
  <2>16. Extended(bv, ny, q, f, more)
    BY <2>5, <2>9, <2>11, <2>14, AlongAppend
  <2>17. PICK cv, nz : Along(cv, nz, path') /\ \A k \in 1 .. m : cv[k] = bv[k] /\ nz[k] = ny[k]
    BY <2>8, <2>10, <2>16 DEF Extended
  <2>18. p \in Seq(BEdge)
    BY <2>7
  <2>19. Copies(p) = {k \in Copies(path) : k <= m}
    <3>1. \A k \in 1 .. m : B!HasSpace(p[k]) <=> B!HasSpace(path[k])
      <4> TAKE k \in 1 .. m
      <4>1. k = m \/ k \in 1 .. m - 1
        BY <2>2
      <4> QED BY <2>6, <2>7, <4>1 DEF B!HasSpace
    <3>2. \A k \in 1 .. Len(path) : k <= m <=> k \in 1 .. m
      BY <2>2
    <3>3. \A k \in 1 .. m : k \in 1 .. Len(path)
      BY <1>2, <2>2
    <3> QED BY <2>7, <3>1, <3>2, <3>3 DEF Copies
  <2>20. \E k \in Copies(path) : k <= m
    BY <2>2 DEF BranchInv
  <2>21. l \in Copies(p) /\ \A k \in Copies(p) : k <= l
    <3>1. Copies(p) # {}
      BY <2>19, <2>20
    <3> QED BY <2>18, <3>1, LastCopyIs DEF l
  <2>22. l \in 1 .. m /\ l \in Copies(path) /\ B!HasSpace(path[l]) /\ p[l].space = path[l].space
    <3>1. l \in 1 .. m /\ l \in Copies(path)
      BY <2>7, <2>19, <2>21 DEF Copies
    <3>2. l = m \/ l \in 1 .. m - 1
      BY <2>2, <3>1
    <3> QED BY <2>6, <2>7, <3>1, <3>2 DEF Copies
  <2>23. Fits(path[l].space, av[l], nx[l])
    BY <1>2, <2>22 DEF Along, Copies
  <2>24. bv[l] = av[l] /\ ny[l] = nx[l]
    <3>1. l \in 1 .. m - 1 + 1
      BY <2>2, <2>22
    <3> QED BY <3>1 DEF bv, ny
  <2>25. Fits(cur', cv[at'], nz[at'])
    BY <2>1, <2>17, <2>22, <2>23, <2>24
  <2>26. Copies(path') = IF reuse THEN Copies(p) \ {m} ELSE Copies(p)
    <3>1. \A k \in 1 .. m : k # m => path'[k] = p[k]
      <4>1. \A k \in 1 .. m : k # m => k \in 1 .. m - 1
        BY <2>2
      <4> QED BY <2>7, <2>15, <4>1
    <3>2. B!HasSpace(path'[m]) <=> ~reuse /\ B!HasSpace(p[m])
      BY <2>6, <2>7, <2>9, <2>15 DEF B!HasSpace
    <3> QED BY <2>7, <2>15, <3>1, <3>2 DEF Copies
  <2>27. Explained(cv, nz)'
    <3>1. at' \in 1 .. Len(path') + 1
      BY <2>1, <2>2, <2>15, <2>22
    <3>2. \A k \in Copies(path') : k <= at'
      BY <2>1, <2>21, <2>26
    <3> QED BY <2>1, <2>17, <2>25, <3>1, <3>2 DEF Explained, Searching
  <2>28. fresh' \/ Copies(path') # {}
    BY <2>1, <2>21, <2>26
  <2>29. \A k \in 1 .. Len(path') : B!Open(path'[k]) => \E j \in Copies(path') : j <= k
    <3> SUFFICES ASSUME NEW k \in 1 .. m, B!Open(path'[k]) PROVE \E j \in Copies(path') : j <= k
      BY <2>15
    <3>1. CASE k = m
      <4>1. ~B!Rightmost(f)
        BY <2>15, <3>1 DEF B!Open
      <4>2. ~reuse
        <5>1. B!Rightmost(p[m]) => B!Rightmost(f)
          BY <2>6, <2>7, <2>9 DEF B!Rightmost, f
        <5> QED BY <4>1, <5>1 DEF reuse
      <4>3. l \in Copies(path') /\ l <= k
        BY <2>21, <2>22, <2>26, <3>1, <4>2
      <4> QED BY <4>3
    <3>2. CASE k # m
      <4>1. k \in 1 .. m - 1 /\ k \in 1 .. Len(path)
        BY <1>2, <2>2, <3>2
      <4>2. B!Open(path[k])
        BY <2>15, <4>1
      <4>3. PICK j \in Copies(path) : j <= k
        BY <4>1, <4>2 DEF BranchInv
      <4>4. j <= m /\ j # m
        BY <2>2, <4>1, <4>3 DEF Copies
      <4> QED BY <2>19, <2>26, <4>3, <4>4
    <3> QED BY <3>1, <3>2
  <2>30. cur' \in GoodSpace
    BY <2>25, IsSpace DEF Fits, Offers
  <2> QED BY <2>1, <2>15, <2>27, <2>28, <2>29, <2>30 DEF BranchInv, Searching
<1> QED BY <1>3, <1>4
LEMMA BranchNext == BranchInv /\ [B!Next]_(B!vars) => BranchInv'
<1> SUFFICES ASSUME BranchInv, [B!Next]_(B!vars) PROVE BranchInv'
  OBVIOUS
<1>1. CASE UNCHANGED B!vars
  BY <1>1 DEF B!vars, BranchInv, Explained
<1>2. CASE B!Fails
  BY <1>2, GivesUp DEF B!Fails, Searching
<1>3. CASE B!Cut
  BY <1>3, GivesUp DEF B!Cut, Searching
<1>4. ASSUME NEW copy \in BOOLEAN, B!Branch(copy) PROVE BranchInv'
  BY <1>4, BranchKeeps
<1>5. CASE B!Next /\ ~(\E copy \in BOOLEAN : B!Branch(copy)) /\ ~B!Fails /\ ~B!Cut
  BY <1>5, StatusKeeps, SolvedKeeps, BacktrackKeeps, RecomputeKeeps, NothingThrown,
     RecomputedKeeps, AdaptKeeps, ConstrainKeeps DEF B!Next
<1> QED BY <1>1, <1>2, <1>3, <1>4, <1>5

LEMMA BranchInvHolds == B!Spec => []BranchInv
BY BranchInit, BranchNext, PTL DEF B!Spec

LEMMA NoneSkipped == BranchInv => B!NothingSkipped
<1> SUFFICES ASSUME BranchInv, NEW s \in B!Spaces
             PROVE  /\ {s.b_status, s.b_commit} \subseteq B!Ids(s.bl) \cup {B!END}
                    /\ B!Ids(B!Before(s, s.b_status)) \subseteq s.asked
  BY DEF B!NothingSkipped
<1>1. path \in Seq(BEdge) /\ DOMAIN path = 1 .. Len(path)
  BY DEF BranchInv
<1>2. s # B!NoSpace /\ (s = cur \/ \E j \in 1 .. Len(path) : s = path[j].space)
  BY <1>1 DEF B!Spaces
<1>3. \A j \in 1 .. Len(path) : path[j].space \in GoodSpace \cup {B!NoSpace}
  BY <1>1, ElementOfSeq, EdgeOK
<1>4. s \in GoodSpace
  BY <1>2, <1>3 DEF BranchInv
<1> QED BY <1>4 DEF GoodSpace, SpaceOK

(* What is recomputed from a clone: the recursive function is defined. *)
ReplayedBy(p, l, m, r) ==
  r = [j \in l .. m |-> IF j = l THEN p[l].space
                         ELSE IF B!Meets(r[j - 1], p[j - 1]) THEN B!Commit(r[j - 1], p[j - 1])
                         ELSE B!NoSpace]

LEMMA ReplayExists ==
  ASSUME NEW p, NEW l \in Nat
  PROVE  \A m \in Nat : \E r : ReplayedBy(p, l, m, r)
<1> DEFINE Bad == {m \in Nat : ~\E r : ReplayedBy(p, l, m, r)}
<1> SUFFICES ASSUME Bad # {} PROVE FALSE
  OBVIOUS
<1>1. PICK m \in Bad : \A k \in Bad : m <= k
  BY HasLeast
<1>2. m \in Nat /\ ~\E r : ReplayedBy(p, l, m, r)
  OBVIOUS
<1>3. l < m
  <2> SUFFICES ASSUME ~(l < m) PROVE FALSE
    OBVIOUS
  <2> DEFINE r == [j \in l .. m |-> p[l].space]
  <2>1. \A j \in l .. m : j = l
    BY <1>2
  <2>2. ReplayedBy(p, l, m, r)
    BY <2>1 DEF ReplayedBy
  <2> QED BY <1>2, <2>2
<1>4. m - 1 \in Nat /\ ~(m <= m - 1)
  BY <1>2, <1>3
<1>5. PICK q : ReplayedBy(p, l, m - 1, q)
  BY <1>1, <1>4
<1> DEFINE last == IF B!Meets(q[m - 1], p[m - 1]) THEN B!Commit(q[m - 1], p[m - 1]) ELSE B!NoSpace
           r == [j \in l .. m |-> IF j = m THEN last ELSE q[j]]
<1>6. \A j \in l .. m : j # m => j \in l .. m - 1
  BY <1>2
<1>7. \A j \in l .. m : j # l => j - 1 \in l .. m /\ j - 1 # m
  BY <1>2
<1>8. \A j \in l .. m - 1 :
        q[j] = IF j = l THEN p[l].space
               ELSE IF B!Meets(q[j - 1], p[j - 1]) THEN B!Commit(q[j - 1], p[j - 1]) ELSE B!NoSpace
  BY <1>5 DEF ReplayedBy
<1> HIDE DEF last
<1>9. \A j \in l .. m : j # m => r[j] = q[j]
  OBVIOUS
<1>10. \A j \in l .. m :
         r[j] = IF j = l THEN p[l].space
                ELSE IF B!Meets(r[j - 1], p[j - 1]) THEN B!Commit(r[j - 1], p[j - 1]) ELSE B!NoSpace
  <2> SUFFICES ASSUME NEW j \in l .. m
               PROVE  r[j] = IF j = l THEN p[l].space
                             ELSE IF B!Meets(r[j - 1], p[j - 1]) THEN B!Commit(r[j - 1], p[j - 1])
                             ELSE B!NoSpace
    OBVIOUS
  <2>1. j # l => r[j - 1] = q[j - 1]
    BY <1>7, <1>9
  <2>2. CASE j = m
    <3>1. r[j] = last /\ j # l
      BY <1>3, <2>2
    <3> QED BY <2>1, <2>2, <3>1 DEF last
  <2>3. CASE j # m
    BY <1>6, <1>8, <1>9, <2>1, <2>3
  <2> QED BY <2>2, <2>3
<1>11. r = [j \in l .. m |-> r[j]]
  OBVIOUS
<1> HIDE DEF r
<1>12. ReplayedBy(p, l, m, r)
  BY <1>10, <1>11 DEF ReplayedBy
<1> QED BY <1>2, <1>12

LEMMA AllFound == BranchInv => B!ChoicesFindBrancher
<1> SUFFICES ASSUME BranchInv, NEW l \in DOMAIN path, B!HasSpace(path[l])
             PROVE  \A j \in l .. Len(path) : B!Meets(B!Replayed(l)[j], path[j])
  BY DEF B!ChoicesFindBrancher, BranchInv, Searching
<1>1. PICK av, nx : Explained(av, nx)
  BY DEF BranchInv
<1>2. /\ path \in Seq(BEdge) /\ Len(path) \in Nat /\ DOMAIN path = 1 .. Len(path)
      /\ Along(av, nx, path)
  BY <1>1 DEF BranchInv, Explained
<1> DEFINE m == Len(path) + 1
           r == B!Replayed(l)
<1>3. ReplayedBy(path, l, m, r)
  <2>1. l \in Nat /\ m \in Nat
    BY <1>2
  <2>2. \E x : ReplayedBy(path, l, m, x)
    BY <2>1, ReplayExists
  <2> QED BY <2>2 DEF ReplayedBy, B!Replayed
<1> HIDE DEF r
<1>4. \A j \in l .. m :
        r[j] = IF j = l THEN path[l].space
               ELSE IF B!Meets(r[j - 1], path[j - 1]) THEN B!Commit(r[j - 1], path[j - 1])
               ELSE B!NoSpace
  BY <1>3 DEF ReplayedBy
<1>5. \A j \in l .. Len(path) :
        /\ j \in 1 .. Len(path) /\ path[j] \in BEdge
        /\ <<path[j].bid, path[j].kind>> \in av[j]
        /\ av[j + 1] \subseteq After(av[j], nx[j], path[j])
        /\ nx[j + 1] = nx[j] + Len(Posts(path[j].kind, path[j].alt))
  <2>1. \A j \in l .. Len(path) : j \in 1 .. Len(path)
    BY <1>2
  <2> QED BY <1>2, <2>1, ElementOfSeq DEF Along
<1>6. Offers(path[l].space, av[l], nx[l])
  BY <1>2 DEF Along, Fits
<1>7. \A j \in l .. Len(path) : Offers(r[j], av[j], nx[j]) => B!Meets(r[j], path[j])
  BY <1>5, EdgeOK, CommitFits
<1>8. \A j \in l .. Len(path) : Offers(r[j], av[j], nx[j]) => Offers(r[j + 1], av[j + 1], nx[j + 1])
  <2> SUFFICES ASSUME NEW j \in l .. Len(path), Offers(r[j], av[j], nx[j])
               PROVE  Offers(r[j + 1], av[j + 1], nx[j + 1])
    OBVIOUS
  <2>1. j + 1 \in l .. m /\ j + 1 # l /\ j + 1 - 1 = j
    BY <1>2
  <2>2. r[j + 1] = B!Commit(r[j], path[j])
    BY <1>4, <1>7, <2>1
  <2>3. Offers(B!Commit(r[j], path[j]), After(av[j], nx[j], path[j]), nx[j + 1])
    BY <1>5, EdgeOK, CommitFits
  <2> QED BY <1>5, <2>2, <2>3 DEF Offers
<1>9. \A j \in l .. Len(path) : Offers(r[j], av[j], nx[j])
  <2> DEFINE Bad == {j \in l .. Len(path) : ~Offers(r[j], av[j], nx[j])}
  <2> SUFFICES ASSUME Bad # {} PROVE FALSE
    OBVIOUS
  <2>1. Bad \in SUBSET Nat
    BY <1>2
  <2>2. PICK j \in Bad : \A k \in Bad : j <= k
    BY <2>1, HasLeast
  <2>3. j \in l .. Len(path) /\ ~Offers(r[j], av[j], nx[j])
    OBVIOUS
  <2>4. j # l
    BY <1>2, <1>4, <1>6, <2>3
  <2>5. j - 1 \in l .. Len(path) /\ ~(j <= j - 1) /\ j - 1 + 1 = j
    BY <1>2, <2>3, <2>4
  <2>6. Offers(r[j - 1], av[j - 1], nx[j - 1])
    BY <2>2, <2>5
  <2> QED BY <1>8, <2>3, <2>5, <2>6
<1> QED BY <1>7, <1>9 DEF r

(* A path of choices can be recomputed from each of its clones, for any branchers, any
   alternatives, any posts and kills by commits and any placement of clones. *)
THEOREM EveryChoiceIsFound == B!Spec => []B!ChoicesFindBrancher
<1> QED BY BranchInvHolds, AllFound, PTL

(* Whoever is left of b_status has been asked, and both pointers are at branchers. *)
THEOREM EveryBrancherIsAsked == B!Spec => []B!NothingSkipped
<1> QED BY BranchInvHolds, NoneSkipped, PTL

-----------------------------------------------------------------------------
(* The parts of the kernel, each by itself.  A behaviour of the composition with
   part = "nogoods" is one of the propagator for no-goods. *)
LEMMA NogoodsAlone ==
  /\ MCInit => (part = "nogoods" => N!Init)
  /\ [MCNext]_allVars => /\ part = "nogoods" => [N!Next]_(N!vars)
                         /\ (part = "nogoods")' <=> part = "nogoods"
<1>1. MCInit => (part = "nogoods" => N!Init)
  BY DEF MCInit
<1>2. ASSUME part = "nogoods", [MCNext]_allVars
      PROVE  [N!Next]_(N!vars)
  BY <1>2 DEF MCNext, StepPropagation, StepBranching, StepCloning, StepNogoods, Stops, Only,
              allVars, nogoodVars, N!vars, N!space
<1>3. [MCNext]_allVars => part' = part
  BY DEF MCNext, StepPropagation, StepBranching, StepCloning, StepNogoods, Stops, Only, allVars
<1> QED BY <1>1, <1>2, <1>3

(* In the kernel as it is composed, the propagator for no-goods is subscribed to what it
   watches and counts its subscriptions (NoGoodsProp::propagate(), cost()). *)
THEOREM SubscriptionsAreExact == MCSpec => []SubscriptionsExact
<1>1. N!Spec => []N!SubscriptionsExact
  BY ExactSubscriptions
<1>2. ((part = "nogoods") => N!SubscriptionsExact) => SubscriptionsExact
  BY DEF SubscriptionsExact
<1> QED BY <1>1, <1>2, NogoodsAlone, PTL DEF MCSpec, N!Spec

(* No solution that has not been explored is lost to no-goods (NoGoodsProp::post(),
   propagate()). *)
THEOREM NoGoodsKeepTheRest == MCSpec => []NoGoodsKeepRest
<1>1. N!Spec => []N!NoGoodsKeepRest
  BY NothingElseIsLost
<1>2. ((part = "nogoods") => N!NoGoodsKeepRest) => NoGoodsKeepRest
  BY DEF NoGoodsKeepRest
<1> QED BY <1>1, <1>2, NogoodsAlone, PTL DEF MCSpec, N!Spec

(* At fixpoint no no-good is violated or has a single literal left that can still become
   true, although few literals are watched (NoGoodsProp::propagate()). *)
THEOREM NoGoodsArePropagated == MCSpec => []NoGoodsPropagated
<1>1. N!Spec => []N!NoGoodsPropagated
  BY AllIsPruned
<1>2. ((part = "nogoods") => N!NoGoodsPropagated) => NoGoodsPropagated
  BY DEF NoGoodsPropagated
<1> QED BY <1>1, <1>2, NogoodsAlone, PTL DEF MCSpec, N!Spec

LEMMA CloningAlone ==
  /\ MCInit => (part = "cloning" => C!Init)
  /\ [MCNext]_allVars => /\ part = "cloning" => [C!Next]_(C!vars)
                         /\ (part = "cloning")' <=> part = "cloning"
<1>1. MCInit => (part = "cloning" => C!Init)
  BY DEF MCInit
<1>2. ASSUME part = "cloning", [MCNext]_allVars
      PROVE  [C!Next]_(C!vars)
  BY <1>2 DEF MCNext, StepPropagation, StepBranching, StepCloning, StepNogoods, Stops, Only,
              allVars, cloningVars, C!vars
<1>3. [MCNext]_allVars => part' = part
  BY DEF MCNext, StepPropagation, StepBranching, StepCloning, StepNogoods, Stops, Only, allVars
<1> QED BY <1>1, <1>2, <1>3

(* In the kernel as it is composed, clone() leaves the original as it was, also when it
   throws (Space::_clone(), recover()). *)
THEOREM CloningIsTransactional == MCSpec => []Transactional
<1>1. C!Spec => []C!Transactional
  BY CloneOrNothing
<1>2. ((part = "cloning") => C!Transactional) => Transactional
  BY DEF Transactional
<1> QED BY <1>1, <1>2, CloningAlone, PTL DEF MCSpec, C!Spec

(* In the kernel as it is composed, what clone() returns has the propagators and branchers
   of the original in their order, the live advisors of each propagator in the reverse
   order, and their subscriptions and notices (Space::_clone(), Council::update()). *)
THEOREM ClonesAreFaithful == MCSpec => []CloneFaithful
<1>1. C!Spec => []C!CloneFaithful
  BY ClonesAreCopies
<1>2. ((part = "cloning") => C!CloneFaithful) => CloneFaithful
  BY DEF CloneFaithful
<1> QED BY <1>1, <1>2, CloningAlone, PTL DEF MCSpec, C!Spec

LEMMA BranchingAlone ==
  /\ MCInit => (part = "branching" => B!Init)
  /\ [MCNext]_allVars => /\ part = "branching" => [B!Next]_(B!vars)
                         /\ (part = "branching")' <=> part = "branching"
<1>1. MCInit => (part = "branching" => B!Init)
  BY DEF MCInit
<1>2. ASSUME part = "branching", [MCNext]_allVars
      PROVE  [B!Next]_(B!vars)
  BY <1>2 DEF MCNext, StepPropagation, StepBranching, StepCloning, StepNogoods, Stops, Only,
              allVars, branchingVars, B!vars
<1>3. [MCNext]_allVars => part' = part
  BY DEF MCNext, StepPropagation, StepBranching, StepCloning, StepNogoods, Stops, Only, allVars
<1> QED BY <1>1, <1>2, <1>3

(* In the kernel as it is composed, every choice on the path finds the brancher that made
   it, whatever clone is recomputed from, and commit() never throws SpaceNoBrancher
   (Space::commit(), brancher(), kill_brancher()). *)
THEOREM ChoicesFindTheirBranchers == MCSpec => []ChoicesFindBrancher
<1>1. B!Spec => []B!ChoicesFindBrancher
  BY EveryChoiceIsFound
<1>2. ((part = "branching") => B!ChoicesFindBrancher) => ChoicesFindBrancher
  BY DEF ChoicesFindBrancher
<1> QED BY <1>1, <1>2, BranchingAlone, PTL DEF MCSpec, B!Spec

(* In the kernel as it is composed, no brancher is passed over that has not said that it is
   exhausted (Space::status(), kill_brancher(), Brancher()). *)
THEOREM NoBrancherIsSkipped == MCSpec => []NothingSkipped
<1>1. B!Spec => []B!NothingSkipped
  BY EveryBrancherIsAsked
<1>2. ((part = "branching") => B!NothingSkipped) => NothingSkipped
  BY DEF NothingSkipped
<1> QED BY <1>1, <1>2, BranchingAlone, PTL DEF MCSpec, B!Spec

===============================================================================
