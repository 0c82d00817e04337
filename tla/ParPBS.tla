-------------------------------- MODULE ParPBS --------------------------------
(***************************************************************************)
(* Parallel portfolio search, gecode/search/par/pbs.hpp: next() lets every *)
(* active slave run on a thread of its own until one of them has found     *)
(* something, tells the others to stop, and returns when all are idle.     *)
(*                                                                         *)
(* A slave engine is modelled by the set of the solutions that it has      *)
(* still to deliver, in whatever order its heuristic finds them.  All      *)
(* slaves search the same problem.  What happens while the mutex m is held *)
(* is one step, unless its holder waits.                                   *)
(***************************************************************************)
EXTENDS Integers, Sequences, SequencesExt, FiniteSets

CONSTANTS
  Slave,      \* the slaves
  Solution,   \* the objective values of all possible solutions
  NoSpace,    \* the null pointer, no solution
  NoSlave     \* the null pointer, no slave

ASSUME SlaveAssumption == IsFiniteSet(Slave) /\ Slave # {} /\ NoSlave \notin Slave
ASSUME SolutionAssumption == Solution \subseteq Int /\ NoSpace \notin Solution

VARIABLES
  problem,                        \* the solutions of the problem
  collectsBest,                   \* Collect: CollectBest or CollectAll
  slaves, n_active,               \* slaves, the active ones first
  slave_stop, tostop,
  b, reporter, solutions,         \* members of CollectBest, of CollectAll
  n_busy, idle,                   \* idle: has the event been signalled?
  done,                           \* each slave: has completion.done been signalled?
  left, stopped,                  \* each slave engine: what it has to deliver, stopped()
  thread, result,                 \* each slave: what its thread does, its solution to report
  pc, submitted,                  \* the caller; how many slaves it has submitted
  ret,
  best, delivered                 \* history: the best solution and all that were returned

collectVars == <<b, reporter, solutions>>
controlVars == <<slaves, n_active, slave_stop, tostop, n_busy, idle>>
slaveVars == <<done, left, stopped, thread, result>>
callVars == <<pc, submitted, ret, best, delivered>>
vars == <<problem, collectsBest, controlVars, collectVars, slaveVars, callVars>>

Better(s, t) == t # NoSpace => s < t
BetterThan(S, t) == {s \in S : Better(s, t)}
Active == {slaves[i] : i \in 1 .. n_active}
Empty == IF collectsBest THEN reporter = NoSlave ELSE solutions = <<>>

Init ==
  /\ problem \in SUBSET Solution
  /\ collectsBest \in BOOLEAN
  /\ slaves = SetToSeq(Slave)   \* any order: the slaves differ in nothing but their names
  /\ n_active = Cardinality(Slave)
  /\ slave_stop = FALSE /\ tostop = FALSE
  /\ b = NoSpace /\ reporter = NoSlave /\ solutions = <<>>
  /\ n_busy = 0 /\ idle = FALSE
  /\ done = [i \in Slave |-> TRUE] /\ stopped = [i \in Slave |-> FALSE]
  /\ left = [i \in Slave |-> problem]
  /\ thread = [i \in Slave |-> "off"] /\ result = [i \in Slave |-> NoSpace]
  /\ pc = "user" /\ submitted = 0 /\ ret = NoSpace
  /\ best = NoSpace /\ delivered = {}

-----------------------------------------------------------------------------
(***************************************************************************)
(* A slave, on its thread.                                                 *)
(***************************************************************************)

Goto(i, to) == thread' = [thread EXCEPT ![i] = to]

(* next() of the slave engine: a solution, ... *)
SlaveFinds(i, s) ==
  /\ thread[i] = "search" /\ s \in left[i]
  /\ left' = [left EXCEPT ![i] = IF collectsBest THEN BetterThan(@, s) ELSE @ \ {s}]
  /\ stopped' = [stopped EXCEPT ![i] = FALSE]
  /\ Goto(i, "report") /\ result' = [result EXCEPT ![i] = s]
  /\ UNCHANGED <<problem, collectsBest, controlVars, collectVars, done, callVars>>

(* ... or null, because there is none, or because the stop object says so:
   it asks tostop, and the stop object of the user, who may stop at any time *)
SlaveNull(i) ==
  /\ thread[i] = "search"
  /\ \/ left[i] = {} /\ stopped' = [stopped EXCEPT ![i] = FALSE]
     \/ stopped' = [stopped EXCEPT ![i] = TRUE]
  /\ Goto(i, "report") /\ result' = [result EXCEPT ![i] = NoSpace]
  /\ UNCHANGED <<problem, collectsBest, controlVars, collectVars, done, left, callVars>>

(* report() is waiting for the mutex or can have it *)
Reporting(i) == thread[i] = "report" /\ pc \notin {"submit", "take"}

(* mutant: the event is signalled by the last but one *)
DecrementEarly(repeat) ==
  IF repeat THEN UNCHANGED <<n_busy, idle>>
  ELSE /\ n_busy' = n_busy - 1
       /\ idle' = (idle \/ n_busy' <= 1)

Decrement(repeat) ==
  IF repeat THEN UNCHANGED <<n_busy, idle>>
  ELSE /\ n_busy' = n_busy - 1
       /\ idle' = (idle \/ n_busy' = 0)

(* report() of a solution: the best one replaces those that are not better;
   for one that is not better than the best, the slave has to go on *)
ReportSolution(i) ==
  LET s == result[i]
      ignored == collectsBest /\ b # NoSpace /\ b < s
  IN  /\ Reporting(i) /\ s # NoSpace
      /\ IF ignored THEN UNCHANGED <<collectVars, tostop>>
         ELSE /\ IF collectsBest THEN b' = s /\ reporter' = i /\ UNCHANGED solutions
                         ELSE solutions' = Append(solutions, s) /\ UNCHANGED <<b, reporter>>
              /\ tostop' = TRUE
      /\ Goto(i, IF ignored THEN "search" ELSE "leave")
      /\ Decrement(ignored)
      /\ UNCHANGED <<problem, collectsBest, slaves, n_active, slave_stop, done, left, stopped, result, callVars>>

(* mutant: that the user has stopped a slave is forgotten *)
ReportStoppedSilent(i) ==
  /\ Reporting(i) /\ result[i] = NoSpace /\ stopped[i]
  /\ Goto(i, "leave")
  /\ Decrement(FALSE)
  /\ UNCHANGED <<problem, collectsBest, slaves, n_active, slave_stop, tostop, collectVars, done, left, stopped, result, callVars>>

(* report() of a slave that has been stopped: by the user, unless it had to *)
ReportStopped(i) ==
  /\ Reporting(i) /\ result[i] = NoSpace /\ stopped[i]
  /\ slave_stop' = (slave_stop \/ ~tostop)
  /\ Goto(i, "leave")
  /\ Decrement(FALSE)
  /\ UNCHANGED <<problem, collectsBest, slaves, n_active, tostop, collectVars, done, left, stopped, result, callVars>>

(* report() of a slave that has exhausted its engine and becomes inactive *)
ReportExhausted(i) ==
  LET k == CHOOSE j \in DOMAIN slaves : slaves[j] = i
  IN  /\ Reporting(i) /\ result[i] = NoSpace /\ ~stopped[i]
      /\ n_active' = n_active - 1
      /\ slaves' = [slaves EXCEPT ![k] = slaves[n_active], ![n_active] = i]
      /\ tostop' = TRUE
      /\ Goto(i, "leave")
      /\ Decrement(FALSE)
      /\ UNCHANGED <<problem, collectsBest, slave_stop, collectVars, done, left, stopped, result, callVars>>

(* mutant: the terminator is not signalled *)
TerminatedSilent(i) ==
  /\ thread[i] = "leave"
  /\ Goto(i, "off")
  /\ UNCHANGED <<problem, collectsBest, controlVars, collectVars, done, left, stopped, result, callVars>>

(* run() returns, the thread signals the terminator of the slave *)
Terminated(i) ==
  /\ thread[i] = "leave"
  /\ done' = [done EXCEPT ![i] = TRUE]
  /\ Goto(i, "off")
  /\ UNCHANGED <<problem, collectsBest, controlVars, collectVars, left, stopped, result, callVars>>

SlaveStep(i) ==
  \/ (\E s \in Solution : SlaveFinds(i, s)) \/ SlaveNull(i)
  \/ ReportSolution(i) \/ ReportStopped(i) \/ ReportExhausted(i) \/ Terminated(i)

-----------------------------------------------------------------------------
(***************************************************************************)
(* The caller.                                                             *)
(***************************************************************************)

(* next(), with the mutex, if solutions wait to be returned ... *)
NextQueued ==
  /\ pc = "user" /\ pc' = "take"
  /\ ~Empty
  /\ UNCHANGED <<problem, collectsBest, controlVars, collectVars, slaveVars, submitted, ret, best, delivered>>

(* ... or if there are none *)
NextRun ==
  /\ pc = "user" /\ pc' = IF n_active > 0 THEN "submit" ELSE "take"
  /\ Empty
  /\ tostop' = FALSE /\ slave_stop' = FALSE
  /\ n_busy' = n_active /\ submitted' = 0
  /\ UNCHANGED <<problem, collectsBest, slaves, n_active, idle, collectVars, slaveVars, ret, best, delivered>>

(* mutant: the completion of the last run is not awaited *)
SubmitUnawaited ==
  LET i == slaves[submitted + 1]
  IN  /\ pc = "submit"
      /\ done' = [done EXCEPT ![i] = FALSE] /\ Goto(i, "search")
      /\ submitted' = submitted + 1
      /\ pc' = IF submitted' = n_active THEN "wait" ELSE "submit"
      /\ UNCHANGED <<problem, collectsBest, controlVars, collectVars, left, stopped, result, ret, best, delivered>>

(* a slave is submitted as soon as the thread of its last run has let go *)
Submit ==
  LET i == slaves[submitted + 1]
  IN  /\ pc = "submit"
      /\ done[i] /\ done' = [done EXCEPT ![i] = FALSE]
      /\ Goto(i, "search")
      /\ submitted' = submitted + 1
      /\ pc' = IF submitted' = n_active THEN "wait" ELSE "submit"
      /\ UNCHANGED <<problem, collectsBest, controlVars, collectVars, left, stopped, result, ret, best, delivered>>

Woken ==
  /\ pc = "wait" /\ pc' = "take"
  /\ idle /\ idle' = FALSE
  /\ UNCHANGED <<problem, collectsBest, slaves, n_active, slave_stop, tostop, n_busy, collectVars, slaveVars,
                 submitted, ret, best, delivered>>

TakeNothing ==
  /\ pc = "take" /\ pc' = "user"
  /\ Empty
  /\ ret' = NoSpace
  /\ UNCHANGED <<problem, collectsBest, controlVars, collectVars, slaveVars, submitted, best, delivered>>

ConstrainLeft(S, s) == left' = [i \in Slave |-> IF i \in S THEN BetterThan(left[i], s) ELSE left[i]]

TakeSolution ==
  LET s == IF collectsBest THEN b ELSE Head(solutions)
  IN  /\ pc = "take" /\ pc' = "user"
      /\ ~Empty
      /\ IF collectsBest THEN reporter' = NoSlave /\ ConstrainLeft(Active \ {reporter}, s) /\ UNCHANGED solutions
                 ELSE solutions' = Tail(solutions) /\ UNCHANGED <<reporter, left>>
      /\ ret' = s /\ best' = s /\ delivered' = delivered \cup {s}
      /\ UNCHANGED <<problem, collectsBest, controlVars, b, done, stopped, thread, result, submitted>>

(* constrain(s) by a portfolio or a restart engine around this one; nothing
   happens if s is not better than what is known here *)
Constrain(s) ==
  /\ pc = "user" /\ collectsBest
  /\ b # NoSpace => s <= b
  /\ b' = s /\ reporter' = NoSlave /\ best' = s
  /\ ConstrainLeft(Active, s)
  /\ UNCHANGED <<problem, collectsBest, controlVars, solutions, done, stopped, thread, result, pc, submitted, ret, delivered>>

(* the destructor waits for the completion of each slave, then deletes all *)
Destroy ==
  /\ pc = "user" /\ pc' = "destroy" /\ submitted' = 0
  /\ UNCHANGED <<problem, collectsBest, controlVars, collectVars, slaveVars, ret, best, delivered>>

DestroyWait ==
  LET i == slaves[submitted + 1]
  IN  /\ pc = "destroy"
      /\ done[i] /\ done' = [done EXCEPT ![i] = FALSE]
      /\ submitted' = submitted + 1
      /\ pc' = IF submitted' = Len(slaves) THEN "deleted" ELSE "destroy"
      /\ UNCHANGED <<problem, collectsBest, controlVars, collectVars, left, stopped, thread, result, ret, best, delivered>>

CallerStep == Submit \/ Woken \/ TakeNothing \/ TakeSolution \/ DestroyWait

User == NextQueued \/ NextRun \/ (\E s \in problem : Constrain(s)) \/ Destroy

Next == User \/ CallerStep \/ \E i \in Slave : SlaveStep(i)

Spec == Init /\ [][Next]_vars
FairSpec == Spec /\ WF_vars(CallerStep) /\ \A i \in Slave : WF_vars(SlaveStep(i))

-----------------------------------------------------------------------------
(***************************************************************************)
(* Properties.                                                             *)
(***************************************************************************)

(* Every variable keeps its type, the slaves are a permutation of all. *)
TypeOK ==
  /\ slaves \in [1 .. Cardinality(Slave) -> Slave] /\ IsInjective(slaves)
  /\ {n_active, n_busy, submitted} \subseteq 0 .. Cardinality(Slave)
  /\ {collectsBest, slave_stop, tostop, idle} \subseteq BOOLEAN
  /\ {done, stopped} \subseteq [Slave -> BOOLEAN]
  /\ {b, ret, best} \subseteq problem \cup {NoSpace} /\ reporter \in Slave \cup {NoSlave}
  /\ solutions \in Seq(problem) /\ delivered \subseteq problem
  /\ thread \in [Slave -> {"search", "report", "leave", "off"}]
  /\ result \in [Slave -> problem \cup {NoSpace}]
  /\ left \in [Slave -> SUBSET problem]
  /\ pc \in {"user", "submit", "wait", "take", "destroy", "deleted"}

(* "The key invariant of the engine": outside of next() n_busy is zero, no
   slave runs or is about to report, and no signal is left over; the active
   slaves come first, and those behind them have exhausted their search. *)
KeyInvariant ==
  /\ pc \in {"user", "take", "destroy", "deleted"} =>
       n_busy = 0 /\ ~idle /\ \A i \in Slave : thread[i] \in {"leave", "off"}
  /\ \A i \in Slave \ Active : left[i] = {}

(* Between two calls every active slave searches only for solutions that are
   better than the one returned last, whoever has found it. *)
SlavesConstrained ==
  collectsBest /\ pc = "user" => \A i \in Active : left[i] \subseteq BetterThan(problem, best)

(* The completion handshake: a slave is submitted only after the thread of
   its previous run has let go of it. *)
NotReusedInside ==
  [][pc = "submit" => thread[slaves[submitted + 1]] = "off"]_submitted

(* ... and it is deleted only after that. *)
NotDeletedInside == pc = "deleted" => \A i \in Slave : thread[i] = "off"

(* The caller waits for no slave in vain: while next() waits to be told that all are
   idle, one has still to report; and while it waits for the completion of a slave, with
   the mutex that report() needs, or the destructor does, that slave has reported and is
   about to complete. *)
WokenBySlave ==
  /\ pc = "wait" /\ ~idle => \E i \in Slave : thread[i] \in {"search", "report"}
  /\ pc \in {"submit", "destroy"} /\ ~done[slaves[submitted + 1]] =>
       thread[slaves[submitted + 1]] = "leave"

(* What holds of the engine and its slaves at any time. *)
EngineOK == TypeOK /\ KeyInvariant /\ SlavesConstrained /\ NotDeletedInside /\ WokenBySlave

Remaining == IF collectsBest THEN BetterThan(problem, best) ELSE problem \ delivered

(* Parallel portfolio search for a best solution is a stream of ever better
   solutions: a worse solution found at the same time never comes after a
   better one, and null means that the best one is optimal or, with stopped(),
   that the user has stopped a slave.  Nothing is said here of all solutions,
   each of which comes from several slaves: see NullMeansDone. *)
Calls == {"submit", "wait", "take"}
Stream == INSTANCE SolutionStream WITH
  todo <- BetterThan(problem, best),
  calling <- pc \in Calls,
  stopped <- slave_stop /\ ret = NoSpace /\ pc \notin Calls,
  Before <- LAMBDA s, t : FALSE,
  After <- LAMBDA S, s : {t \in S : t < s}
StreamSpec ==
  /\ collectsBest => Stream!Init
  /\ [][collectsBest => Stream!Next]_(Stream!vars)

(* Parallel portfolio search for all solutions returns null, not stopped, only
   when every solution has been returned. *)
NullMeansDone ==
  [][pc = "take" /\ pc' = "user" /\ ret' = NoSpace /\ ~slave_stop => Remaining = {}]_vars

(* next() and the destructor return: the slaves come to an end, each of them
   reports, and no completion or wakeup is lost. *)
CallsReturn == /\ pc = "submit" ~> pc = "user"
               /\ pc = "destroy" ~> pc = "deleted"
=============================================================================
