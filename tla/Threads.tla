-------------------------------- MODULE Threads --------------------------------
(***************************************************************************)
(* The pool of threads, gecode/support/thread/thread.cpp and thread.hpp:   *)
(* Thread::run() hands a runnable to a thread on the idle stack or creates *)
(* a new one; a thread runs the runnable, deletes it if its flag says so,  *)
(* tells its terminator if it has one, puts itself on the stack and only   *)
(* then waits for its event.                                               *)
(*                                                                         *)
(* A runnable that is kept belongs to who has made it: the slaves of a     *)
(* parallel portfolio (ParPBS) are submitted again, by next(), after their *)
(* terminator has been told.  Workers of the engines are deleted and have  *)
(* a terminator, those of parallel jobs are deleted and have none.         *)
(***************************************************************************)
EXTENDS Naturals, Sequences

CONSTANTS
  Runnable,   \* the objects to be run
  Kept,       \* those with todelete() false
  Told,       \* those with a terminator()
  MaxRuns,    \* bound: how often one of Kept is submitted
  Caller,     \* the threads that call Thread::run()
  Run,        \* the threads of the pool that can be created
  NoRunnable

(* nobody keeps a runnable without a terminator to learn from when it is free again *)
RunnableAssumption ==
  NoRunnable \notin Runnable /\ Kept \subseteq Told /\ Told \subseteq Runnable /\ MaxRuns \in Nat

VARIABLES
  idle,       \* the stack Thread::idle, the top first
  owner,      \* who has the mutex Thread::m(), or "free"
  r,          \* of each Run: the runnable stored for it
  e,          \* its event: whether it is signalled
  tpc,        \* where its exec() is, "none" before it has been created
  job,        \* the local e of exec()
  cpc,        \* where run() of each caller is
  arg,        \* its argument
  to,         \* and the idle thread that it has popped
  submitted   \* history: how often each runnable has been passed to run()

vars == <<idle, owner, r, e, tpc, job, cpc, arg, to, submitted>>
pool == <<r, e, tpc, job>>

Init ==
  /\ idle = <<>> /\ owner = "free"
  /\ r = [t \in Run |-> NoRunnable] /\ e = [t \in Run |-> FALSE]
  /\ tpc = [t \in Run |-> "none"] /\ job = [t \in Run |-> NoRunnable]
  /\ cpc = [c \in Caller |-> "user"] /\ arg = [c \in Caller |-> NoRunnable]
  /\ to = [c \in Caller |-> {}] /\ submitted = [x \in Runnable |-> 0]

-----------------------------------------------------------------------------
(* Thread::run(r) *)

(* with a caller, or with a thread that has not told its terminator yet *)
InUse(x) == (\E c \in Caller : arg[c] = x) \/ (\E t \in Run : r[t] = x \/ job[t] = x)

(* run() takes any runnable; that one is free is up to the caller: it is new, or it
   has been kept and PBS::next() has waited for its completion *)
Free(x) == submitted[x] = 0 \/ (x \in Kept /\ ~InUse(x) /\ submitted[x] < MaxRuns)

Acquire(c, x) ==
  /\ cpc[c] = "user" /\ Free(x) /\ owner = "free"
  /\ owner' = "caller" /\ cpc' = [cpc EXCEPT ![c] = "locked"]
  /\ arg' = [arg EXCEPT ![c] = x] /\ submitted' = [submitted EXCEPT ![x] = @ + 1]
  /\ UNCHANGED <<idle, pool, to>>

PopIdle(c) ==
  /\ cpc[c] = "locked" /\ idle # <<>>
  /\ idle' = Tail(idle) /\ to' = [to EXCEPT ![c] = {Head(idle)}]
  /\ owner' = "free" /\ cpc' = [cpc EXCEPT ![c] = "store"]
  /\ UNCHANGED <<pool, arg, submitted>>

(* mutant: the event is signalled first *)
StoreAfterSignal(c) ==
  /\ cpc[c] = "store"
  /\ e' = [t \in Run |-> t \in to[c] \/ e[t]]
  /\ cpc' = [cpc EXCEPT ![c] = "signal"]
  /\ UNCHANGED <<idle, owner, r, tpc, job, arg, to, submitted>>

(* Run::run(r): the runnable is stored and the event signalled *)
Store(c) ==
  /\ cpc[c] = "store"
  /\ r' = [t \in Run |-> IF t \in to[c] THEN arg[c] ELSE r[t]]
  /\ cpc' = [cpc EXCEPT ![c] = "signal"] /\ arg' = [arg EXCEPT ![c] = NoRunnable]
  /\ UNCHANGED <<idle, owner, e, tpc, job, to, submitted>>

Signal(c) ==
  /\ cpc[c] = "signal"
  /\ e' = [t \in Run |-> t \in to[c] \/ e[t]]
  /\ cpc' = [cpc EXCEPT ![c] = "user"] /\ to' = [to EXCEPT ![c] = {}]
  /\ UNCHANGED <<idle, owner, r, tpc, job, arg, submitted>>

NoneIdle(c) ==
  /\ cpc[c] = "locked" /\ idle = <<>>
  /\ owner' = "free" /\ cpc' = [cpc EXCEPT ![c] = "new"]
  /\ UNCHANGED <<idle, pool, arg, to, submitted>>

(* the constructor of Run; threads differ in nothing but their names, so any of those
   that have not been created is as good as another *)
NewRun(c, t) ==
  /\ cpc[c] = "new" /\ tpc[t] = "none" /\ t = CHOOSE u \in Run : tpc[u] = "none"
  /\ r' = [r EXCEPT ![t] = arg[c]] /\ tpc' = [tpc EXCEPT ![t] = "exec"]
  /\ cpc' = [cpc EXCEPT ![c] = "user"] /\ arg' = [arg EXCEPT ![c] = NoRunnable]
  /\ UNCHANGED <<idle, owner, e, job, to, submitted>>

-----------------------------------------------------------------------------
(* Run::exec() *)

Moves(t, from, where) == tpc[t] = from /\ tpc' = [tpc EXCEPT ![t] = where]

Take(t) ==
  /\ Moves(t, "exec", "running")
  /\ job' = [job EXCEPT ![t] = r[t]] /\ r' = [r EXCEPT ![t] = NoRunnable]
  /\ UNCHANGED <<idle, owner, e, cpc, arg, to, submitted>>

Return(t) ==
  /\ Moves(t, "running", "returned")
  /\ UNCHANGED <<idle, owner, r, e, job, cpc, arg, to, submitted>>

(* if todelete() *)
Delete(t) ==
  /\ job[t] \notin Kept
  /\ Moves(t, "returned", "deleted")
  /\ UNCHANGED <<idle, owner, r, e, job, cpc, arg, to, submitted>>

(* terminated() of the terminator, if there is one; from here on who has made a
   runnable that is kept may submit it again *)
Terminated(t) ==
  /\ job[t] \in Told
  /\ Moves(t, IF job[t] \in Kept THEN "returned" ELSE "deleted", "over")
  /\ job' = [job EXCEPT ![t] = NoRunnable]
  /\ UNCHANGED <<idle, owner, r, e, cpc, arg, to, submitted>>

NoTerminator(t) ==
  /\ job[t] \notin Told
  /\ Moves(t, "deleted", "over")
  /\ job' = [job EXCEPT ![t] = NoRunnable]
  /\ UNCHANGED <<idle, owner, r, e, cpc, arg, to, submitted>>

PushIdle(t) ==
  /\ owner = "free" /\ Moves(t, "over", "wait")
  /\ idle' = <<t>> \o idle
  /\ UNCHANGED <<owner, r, e, job, cpc, arg, to, submitted>>

Wait(t) ==
  /\ e[t] /\ Moves(t, "wait", "exec")
  /\ e' = [e EXCEPT ![t] = FALSE]
  /\ UNCHANGED <<idle, owner, r, job, cpc, arg, to, submitted>>

CallerStep(c) == PopIdle(c) \/ NoneIdle(c) \/ Store(c) \/ Signal(c) \/ \E t \in Run : NewRun(c, t)
RunStep(t) ==
  Take(t) \/ Delete(t) \/ Terminated(t) \/ NoTerminator(t) \/ PushIdle(t) \/ Wait(t)

Next ==
  \/ \E c \in Caller : CallerStep(c) \/ \E x \in Runnable : Acquire(c, x)
  \/ \E t \in Run : RunStep(t) \/ Return(t)

(* Threads are scheduled; whether a runnable returns is its own business. *)
Fairness ==
  /\ \A c \in Caller : WF_vars(CallerStep(c))
  /\ \A t \in Run : WF_vars(RunStep(t))

Spec == Init /\ [][Next]_vars /\ Fairness

-----------------------------------------------------------------------------
(* Where a runnable is, as the pool promises it *)
Status(x) ==
  IF submitted[x] = 0 THEN "new"
  ELSE IF (\E c \in Caller : arg[c] = x) \/ (\E t \in Run : r[t] = x) THEN "submitted"
  ELSE IF \E t \in Run : job[t] = x THEN tpc[CHOOSE t \in Run : job[t] = x]
  ELSE IF x \in Told THEN "terminated" ELSE "deleted"

Pool == INSTANCE ThreadPool WITH status <- [x \in Runnable |-> Status(x)]

(* Each runnable passed to run() is run exactly once for each time that it is passed,
   then deleted unless it is kept, and after that its terminator, if it has one, is
   told; even when run() pops a thread from the idle stack that has not begun to wait
   yet, or gets a kept runnable again before the thread that has run it is on the stack:
   no signal is lost, no runnable is overwritten by another, none is forgotten
   (Thread::run(), Run::run() and Run::exec()). *)
PoolSpec == Pool!Spec
=============================================================================
