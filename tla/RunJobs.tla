-------------------------------- MODULE RunJobs --------------------------------
(***************************************************************************)
(* Running jobs in parallel, gecode/support/run-jobs.hpp: workers of the   *)
(* thread pool fetch jobs from an iterator, run them and queue the results *)
(* for the thread that calls run().  A job may throw JobStop.  The         *)
(* destructor leaves the deletion of the master to a thread of its own     *)
(* while workers are still running.  The steps that a thread takes while   *)
(* it holds the mutex m of the master are one step, but for stop(), whose  *)
(* fields stopped() reads without m.                                       *)
(***************************************************************************)
EXTENDS Integers, Sequences, SequencesExt

CONSTANTS
  NJobs,       \* jobs 0 .. NJobs - 1 of the iterator; job i has result i
  MaxThreads   \* m_threads

RunJobsAssumption == NJobs \in Nat \ {0} /\ MaxThreads \in Nat \ {0}

Job == 0 .. NJobs - 1
Worker == 1 .. MaxThreads
Default == -1   \* the result that the default constructor makes
Returned(what) == [is |-> what, i |-> -1, r |-> Default]

VARIABLES
  held,        \* the mutex m is held (by a worker in stop())
  e,           \* the event
  n_threads, idx, sres, sidx, rs,   \* fields of Master
  wpc,         \* where run() of each worker is
  job,         \* and its job
  upc,         \* where the calls of the user are, "gone" after the destructor
  res,         \* what the last run() or stopped() returned
  dpc,         \* where ~Master() is, "none" before it is called
  finished,    \* history: the jobs that have ended
  got          \* history: the results that run() has returned

master == <<held, e, n_threads, idx, sres, sidx, rs>>
history == <<finished, got>>
vars == <<master, wpc, job, upc, res, dpc, history>>

Smaller(a, b) == IF a < b THEN a ELSE b
Stopped == sidx >= 0
Jobs == idx < NJobs          \* jobs(): there are more
Done == n_threads = 0 /\ (~Jobs \/ Stopped) /\ rs = <<>>

(* The constructor holds m from the first worker to the last. *)
Init ==
  /\ held = FALSE /\ e = FALSE
  /\ n_threads = Smaller(MaxThreads, NJobs) /\ idx = n_threads
  /\ sres = Default /\ sidx = -1 /\ rs = <<>>
  /\ wpc = [w \in Worker |-> IF w <= n_threads THEN "run" ELSE "none"]
  /\ job = [w \in Worker |-> w - 1]
  /\ upc = "user" /\ res = Returned("none") /\ dpc = "none"
  /\ finished = {} /\ got = <<>>

-----------------------------------------------------------------------------
(* Worker::run() *)

Goes(w, from, where) == wpc[w] = from /\ wpc' = [wpc EXCEPT ![w] = where]

(* job->run(idx) returns, or throws JobStop *)
RunJob(w) ==
  /\ Goes(w, "run", "report") \/ Goes(w, "run", "stop")
  /\ UNCHANGED <<master, job, upc, res, dpc, history>>

Queue(w) ==
  /\ rs' = Append(rs, job[w]) /\ e' = TRUE /\ finished' = finished \cup {job[w]}
  /\ Goes(w, wpc[w], "next")

Report(w) ==
  /\ ~held /\ wpc[w] = "report" /\ Queue(w)
  /\ UNCHANGED <<held, n_threads, idx, sres, sidx, job, upc, res, dpc, got>>

(* stop(): sres is written before sidx *)
StopResult(w) ==
  /\ ~held /\ Goes(w, "stop", "stopping")
  /\ held' = TRUE /\ sres' = IF Stopped THEN sres ELSE job[w]
  /\ UNCHANGED <<e, n_threads, idx, sidx, rs, job, upc, res, dpc, history>>

StopIndex(w) ==
  /\ wpc[w] = "stopping" /\ Queue(w)
  /\ held' = FALSE /\ sidx' = IF Stopped THEN sidx ELSE job[w]
  /\ UNCHANGED <<n_threads, idx, sres, job, upc, res, dpc, got>>

NextJob(w) ==
  /\ ~held /\ Jobs /\ ~Stopped /\ Goes(w, "next", "run")
  /\ job' = [job EXCEPT ![w] = idx] /\ idx' = idx + 1
  /\ UNCHANGED <<held, e, n_threads, sres, sidx, rs, upc, res, dpc, history>>

(* mutant: nobody is told of the end of a worker *)
NoJobSilent(w) ==
  /\ ~held /\ (~Jobs \/ Stopped) /\ Goes(w, "next", "ended")
  /\ n_threads' = n_threads - 1
  /\ UNCHANGED <<held, e, idx, sres, sidx, rs, job, upc, res, dpc, history>>

NoJob(w) ==
  /\ ~held /\ (~Jobs \/ Stopped) /\ Goes(w, "next", "ended")
  /\ n_threads' = n_threads - 1 /\ e' = TRUE
  /\ UNCHANGED <<held, idx, sres, sidx, rs, job, upc, res, dpc, history>>

-----------------------------------------------------------------------------
(* The thread of the user *)

User(from, where) == upc = from /\ upc' = where

CallRun ==
  /\ User("user", "run") /\ res' = Returned("none")
  /\ UNCHANGED <<master, wpc, job, dpc, history>>

(* mutant: the results left in the queue are forgotten *)
ReturnFalseEarly ==
  /\ upc = "run" /\ ~held /\ n_threads = 0
  /\ upc' = "user" /\ res' = Returned("false")
  /\ UNCHANGED <<master, wpc, job, dpc, history>>

(* run() finds that all is done, *)
ReturnFalse ==
  /\ upc = "run" /\ ~held /\ Done
  /\ upc' = "user" /\ res' = Returned("false")
  /\ UNCHANGED <<master, wpc, job, dpc, history>>

(* a result, *)
ReturnResult ==
  /\ upc = "run" /\ ~held /\ rs # <<>>
  /\ upc' = "user" /\ res' = Returned("result")
  /\ rs' = Tail(rs) /\ got' = Append(got, Head(rs))
  /\ UNCHANGED <<held, e, n_threads, idx, sres, sidx, wpc, job, dpc, finished>>

(* or neither, and waits *)
MustWait ==
  /\ upc = "run" /\ ~held /\ ~Done /\ rs = <<>>
  /\ upc' = "wait"
  /\ UNCHANGED <<master, wpc, job, res, dpc, history>>

Wait ==
  /\ e /\ User("wait", "run") /\ e' = FALSE
  /\ UNCHANGED <<held, n_threads, idx, sres, sidx, rs, wpc, job, res, dpc, history>>

(* stopped(i, r): stoppedjob() reads sres, then sidx *)
ReadResult ==
  /\ User("user", "stopped") /\ res' = [is |-> "stopped", i |-> -1, r |-> sres]
  /\ UNCHANGED <<master, wpc, job, dpc, history>>

ReadIndex ==
  /\ User("stopped", "user") /\ res' = [res EXCEPT !.i = sidx]
  /\ UNCHANGED <<master, wpc, job, dpc, history>>

(* ~RunJobs(): needthread(), then ~Master() here or in a thread of the pool *)
Destruct ==
  /\ ~held /\ User("user", "gone")
  /\ rs' = <<>> /\ sidx' = 0 /\ dpc' = "zero" /\ res' = Returned("none")
  /\ UNCHANGED <<held, e, n_threads, idx, sres, wpc, job, history>>

(* ~Master(): sidx is written without m, then run() until it returns false *)
ZeroIndex ==
  /\ dpc = "zero" /\ dpc' = "run" /\ sidx' = 0
  /\ UNCHANGED <<held, e, n_threads, idx, sres, rs, wpc, job, upc, res, history>>

Drain ==
  /\ dpc = "run" /\ ~held
  /\ IF Done THEN dpc' = "deleted" /\ UNCHANGED rs
     ELSE IF rs # <<>> THEN rs' = Tail(rs) /\ UNCHANGED dpc
     ELSE dpc' = "wait" /\ UNCHANGED rs
  /\ UNCHANGED <<held, e, n_threads, idx, sres, sidx, wpc, job, upc, res, history>>

DrainWait ==
  /\ dpc = "wait" /\ e /\ dpc' = "run" /\ e' = FALSE
  /\ UNCHANGED <<held, n_threads, idx, sres, sidx, rs, wpc, job, upc, res, history>>

-----------------------------------------------------------------------------
WorkerStep(w) ==
  RunJob(w) \/ Report(w) \/ StopResult(w) \/ StopIndex(w) \/ NextJob(w) \/ NoJob(w)
Running == ReturnFalse \/ ReturnResult \/ MustWait \/ Wait
Deleting == ZeroIndex \/ Drain \/ DrainWait

Next ==
  \/ \E w \in Worker : WorkerStep(w)
  \/ CallRun \/ Running \/ ReadResult \/ ReadIndex \/ Destruct \/ Deleting

(* Threads are scheduled, jobs end, and as each thread takes m finitely often
   nobody is kept from it. *)
Fairness ==
  (\A w \in Worker : WF_vars(WorkerStep(w))) /\ WF_vars(Running) /\ WF_vars(Deleting)

Spec == Init /\ [][Next]_vars /\ Fairness

-----------------------------------------------------------------------------
(* Until the destructor is called, each job that has ended has been returned by
   run() once or is queued once; and when run() returns false, all results have
   been returned, of all jobs or, after a stop, of all that were started
   (Master::run(), report(), stop() and next()). *)
JobsIterated ==
  upc # "gone" =>
    /\ IsInjective(got \o rs) /\ Range(got \o rs) = finished
    /\ res.is = "false" => /\ Range(got) = {i \in Job : i < idx}
                           /\ idx = NJobs \/ Stopped

(* The master is deleted only when no worker will use it again (~Master()). *)
DeletedAfterAll ==
  dpc = "deleted" => ~held /\ rs = <<>> /\ \A w \in Worker : wpc[w] \in {"none", "ended"}

(* Who waits for the event, in run() or in ~Master(), waits for a worker that has still
   to signal it, and for no result that is already there: results and the ends of
   workers share an event that remembers one signal. *)
WokenByWorker ==
  ~e /\ (upc = "wait" \/ dpc = "wait") =>
    rs = <<>> /\ \E w \in Worker : wpc[w] \notin {"none", "ended"}

(* All at any time: the results, the deletion and who waits (run() and ~Master()). *)
JobsOK == JobsIterated /\ DeletedAfterAll /\ WokenByWorker

(* run() returns and the master is deleted in the end, although results and the
   ends of workers share an event that remembers one signal. *)
RunReturns ==
  /\ upc \in {"run", "wait"} ~> upc = "user"
  /\ upc = "gone" ~> dpc = "deleted"

(* "Whether a job has thrown a JobStop exception with index i and result r" *)
StoppedWithResult ==
  upc = "user" /\ res.is = "stopped" /\ res.i >= 0 => res.r = res.i
=============================================================================
