------------------------------ MODULE MCSupport ------------------------------
(***************************************************************************)
(* The support library: the pool of threads, the protocol of the global    *)
(* mutexes, parallel jobs and the dynamic queue, each by itself: part says *)
(* which of them a behaviour is of, and the others stay as they begin.     *)
(***************************************************************************)
EXTENDS GlobalMutex, Integers, Sequences

CONSTANTS
  NoRunnable, Runnable, Kept, Told,    \* Threads
  MaxRuns, Caller, Run,
  NJobs, MaxThreads,                   \* RunJobs
  Element, InitialLimit, MaxLimit,     \* DynamicQueue
  Part                                 \* the parts to be checked

VARIABLES
  part,
  idle, mutex, r, event, tpc, job, cpc, arg, to, submitted,            \* Threads
  held, signal, n_threads, idx, sres, sidx, rs, wpc, jobOf, upc, res,  \* RunJobs
  dpc, finished, got,
  limit, fst, lst, q, popped                                           \* DynamicQueue

threadVars == <<idle, mutex, r, event, tpc, job, cpc, arg, to, submitted>>
jobVars == <<held, signal, n_threads, idx, sres, sidx, rs, wpc, jobOf, upc, res, dpc, finished, got>>
queueVars == <<limit, fst, lst, q, popped>>
allVars == <<part, vars, threadVars, jobVars, queueVars>>

T == INSTANCE Threads WITH owner <- mutex, e <- event
J == INSTANCE RunJobs WITH e <- signal, job <- jobOf
Q == INSTANCE DynamicQueue

ASSUME RunnableAssumption == T!RunnableAssumption
ASSUME RunJobsAssumption == J!RunJobsAssumption
ASSUME QueueAssumption == Q!QueueAssumption

MCInit == part \in Part /\ Init /\ T!Init /\ J!Init /\ Q!Init

Only(p) == part = p /\ UNCHANGED part
OthersOfMutexes == UNCHANGED <<threadVars, jobVars, queueVars>>
OthersOfThreads == UNCHANGED <<vars, jobVars, queueVars>>
OthersOfJobs    == UNCHANGED <<vars, threadVars, queueVars>>

StepMutexes == Only("mutexes") /\ Next /\ OthersOfMutexes
StepThreads == Only("threads") /\ T!Next /\ OthersOfThreads
StepJobs    == Only("jobs") /\ J!Next /\ OthersOfJobs
StepQueue   == Only("queue") /\ Q!Next /\ UNCHANGED <<vars, threadVars, jobVars>>

(* all runnables have been submitted, or the master has been deleted *)
Stops == part \in {"threads", "jobs"} /\ UNCHANGED allVars

MCNext == StepMutexes \/ StepThreads \/ StepJobs \/ StepQueue \/ Stops

(* the fairness of GlobalMutex, Threads and RunJobs *)
MCFairness ==
  /\ \A x \in Engine : /\ SF_allVars(Only("mutexes") /\ Locking(x) /\ OthersOfMutexes)
                       /\ WF_allVars(Only("mutexes") /\ Calling(x) /\ OthersOfMutexes)
                       /\ WF_allVars(Only("mutexes") /\ WorkerReleases(x) /\ OthersOfMutexes)
  /\ SF_allVars(Only("mutexes") /\ RunLocking /\ OthersOfMutexes)
  /\ WF_allVars(Only("mutexes") /\ Running /\ OthersOfMutexes)
  /\ \A c \in Caller : WF_allVars(Only("threads") /\ T!CallerStep(c) /\ OthersOfThreads)
  /\ \A t \in Run : WF_allVars(Only("threads") /\ T!RunStep(t) /\ OthersOfThreads)
  /\ \A w \in J!Worker : WF_allVars(Only("jobs") /\ J!WorkerStep(w) /\ OthersOfJobs)
  /\ WF_allVars(Only("jobs") /\ J!Running /\ OthersOfJobs)
  /\ WF_allVars(Only("jobs") /\ J!Deleting /\ OthersOfJobs)

MCSpec == MCInit /\ [][MCNext]_allVars /\ MCFairness

-----------------------------------------------------------------------------
(* GlobalMutexOK is checked as it is stated in GlobalMutex. *)

(* A runnable is run once for each time that it is passed to Thread::run(), then deleted
   unless it is kept, then its terminator is told (Threads implements ThreadPool). *)
PoolSpec == T!PoolSpec

(* Elements leave the queue in the order in which they came (DynamicQueue implements
   Fifo). *)
FifoSpec == Q!FifoSpec

(* run() returns each result once, and all of them before it returns false; the master
   is deleted after the last worker has used it (RunJobs::run(), ~Master()). *)
JobsOK == J!JobsOK

(* The calls that wait return: acquire() and release() of a global mutex, run() of
   parallel jobs and their destructor. *)
CallsReturn == GlobalCallsReturn /\ J!RunReturns

(* "Whether a job has thrown a JobStop exception with index i and result r" *)
StoppedWithResult == J!StoppedWithResult
=============================================================================
