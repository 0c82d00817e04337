------------------------------ MODULE SupportProofs ------------------------------
(***************************************************************************)
(* The support library is correct for any number of threads, runnables,    *)
(* jobs, elements and engines: parallel jobs, the pool of threads, the     *)
(* dynamic queue and the protocol of the global mutexes, each as MCSupport *)
(* instantiates it.                                                        *)
(***************************************************************************)
EXTENDS MCSupport, SequenceTheorems, FiniteSetTheorems, TLAPS

-----------------------------------------------------------------------------
(* Parallel jobs (gecode/support/run-jobs.hpp) *)
USE RunJobsAssumption DEF J!RunJobsAssumption

WorkerPoints == {"none", "run", "report", "stop", "stopping", "next", "ended"}

JobsTypeInv ==
  /\ held \in BOOLEAN /\ n_threads \in Nat /\ idx \in 0 .. NJobs /\ sidx \in Int
  /\ rs \in Seq(J!Job) /\ got \in Seq(J!Job) /\ finished \in SUBSET J!Job
  /\ wpc \in [J!Worker -> WorkerPoints] /\ jobOf \in [J!Worker -> Nat]
  /\ upc \in {"user", "run", "wait", "stopped", "gone"}
  /\ dpc \in {"none", "zero", "run", "wait", "deleted"}

(* the workers that n_threads counts *)
Alive == {w \in J!Worker : wpc[w] \notin {"none", "ended"}}
AliveInv == n_threads = Cardinality(Alive)

(* only a worker in stop() lets go of the processor while it holds m *)
HeldInv ==
  /\ held <=> \E w \in J!Worker : wpc[w] = "stopping"
  /\ \A v, w \in J!Worker : wpc[v] = "stopping" /\ wpc[w] = "stopping" => v = w

(* the jobs that have been started are at one worker each, or have ended *)
Has(w) == wpc[w] \in {"run", "report", "stop", "stopping"}
StartedInv ==
  /\ \A w \in J!Worker : Has(w) => jobOf[w] < idx /\ jobOf[w] \notin finished
  /\ \A v, w \in J!Worker : Has(v) /\ Has(w) /\ jobOf[v] = jobOf[w] => v = w
  /\ \A i \in finished : i < idx
  /\ \A i \in J!Job : i < idx => i \in finished \/ \E w \in J!Worker : Has(w) /\ jobOf[w] = i

(* and those that have ended have been returned or are queued, once *)
ResultsInv == upc # "gone" => J!IsInjective(got \o rs) /\ J!Range(got \o rs) = finished

(* run() returns false, and the master is deleted, when no worker is left *)
EndInv ==
  /\ res.is = "false" => upc = "user" /\ n_threads = 0 /\ rs = <<>> /\ (idx = NJobs \/ J!Stopped)
  /\ dpc # "none" <=> upc = "gone"
  /\ dpc = "deleted" => n_threads = 0 /\ rs = <<>>

JobsInv == JobsTypeInv /\ AliveInv /\ HeldInv /\ StartedInv /\ ResultsInv /\ EndInv


-----------------------------------------------------------------------------
LEMMA AliveFinite ==
  IsFiniteSet(J!Worker) /\ IsFiniteSet(Alive)
<1>1. IsFiniteSet(J!Worker)
  BY FS_Interval DEF J!Worker
<1> QED BY <1>1, FS_Subset DEF Alive

LEMMA NobodyAlive ==
  ASSUME AliveInv, n_threads = 0
  PROVE  \A w \in J!Worker : wpc[w] \in {"none", "ended"} /\ ~Has(w)
BY AliveFinite, FS_EmptySet DEF AliveInv, Alive, Has

LEMMA JobsInitOK == J!Init => JobsInv
<1> SUFFICES ASSUME J!Init PROVE JobsInv
  OBVIOUS
<1>1. n_threads \in Nat /\ n_threads <= NJobs /\ n_threads <= MaxThreads /\ n_threads >= 1
  BY DEF J!Init, J!Smaller
<1>2. JobsTypeInv
  <2>1. wpc \in [J!Worker -> WorkerPoints] /\ jobOf \in [J!Worker -> Nat]
    BY DEF J!Init, WorkerPoints, J!Worker
  <2>2. idx \in 0 .. NJobs /\ sidx \in Int /\ rs \in Seq(J!Job) /\ got \in Seq(J!Job)
    BY <1>1 DEF J!Init
  <2> QED BY <1>1, <2>1, <2>2 DEF J!Init, JobsTypeInv
<1>3. AliveInv
  <2>1. Alive = 1 .. n_threads
    BY <1>1 DEF J!Init, Alive, J!Worker
  <2> QED BY <1>1, <2>1, FS_Interval DEF AliveInv
<1>4. HeldInv /\ EndInv
  BY DEF J!Init, HeldInv, EndInv, J!Returned, J!Worker
<1>5. StartedInv
  <2>1. ASSUME NEW i \in J!Job, i < idx PROVE \E w \in J!Worker : Has(w) /\ jobOf[w] = i
    <3>1. i + 1 \in J!Worker /\ i + 1 <= n_threads /\ jobOf[i + 1] = i
      BY <1>1, <2>1 DEF J!Init, J!Worker, J!Job
    <3>2. Has(i + 1)
      BY <3>1 DEF J!Init, Has
    <3> QED BY <3>1, <3>2
  <2>2. \A w \in J!Worker : Has(w) => w <= n_threads /\ jobOf[w] = w - 1
    BY DEF J!Init, Has
  <2> QED BY <1>1, <2>1, <2>2 DEF J!Init, StartedInv, J!Worker
<1>6. ResultsInv
  BY DEF J!Init, ResultsInv, J!IsInjective, J!Range
<1> QED BY <1>2, <1>3, <1>4, <1>5, <1>6 DEF JobsInv

(* A worker that goes from one point to another where it is counted, or leaves. *)
LEMMA Counted ==
  ASSUME JobsTypeInv, AliveInv, NEW w \in J!Worker, NEW from, NEW where, J!Goes(w, from, where),
         from \notin {"none", "ended"}
  PROVE  /\ where \notin {"none", "ended"} => Cardinality(Alive') = n_threads
         /\ where \in {"none", "ended"} => Cardinality(Alive') = n_threads - 1
<1>1. w \in Alive
  BY DEF J!Goes, Alive
<1>2. CASE where \notin {"none", "ended"}
  <2>1. Alive' = Alive
    BY <1>2 DEF J!Goes, Alive, JobsTypeInv
  <2> QED BY <1>2, <2>1 DEF AliveInv
<1>3. CASE where \in {"none", "ended"}
  <2>1. Alive' = Alive \ {w}
    BY <1>3 DEF J!Goes, Alive, JobsTypeInv
  <2> QED BY <1>1, <1>3, <2>1, AliveFinite, FS_RemoveElement DEF AliveInv
<1> QED BY <1>2, <1>3

(* a result is queued: of a job that had not ended *)
LEMMA Appended ==
  ASSUME NEW S, NEW g \in Seq(S), NEW q1 \in Seq(S), NEW j \in S,
         J!IsInjective(g \o q1), j \notin J!Range(g \o q1)
  PROVE  /\ J!IsInjective(g \o Append(q1, j))
         /\ J!Range(g \o Append(q1, j)) = J!Range(g \o q1) \cup {j}
<1> DEFINE s == g \o q1
           t == g \o Append(q1, j)
           n == Len(g) + Len(q1)
<1>1. /\ s \in Seq(S) /\ Len(s) = n /\ t \in Seq(S) /\ Len(t) = n + 1 /\ n \in Nat
      /\ DOMAIN s = 1 .. n /\ DOMAIN t = 1 .. n + 1
  OBVIOUS
<1>2. t[n + 1] = j /\ \A i \in 1 .. n : t[i] = s[i]
  OBVIOUS
<1> HIDE DEF s, t, n
<1>3. \A i \in 1 .. n : s[i] # j
  BY <1>1 DEF J!Range, s
<1>4. ASSUME NEW a \in 1 .. n + 1, NEW b \in 1 .. n + 1, t[a] = t[b] PROVE a = b
  <2>1. CASE a \in 1 .. n /\ b \in 1 .. n
    BY <1>1, <1>2, <1>4, <2>1 DEF J!IsInjective, s
  <2>2. CASE a = n + 1 \/ b = n + 1
    BY <1>1, <1>2, <1>3, <1>4, <2>2
  <2> QED BY <1>1, <2>1, <2>2
<1>5. J!IsInjective(t)
  BY <1>1, <1>4 DEF J!IsInjective
<1>6. J!Range(t) = J!Range(s) \cup {j}
  <2>1. \A x : x \in J!Range(t) <=> \E i \in 1 .. n + 1 : x = t[i]
    BY <1>1 DEF J!Range
  <2>2. \A x : x \in J!Range(s) <=> \E i \in 1 .. n : x = s[i]
    BY <1>1 DEF J!Range
  <2>3. \A x : x \in J!Range(t) <=> x \in J!Range(s) \/ x = j
    BY <1>1, <1>2, <2>1, <2>2
  <2> QED BY <2>3
<1> QED BY <1>5, <1>6 DEF s, t

LEMMA Taken ==
  ASSUME NEW S, NEW g \in Seq(S), NEW q1 \in Seq(S), q1 # <<>>
  PROVE  Append(g, Head(q1)) \o Tail(q1) = g \o q1 /\ Head(q1) \in S /\ Tail(q1) \in Seq(S)
OBVIOUS

-----------------------------------------------------------------------------
(* A worker *)

LEMMA RunJobOK ==
  ASSUME JobsInv, NEW w \in J!Worker, J!RunJob(w)
  PROVE  JobsInv'
<1>1. PICK where \in {"report", "stop"} :
        J!Goes(w, "run", where) /\ UNCHANGED <<J!master, jobOf, upc, res, dpc, J!history>>
  BY DEF J!RunJob
<1>2. JobsTypeInv'
  BY <1>1 DEF JobsInv, JobsTypeInv, J!Goes, J!master, J!history, WorkerPoints
<1>3. AliveInv'
  BY <1>1, Counted DEF JobsInv, AliveInv, J!master
<1>4. HeldInv'
  BY <1>1 DEF JobsInv, JobsTypeInv, HeldInv, J!Goes, J!master
<1>5. \A v \in J!Worker : Has(v)' <=> Has(v)
  BY <1>1 DEF JobsInv, JobsTypeInv, Has, J!Goes
<1>6. StartedInv'
  BY <1>1, <1>5 DEF JobsInv, StartedInv, J!master, J!history
<1>7. ResultsInv' /\ EndInv'
  BY <1>1 DEF JobsInv, ResultsInv, EndInv, J!master, J!history, J!Stopped
<1> QED BY <1>2, <1>3, <1>4, <1>6, <1>7 DEF JobsInv

(* the end of a job, reported or stopped *)
LEMMA QueueOK ==
  ASSUME JobsInv, NEW w \in J!Worker, wpc[w] \in {"report", "stopping"}, J!Queue(w),
         UNCHANGED <<n_threads, idx, jobOf, upc, res, dpc, got>>,
         sidx' \in Int, held' \in BOOLEAN, ~held', wpc[w] = "report" => ~held
  PROVE  JobsInv'
<1>1. Has(w) /\ wpc[w] \notin {"none", "ended"} /\ jobOf[w] \in J!Job /\ jobOf[w] \notin finished
  BY DEF JobsInv, JobsTypeInv, StartedInv, Has, J!Job
<1>2. J!Goes(w, wpc[w], "next") /\ rs' = Append(rs, jobOf[w]) /\ finished' = finished \cup {jobOf[w]}
  BY DEF J!Queue
<1>3. JobsTypeInv'
  BY <1>1, <1>2 DEF JobsInv, JobsTypeInv, J!Goes, WorkerPoints
<1>4. AliveInv' /\ n_threads # 0
  <2>1. n_threads # 0
    BY <1>1, NobodyAlive DEF JobsInv
  <2> QED BY <1>1, <1>2, <2>1, Counted DEF JobsInv, AliveInv
<1>5. HeldInv'
  BY <1>1, <1>2 DEF JobsInv, JobsTypeInv, HeldInv, J!Goes
<1>6. ~Has(w)' /\ \A v \in J!Worker \ {w} : Has(v)' <=> Has(v)
  BY <1>2 DEF JobsInv, JobsTypeInv, Has, J!Goes
<1>7. StartedInv'
  <2>1. /\ idx' = idx /\ jobOf' = jobOf /\ finished' = finished \cup {jobOf[w]}
        /\ jobOf[w] < idx /\ w \in J!Worker
    BY <1>1, <1>2 DEF JobsInv, StartedInv
  <2>2. \A v \in J!Worker : Has(v)' => Has(v) /\ v # w
    BY <1>6
  <2>3. \A i \in J!Job : i < idx' => i \in finished' \/ \E v \in J!Worker : Has(v)' /\ jobOf'[v] = i
    BY <1>6, <2>1 DEF JobsInv, StartedInv
  <2> QED BY <1>1, <2>1, <2>2, <2>3 DEF JobsInv, StartedInv
<1>8. ResultsInv'
  BY <1>1, <1>2, Appended DEF JobsInv, JobsTypeInv, ResultsInv
<1>9. EndInv'
  BY <1>4 DEF JobsInv, EndInv
<1> QED BY <1>3, <1>4, <1>5, <1>7, <1>8, <1>9 DEF JobsInv

LEMMA StopResultOK ==
  ASSUME JobsInv, NEW w \in J!Worker, J!StopResult(w)
  PROVE  JobsInv'
<1>1. /\ J!Goes(w, "stop", "stopping") /\ ~held /\ held'
      /\ UNCHANGED <<n_threads, idx, sidx, rs, jobOf, upc, res, dpc, J!history>>
  BY DEF J!StopResult
<1>2. JobsTypeInv'
  BY <1>1 DEF JobsInv, JobsTypeInv, J!Goes, J!history, WorkerPoints, J!StopResult
<1>3. AliveInv'
  BY <1>1, Counted DEF JobsInv, AliveInv
<1>4. HeldInv'
  BY <1>1 DEF JobsInv, JobsTypeInv, HeldInv, J!Goes, J!StopResult
<1>5. \A v \in J!Worker : Has(v)' <=> Has(v)
  BY <1>1 DEF JobsInv, JobsTypeInv, Has, J!Goes
<1>6. StartedInv'
  BY <1>1, <1>5 DEF JobsInv, StartedInv, J!history
<1>7. ResultsInv' /\ EndInv'
  BY <1>1 DEF JobsInv, ResultsInv, EndInv, J!history, J!Stopped
<1> QED BY <1>2, <1>3, <1>4, <1>6, <1>7 DEF JobsInv

LEMMA NextJobOK ==
  ASSUME JobsInv, NEW w \in J!Worker, J!NextJob(w)
  PROVE  JobsInv'
<1>1. /\ J!Goes(w, "next", "run") /\ ~held /\ idx < NJobs /\ idx' = idx + 1
      /\ jobOf' = [jobOf EXCEPT ![w] = idx]
      /\ UNCHANGED <<held, n_threads, sidx, rs, upc, res, dpc, J!history>>
  BY DEF J!NextJob, J!Jobs
<1>2. JobsTypeInv'
  BY <1>1 DEF JobsInv, JobsTypeInv, J!Goes, J!history, WorkerPoints
<1>3. AliveInv' /\ n_threads # 0
  <2>1. wpc[w] \notin {"none", "ended"}
    BY <1>1 DEF J!Goes
  <2> QED BY <1>1, <2>1, Counted, NobodyAlive DEF JobsInv, AliveInv
<1>4. HeldInv'
  BY <1>1 DEF JobsInv, JobsTypeInv, HeldInv, J!Goes
<1>5. ~Has(w) /\ Has(w)' /\ jobOf'[w] = idx
      /\ \A v \in J!Worker \ {w} : (Has(v)' <=> Has(v)) /\ jobOf'[v] = jobOf[v]
  BY <1>1 DEF JobsInv, JobsTypeInv, Has, J!Goes
<1>6. StartedInv'
  <2>1. finished' = finished /\ idx \in Nat /\ \A v \in J!Worker : jobOf[v] \in Nat
    BY <1>1 DEF JobsInv, JobsTypeInv, J!history
  <2>2. idx \notin finished /\ \A v \in J!Worker : Has(v) => jobOf[v] # idx
    BY <2>1 DEF JobsInv, StartedInv
  <2>3. \A i \in J!Job : i < idx + 1 => i < idx \/ i = idx
    BY <2>1 DEF J!Job
  <2>4. \A i \in finished : i \in Nat
    BY DEF JobsInv, JobsTypeInv, J!Job
  <2> QED BY <1>1, <1>5, <2>1, <2>2, <2>3, <2>4 DEF JobsInv, StartedInv
<1>7. ResultsInv' /\ EndInv'
  BY <1>1, <1>3 DEF JobsInv, ResultsInv, EndInv, J!history
<1> QED BY <1>2, <1>3, <1>4, <1>6, <1>7 DEF JobsInv

LEMMA NoJobOK ==
  ASSUME JobsInv, NEW w \in J!Worker, J!NoJob(w)
  PROVE  JobsInv'
<1>1. /\ J!Goes(w, "next", "ended") /\ ~held /\ n_threads' = n_threads - 1
      /\ UNCHANGED <<held, idx, sidx, rs, jobOf, upc, res, dpc, J!history>>
  BY DEF J!NoJob
<1>2. n_threads # 0
  <2>1. wpc[w] \notin {"none", "ended"}
    BY <1>1 DEF J!Goes
  <2> QED BY <2>1, NobodyAlive DEF JobsInv
<1>3. JobsTypeInv'
  BY <1>1, <1>2 DEF JobsInv, JobsTypeInv, J!Goes, J!history, WorkerPoints
<1>4. AliveInv'
  BY <1>1, Counted DEF JobsInv, AliveInv
<1>5. HeldInv'
  BY <1>1 DEF JobsInv, JobsTypeInv, HeldInv, J!Goes
<1>6. \A v \in J!Worker : Has(v)' <=> Has(v)
  BY <1>1 DEF JobsInv, JobsTypeInv, Has, J!Goes
<1>7. StartedInv'
  BY <1>1, <1>6 DEF JobsInv, StartedInv, J!history
<1>8. ResultsInv' /\ EndInv'
  BY <1>1, <1>2 DEF JobsInv, ResultsInv, EndInv, J!history
<1> QED BY <1>3, <1>4, <1>5, <1>7, <1>8 DEF JobsInv

LEMMA WorkerStepOK ==
  ASSUME JobsInv, NEW w \in J!Worker, J!WorkerStep(w)
  PROVE  JobsInv'
<1>1. CASE J!Report(w)
  BY <1>1, QueueOK DEF J!Report, JobsInv, JobsTypeInv
<1>2. CASE J!StopIndex(w)
  <2>1. jobOf[w] \in Int /\ sidx \in Int
    BY DEF JobsInv, JobsTypeInv
  <2> QED BY <1>2, <2>1, QueueOK DEF J!StopIndex
<1> QED BY <1>1, <1>2, RunJobOK, StopResultOK, NextJobOK, NoJobOK DEF J!WorkerStep

-----------------------------------------------------------------------------
(* The thread of the user and the destructor: workers and jobs stay. *)

LEMMA WorkersSame ==
  ASSUME JobsInv, UNCHANGED <<held, n_threads, idx, wpc, jobOf, finished>>
  PROVE  AliveInv' /\ HeldInv' /\ StartedInv'
BY DEF JobsInv, AliveInv, Alive, HeldInv, StartedInv, Has

LEMMA UserOK ==
  ASSUME JobsInv, J!CallRun \/ J!ReturnFalse \/ J!MustWait \/ J!Wait \/ J!ReadResult \/ J!ReadIndex
  PROVE  JobsInv'
<1>1. UNCHANGED <<held, n_threads, idx, wpc, jobOf, sidx, rs, dpc, finished, got>>
  BY DEF J!CallRun, J!ReturnFalse, J!MustWait, J!Wait, J!ReadResult, J!ReadIndex, J!master, J!history
<1>2. AliveInv' /\ HeldInv' /\ StartedInv'
  BY <1>1, WorkersSame
<1>3. upc # "gone" /\ upc' \in {"user", "run", "wait", "stopped"}
  BY DEF J!CallRun, J!ReturnFalse, J!MustWait, J!Wait, J!ReadResult, J!ReadIndex, J!User
<1>4. JobsTypeInv' /\ ResultsInv'
  BY <1>1, <1>3 DEF JobsInv, JobsTypeInv, ResultsInv
<1>5. res'.is = "false" => upc' = "user" /\ n_threads = 0 /\ rs = <<>> /\ (idx = NJobs \/ J!Stopped)
  <2>1. CASE J!ReturnFalse
    BY <2>1 DEF J!ReturnFalse, J!Done, J!Jobs, JobsInv, JobsTypeInv
  <2>2. CASE J!CallRun \/ J!ReadResult
    BY <2>2 DEF J!CallRun, J!ReadResult, J!Returned
  <2>3. CASE J!MustWait \/ J!Wait
    BY <2>3 DEF J!MustWait, J!Wait, J!User, JobsInv, EndInv
  <2>4. CASE J!ReadIndex
    BY <2>4 DEF J!ReadIndex, J!User, JobsInv, EndInv
  <2> QED BY <2>1, <2>2, <2>3, <2>4
<1>6. EndInv'
  BY <1>1, <1>3, <1>5 DEF JobsInv, EndInv, J!Stopped
<1> QED BY <1>2, <1>4, <1>6 DEF JobsInv

LEMMA ReturnResultOK ==
  ASSUME JobsInv, J!ReturnResult
  PROVE  JobsInv'
<1>1. /\ UNCHANGED <<held, n_threads, idx, sidx, wpc, jobOf, dpc, finished>>
      /\ upc = "run" /\ upc' = "user" /\ rs # <<>> /\ res' = J!Returned("result")
      /\ rs' = Tail(rs) /\ got' = Append(got, Head(rs))
  BY DEF J!ReturnResult
<1>2. AliveInv' /\ HeldInv' /\ StartedInv'
  BY <1>1, WorkersSame
<1>3. got' \o rs' = got \o rs /\ Head(rs) \in J!Job /\ rs' \in Seq(J!Job)
  BY <1>1, Taken DEF JobsInv, JobsTypeInv
<1>4. got' \in Seq(J!Job)
  BY <1>1, <1>3 DEF JobsInv, JobsTypeInv
<1>5. JobsTypeInv'
  BY <1>1, <1>3, <1>4 DEF JobsInv, JobsTypeInv
<1>6. ResultsInv'
  BY <1>1, <1>3 DEF JobsInv, ResultsInv
<1>7. EndInv'
  BY <1>1 DEF JobsInv, EndInv, J!Returned
<1> QED BY <1>2, <1>5, <1>6, <1>7 DEF JobsInv

LEMMA DestructOK ==
  ASSUME JobsInv, J!Destruct \/ J!Deleting
  PROVE  JobsInv'
<1>0. rs \in Seq(J!Job) /\ sidx \in Int /\ (dpc # "none" => upc = "gone")
  BY DEF JobsInv, JobsTypeInv, EndInv
<1>1. /\ UNCHANGED <<held, n_threads, idx, wpc, jobOf, finished, got>>
      /\ upc' = "gone" /\ sidx' \in Int /\ rs' \in Seq(J!Job)
  <2>1. CASE J!Destruct
    BY <2>1 DEF J!Destruct, J!User, J!history
  <2>2. CASE J!ZeroIndex \/ J!DrainWait
    BY <1>0, <2>2 DEF J!ZeroIndex, J!DrainWait, J!history
  <2>3. CASE J!Drain
    <3>1. rs' = rs \/ (rs # <<>> /\ rs' = Tail(rs))
      BY <2>3 DEF J!Drain
    <3>2. rs' \in Seq(J!Job)
      BY <1>0, <3>1
    <3> QED BY <1>0, <2>3, <3>2 DEF J!Drain, J!history
  <2> QED BY <2>1, <2>2, <2>3 DEF J!Deleting
<1>2. AliveInv' /\ HeldInv' /\ StartedInv'
  BY <1>1, WorkersSame
<1>3. dpc' \in {"zero", "run", "wait", "deleted"}
  BY DEF J!Destruct, J!Deleting, J!ZeroIndex, J!Drain, J!DrainWait
<1>4. JobsTypeInv' /\ ResultsInv'
  BY <1>1, <1>3 DEF JobsInv, JobsTypeInv, ResultsInv
<1>5. res'.is # "false"
  BY DEF J!Destruct, J!Deleting, J!ZeroIndex, J!Drain, J!DrainWait, J!Returned, JobsInv, EndInv
<1>6. dpc' = "deleted" => n_threads = 0 /\ rs' = <<>>
  BY DEF J!Destruct, J!Deleting, J!ZeroIndex, J!Drain, J!DrainWait, J!Done
<1>7. EndInv'
  BY <1>1, <1>3, <1>5, <1>6 DEF EndInv
<1> QED BY <1>2, <1>4, <1>7 DEF JobsInv

LEMMA JobsNextOK == JobsInv /\ [J!Next]_(J!vars) => JobsInv'
<1> SUFFICES ASSUME JobsInv, [J!Next]_(J!vars) PROVE JobsInv'
  OBVIOUS
<1>1. CASE UNCHANGED J!vars
  BY <1>1 DEF J!vars, J!master, J!history, JobsInv, JobsTypeInv, AliveInv, Alive, HeldInv, StartedInv, Has,
  ResultsInv, EndInv, J!Stopped
<1> QED BY <1>1, WorkerStepOK, UserOK, ReturnResultOK, DestructOK DEF J!Next, J!Running

(* Workers end only when there is nothing more to start; and while somebody waits for
   the event, no result is queued and some worker has not ended. *)
AsleepInv ==
  /\ n_threads = 0 => ~J!Jobs \/ J!Stopped
  /\ ~signal /\ (upc = "wait" \/ dpc = "wait") => rs = <<>> /\ n_threads # 0

LEMMA AsleepOK == JobsInv /\ AsleepInv /\ [J!Next]_(J!vars) => AsleepInv'
<1> SUFFICES ASSUME JobsInv, AsleepInv, [J!Next]_(J!vars) PROVE AsleepInv'
  OBVIOUS
<1>0. /\ n_threads \in Nat /\ idx \in Int /\ sidx \in Int
      /\ \A w \in J!Worker : jobOf[w] \in Nat
      /\ dpc # "none" <=> upc = "gone"
  BY DEF JobsInv, JobsTypeInv, EndInv
<1> USE <1>0 DEF AsleepInv, J!Jobs, J!Stopped
<1>1. ASSUME NEW w \in J!Worker, J!RunJob(w) \/ J!StopResult(w)
      PROVE  AsleepInv'
  BY <1>1 DEF J!RunJob, J!StopResult, J!master, J!history
<1>2. ASSUME NEW w \in J!Worker, J!Report(w) \/ J!StopIndex(w)
      PROVE  AsleepInv'
  BY <1>2 DEF J!Report, J!StopIndex, J!Queue
<1>3. ASSUME NEW w \in J!Worker, J!NextJob(w)
      PROVE  AsleepInv'
  <2>1. n_threads # 0
    BY <1>3, NobodyAlive DEF JobsInv, J!NextJob, J!Goes
  <2> QED BY <1>3, <2>1 DEF J!NextJob
<1>4. ASSUME NEW w \in J!Worker, J!NoJob(w)
      PROVE  AsleepInv'
  BY <1>4 DEF J!NoJob
<1>5. CASE J!CallRun \/ J!ReturnFalse \/ J!ReadResult \/ J!ReadIndex
  BY <1>5 DEF J!CallRun, J!ReturnFalse, J!ReadResult, J!ReadIndex, J!User, J!master, J!history
<1>6. CASE J!MustWait \/ J!Wait
  BY <1>6 DEF J!MustWait, J!Wait, J!Done, J!User, J!master, J!history
<1>7. CASE J!ReturnResult
  BY <1>7 DEF J!ReturnResult
<1>8. CASE J!Destruct \/ J!ZeroIndex
  BY <1>8 DEF J!Destruct, J!ZeroIndex, J!User
<1>9. CASE J!Drain \/ J!DrainWait
  BY <1>9 DEF J!Drain, J!DrainWait, J!Done
<1>10. CASE UNCHANGED J!vars
  BY <1>10 DEF J!vars, J!master, J!history
<1> QED
  BY <1>1, <1>2, <1>3, <1>4, <1>5, <1>6, <1>7, <1>8, <1>9, <1>10
  DEF J!Next, J!WorkerStep, J!Running, J!Deleting

LEMMA JobsFollow == JobsInv /\ AsleepInv => J!JobsOK
<1> SUFFICES ASSUME JobsInv, AsleepInv
             PROVE  J!JobsIterated /\ J!DeletedAfterAll /\ J!WokenByWorker
  BY DEF J!JobsOK
<1>1. ASSUME upc # "gone", res.is = "false"
      PROVE  J!Range(got) = {i \in J!Job : i < idx} /\ (idx = NJobs \/ J!Stopped)
  <2>1. n_threads = 0 /\ rs = <<>> /\ (idx = NJobs \/ J!Stopped)
    BY <1>1 DEF JobsInv, EndInv
  <2>2. got \o rs = got
    BY <2>1 DEF JobsInv, JobsTypeInv
  <2>3. J!Range(got) = finished
    BY <1>1, <2>2 DEF JobsInv, ResultsInv
  <2>4. \A i \in J!Job : i \in finished <=> i < idx
    BY <2>1, NobodyAlive DEF JobsInv, StartedInv
  <2> QED BY <2>1, <2>3, <2>4 DEF JobsInv, JobsTypeInv
<1>2. J!JobsIterated
  BY <1>1 DEF J!JobsIterated, JobsInv, ResultsInv
<1>3. J!DeletedAfterAll
  BY NobodyAlive DEF J!DeletedAfterAll, JobsInv, EndInv, HeldInv
<1>4. J!WokenByWorker
  <2>1. n_threads # 0 => Alive # {}
    BY FS_EmptySet DEF JobsInv, AliveInv
  <2> QED BY <2>1 DEF J!WokenByWorker, AsleepInv, Alive
<1> QED BY <1>2, <1>3, <1>4

(* For any number of jobs and threads run() returns the result of each job once, all of
   them before it returns false, the master is deleted after the last worker has used
   it, and nobody waits for the event when no worker will signal it, however the ends of
   jobs, JobStop exceptions and the destructor interleave. *)
THEOREM JobsCorrect == J!Spec => []JobsOK
<1>1. J!Spec => []JobsInv
  BY JobsInitOK, JobsNextOK, PTL DEF J!Spec
<1>2. J!Init => AsleepInv
  BY DEF J!Init, AsleepInv, J!Smaller
<1> QED BY <1>1, <1>2, AsleepOK, JobsFollow, PTL DEF JobsOK, J!Spec

-----------------------------------------------------------------------------
(* The pool of threads (gecode/support/thread/thread.cpp): every step of Threads is a
   step of ThreadPool or leaves all runnables where they are. *)
HIDE RunJobsAssumption DEF J!RunJobsAssumption
USE RunnableAssumption DEF T!RunnableAssumption

CallerPoints == {"user", "locked", "store", "signal", "new"}
PoolPoints == {"none", "exec", "running", "returned", "deleted", "over", "wait"}

PoolTypeInv ==
  /\ idle \in Seq(Run) /\ mutex \in {"free", "caller"}
  /\ r \in [Run -> Runnable \cup {NoRunnable}] /\ event \in [Run -> BOOLEAN]
  /\ tpc \in [Run -> PoolPoints] /\ job \in [Run -> Runnable \cup {NoRunnable}]
  /\ cpc \in [Caller -> CallerPoints] /\ arg \in [Caller -> Runnable \cup {NoRunnable}]
  /\ to \in [Caller -> SUBSET Run] /\ submitted \in [Runnable -> Nat]

(* a thread that can be given a runnable is on the stack once, or with one caller *)
IsIdle(t) == \E i \in 1 .. Len(idle) : idle[i] = t
IdleInv ==
  /\ \A i, j \in 1 .. Len(idle) : idle[i] = idle[j] => i = j
  /\ \A c, d \in Caller : \A t \in to[c] : ~IsIdle(t) /\ (t \in to[d] => c = d)
  /\ \A t \in Run : IsIdle(t) => tpc[t] = "wait" /\ r[t] = NoRunnable /\ ~event[t]
  /\ \A c \in Caller : \A t \in to[c] :
       /\ tpc[t] = "wait" /\ ~event[t]
       /\ r[t] = NoRunnable <=> cpc[c] = "store"

(* where a runnable can be, and where there must be one *)
HoldInv ==
  /\ \A c \in Caller : /\ arg[c] # NoRunnable <=> cpc[c] \in {"locked", "store", "new"}
                       /\ cpc[c] \in {"store", "signal"} <=> to[c] # {}
                       /\ \A t, u \in to[c] : t = u
  /\ \A t \in Run : /\ job[t] # NoRunnable <=> tpc[t] \in {"running", "returned", "deleted"}
                    /\ tpc[t] = "deleted" => job[t] \notin Kept
                    /\ r[t] # NoRunnable => tpc[t] \in {"exec", "wait"}
                    /\ tpc[t] = "exec" => r[t] # NoRunnable
                    /\ event[t] => tpc[t] = "wait" /\ r[t] # NoRunnable

(* a runnable is in one place *)
OnceInv ==
  /\ \A c, d \in Caller : arg[c] = arg[d] /\ arg[c] # NoRunnable => c = d
  /\ \A t, u \in Run : /\ r[t] = r[u] /\ r[t] # NoRunnable => t = u
                       /\ job[t] = job[u] /\ job[t] # NoRunnable => t = u
                       /\ r[t] = job[u] => r[t] = NoRunnable
  /\ \A c \in Caller, t \in Run : arg[c] # NoRunnable => arg[c] # r[t] /\ arg[c] # job[t]
  /\ \A c \in Caller : arg[c] # NoRunnable => submitted[arg[c]] # 0
  /\ \A t \in Run : /\ r[t] # NoRunnable => submitted[r[t]] # 0
                    /\ job[t] # NoRunnable => submitted[job[t]] # 0

PoolInv == PoolTypeInv /\ IdleInv /\ HoldInv /\ OnceInv


LEMMA PoolInitOK == T!Init => PoolInv
BY DEF T!Init, PoolInv, PoolTypeInv, IdleInv, HoldInv, OnceInv, IsIdle, CallerPoints, PoolPoints

LEMMA CallerOK ==
  ASSUME PoolInv, NEW c \in Caller, NEW x \in Runnable,
         T!Acquire(c, x) \/ T!NoneIdle(c) \/ \E t \in Run : T!NewRun(c, t)
  PROVE  PoolInv'
<1>1. CASE T!Acquire(c, x)
  <2>1. ~T!InUse(x)
    BY <1>1 DEF T!Acquire, T!Free, T!InUse, PoolInv, OnceInv
  <2>2. /\ submitted' \in [Runnable -> Nat] /\ submitted'[x] # 0
        /\ \A y \in Runnable : submitted[y] # 0 => submitted'[y] # 0
    BY <1>1 DEF T!Acquire, PoolInv, PoolTypeInv
  <2>3. /\ cpc[c] = "user" /\ cpc' = [cpc EXCEPT ![c] = "locked"] /\ arg' = [arg EXCEPT ![c] = x]
        /\ mutex' = "caller" /\ UNCHANGED <<idle, r, event, tpc, job, to>>
    BY <1>1 DEF T!Acquire, T!pool
  <2>4. PoolTypeInv'
    BY <2>2, <2>3 DEF PoolInv, PoolTypeInv, CallerPoints
  <2>5. IdleInv'
    BY <2>3 DEF PoolInv, PoolTypeInv, IdleInv, IsIdle
  <2>6. HoldInv'
    BY <2>3 DEF PoolInv, PoolTypeInv, HoldInv
  <2>7. OnceInv'
    BY <2>1, <2>2, <2>3 DEF PoolInv, PoolTypeInv, OnceInv, T!InUse
  <2> QED BY <2>4, <2>5, <2>6, <2>7 DEF PoolInv
<1>2. CASE T!NoneIdle(c)
  BY <1>2 DEF T!NoneIdle, T!pool, PoolInv, PoolTypeInv, IdleInv, HoldInv, OnceInv, IsIdle, CallerPoints
<1>3. ASSUME NEW t \in Run, T!NewRun(c, t) PROVE PoolInv'
  <2>1. PoolTypeInv'
    BY <1>3 DEF T!NewRun, PoolInv, PoolTypeInv, CallerPoints, PoolPoints
  <2>2. IdleInv'
    BY <1>3 DEF T!NewRun, PoolInv, PoolTypeInv, IdleInv, HoldInv, IsIdle
  <2>3. HoldInv'
    BY <1>3 DEF T!NewRun, PoolInv, PoolTypeInv, IdleInv, HoldInv
  <2>4. OnceInv'
    <3>1. /\ r' = [r EXCEPT ![t] = arg[c]] /\ arg' = [arg EXCEPT ![c] = NoRunnable]
          /\ job' = job /\ submitted' = submitted /\ arg[c] # NoRunnable /\ arg[c] \in Runnable
      BY <1>3 DEF T!NewRun, PoolInv, PoolTypeInv, HoldInv
    <3> QED BY <3>1 DEF PoolInv, PoolTypeInv, OnceInv
  <2> QED BY <2>1, <2>2, <2>3, <2>4 DEF PoolInv
<1> QED BY <1>1, <1>2, <1>3

LEMMA PopOK ==
  ASSUME PoolInv, NEW c \in Caller, T!PopIdle(c)
  PROVE  PoolInv'
<1> DEFINE h == Head(idle)
<1>1. /\ h = idle[1] /\ h \in Run /\ Tail(idle) \in Seq(Run) /\ Len(idle) \in Nat \ {0}
      /\ Len(Tail(idle)) = Len(idle) - 1
      /\ \A i \in 1 .. Len(Tail(idle)) : i + 1 \in 1 .. Len(idle) /\ Tail(idle)[i] = idle[i + 1]
  BY HeadTailProperties DEF T!PopIdle, PoolInv, PoolTypeInv
<1>2. IsIdle(h)
  BY <1>1 DEF IsIdle
<1>3. \A t : IsIdle(t)' => IsIdle(t) /\ t # h
  BY <1>1 DEF IsIdle, T!PopIdle, PoolInv, IdleInv
<1>4. PoolTypeInv' /\ HoldInv' /\ OnceInv'
  BY <1>1 DEF T!PopIdle, T!pool, PoolInv, PoolTypeInv, HoldInv, OnceInv, CallerPoints
<1>5. \A i, j \in 1 .. Len(idle') : idle'[i] = idle'[j] => i = j
  BY <1>1 DEF T!PopIdle, PoolInv, IdleInv
<1>6. IdleInv'
  BY <1>1, <1>2, <1>3, <1>5 DEF T!PopIdle, T!pool, PoolInv, PoolTypeInv, IdleInv, HoldInv
<1> QED BY <1>4, <1>6 DEF PoolInv

LEMMA GiveOK ==
  ASSUME PoolInv, NEW c \in Caller, T!Store(c) \/ T!Signal(c)
  PROVE  PoolInv'
<1>1. CASE T!Store(c)
  BY <1>1 DEF T!Store, T!pool, PoolInv, PoolTypeInv, IdleInv, HoldInv, OnceInv, IsIdle, CallerPoints
<1>2. CASE T!Signal(c)
  BY <1>2 DEF T!Signal, T!pool, PoolInv, PoolTypeInv, IdleInv, HoldInv, OnceInv, IsIdle, CallerPoints
<1> QED BY <1>1, <1>2

LEMMA ExecOK ==
  ASSUME PoolInv, NEW t \in Run,
         T!Take(t) \/ T!Return(t) \/ T!Delete(t) \/ T!Terminated(t) \/ T!NoTerminator(t) \/ T!Wait(t)
  PROVE  PoolInv'
<1>1. CASE T!Take(t)
  BY <1>1 DEF T!Take, T!Moves, PoolInv, PoolTypeInv, IdleInv, HoldInv, OnceInv, IsIdle, PoolPoints
<1>2. CASE T!Return(t) \/ T!Delete(t)
  <2>1. /\ UNCHANGED <<idle, mutex, r, event, job, cpc, arg, to, submitted>>
        /\ tpc[t] \in {"running", "returned"}
    BY <1>2 DEF T!Return, T!Delete, T!Moves
  <2>2. PICK p \in {"returned", "deleted"} :
          tpc' = [tpc EXCEPT ![t] = p] /\ (p = "deleted" => job[t] \notin Kept)
    BY <1>2 DEF T!Return, T!Delete, T!Moves
  <2>3. PoolTypeInv'
    BY <2>1, <2>2 DEF PoolInv, PoolTypeInv, PoolPoints
  <2>4. IdleInv'
    BY <2>1, <2>2 DEF PoolInv, PoolTypeInv, IdleInv, IsIdle
  <2>5. HoldInv'
    BY <2>1, <2>2 DEF PoolInv, PoolTypeInv, HoldInv
  <2>6. OnceInv'
    BY <2>1 DEF PoolInv, OnceInv
  <2> QED BY <2>3, <2>4, <2>5, <2>6 DEF PoolInv
<1>3. CASE T!Terminated(t) \/ T!NoTerminator(t)
  <2>1. /\ UNCHANGED <<idle, mutex, r, event, cpc, arg, to, submitted>>
        /\ tpc' = [tpc EXCEPT ![t] = "over"] /\ tpc[t] \in {"returned", "deleted"}
        /\ job' = [job EXCEPT ![t] = NoRunnable]
    BY <1>3 DEF T!Terminated, T!NoTerminator, T!Moves
  <2>2. PoolTypeInv'
    BY <2>1 DEF PoolInv, PoolTypeInv, PoolPoints
  <2>3. IdleInv'
    BY <2>1 DEF PoolInv, PoolTypeInv, IdleInv, IsIdle
  <2>4. HoldInv'
    BY <2>1 DEF PoolInv, PoolTypeInv, HoldInv
  <2>5. OnceInv'
    BY <2>1 DEF PoolInv, PoolTypeInv, OnceInv
  <2> QED BY <2>2, <2>3, <2>4, <2>5 DEF PoolInv
<1>4. CASE T!Wait(t)
  BY <1>4 DEF T!Wait, T!Moves, PoolInv, PoolTypeInv, IdleInv, HoldInv, OnceInv, IsIdle, PoolPoints
<1> QED BY <1>1, <1>2, <1>3, <1>4

LEMMA PushOK ==
  ASSUME PoolInv, NEW t \in Run, T!PushIdle(t)
  PROVE  PoolInv'
<1>1. /\ idle' \in Seq(Run) /\ Len(idle') = Len(idle) + 1 /\ idle'[1] = t /\ Len(idle) \in Nat
      /\ \A i \in 1 .. Len(idle') : i # 1 => i - 1 \in 1 .. Len(idle) /\ idle'[i] = idle[i - 1]
  <2>1. idle \in Seq(Run) /\ <<t>> \in Seq(Run) /\ Len(<<t>>) = 1 /\ idle' = <<t>> \o idle
    BY DEF T!PushIdle, PoolInv, PoolTypeInv
  <2> QED BY <2>1, ConcatProperties
<1>2. \A u : IsIdle(u)' => IsIdle(u) \/ u = t
  BY <1>1 DEF IsIdle
<1>3. ~IsIdle(t) /\ \A c \in Caller : t \notin to[c]
  BY DEF T!PushIdle, T!Moves, PoolInv, PoolTypeInv, IdleInv
<1>4. \A i \in 1 .. Len(idle) : idle[i] # t
  BY <1>3 DEF IsIdle
<1>5. PoolTypeInv' /\ HoldInv' /\ OnceInv'
  <2>1. /\ UNCHANGED <<mutex, r, event, job, cpc, arg, to, submitted>>
        /\ tpc' = [tpc EXCEPT ![t] = "wait"] /\ tpc[t] = "over"
    BY DEF T!PushIdle, T!Moves
  <2>2. PoolTypeInv'
    BY <1>1, <2>1 DEF PoolInv, PoolTypeInv, PoolPoints
  <2>3. HoldInv'
    BY <2>1 DEF PoolInv, PoolTypeInv, HoldInv
  <2>4. OnceInv'
    BY <2>1 DEF PoolInv, PoolTypeInv, OnceInv
  <2> QED BY <2>2, <2>3, <2>4
<1>6. \A i, j \in 1 .. Len(idle') : idle'[i] = idle'[j] => i = j
  <2> SUFFICES ASSUME NEW i \in 1 .. Len(idle'), NEW j \in 1 .. Len(idle'), idle'[i] = idle'[j]
               PROVE  i = j
    OBVIOUS
  <2>1. CASE i = 1 \/ j = 1
    BY <1>1, <1>4, <2>1
  <2>2. CASE i # 1 /\ j # 1
    <3>1. i - 1 \in 1 .. Len(idle) /\ j - 1 \in 1 .. Len(idle) /\ idle[i - 1] = idle[j - 1]
      BY <1>1, <2>2
    <3> QED BY <3>1 DEF PoolInv, IdleInv
  <2> QED BY <2>1, <2>2
<1>7. IdleInv'
  BY <1>2, <1>3, <1>6 DEF T!PushIdle, T!Moves, PoolInv, PoolTypeInv, IdleInv, HoldInv
<1> QED BY <1>5, <1>7 DEF PoolInv

LEMMA PoolNextOK == PoolInv /\ [T!Next]_(T!vars) => PoolInv'
<1> SUFFICES ASSUME PoolInv, [T!Next]_(T!vars) PROVE PoolInv'
  OBVIOUS
<1>1. CASE UNCHANGED T!vars
  BY <1>1 DEF T!vars, T!pool, PoolInv, PoolTypeInv, IdleInv, HoldInv, OnceInv, IsIdle
<1>2. ASSUME NEW c \in Caller, T!CallerStep(c) PROVE PoolInv'
  <2>1. CASE T!PopIdle(c)
    BY <2>1, PopOK
  <2>2. CASE T!Store(c) \/ T!Signal(c)
    BY <2>2, GiveOK
  <2>3. CASE T!NoneIdle(c) \/ \E t \in Run : T!NewRun(c, t)
    <3>1. arg[c] \in Runnable
      BY <2>3 DEF T!NoneIdle, T!NewRun, PoolInv, PoolTypeInv, HoldInv
    <3> QED BY <2>3, <3>1, CallerOK
  <2> QED BY <1>2, <2>1, <2>2, <2>3 DEF T!CallerStep
<1>3. CASE T!Next
  BY <1>2, <1>3, CallerOK, ExecOK, PushOK DEF T!Next, T!RunStep
<1> QED BY <1>1, <1>3

-----------------------------------------------------------------------------
InArg(x) == \E c \in Caller : arg[c] = x
InRun(x) == \E t \in Run : r[t] = x

(* what becomes of a runnable that has been run *)
Last(x) == IF x \in Told THEN "terminated" ELSE "deleted"

(* what Status says of a runnable, wherever it is *)
StatusOK ==
  \A x \in Runnable :
    /\ submitted[x] = 0 => T!Status(x) = "new"
    /\ InArg(x) \/ InRun(x) => T!Status(x) = "submitted"
    /\ \A t \in Run : job[t] = x => T!Status(x) = tpc[t]
    /\ submitted[x] # 0 /\ ~T!InUse(x) => T!Status(x) = Last(x)

LEMMA StatusIs == PoolInv => StatusOK
<1> SUFFICES ASSUME PoolInv, NEW x \in Runnable
             PROVE  /\ submitted[x] = 0 => T!Status(x) = "new"
                    /\ InArg(x) \/ InRun(x) => T!Status(x) = "submitted"
                    /\ \A t \in Run : job[t] = x => T!Status(x) = tpc[t]
                    /\ submitted[x] # 0 /\ ~T!InUse(x) => T!Status(x) = Last(x)
  BY DEF StatusOK
<1>1. ASSUME NEW t \in Run, job[t] = x
      PROVE  /\ submitted[x] # 0 /\ ~InArg(x) /\ ~InRun(x) /\ T!InUse(x)
             /\ (CHOOSE u \in Run : job[u] = x) = t
  BY <1>1 DEF PoolInv, OnceInv, InArg, InRun, T!InUse
<1>2. /\ InArg(x) \/ InRun(x) => submitted[x] # 0
      /\ T!InUse(x) <=> InArg(x) \/ InRun(x) \/ \E t \in Run : job[t] = x
  BY DEF PoolInv, OnceInv, InArg, InRun, T!InUse
<1>3. CASE \E t \in Run : job[t] = x
  BY <1>1, <1>3 DEF T!Status, InArg, InRun
<1>4. CASE ~\E t \in Run : job[t] = x
  BY <1>2, <1>4 DEF T!Status, InArg, InRun, Last
<1> QED BY <1>3, <1>4

(* a runnable stays as it is as long as it stays where it is *)
LEMMA StatusStays ==
  ASSUME StatusOK, StatusOK', NEW y \in Runnable,
         submitted'[y] = 0 <=> submitted[y] = 0,
         (InArg(y) \/ InRun(y))' <=> InArg(y) \/ InRun(y),
         \A t \in Run : (job'[t] = y <=> job[t] = y) /\ (job[t] = y => tpc'[t] = tpc[t])
  PROVE  T!Status(y)' = T!Status(y)
<1>1. CASE InArg(y) \/ InRun(y)
  BY <1>1 DEF StatusOK
<1>2. CASE \E t \in Run : job[t] = y
  BY <1>2 DEF StatusOK
<1>3. CASE ~T!InUse(y)
  <2>1. ~T!InUse(y)'
    BY <1>3 DEF T!InUse, InArg, InRun
  <2> QED BY <1>3, <2>1 DEF StatusOK, Last
<1> QED BY <1>1, <1>2, <1>3 DEF T!InUse, InArg, InRun

(* Every runnable passed to Thread::run() is taken by one thread, run once, deleted
   unless it is kept, and only then is its terminator told, in this order, each time that
   it is passed, for any number of callers, threads and runnables, kept or not, with or
   without a terminator (Thread::run(), Run::run(), Run::exec()). *)
THEOREM PoolSafe == T!Spec => T!Pool!SafeSpec
<1>1. T!Init => PoolInv
  BY PoolInitOK
<1>2. PoolInv /\ [T!Next]_(T!vars) => PoolInv'
  BY PoolNextOK
<1>3. PoolInv => StatusOK
  BY StatusIs
<1>4. T!Init => T!Pool!Init
  BY DEF T!Init, T!Pool!Init, T!Status
<1> DEFINE status == [x \in Runnable |-> T!Status(x)]
<1>5. PoolInv /\ StatusOK /\ StatusOK' /\ [T!Next]_(T!vars) => [T!Pool!Next]_status
  <2> SUFFICES ASSUME PoolInv, StatusOK, StatusOK', [T!Next]_(T!vars)
               PROVE  T!Pool!Next \/ status' = status
    OBVIOUS
  <2>1. ASSUME NEW x \in Runnable, NEW s, NEW u, T!Status(x) = s, T!Status(x)' = u,
               \A y \in Runnable \ {x} : T!Status(y)' = T!Status(y)
        PROVE  T!Pool!Becomes(x, s, u)
    BY <2>1 DEF T!Pool!Becomes
  <2>2. ASSUME \A y \in Runnable : T!Status(y)' = T!Status(y) PROVE status' = status
    BY <2>2
  <2>3. ASSUME NEW c \in Caller, NEW x \in Runnable, T!Acquire(c, x) PROVE T!Pool!Submit(x)
    <3>1. T!Status(x)' = "submitted"
      BY <2>3 DEF T!Acquire, StatusOK, InArg, PoolInv, PoolTypeInv
    <3>2. ASSUME NEW y \in Runnable \ {x} PROVE T!Status(y)' = T!Status(y)
      <4>1. submitted'[y] = submitted[y] /\ \A d \in Caller : arg'[d] = y <=> arg[d] = y
        BY <2>3 DEF T!Acquire, PoolInv, PoolTypeInv, HoldInv
      <4>2. UNCHANGED <<r, job, tpc>>
        BY <2>3 DEF T!Acquire, T!pool
      <4> QED BY <4>1, <4>2, StatusStays DEF InArg, InRun
    <3>3. T!Status(x) = "new" \/ (x \in Kept /\ T!Status(x) = "terminated")
      BY <2>3 DEF T!Acquire, T!Free, StatusOK, Last, T!RunnableAssumption
    <3> QED BY <3>1, <3>2, <3>3, <2>1 DEF T!Pool!Submit
  <2>4. ASSUME NEW c \in Caller, T!PopIdle(c) \/ T!NoneIdle(c) \/ T!Store(c) \/ T!Signal(c)
                                \/ \E t \in Run : T!NewRun(c, t)
        PROVE  \A y \in Runnable : T!Status(y)' = T!Status(y)
    <3>1. CASE T!PopIdle(c) \/ T!NoneIdle(c) \/ T!Signal(c)
      BY <3>1 DEF T!PopIdle, T!NoneIdle, T!Signal, T!pool, T!Status
    <3>2. CASE T!Store(c)
      <4> SUFFICES ASSUME NEW y \in Runnable PROVE T!Status(y)' = T!Status(y)
        OBVIOUS
      <4>1. PICK u \in Run : u \in to[c] /\ r'[u] = arg[c]
        BY <3>2 DEF T!Store, PoolInv, PoolTypeInv, HoldInv
      <4>2. InRun(y) => InRun(y)'
        BY <3>2 DEF T!Store, InRun, PoolInv, PoolTypeInv, IdleInv
      <4>3. InArg(y) => InArg(y)' \/ InRun(y)'
        BY <3>2, <4>1 DEF T!Store, InRun, InArg, PoolInv, PoolTypeInv
      <4>4. InArg(y)' \/ InRun(y)' => InArg(y) \/ InRun(y)
        BY <3>2 DEF T!Store, InRun, InArg, PoolInv, PoolTypeInv
      <4>5. UNCHANGED <<job, tpc, submitted>>
        BY <3>2 DEF T!Store
      <4> QED BY <4>2, <4>3, <4>4, <4>5, StatusStays
    <3>3. ASSUME NEW t \in Run, T!NewRun(c, t), NEW y \in Runnable
          PROVE  T!Status(y)' = T!Status(y)
      <4>1. job[t] = NoRunnable /\ r[t] = NoRunnable /\ arg[c] # NoRunnable
        BY <3>3 DEF T!NewRun, PoolInv, PoolTypeInv, HoldInv
      <4>2. (InArg(y) \/ InRun(y))' <=> InArg(y) \/ InRun(y)
        BY <3>3, <4>1 DEF T!NewRun, InArg, InRun, PoolInv, PoolTypeInv
      <4>3. /\ UNCHANGED <<job, submitted>>
            /\ \A u \in Run : job[u] = y => tpc'[u] = tpc[u]
        BY <3>3, <4>1 DEF T!NewRun, PoolInv, PoolTypeInv
      <4> QED BY <4>2, <4>3, StatusStays
    <3> QED BY <2>4, <3>1, <3>2, <3>3
  <2>5. ASSUME NEW t \in Run, T!Take(t) PROVE T!Pool!Next
    <3>1. r[t] \in Runnable
      BY <2>5 DEF T!Take, T!Moves, PoolInv, PoolTypeInv, HoldInv
    <3>2. PICK x \in Runnable : x = r[t]
      BY <3>1
    <3>3. T!Status(x) = "submitted" /\ T!Status(x)' = "running"
      BY <2>5, <3>2 DEF T!Take, T!Moves, StatusOK, InRun, PoolInv, PoolTypeInv
    <3>4. ASSUME NEW y \in Runnable \ {x} PROVE T!Status(y)' = T!Status(y)
      <4>1. job[t] = NoRunnable
        BY <2>5 DEF T!Take, T!Moves, PoolInv, PoolTypeInv, HoldInv
      <4>2. /\ UNCHANGED <<arg, submitted>>
            /\ \A u \in Run : (r'[u] = y <=> r[u] = y) /\ (job'[u] = y <=> job[u] = y)
                              /\ (job[u] = y => tpc'[u] = tpc[u])
        BY <2>5, <3>2, <4>1 DEF T!Take, T!Moves, PoolInv, PoolTypeInv
      <4> QED BY <4>2, StatusStays DEF InArg, InRun
    <3>5. T!Pool!Becomes(x, "submitted", "running")
      BY <3>3, <3>4, <2>1
    <3> QED BY <3>5 DEF T!Pool!Next, T!Pool!Start
  <2>6. ASSUME NEW t \in Run, T!Return(t) \/ T!Delete(t) \/ T!Terminated(t) \/ T!NoTerminator(t)
        PROVE  T!Pool!Next \/ status' = status
    <3>1. PICK x \in Runnable : x = job[t]
      BY <2>6 DEF T!Return, T!Delete, T!Terminated, T!NoTerminator, T!Moves, PoolInv, PoolTypeInv, HoldInv
    <3>2. ASSUME NEW y \in Runnable \ {x} PROVE T!Status(y)' = T!Status(y)
      <4>1. /\ UNCHANGED <<arg, r, submitted>>
            /\ \A u \in Run : (job'[u] = y <=> job[u] = y) /\ (job[u] = y => tpc'[u] = tpc[u])
        BY <2>6, <3>1 DEF T!Return, T!Delete, T!Terminated, T!NoTerminator, T!Moves, PoolInv, PoolTypeInv
      <4> QED BY <4>1, StatusStays DEF InArg, InRun
    <3>3. CASE T!Return(t)
      <4>1. T!Status(x) = "running" /\ T!Status(x)' = "returned"
        BY <3>3, <3>1 DEF T!Return, T!Moves, StatusOK, PoolInv, PoolTypeInv
      <4> QED BY <4>1, <3>2, <2>1 DEF T!Pool!Next, T!Pool!Return
    <3>4. CASE T!Delete(t)
      <4>1. T!Status(x) = "returned" /\ T!Status(x)' = "deleted" /\ x \notin Kept
        BY <3>4, <3>1 DEF T!Delete, T!Moves, StatusOK, PoolInv, PoolTypeInv
      <4> QED BY <4>1, <3>2, <2>1 DEF T!Pool!Next, T!Pool!Delete
    <3>5. ASSUME T!Terminated(t) \/ T!NoTerminator(t)
          PROVE  T!Status(x)' = Last(x) /\ T!Status(x) = tpc[t]
      <4>1. submitted'[x] # 0
        BY <3>5, <3>1 DEF T!Terminated, T!NoTerminator, PoolInv, PoolTypeInv, OnceInv
      <4>2. ~T!InUse(x)'
        BY <3>5, <3>1 DEF T!Terminated, T!NoTerminator, T!InUse, PoolInv, PoolTypeInv, OnceInv
      <4> QED BY <3>1, <4>1, <4>2 DEF StatusOK
    <3>6. CASE T!Terminated(t)
      <4>1. /\ x \in Told /\ T!Status(x)' = "terminated"
            /\ T!Status(x) = IF x \in Kept THEN "returned" ELSE "deleted"
        BY <3>1, <3>5, <3>6 DEF T!Terminated, T!Moves, Last
      <4> QED BY <4>1, <3>2, <2>1 DEF T!Pool!Next, T!Pool!Terminated
    <3>7. CASE T!NoTerminator(t)
      <4>1. T!Status(x)' = T!Status(x)
        BY <3>1, <3>5, <3>7 DEF T!NoTerminator, T!Moves, Last
      <4> QED BY <4>1, <3>2, <2>2
    <3> QED BY <2>6, <3>3, <3>4, <3>6, <3>7
  <2>7. ASSUME NEW t \in Run, T!PushIdle(t) \/ T!Wait(t)
        PROVE  \A y \in Runnable : T!Status(y)' = T!Status(y)
    <3> SUFFICES ASSUME NEW y \in Runnable PROVE T!Status(y)' = T!Status(y)
      OBVIOUS
    <3>1. /\ UNCHANGED <<arg, r, job, submitted>>
          /\ \A u \in Run : job[u] = y => tpc'[u] = tpc[u]
      BY <2>7 DEF T!PushIdle, T!Wait, T!Moves, PoolInv, PoolTypeInv, HoldInv
    <3> QED BY <3>1, StatusStays DEF InArg, InRun
  <2>8. CASE UNCHANGED T!vars
    BY <2>8, <2>2 DEF T!vars, T!pool, T!Status
  <2>9. CASE T!Next
    <3>1. ASSUME NEW c \in Caller, NEW x \in Runnable, T!Acquire(c, x) PROVE T!Pool!Next
      BY <3>1, <2>3 DEF T!Pool!Next
    <3>2. ASSUME NEW c \in Caller, T!CallerStep(c) PROVE status' = status
      BY <3>2, <2>2, <2>4 DEF T!CallerStep
    <3>3. ASSUME NEW t \in Run, T!RunStep(t) \/ T!Return(t) PROVE T!Pool!Next \/ status' = status
      BY <3>3, <2>2, <2>5, <2>6, <2>7 DEF T!RunStep
    <3> QED BY <2>9, <3>1, <3>2, <3>3 DEF T!Next
  <2> QED BY <2>8, <2>9
<1> QED BY <1>1, <1>2, <1>3, <1>4, <1>5, PTL DEF T!Spec, T!Pool!SafeSpec

(* Nobody is left on the stack or forgotten: a thread that has been given a runnable
   and waits has its event signalled, or a caller that will signal it; and the mutex is
   free, or with a caller that is about to release it. *)
WakeInv ==
  /\ \A t \in Run : tpc[t] = "wait" /\ r[t] # NoRunnable =>
       event[t] \/ \E c \in Caller : cpc[c] = "signal" /\ t \in to[c]
  /\ mutex = "caller" => \E c \in Caller : cpc[c] = "locked"
  /\ \A c, d \in Caller : cpc[c] = "locked" /\ cpc[d] = "locked" => c = d
  /\ \A c \in Caller : cpc[c] = "locked" => mutex = "caller"

LEMMA WakeOK == PoolInv /\ WakeInv /\ [T!Next]_(T!vars) => WakeInv'
<1> SUFFICES ASSUME PoolInv, WakeInv, [T!Next]_(T!vars) PROVE WakeInv'
  OBVIOUS
<1> USE DEF WakeInv, PoolInv, PoolTypeInv
<1>1. ASSUME NEW c \in Caller, NEW x \in Runnable, T!Acquire(c, x) PROVE WakeInv'
  BY <1>1 DEF T!Acquire, T!pool
<1>2. ASSUME NEW c \in Caller, T!PopIdle(c) PROVE WakeInv'
  BY <1>2 DEF T!PopIdle, T!pool
<1>3. ASSUME NEW c \in Caller, T!Store(c) PROVE WakeInv'
  BY <1>3 DEF T!Store
<1>4. ASSUME NEW c \in Caller, T!Signal(c) PROVE WakeInv'
  BY <1>4 DEF T!Signal
<1>5. ASSUME NEW c \in Caller, T!NoneIdle(c) PROVE WakeInv'
  BY <1>5 DEF T!NoneIdle, T!pool
<1>6. ASSUME NEW c \in Caller, NEW t \in Run, T!NewRun(c, t) PROVE WakeInv'
  BY <1>6 DEF T!NewRun
<1>7. ASSUME NEW t \in Run, T!PushIdle(t) PROVE WakeInv'
  BY <1>7 DEF T!PushIdle, T!Moves, HoldInv
<1>8. ASSUME NEW t \in Run, T!Take(t) \/ T!Return(t) \/ T!Delete(t) \/ T!Terminated(t) \/ T!NoTerminator(t) \/ T!Wait(t)
      PROVE  WakeInv'
  BY <1>8 DEF T!Take, T!Return, T!Delete, T!Terminated, T!NoTerminator, T!Wait, T!Moves
<1>9. CASE UNCHANGED T!vars
  BY <1>9 DEF T!vars, T!pool
<1> QED
  BY <1>1, <1>2, <1>3, <1>4, <1>5, <1>6, <1>7, <1>8, <1>9 DEF T!Next, T!CallerStep, T!RunStep

(* A runnable that has been passed to Thread::run() and not been taken is with the
   caller, which has not stored it, or with a thread that is about to take it, is awake, or
   will be signalled by a caller that waits for nobody. *)
Served(x) ==
  T!Status(x) = "submitted" =>
    \/ \E c \in Caller : arg[c] = x /\ cpc[c] \in {"locked", "store", "new"}
    \/ \E t \in Run : /\ r[t] = x
                      /\ \/ tpc[t] = "exec"
                         \/ tpc[t] = "wait" /\ event[t]
                         \/ \E c \in Caller : cpc[c] = "signal" /\ t \in to[c]

(* No runnable is slept through: between run() that pops an idle thread and the thread
   that has put itself on the stack but does not wait yet, no signal is lost, for any
   number of callers, threads and runnables (Run::run() and Run::exec()); and who holds
   the mutex of the pool waits for nobody. *)
THEOREM NoRunnableForgotten ==
  T!Spec => []((\A x \in Runnable : Served(x)) /\
               (mutex # "free" => \E c \in Caller : cpc[c] = "locked"))
<1>1. T!Init => WakeInv
  BY DEF T!Init, WakeInv
<1>2. PoolInv /\ WakeInv =>
        (\A x \in Runnable : Served(x)) /\ (mutex # "free" => \E c \in Caller : cpc[c] = "locked")
  <2> SUFFICES ASSUME PoolInv, WakeInv, NEW x \in Runnable, T!Status(x) = "submitted"
               PROVE  Served(x)
    BY DEF Served, WakeInv, PoolInv, PoolTypeInv
  <2>1. StatusOK
    BY StatusIs
  <2>2. InArg(x) \/ InRun(x)
    <3>1. submitted[x] # 0 /\ T!InUse(x)
      BY <2>1 DEF StatusOK, Last
    <3>2. ~\E t \in Run : job[t] = x
      BY <2>1 DEF StatusOK, PoolInv, PoolTypeInv, PoolPoints
    <3> QED BY <3>1, <3>2 DEF T!InUse, InArg, InRun
  <2> QED BY <2>2 DEF InArg, InRun, Served, WakeInv, PoolInv, PoolTypeInv, HoldInv
<1> QED BY <1>1, <1>2, WakeOK, PoolInitOK, PoolNextOK, PTL DEF T!Spec

-----------------------------------------------------------------------------
(* The dynamic queue (gecode/support/dynamic-queue.hpp) *)
HIDE RunnableAssumption DEF T!RunnableAssumption
USE QueueAssumption DEF Q!QueueAssumption
(* what an index of the ring is *)
LEMMA ModIs ==
  ASSUME NEW n \in Nat \ {0}, NEW i \in 0 .. 2 * n - 1
  PROVE  i % n = IF i < n THEN i ELSE i - n
<1>1. CASE i \in 0 .. n - 1
  BY <1>1
<1>2. CASE i \in n .. 2 * n - 1
  BY <1>2
<1> QED BY <1>1, <1>2

(* the ring: every position holds an element, or what the memory held *)
RingInv ==
  /\ limit \in Nat \ {0} /\ fst \in 0 .. limit - 1 /\ lst \in 0 .. limit - 1
  /\ q \in [0 .. limit - 1 -> Element \cup {Q!Garbage}]

(* where the element i of the queue lies *)
At(i) == IF fst + i - 1 < limit THEN fst + i - 1 ELSE fst + i - 1 - limit
Held == IF fst <= lst THEN lst - fst ELSE lst + limit - fst

LEMMA RingIs ==
  ASSUME RingInv
  PROVE  /\ Q!Size = Held /\ Held \in 0 .. limit - 1
         /\ Q!Elements = [i \in 1 .. Held |-> q[At(i)]]
         /\ \A i \in 0 .. limit - 1 : Q!Move(i) = IF i + 1 = limit THEN 0 ELSE i + 1
<1>1. Held \in 0 .. limit - 1
  BY DEF RingInv, Held
<1>2. Q!Size = Held
  <2>1. PICK k : k = lst + limit - fst
    OBVIOUS
  <2>2. limit \in Nat \ {0} /\ k \in 0 .. 2 * limit - 1
    BY <2>1 DEF RingInv
  <2>3. k % limit = IF k < limit THEN k ELSE k - limit
    BY <2>2, ModIs, Zenon
  <2> QED BY <2>1, <2>3 DEF Q!Size, Held, RingInv
<1>3. ASSUME NEW i \in 1 .. Held PROVE (fst + i - 1) % limit = At(i)
  <2>1. PICK k : k = fst + i - 1
    OBVIOUS
  <2>2. limit \in Nat \ {0} /\ k \in 0 .. 2 * limit - 1
    BY <1>1, <2>1 DEF RingInv
  <2>3. k % limit = IF k < limit THEN k ELSE k - limit
    BY <2>2, ModIs, Zenon
  <2>4. (fst + i - 1) % limit = k % limit
    BY <2>1, Zenon
  <2>5. At(i) = IF k < limit THEN k ELSE k - limit
    BY <1>1, <2>1, <2>2 DEF At, RingInv
  <2> QED BY <2>3, <2>4, <2>5, Zenon
<1>4. ASSUME NEW i \in 0 .. limit - 1
      PROVE  Q!Move(i) = IF i + 1 = limit THEN 0 ELSE i + 1
  <2>1. PICK k : k = i + 1
    OBVIOUS
  <2>2. limit \in Nat \ {0} /\ k \in 0 .. 2 * limit - 1
    BY <2>1 DEF RingInv
  <2>3. k % limit = IF k < limit THEN k ELSE k - limit
    BY <2>2, ModIs, Zenon
  <2>4. Q!Move(i) = k % limit
    BY <2>1, Zenon DEF Q!Move
  <2> QED BY <2>1, <2>2, <2>3, <2>4
<1> QED BY <1>1, <1>2, <1>3, <1>4 DEF Q!Elements

LEMMA RingPush ==
  ASSUME RingInv, NEW x \in Element, Q!Push(x)
  PROVE  RingInv' /\ Q!Elements' = Append(Q!Elements, x)
<1> DEFINE p == [q EXCEPT ![lst] = x]
<1>1. /\ limit \in Nat \ {0} /\ fst \in 0 .. limit - 1 /\ lst \in 0 .. limit - 1
      /\ q \in [0 .. limit - 1 -> Element \cup {Q!Garbage}]
      /\ p \in [0 .. limit - 1 -> Element \cup {Q!Garbage}]
      /\ p[lst] = x /\ \A i \in 0 .. limit - 1 : i # lst => p[i] = q[i]
  BY DEF RingInv
<1>2. Q!Move(lst) = IF lst + 1 = limit THEN 0 ELSE lst + 1
  BY <1>1, RingIs
<1> HIDE DEF p
<1>3. CASE Q!Move(lst) = fst
  <2>1. /\ q' = Q!Resized(p) /\ fst' = 0 /\ lst' = limit /\ limit' = 2 * limit
    BY <1>3 DEF Q!Push, p
  <2>2. q' \in [0 .. limit' - 1 -> Element \cup {Q!Garbage}]
    <3>1. ASSUME NEW i \in 0 .. 2 * limit - 1
          PROVE  /\ i < limit - fst => p[fst + i] \in Element \cup {Q!Garbage}
                 /\ ~(i < limit - fst) /\ i < limit => p[i - (limit - fst)] \in Element \cup {Q!Garbage}
      BY <1>1
    <3> QED BY <2>1, <3>1 DEF Q!Resized
  <2>3. RingInv'
    BY <1>1, <2>1, <2>2 DEF RingInv
  <2>4. Held = limit - 1 /\ Held' = limit
    BY <1>1, <1>2, <1>3, <2>1 DEF Held
  <2>5. ASSUME NEW i \in 1 .. limit
        PROVE  /\ At(i)' = i - 1
               /\ q'[i - 1] = IF i = limit THEN x ELSE q[At(i)]
    <3>1. At(i)' = i - 1
      BY <1>1, <2>1 DEF At
    <3>2. q'[i - 1] = IF i - 1 < limit - fst THEN p[fst + i - 1] ELSE p[i - 1 - (limit - fst)]
      BY <1>1, <2>1 DEF Q!Resized
    <3>3. At(i) \in 0 .. limit - 1 /\ q'[i - 1] = p[At(i)]
      BY <1>1, <3>2 DEF At
    <3>4. At(i) = lst <=> i = limit
      BY <1>1, <1>2, <1>3 DEF At
    <3> QED BY <1>1, <3>1, <3>3, <3>4
  <2>6. Q!Elements = [i \in 1 .. limit - 1 |-> q[At(i)]]
    BY <2>4, RingIs
  <2>7. Q!Elements' = [i \in 1 .. limit |-> q'[At(i)']]
    <3>1. (Q!Elements = [i \in 1 .. Held |-> q[At(i)]])'
      BY <2>3, RingIs, PTL
    <3> QED BY <3>1, <2>4
  <2>8. Q!Elements' = [i \in 1 .. limit |-> IF i = limit THEN x ELSE q[At(i)]]
    BY <2>5, <2>7
  <2> QED BY <1>1, <2>3, <2>6, <2>8
<1>4. CASE Q!Move(lst) # fst
  <2>1. q' = p /\ lst' = Q!Move(lst) /\ fst' = fst /\ limit' = limit
    BY <1>4 DEF Q!Push, p
  <2>2. RingInv'
    BY <1>1, <1>2, <2>1 DEF RingInv
  <2>3. Held' = Held + 1 /\ Held \in 0 .. limit - 2
    BY <1>1, <1>2, <1>4, <2>1 DEF Held
  <2>4. ASSUME NEW i \in 1 .. Held + 1
        PROVE  At(i)' = At(i) /\ q'[At(i)] = IF i = Held + 1 THEN x ELSE q[At(i)]
    <3>1. At(i)' = At(i)
      BY <2>1 DEF At
    <3>2. At(i) \in 0 .. limit - 1
      BY <1>1, <2>3 DEF At
    <3>3. At(i) = lst <=> i = Held + 1
      BY <1>1, <1>2, <1>4, <2>3 DEF At, Held
    <3> QED BY <1>1, <2>1, <3>1, <3>2, <3>3
  <2>5. Q!Elements = [i \in 1 .. Held |-> q[At(i)]]
    BY RingIs
  <2>6. Q!Elements' = [i \in 1 .. Held + 1 |-> q'[At(i)']]
    <3>1. (Q!Elements = [i \in 1 .. Held |-> q[At(i)]])'
      BY <2>2, RingIs, PTL
    <3> QED BY <3>1, <2>3
  <2>7. Q!Elements' = [i \in 1 .. Held + 1 |-> IF i = Held + 1 THEN x ELSE q[At(i)]]
    BY <2>4, <2>6
  <2> QED BY <2>2, <2>3, <2>5, <2>7
<1> QED BY <1>3, <1>4

LEMMA RingPop ==
  ASSUME RingInv, Q!Pop
  PROVE  /\ RingInv' /\ Q!Elements # <<>>
         /\ popped' = <<Head(Q!Elements)>> /\ Q!Elements' = Tail(Q!Elements)
<1>1. /\ limit \in Nat \ {0} /\ fst \in 0 .. limit - 1 /\ lst \in 0 .. limit - 1
      /\ fst # lst /\ popped' = <<q[fst]>> /\ fst' = Q!Move(fst)
      /\ limit' = limit /\ lst' = lst /\ q' = q
  BY DEF RingInv, Q!Pop, Q!Empty
<1>2. Q!Move(fst) = IF fst + 1 = limit THEN 0 ELSE fst + 1
  BY <1>1, RingIs
<1>3. RingInv'
  BY <1>1, <1>2 DEF RingInv
<1>4. Held \in 1 .. limit - 1 /\ Held' = Held - 1
  BY <1>1, <1>2 DEF Held
<1>5. At(1) = fst
  BY <1>1 DEF At
<1>6. \A i \in 1 .. Held - 1 : At(i)' = At(i + 1)
  BY <1>1, <1>2, <1>4 DEF At
<1>7. Q!Elements = [i \in 1 .. Held |-> q[At(i)]]
  BY RingIs
<1>8. Q!Elements' = [i \in 1 .. Held - 1 |-> q[At(i + 1)]]
  <2>1. (Q!Elements = [i \in 1 .. Held |-> q[At(i)]])'
    BY <1>3, RingIs, PTL
  <2> QED BY <2>1, <1>1, <1>4, <1>6
<1>9. Q!Elements # <<>> /\ Head(Q!Elements) = q[fst] /\ Tail(Q!Elements) = [i \in 1 .. Held - 1 |-> q[At(i + 1)]]
  BY <1>4, <1>5, <1>7
<1> QED BY <1>1, <1>3, <1>8, <1>9

(* Elements are popped in the order in which they have been pushed, none is lost or
   popped twice, wherever the oldest one lies when the array is resized and whatever its
   first size: the ring implements a queue (push(), pop() and resize()). *)
THEOREM QueueIsFifo == Q!Spec => FifoSpec
<1>1. Q!Init => RingInv /\ Q!Queue!Init
  <2> SUFFICES ASSUME Q!Init PROVE RingInv /\ Q!Queue!Init
    OBVIOUS
  <2>1. RingInv
    BY DEF Q!Init, RingInv
  <2>2. Held = 0
    BY DEF Q!Init, Held
  <2>3. Q!Elements = <<>>
    BY <2>1, <2>2, RingIs
  <2> QED BY <2>1, <2>3 DEF Q!Init, Q!Queue!Init
<1>2. RingInv /\ [Q!Next]_(Q!vars) => RingInv' /\ [Q!Queue!Next]_<<Q!Elements, popped>>
  <2> SUFFICES ASSUME RingInv, [Q!Next]_(Q!vars) PROVE RingInv' /\ [Q!Queue!Next]_<<Q!Elements, popped>>
    OBVIOUS
  <2>1. CASE UNCHANGED Q!vars
    BY <2>1 DEF Q!vars, RingInv, Q!Elements, Q!Size
  <2>2. CASE Q!Pop
    BY <2>2, RingPop DEF Q!Queue!Next, Q!Queue!Pop
  <2>3. ASSUME NEW x \in Element, Q!Push(x) PROVE RingInv' /\ Q!Queue!Next
    BY <2>3, RingPush DEF Q!Queue!Next, Q!Queue!Push, Q!Push
  <2>4. CASE Q!Reset
    <3>1. RingInv'
      BY <2>4 DEF Q!Reset, RingInv
    <3>2. (Q!Elements = [i \in 1 .. Held |-> q[At(i)]])'
      BY <3>1, RingIs, PTL
    <3>3. Held' = 0
      BY <2>4 DEF Q!Reset, Held
    <3>4. Q!Elements' = <<>>
      BY <3>2, <3>3
    <3> QED BY <2>4, <3>1, <3>4 DEF Q!Reset, Q!Queue!Next, Q!Queue!Reset
  <2> QED BY <2>1, <2>2, <2>3, <2>4 DEF Q!Next
<1>3. Q!Spec => []RingInv
  BY <1>1, <1>2, PTL DEF Q!Spec
<1> QED BY <1>1, <1>2, <1>3, PTL DEF Q!Spec, FifoSpec, Q!FifoSpec, Q!Queue!Spec

-----------------------------------------------------------------------------
(* The global mutexes (gecode/support/thread/thread.cpp) *)
HIDE QueueAssumption DEF Q!QueueAssumption

EnginePoints == {"user", "m_write", "m", "request", "signal", "wait_done", "unlock_write"}
RunnerPoints == {"lock", "serve", "signal", "unlock", "wait"}

MutexTypeInv ==
  /\ m_write \in Engine \cup {None} /\ m \in Engine \cup {Runner, None}
  /\ e \in BOOLEAN /\ e_done \in BOOLEAN
  /\ to_acquire \in Engine \cup {None} /\ to_release \in Engine \cup {None}
  /\ rpc \in RunnerPoints /\ owner \in [Engine -> {Runner, "worker", None}]
  /\ epc \in [Engine -> EnginePoints] /\ op \in [Engine -> {"acquire", "release"}]

(* the two mutexes of the runnable exclude *)
MutexInv ==
  /\ \A x \in Engine : /\ m_write = x <=> epc[x] \notin {"user", "m_write"}
                       /\ m = x <=> epc[x] = "request"
  /\ m = Runner <=> rpc \in {"serve", "signal", "unlock"}

(* an engine that has made its request and not yet been told that it is done *)
Waiting(x) == epc[x] \in {"signal", "wait_done"}
Pending(x) == to_acquire = x \/ to_release = x

(* a request is the one of the engine that waits, and while one is pending
   nothing is reported as done *)
RequestInv ==
  /\ \A x \in Engine : Pending(x) => Waiting(x) /\ ~e_done /\ rpc # "signal"
  /\ \A x \in Engine : /\ to_acquire = x => op[x] = "acquire" /\ to_release = None
                       /\ to_release = x => op[x] = "release" /\ to_acquire = None
  /\ e_done \/ rpc = "signal" =>
       /\ to_acquire = None /\ to_release = None
       /\ \E x \in Engine : Waiting(x)
  /\ ~(e_done /\ rpc = "signal")

(* whether the runner holds the mutex of an engine: as the last call asked, or, until
   the present one has been served, as the one before *)
Unserved(x) == epc[x] \in {"m_write", "m", "request"} \/ Pending(x)
OwnerInv ==
  \A x \in Engine : owner[x] = Runner <=> (op[x] = "acquire" <=> ~Unserved(x))

MutexesInv == MutexTypeInv /\ MutexInv /\ RequestInv /\ OwnerInv

USE EngineAssumption DEF None, Runner

LEMMA MutexesInitOK == Init => MutexesInv
<1> SUFFICES ASSUME Init PROVE MutexesInv
  OBVIOUS
<1>1. MutexTypeInv
  BY DEF Init, MutexTypeInv, EnginePoints, RunnerPoints
<1>2. MutexInv /\ RequestInv
  BY DEF Init, MutexInv, RequestInv, Pending
<1>3. OwnerInv
  BY DEF Init, OwnerInv, Pending, Unserved
<1> QED BY <1>1, <1>2, <1>3 DEF MutexesInv

LEMMA EngineCallOK ==
  ASSUME MutexesInv, NEW x \in Engine, Call(x) \/ LockWrite(x) \/ Lock(x)
  PROVE  MutexesInv'
<1>1. CASE Call(x)
  BY <1>1 DEF Call, Goes, MutexesInv, MutexTypeInv, MutexInv, RequestInv, OwnerInv, Pending, Waiting,
  Unserved, requests, EnginePoints, RunnerPoints
<1>2. CASE LockWrite(x)
  BY <1>2 DEF LockWrite, Goes, MutexesInv, MutexTypeInv, MutexInv, RequestInv, OwnerInv, Pending, Waiting,
  Unserved, requests, EnginePoints, RunnerPoints
<1>3. CASE Lock(x)
  BY <1>3 DEF Lock, Goes, MutexesInv, MutexTypeInv, MutexInv, RequestInv, OwnerInv, Pending, Waiting,
  Unserved, requests, EnginePoints, RunnerPoints
<1> QED BY <1>1, <1>2, <1>3

LEMMA EngineCallingOK ==
  ASSUME MutexesInv, NEW x \in Engine, Calling(x)
  PROVE  MutexesInv'
<1>1. CASE Request(x)
  BY <1>1 DEF Request, Goes, MutexesInv, MutexTypeInv, MutexInv, RequestInv, OwnerInv, Pending, Waiting,
  Unserved, requests, EnginePoints, RunnerPoints
<1>2. CASE Signal(x)
  BY <1>2 DEF Signal, Goes, MutexesInv, MutexTypeInv, MutexInv, RequestInv, OwnerInv, Pending, Waiting,
  Unserved, requests, EnginePoints, RunnerPoints
<1>3. CASE WaitDone(x)
  BY <1>3 DEF WaitDone, Goes, MutexesInv, MutexTypeInv, MutexInv, RequestInv, OwnerInv, Pending, Waiting,
  Unserved, requests, EnginePoints, RunnerPoints
<1>4. CASE UnlockWrite(x)
  BY <1>4 DEF UnlockWrite, Goes, MutexesInv, MutexTypeInv, MutexInv, RequestInv, OwnerInv, Pending, Waiting,
  Unserved, requests, EnginePoints, RunnerPoints
<1> QED BY <1>1, <1>2, <1>3, <1>4 DEF Calling

LEMMA RunnerOK ==
  ASSUME MutexesInv, RunLocking \/ Running
  PROVE  MutexesInv'
<1>1. CASE RunLock
  BY <1>1 DEF RunLock, Runs, MutexesInv, MutexTypeInv, MutexInv, RequestInv, OwnerInv, Pending, Waiting,
  Unserved, requests, EnginePoints, RunnerPoints
<1>2. CASE AcquireGlobal
  BY <1>2 DEF AcquireGlobal, Runs, MutexesInv, MutexTypeInv, MutexInv, RequestInv, OwnerInv, Pending,
  Waiting, Unserved, requests, EnginePoints, RunnerPoints
<1>3. CASE ReleaseGlobal
  BY <1>3 DEF ReleaseGlobal, Runs, MutexesInv, MutexTypeInv, MutexInv, RequestInv, OwnerInv, Pending,
  Waiting, Unserved, requests, EnginePoints, RunnerPoints
<1>4. CASE NoRequest
  BY <1>4 DEF NoRequest, Runs, MutexesInv, MutexTypeInv, MutexInv, RequestInv, OwnerInv, Pending,
  Waiting, Unserved, requests, EnginePoints, RunnerPoints
<1>5. CASE RunUnlock
  BY <1>5 DEF RunUnlock, Runs, MutexesInv, MutexTypeInv, MutexInv, RequestInv, OwnerInv, Pending,
  Waiting, Unserved, requests, EnginePoints, RunnerPoints
<1>6. CASE RunWait
  BY <1>6 DEF RunWait, Runs, MutexesInv, MutexTypeInv, MutexInv, RequestInv, OwnerInv, Pending,
  Waiting, Unserved, requests, EnginePoints, RunnerPoints
<1>7. CASE SignalDone
  <2>1. MutexTypeInv' /\ MutexInv' /\ OwnerInv'
    BY <1>7 DEF SignalDone, Runs, MutexesInv, MutexTypeInv, MutexInv, OwnerInv, Pending, Unserved,
    requests, RunnerPoints
  <2>2. RequestInv'
    BY <1>7 DEF SignalDone, Runs, MutexesInv, RequestInv, Pending, Waiting, requests
  <2> QED BY <2>1, <2>2 DEF MutexesInv
<1> QED BY <1>1, <1>2, <1>3, <1>4, <1>5, <1>6, <1>7 DEF RunLocking, Running

LEMMA EngineWorkerOK ==
  ASSUME MutexesInv, NEW x \in Engine, WorkerAcquires(x) \/ WorkerReleases(x)
  PROVE  MutexesInv'
BY DEF WorkerAcquires, WorkerReleases, MutexesInv, MutexTypeInv, MutexInv, RequestInv, OwnerInv, Pending,
  Waiting, Unserved, requests, EnginePoints, RunnerPoints

(* What the runner does about the engine that waits: as long as its request is pending
   the runner has not gone past it, or will be woken; then it says that it is done. *)
ServedInv ==
  /\ rpc = "unlock" => to_acquire = None /\ to_release = None
  /\ \A x \in Engine : Waiting(x) =>
       IF Pending(x) THEN epc[x] = "signal" \/ e \/ rpc \in {"lock", "serve"}
       ELSE e_done \/ rpc = "signal"

LEMMA ServedOK == MutexesInv /\ ServedInv /\ [Next]_vars => ServedInv'
<1> SUFFICES ASSUME MutexesInv, ServedInv, [Next]_vars PROVE ServedInv'
  OBVIOUS
<1> USE DEF MutexesInv, MutexTypeInv, MutexInv, RequestInv, ServedInv, Pending, Waiting, requests,
            EnginePoints, RunnerPoints
<1>1. ASSUME NEW x \in Engine, Call(x) \/ LockWrite(x) \/ Lock(x)
      PROVE  ServedInv'
  BY <1>1 DEF Call, LockWrite, Lock, Goes
<1>2. ASSUME NEW x \in Engine, Request(x)
      PROVE  ServedInv'
  BY <1>2 DEF Request, Goes
<1>3. ASSUME NEW x \in Engine, Signal(x)
      PROVE  ServedInv'
  BY <1>3 DEF Signal, Goes
<1>4. ASSUME NEW x \in Engine, WaitDone(x) \/ UnlockWrite(x)
      PROVE  ServedInv'
  BY <1>4 DEF WaitDone, UnlockWrite, Goes
<1>5. CASE RunLock \/ NoRequest \/ RunUnlock \/ RunWait
  BY <1>5 DEF RunLock, NoRequest, RunUnlock, RunWait, Runs
<1>6. CASE AcquireGlobal \/ ReleaseGlobal
  BY <1>6 DEF AcquireGlobal, ReleaseGlobal, Runs
<1>7. CASE SignalDone
  BY <1>7 DEF SignalDone, Runs
<1>8. ASSUME NEW x \in Engine, WorkerAcquires(x) \/ WorkerReleases(x)
      PROVE  ServedInv'
  BY <1>8 DEF WorkerAcquires, WorkerReleases
<1>9. CASE UNCHANGED vars
  BY <1>9 DEF vars
<1> QED
  BY <1>1, <1>2, <1>3, <1>4, <1>5, <1>6, <1>7, <1>8, <1>9
  DEF Next, Locking, Calling, RunLocking, Running

(* An engine whose call has returned has what it asked for, no request is overwritten,
   the runner releases only what it holds, and neither an engine nor the runner waits
   for what it would have to do itself, for any number of engines: see GlobalMutexOK. *)
THEOREM GlobalMutexCorrect == Spec => []GlobalMutexOK
<1>1. Init => MutexesInv
  BY MutexesInitOK
<1>2. MutexesInv /\ [Next]_vars => MutexesInv'
  <2> SUFFICES ASSUME MutexesInv, [Next]_vars PROVE MutexesInv'
    OBVIOUS
  <2>1. CASE UNCHANGED vars
    BY <2>1 DEF vars, requests, MutexesInv, MutexTypeInv, MutexInv, RequestInv, OwnerInv, Pending,
    Waiting, Unserved
  <2>2. CASE Next
    BY <2>2, EngineCallOK, EngineCallingOK, RunnerOK, EngineWorkerOK DEF Next, Locking
  <2> QED BY <2>1, <2>2
<1>3. Init => ServedInv
  BY DEF Init, ServedInv, Waiting
<1>4. MutexesInv /\ ServedInv /\ [Next]_vars => ServedInv'
  BY ServedOK
<1>5. MutexesInv /\ ServedInv => GlobalMutexOK
  <2> SUFFICES ASSUME MutexesInv, ServedInv PROVE GlobalMutexOK
    OBVIOUS
  <2>1. /\ \A x \in Engine : Asked(x)
        /\ to_acquire = None \/ to_release = None
        /\ to_release # None => owner[to_release] = Runner
    BY DEF MutexesInv, MutexTypeInv, RequestInv, OwnerInv, Asked, Pending, Waiting, Unserved
  <2>2. to_acquire # None => owner[to_acquire] # Runner
    BY DEF MutexesInv, MutexTypeInv, RequestInv, OwnerInv, Pending, Unserved
  <2>3. \A x \in Engine : epc[x] = "wait_done" => e_done \/ e \/ rpc # "wait"
    BY DEF ServedInv, Waiting
  <2> QED BY <2>1, <2>2, <2>3 DEF GlobalMutexOK, NobodyWaitsForItself
<1> QED BY <1>1, <1>2, <1>3, <1>4, <1>5, PTL DEF Spec
=============================================================================
