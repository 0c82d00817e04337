------------------------------ MODULE GlobalMutex ------------------------------
(***************************************************************************)
(* acquireGlobalMutex() and releaseGlobalMutex(),                          *)
(* gecode/support/thread/thread.cpp: a mutex that is acquired by one       *)
(* thread and released by another is in fact acquired and released by the  *)
(* thread of GlobalMutexRunnable, which is asked for one request at a time *)
(* through two fields and two events.  The clients are the parallel search *)
(* engines (block() and release(), search/par/engine.hpp), each with its   *)
(* own mutex, which its workers acquire in order to wait and release at    *)
(* once (wait()).                                                          *)
(***************************************************************************)
EXTENDS Naturals

CONSTANT Engine

Runner == "runner"
None == "none"
ASSUME EngineAssumption == Runner \notin Engine /\ None \notin Engine

VARIABLES
  m_write,     \* who has _m_write
  m,           \* and who has _m: an engine, Runner, or None
  e, e_done,   \* the events
  to_acquire,  \* the engine whose mutex is to be acquired, or None
  to_release,
  rpc,         \* where run() of the runnable is
  owner,       \* of each engine's mutex: Runner, "worker" or None
  epc,         \* where the call of each engine is, "user" if in none
  op           \* what the engine has called: "release" before the first call,
               \* "acquire" while its mutex should be held by Runner

vars == <<m_write, m, e, e_done, to_acquire, to_release, rpc, owner, epc, op>>
requests == <<to_acquire, to_release>>

Init ==
  /\ m_write = None /\ m = None /\ e = FALSE /\ e_done = FALSE
  /\ to_acquire = None /\ to_release = None
  /\ rpc = "lock" /\ owner = [x \in Engine |-> None]
  /\ epc = [x \in Engine |-> "user"] /\ op = [x \in Engine |-> "release"]

-----------------------------------------------------------------------------
(* acquire(m) and release(m): the same but for the field that is set.  An engine
   calls them in turn, block() in its constructor first. *)

Goes(x, from, where) == epc[x] = from /\ epc' = [epc EXCEPT ![x] = where]

Call(x) ==
  /\ Goes(x, "user", "m_write")
  /\ op' = [op EXCEPT ![x] = IF @ = "acquire" THEN "release" ELSE "acquire"]
  /\ UNCHANGED <<m_write, m, e, e_done, requests, rpc, owner>>

(* mutant: _m_write is not used *)
LockWriteNot(x) ==
  /\ Goes(x, "m_write", "m")
  /\ UNCHANGED <<m_write, m, e, e_done, requests, rpc, owner, op>>

LockWrite(x) ==
  /\ m_write = None /\ Goes(x, "m_write", "m")
  /\ m_write' = x
  /\ UNCHANGED <<m, e, e_done, requests, rpc, owner, op>>

Lock(x) ==
  /\ m = None /\ Goes(x, "m", "request")
  /\ m' = x
  /\ UNCHANGED <<m_write, e, e_done, requests, rpc, owner, op>>

Request(x) ==
  /\ Goes(x, "request", "signal")
  /\ IF op[x] = "acquire" THEN to_acquire' = x /\ UNCHANGED to_release
     ELSE to_release' = x /\ UNCHANGED to_acquire
  /\ m' = None
  /\ UNCHANGED <<m_write, e, e_done, rpc, owner, op>>

Signal(x) ==
  /\ Goes(x, "signal", "wait_done")
  /\ e' = TRUE
  /\ UNCHANGED <<m_write, m, e_done, requests, rpc, owner, op>>

WaitDone(x) ==
  /\ e_done /\ Goes(x, "wait_done", "unlock_write")
  /\ e_done' = FALSE
  /\ UNCHANGED <<m_write, m, e, requests, rpc, owner, op>>

UnlockWrite(x) ==
  /\ Goes(x, "unlock_write", "user")
  /\ m_write' = None
  /\ UNCHANGED <<m, e, e_done, requests, rpc, owner, op>>

-----------------------------------------------------------------------------
(* GlobalMutexRunnable::run() *)

Runs(from, where) == rpc = from /\ rpc' = where

RunLock ==
  /\ m = None /\ Runs("lock", "serve")
  /\ m' = Runner
  /\ UNCHANGED <<m_write, e, e_done, requests, owner, epc, op>>

(* the runner keeps _m while it waits for the mutex of the engine *)
AcquireGlobal ==
  /\ to_acquire # None /\ owner[to_acquire] = None
  /\ Runs("serve", "signal")
  /\ owner' = [owner EXCEPT ![to_acquire] = Runner]
  /\ to_acquire' = None
  /\ UNCHANGED <<m_write, m, e, e_done, to_release, epc, op>>

ReleaseGlobal ==
  /\ to_acquire = None /\ to_release # None
  /\ Runs("serve", "signal")
  /\ owner' = [owner EXCEPT ![to_release] = None]
  /\ to_release' = None
  /\ UNCHANGED <<m_write, m, e, e_done, to_acquire, epc, op>>

NoRequest ==
  /\ to_acquire = None /\ to_release = None
  /\ Runs("serve", "unlock")
  /\ UNCHANGED <<m_write, m, e, e_done, requests, owner, epc, op>>

SignalDone ==
  /\ Runs("signal", "unlock")
  /\ e_done' = TRUE
  /\ UNCHANGED <<m_write, m, e, requests, owner, epc, op>>

RunUnlock ==
  /\ Runs("unlock", "wait")
  /\ m' = None
  /\ UNCHANGED <<m_write, e, e_done, requests, owner, epc, op>>

RunWait ==
  /\ e /\ Runs("wait", "lock")
  /\ e' = FALSE
  /\ UNCHANGED <<m_write, m, e_done, requests, owner, epc, op>>

-----------------------------------------------------------------------------
(* wait() of a worker, again and again while the command is to wait *)
WorkerAcquires(x) ==
  /\ owner[x] = None
  /\ owner' = [owner EXCEPT ![x] = "worker"]
  /\ UNCHANGED <<m_write, m, e, e_done, requests, rpc, epc, op>>

WorkerReleases(x) ==
  /\ owner[x] = "worker"
  /\ owner' = [owner EXCEPT ![x] = None]
  /\ UNCHANGED <<m_write, m, e, e_done, requests, rpc, epc, op>>

Locking(x) == LockWrite(x) \/ Lock(x)
Calling(x) == Request(x) \/ Signal(x) \/ WaitDone(x) \/ UnlockWrite(x)
RunLocking == RunLock \/ AcquireGlobal
Running == ReleaseGlobal \/ NoRequest \/ SignalDone \/ RunUnlock \/ RunWait

Next ==
  \/ \E x \in Engine : \/ Call(x) \/ Locking(x) \/ Calling(x)
                       \/ WorkerAcquires(x) \/ WorkerReleases(x)
  \/ RunLocking \/ Running

(* Threads are scheduled, nobody who waits for a mutex waits forever for one that
   is free again and again, and workers release what they acquire. *)
Fairness ==
  /\ \A x \in Engine : /\ SF_vars(Locking(x)) /\ WF_vars(Calling(x))
                       /\ WF_vars(WorkerReleases(x))
  /\ SF_vars(RunLocking) /\ WF_vars(Running)

Spec == Init /\ [][Next]_vars /\ Fairness

-----------------------------------------------------------------------------
(* An engine whose call has returned has what it asked for: after block() its mutex
   is held by the runner, so that workers wait, after release() it is not; the runner
   releases only what it holds; and a request is never overwritten or served for
   another engine (GlobalMutexRunnable::acquire(), release() and run()).  Nobody waits
   for itself: an engine that waits to be told that its request is done finds the runner
   awake, or its event signalled, and the runner, which keeps _m while it acquires a
   mutex, does not hold that mutex already. *)
Asked(x) ==
  epc[x] \in {"unlock_write", "user"} => (owner[x] = Runner <=> op[x] = "acquire")
NobodyWaitsForItself ==
  /\ \A x \in Engine : epc[x] = "wait_done" => e_done \/ e \/ rpc # "wait"
  /\ to_acquire # None => owner[to_acquire] # Runner
GlobalMutexOK ==
  /\ \A x \in Engine : Asked(x)
  /\ to_acquire = None \/ to_release = None
  /\ to_release # None => owner[to_release] = Runner
  /\ NobodyWaitsForItself

(* Every call returns, although the runner keeps its own mutex while it acquires
   that of an engine, one event stands for all requests, and the first request may
   be served before it is signalled (thread.cpp, run()). *)
GlobalCallsReturn == \A x \in Engine : epc[x] # "user" ~> epc[x] = "user"
=============================================================================
