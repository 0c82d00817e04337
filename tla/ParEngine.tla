----------------------------- MODULE ParEngine -----------------------------
(***************************************************************************)
(* The control plane of the parallel search engines of                     *)
(* gecode/search/par: the engine (the thread that calls next, reset,       *)
(* nogoods and the destructor) against its workers, one thread each.       *)
(*                                                                         *)
(* What a worker explores is abstract here: an exploration step either     *)
(* goes on, reports a solution, is stopped, or finds no work left, and a   *)
(* worker that is not idle may be robbed.  ParDFS conjoins the search tree *)
(* to every action of this module.                                         *)
(*                                                                         *)
(* Grain of atomicity: one action per critical section (m_search, _m_term, *)
(* _m_reset, a worker's m), per atomic load or store of _cmd, per blocking *)
(* operation.  A Mutex nobody holds across such steps is left implicit;    *)
(* _m_wait, m_wait_reset and _m_wait_terminate are held across steps, by   *)
(* the engine only, and are Booleans: TRUE when the engine holds them.     *)
(***************************************************************************)
EXTENDS Integers, Sequences, FiniteSets, Spaces

CONSTANTS
  NWorkers,   \* opt().threads
  Solution,   \* identities of the spaces that are passed around
  MaxQueue    \* bound: a solution is found only while fewer are queued

ASSUME NWorkersAssumption == NWorkers \in Nat \ {0}
ASSUME SolutionAssumption == Solution # {} /\ NoSpace \notin Solution
ASSUME MaxQueueAssumption == MaxQueue \in Nat \ {0}

Worker == 0 .. NWorkers-1

VARIABLES
  (* what the engine shares with its workers *)
  cmd,              \* _cmd: the command the workers poll
  mWait,            \* _m_wait is held (by the engine)
  nBusy,            \* n_busy
  solutions,        \* the queue of solutions
  hasStopped,       \* has_stopped
  eSearch,          \* Event e_search
  mWaitReset,       \* m_wait_reset is held
  nResetNotAck,     \* _n_reset_not_ack
  eResetStart,      \* Event e_reset_ack_start
  eResetStop,       \* Event e_reset_ack_stop
  mWaitTerminate,   \* _m_wait_terminate is held
  nTermNotAck,      \* _n_term_not_ack
  nNotTerminated,   \* _n_not_terminated
  eTermAck,         \* Event _e_term_ack
  eTerminate,       \* Event _e_terminate
  (* threads *)
  epc,              \* control point of the engine's thread
  ret,              \* what the last next() returned
  wpc,              \* control point of every worker
  idle,             \* the idle flag of every worker
  victim,           \* loop index of find()
  hand              \* solution to be reported, or space just stolen

searchVars == <<nBusy, solutions, hasStopped, eSearch>>
resetVars  == <<mWaitReset, nResetNotAck, eResetStart, eResetStop>>
termVars   == <<mWaitTerminate, nTermNotAck, nNotTerminated, eTermAck, eTerminate>>
workerVars == <<wpc, idle, victim, hand>>
vars == <<cmd, mWait, searchVars, resetVars, termVars, epc, ret, workerVars>>

EnginePC ==
  {"user", "destroyed"}
    \cup {"next_cmd", "next_release", "next_wait", "next_check", "next_block", "next_lock"}
    \cup {"reset_cmd", "reset_release", "reset_wait", "reset_do", "nogoods_do",
          "reset_block", "reset_lock", "reset_unlock", "reset_end"}
    \cup {"nogoods_cmd", "nogoods_release", "nogoods_wait"}
    \cup {"term_cmd", "term_release", "term_wait", "term_unlock", "term_end"}

WorkerPC ==
  {"loop", "wait", "work", "find", "busy", "take", "solution", "stop", "idle",
   "reset_ack", "reset_wait", "reset_stop",
   "term_ack", "term_wait", "delete", "terminated", "term_signal", "gone"}

FlagsOK ==
  /\ mWait \in BOOLEAN /\ hasStopped \in BOOLEAN /\ eSearch \in BOOLEAN
  /\ mWaitReset \in BOOLEAN /\ eResetStart \in BOOLEAN /\ eResetStop \in BOOLEAN
  /\ mWaitTerminate \in BOOLEAN /\ eTermAck \in BOOLEAN /\ eTerminate \in BOOLEAN
  /\ idle \in [Worker -> BOOLEAN]

CountsOK ==
  /\ nBusy \in Int /\ nResetNotAck \in Int
  /\ nTermNotAck \in Int /\ nNotTerminated \in Int
  /\ victim \in [Worker -> 0..NWorkers]

ControlOK ==
  /\ cmd \in {"work", "wait", "reset", "terminate"}
  /\ epc \in EnginePC
  /\ wpc \in [Worker -> WorkerPC]

SpacesOK ==
  /\ solutions \in Seq(Solution)
  /\ ret \in Solution \cup {NoSpace}
  /\ hand \in [Worker -> Solution \cup {NoSpace}]
  /\ \A w \in Worker : wpc[w] \in {"solution", "busy", "take"} => hand[w] \in Solution

(* Every variable has its type, and a worker that reports a solution or has
   stolen a space holds one. *)
TypeOK == FlagsOK /\ CountsOK /\ ControlOK /\ SpacesOK

(***************************************************************************)
(* The constructor: every counter is workers(), block() has been called,   *)
(* and the threads are about to enter run().                               *)
(***************************************************************************)
Init ==
  /\ cmd = "wait" /\ mWait = TRUE
  /\ nBusy = NWorkers /\ solutions = <<>> /\ hasStopped = FALSE /\ eSearch = FALSE
  /\ mWaitReset = FALSE /\ nResetNotAck = NWorkers
  /\ eResetStart = FALSE /\ eResetStop = FALSE
  /\ mWaitTerminate = FALSE /\ nTermNotAck = NWorkers /\ nNotTerminated = NWorkers
  /\ eTermAck = FALSE /\ eTerminate = FALSE
  /\ epc = "user" /\ ret = NoSpace
  /\ wpc = [w \in Worker |-> "loop"]
  /\ idle = [w \in Worker |-> FALSE]
  /\ victim = [w \in Worker |-> 0]
  /\ hand = [w \in Worker |-> NoSpace]

(* signal(): a search event that the engine has not been told yet *)
Signal == solutions = <<>> /\ nBusy > 0 /\ ~hasStopped

-----------------------------------------------------------------------------
(***************************************************************************)
(* The engine's thread.                                                    *)
(***************************************************************************)
EGoto(from, to) == epc = from /\ epc' = to

(* next(): take a leftover solution, or see that nobody works any more, or
   clear has_stopped and go on to release the workers *)
NextCall ==
  /\ epc = "user"
  /\ \/ /\ solutions # <<>>
        /\ ret' = Head(solutions) /\ solutions' = Tail(solutions)
        /\ UNCHANGED <<epc, hasStopped>>
     \/ /\ solutions = <<>> /\ nBusy = 0
        /\ hasStopped' = FALSE /\ ret' = NoSpace
        /\ UNCHANGED <<epc, solutions>>
     \/ /\ solutions = <<>> /\ nBusy # 0
        /\ hasStopped' = FALSE /\ epc' = "next_cmd"
        /\ UNCHANGED <<ret, solutions>>
  /\ UNCHANGED <<cmd, mWait, nBusy, eSearch, resetVars, termVars, workerVars>>

(* the first half of release(c) and of block(): the store to _cmd *)
SetCmd(from, c, to) ==
  /\ EGoto(from, to)
  /\ cmd' = c
  /\ UNCHANGED <<mWait, searchVars, resetVars, termVars, ret, workerVars>>

(* the second half of release(c): releaseGlobalMutex(&_m_wait) *)
ReleaseWait(from, to) ==
  /\ EGoto(from, to)
  /\ mWait' = FALSE
  /\ UNCHANGED <<cmd, searchVars, resetVars, termVars, ret, workerVars>>

(* the second half of block(): acquireGlobalMutex(&_m_wait) *)
AcquireWait(from, to) ==
  /\ EGoto(from, to)
  /\ ~mWait /\ mWait' = TRUE
  /\ UNCHANGED <<cmd, searchVars, resetVars, termVars, ret, workerVars>>

NextWait ==
  /\ EGoto("next_wait", "next_check")
  /\ eSearch /\ eSearch' = FALSE
  /\ UNCHANGED <<cmd, mWait, nBusy, solutions, hasStopped, resetVars, termVars, ret, workerVars>>

(* the body of the while loop of next(), under m_search *)
NextCheck ==
  /\ epc = "next_check"
  /\ \/ /\ solutions # <<>>
        /\ ret' = Head(solutions) /\ solutions' = Tail(solutions)
        /\ epc' = "next_block"
     \/ /\ solutions = <<>> /\ (nBusy = 0 \/ hasStopped)
        /\ ret' = NoSpace
        /\ epc' = "next_block"
        /\ UNCHANGED solutions
     \/ /\ solutions = <<>> /\ nBusy # 0 /\ ~hasStopped
        /\ epc' = "next_wait"
        /\ UNCHANGED <<ret, solutions>>
  /\ UNCHANGED <<cmd, mWait, nBusy, hasStopped, eSearch, resetVars, termVars, workerVars>>

EngineNext ==
  \/ NextCall
  \/ SetCmd("next_cmd", "work", "next_release")
  \/ ReleaseWait("next_release", "next_wait")
  \/ NextWait
  \/ NextCheck
  \/ SetCmd("next_block", "wait", "next_lock")
  \/ AcquireWait("next_lock", "user")

(* m_wait_reset.acquire(), the first step of reset() and of nogoods() *)
ResetCall(to) ==
  /\ EGoto("user", to)
  /\ ~mWaitReset /\ mWaitReset' = TRUE
  /\ UNCHANGED <<cmd, mWait, searchVars, nResetNotAck, eResetStart, eResetStop,
                 termVars, ret, workerVars>>

ResetWait(from, to) ==
  /\ EGoto(from, to)
  /\ eResetStart /\ eResetStart' = FALSE
  /\ UNCHANGED <<cmd, mWait, searchVars, mWaitReset, nResetNotAck, eResetStop,
                 termVars, ret, workerVars>>

(* mutant: the number of busy workers is not reset *)
ResetDoStaleCount ==
  /\ EGoto("reset_do", "reset_block")
  /\ nBusy' = nBusy
  /\ idle' = [w \in Worker |-> FALSE]
  /\ UNCHANGED <<cmd, mWait, solutions, hasStopped, eSearch, resetVars, termVars, ret,
                 wpc, victim, hand>>

(* reset() proper: every worker busy again, its path, cur and idle cleared.
   The queue of solutions is left as it is. *)
ResetDo ==
  /\ EGoto("reset_do", "reset_block")
  /\ nBusy' = NWorkers
  /\ idle' = [w \in Worker |-> FALSE]
  /\ UNCHANGED <<cmd, mWait, solutions, hasStopped, eSearch, resetVars, termVars, ret,
                 wpc, victim, hand>>

(* nogoods() only takes the address of worker 0's path *)
NogoodsDo ==
  /\ EGoto("nogoods_do", "reset_block")
  /\ UNCHANGED <<cmd, mWait, searchVars, resetVars, termVars, ret, workerVars>>

ResetUnlock ==
  /\ EGoto("reset_unlock", "reset_end")
  /\ mWaitReset' = FALSE
  /\ UNCHANGED <<cmd, mWait, searchVars, nResetNotAck, eResetStart, eResetStop,
                 termVars, ret, workerVars>>

ResetEnd ==
  /\ EGoto("reset_end", "user")
  /\ eResetStop /\ eResetStop' = FALSE
  /\ UNCHANGED <<cmd, mWait, searchVars, mWaitReset, nResetNotAck, eResetStart,
                 termVars, ret, workerVars>>

EngineReset ==
  \/ ResetCall("reset_cmd") \/ ResetCall("nogoods_cmd")
  \/ SetCmd("reset_cmd", "reset", "reset_release")
  \/ SetCmd("nogoods_cmd", "reset", "nogoods_release")
  \/ ReleaseWait("reset_release", "reset_wait")
  \/ ReleaseWait("nogoods_release", "nogoods_wait")
  \/ ResetWait("reset_wait", "reset_do") \/ ResetWait("nogoods_wait", "nogoods_do")
  \/ ResetDo \/ NogoodsDo
  \/ SetCmd("reset_block", "wait", "reset_lock")
  \/ AcquireWait("reset_lock", "reset_unlock")
  \/ ResetUnlock
  \/ ResetEnd

(* terminate(), called by the destructor *)
TermCall ==
  /\ EGoto("user", "term_cmd")
  /\ ~mWaitTerminate /\ mWaitTerminate' = TRUE
  /\ UNCHANGED <<cmd, mWait, searchVars, resetVars, nTermNotAck, nNotTerminated,
                 eTermAck, eTerminate, ret, workerVars>>

TermWait ==
  /\ EGoto("term_wait", "term_unlock")
  /\ eTermAck /\ eTermAck' = FALSE
  /\ UNCHANGED <<cmd, mWait, searchVars, resetVars, mWaitTerminate, nTermNotAck,
                 nNotTerminated, eTerminate, ret, workerVars>>

TermUnlock ==
  /\ EGoto("term_unlock", "term_end")
  /\ mWaitTerminate' = FALSE
  /\ UNCHANGED <<cmd, mWait, searchVars, resetVars, nTermNotAck, nNotTerminated,
                 eTermAck, eTerminate, ret, workerVars>>

(* terminate() returns and the engine is destroyed, leftover solutions with it *)
TermEnd ==
  /\ EGoto("term_end", "destroyed")
  /\ eTerminate /\ eTerminate' = FALSE
  /\ solutions' = <<>>
  /\ UNCHANGED <<cmd, mWait, nBusy, hasStopped, eSearch, resetVars, mWaitTerminate,
                 nTermNotAck, nNotTerminated, eTermAck, ret, workerVars>>

EngineTerm ==
  \/ TermCall
  \/ SetCmd("term_cmd", "terminate", "term_release")
  \/ ReleaseWait("term_release", "term_wait")
  \/ TermWait
  \/ TermUnlock
  \/ TermEnd

Engine == EngineNext \/ EngineReset \/ EngineTerm

-----------------------------------------------------------------------------
(***************************************************************************)
(* A worker's thread.                                                      *)
(***************************************************************************)
WGoto(w, from, to) == wpc[w] = from /\ wpc' = [wpc EXCEPT ![w] = to]

(* the switch on cmd() at the head of run() *)
PollTarget == [work |-> "work", wait |-> "wait", reset |-> "reset_ack", terminate |-> "term_ack"]

Poll(w) ==
  /\ WGoto(w, "loop", PollTarget[cmd])
  /\ UNCHANGED <<cmd, mWait, searchVars, resetVars, termVars, epc, ret, idle, victim, hand>>

(* wait(): acquire and release _m_wait *)
Wait(w) ==
  /\ ~mWait
  /\ WGoto(w, "wait", "loop")
  /\ UNCHANGED <<cmd, mWait, searchVars, resetVars, termVars, epc, ret, idle, victim, hand>>

(* one exploration step under m that leaves the worker busy: a failed or a
   branching node, or a recomputation *)
Explore(w) ==
  /\ ~idle[w]
  /\ WGoto(w, "work", "loop")
  /\ UNCHANGED <<cmd, mWait, searchVars, resetVars, termVars, epc, ret, idle, victim, hand>>

(* the stop object says so *)
Stopped(w) ==
  /\ ~idle[w]
  /\ WGoto(w, "work", "stop")
  /\ UNCHANGED <<cmd, mWait, searchVars, resetVars, termVars, epc, ret, idle, victim, hand>>

(* a solved node: its clone s is in the worker's hand, m is released *)
Solved(w, s) ==
  /\ ~idle[w]
  /\ Len(solutions) < MaxQueue
  /\ WGoto(w, "work", "solution")
  /\ hand' = [hand EXCEPT ![w] = s]
  /\ UNCHANGED <<cmd, mWait, searchVars, resetVars, termVars, epc, ret, idle, victim>>

(* no current space and an empty path: the worker marks itself idle *)
RunDry(w) ==
  /\ ~idle[w]
  /\ WGoto(w, "work", "idle")
  /\ idle' = [idle EXCEPT ![w] = TRUE]
  /\ UNCHANGED <<cmd, mWait, searchVars, resetVars, termVars, epc, ret, victim, hand>>

(* mutant: signal() is evaluated after the solution has been queued *)
ReportSolutionLateSignal(w) ==
  /\ WGoto(w, "solution", "loop")
  /\ solutions' = Append(solutions, hand[w])
  /\ eSearch' = (eSearch \/ Signal')
  /\ hand' = [hand EXCEPT ![w] = NoSpace]
  /\ UNCHANGED <<cmd, mWait, nBusy, hasStopped, resetVars, termVars, epc, ret, idle, victim>>

(* solution(s), idle() and stop() of the engine: one m_search section each *)
ReportSolution(w) ==
  /\ WGoto(w, "solution", "loop")
  /\ solutions' = Append(solutions, hand[w])
  /\ eSearch' = (eSearch \/ Signal)
  /\ hand' = [hand EXCEPT ![w] = NoSpace]
  /\ UNCHANGED <<cmd, mWait, nBusy, hasStopped, resetVars, termVars, epc, ret, idle, victim>>

(* solution(s) of branch-and-bound search, where s has been overtaken *)
DiscardSolution(w) ==
  /\ WGoto(w, "solution", "loop")
  /\ hand' = [hand EXCEPT ![w] = NoSpace]
  /\ UNCHANGED <<cmd, mWait, searchVars, resetVars, termVars, epc, ret, idle, victim>>

(* mutant: the last worker to become idle does not signal *)
ReportIdleSilent(w) ==
  /\ WGoto(w, "idle", "loop")
  /\ nBusy' = nBusy - 1
  /\ UNCHANGED <<cmd, mWait, solutions, hasStopped, eSearch, resetVars, termVars, epc, ret,
                 idle, victim, hand>>

ReportIdle(w) ==
  /\ WGoto(w, "idle", "loop")
  /\ nBusy' = nBusy - 1
  /\ eSearch' = (eSearch \/ (Signal /\ nBusy - 1 = 0))
  /\ UNCHANGED <<cmd, mWait, solutions, hasStopped, resetVars, termVars, epc, ret,
                 idle, victim, hand>>

ReportStop(w) ==
  /\ WGoto(w, "stop", "loop")
  /\ hasStopped' = TRUE
  /\ eSearch' = (eSearch \/ Signal)
  /\ UNCHANGED <<cmd, mWait, nBusy, solutions, resetVars, termVars, epc, ret,
                 idle, victim, hand>>

(* find(): an idle worker asks every worker in turn, itself included *)
StartFind(w) ==
  /\ idle[w]
  /\ WGoto(w, "work", "find")
  /\ victim' = [victim EXCEPT ![w] = 0]
  /\ UNCHANGED <<cmd, mWait, searchVars, resetVars, termVars, epc, ret, idle, hand>>

(* mutant: the loop of find() runs one worker too far *)
StealNothingOffByOne(w) ==
  /\ wpc[w] = "find" /\ victim[w] <= NWorkers
  /\ victim' = [victim EXCEPT ![w] = @ + 1]
  /\ UNCHANGED <<cmd, mWait, searchVars, resetVars, termVars, epc, ret, wpc, idle, hand>>

StealNothing(w) ==
  /\ wpc[w] = "find" /\ victim[w] < NWorkers
  /\ victim' = [victim EXCEPT ![w] = @ + 1]
  /\ UNCHANGED <<cmd, mWait, searchVars, resetVars, termVars, epc, ret, wpc, idle, hand>>

(* the part of steal() that runs under the victim's m; busy() comes after
   the victim's m has been released *)
StealSpace(w, s) ==
  /\ victim[w] < NWorkers /\ ~idle[victim[w]]
  /\ WGoto(w, "find", "busy")
  /\ hand' = [hand EXCEPT ![w] = s]
  /\ UNCHANGED <<cmd, mWait, searchVars, resetVars, termVars, epc, ret, idle, victim>>

FindNothing(w) ==
  /\ victim[w] = NWorkers
  /\ WGoto(w, "find", "loop")
  /\ victim' = [victim EXCEPT ![w] = 0]
  /\ UNCHANGED <<cmd, mWait, searchVars, resetVars, termVars, epc, ret, idle, hand>>

(* busy(), under m_search *)
ReportBusy(w) ==
  /\ WGoto(w, "busy", "take")
  /\ nBusy' = nBusy + 1
  /\ UNCHANGED <<cmd, mWait, solutions, hasStopped, eSearch, resetVars, termVars,
                 epc, ret, idle, victim, hand>>

(* the rest of find(), under the worker's own m *)
Take(w) ==
  /\ WGoto(w, "take", "loop")
  /\ idle' = [idle EXCEPT ![w] = FALSE]
  /\ hand' = [hand EXCEPT ![w] = NoSpace]
  /\ victim' = [victim EXCEPT ![w] = 0]
  /\ UNCHANGED <<cmd, mWait, searchVars, resetVars, termVars, epc, ret>>

(* mutant: the last but one acknowledgement signals e_reset_ack_start *)
AckResetStartOffByOne(w) ==
  /\ WGoto(w, "reset_ack", "reset_wait")
  /\ nResetNotAck' = nResetNotAck - 1
  /\ eResetStart' = (eResetStart \/ nResetNotAck - 1 = 1)
  /\ UNCHANGED <<cmd, mWait, searchVars, mWaitReset, eResetStop, termVars, epc, ret,
                 idle, victim, hand>>

(* ack_reset_start(), wait_reset(), ack_reset_stop() *)
AckResetStart(w) ==
  /\ WGoto(w, "reset_ack", "reset_wait")
  /\ nResetNotAck' = nResetNotAck - 1
  /\ eResetStart' = (eResetStart \/ nResetNotAck - 1 = 0)
  /\ UNCHANGED <<cmd, mWait, searchVars, mWaitReset, eResetStop, termVars, epc, ret,
                 idle, victim, hand>>

WaitReset(w) ==
  /\ ~mWaitReset
  /\ WGoto(w, "reset_wait", "reset_stop")
  /\ UNCHANGED <<cmd, mWait, searchVars, resetVars, termVars, epc, ret, idle, victim, hand>>

AckResetStop(w) ==
  /\ WGoto(w, "reset_stop", "loop")
  /\ nResetNotAck' = nResetNotAck + 1
  /\ eResetStop' = (eResetStop \/ nResetNotAck + 1 = NWorkers)
  /\ UNCHANGED <<cmd, mWait, searchVars, mWaitReset, eResetStart, termVars, epc, ret,
                 idle, victim, hand>>

(* ack_terminate(), wait_terminate(), and then, in Thread::Run::exec, the
   deletion of the worker and the call of terminated() *)
AckTerminate(w) ==
  /\ WGoto(w, "term_ack", "term_wait")
  /\ nTermNotAck' = nTermNotAck - 1
  /\ eTermAck' = (eTermAck \/ nTermNotAck - 1 = 0)
  /\ UNCHANGED <<cmd, mWait, searchVars, resetVars, mWaitTerminate, nNotTerminated,
                 eTerminate, epc, ret, idle, victim, hand>>

(* mutant: a worker leaves run() as soon as it has acknowledged *)
WaitTerminateSkipped(w) ==
  /\ WGoto(w, "term_wait", "delete")
  /\ UNCHANGED <<cmd, mWait, searchVars, resetVars, termVars, epc, ret, idle, victim, hand>>

WaitTerminate(w) ==
  /\ ~mWaitTerminate
  /\ WGoto(w, "term_wait", "delete")
  /\ UNCHANGED <<cmd, mWait, searchVars, resetVars, termVars, epc, ret, idle, victim, hand>>

Delete(w) ==
  /\ WGoto(w, "delete", "terminated")
  /\ UNCHANGED <<cmd, mWait, searchVars, resetVars, termVars, epc, ret, idle, victim, hand>>

(* the decrement under _m_term; the signal follows outside of the lock *)
Terminated(w) ==
  /\ WGoto(w, "terminated", IF nNotTerminated - 1 = 0 THEN "term_signal" ELSE "gone")
  /\ nNotTerminated' = nNotTerminated - 1
  /\ UNCHANGED <<cmd, mWait, searchVars, resetVars, mWaitTerminate, nTermNotAck,
                 eTermAck, eTerminate, epc, ret, idle, victim, hand>>

SignalTerminated(w) ==
  /\ WGoto(w, "term_signal", "gone")
  /\ eTerminate' = TRUE
  /\ UNCHANGED <<cmd, mWait, searchVars, resetVars, mWaitTerminate, nTermNotAck,
                 nNotTerminated, eTermAck, epc, ret, idle, victim, hand>>

(* steps of a worker that no exploration decides *)
WorkerControl(w) ==
  \/ Poll(w) \/ Wait(w)
  \/ ReportSolution(w) \/ ReportIdle(w) \/ ReportStop(w)
  \/ StartFind(w) \/ FindNothing(w) \/ ReportBusy(w)
  \/ AckResetStart(w) \/ WaitReset(w) \/ AckResetStop(w)
  \/ AckTerminate(w) \/ WaitTerminate(w) \/ Delete(w)
  \/ Terminated(w) \/ SignalTerminated(w)

(* steps of a worker that depend on its path, its space or what it has found *)
WorkerSearch(w) ==
  \/ Explore(w) \/ Stopped(w) \/ RunDry(w) \/ DiscardSolution(w)
  \/ StealNothing(w) \/ Take(w)
  \/ \E s \in Solution : Solved(w, s) \/ StealSpace(w, s)

Next ==
  \/ Engine
  \/ \E w \in Worker : WorkerControl(w) \/ WorkerSearch(w)

Spec == Init /\ [][Next]_vars

(* Threads are scheduled fairly and mutexes do not starve; the caller of the
   engine is under no obligation to call anything. *)
EngineStep == epc # "user" /\ Engine
FairSpec ==
  /\ Spec
  /\ WF_vars(EngineStep)
  /\ \A w \in Worker : WF_vars(WorkerControl(w) \/ WorkerSearch(w))

-----------------------------------------------------------------------------
(***************************************************************************)
(* Properties.                                                             *)
(***************************************************************************)

(* n_busy counts the workers that have, or are just being given, a part of
   the tree: the idle flag is set before idle() is called and cleared after
   busy() has been called. *)
Counted(w) == ~idle[w] \/ wpc[w] \in {"idle", "take"}
NBusyAccurate == nBusy = Cardinality({w \in Worker : Counted(w)})

(* The engine's thread waits for an event that has not been signalled, and the
   workers whose reports are to bring that about: those with a part of the tree, or
   those that have not yet been counted by the acknowledgements. *)
Asleep ==
  \/ epc = "next_wait" /\ ~eSearch
  \/ epc \in {"reset_wait", "nogoods_wait"} /\ ~eResetStart
  \/ epc = "reset_end" /\ ~eResetStop
  \/ epc = "term_wait" /\ ~eTermAck
  \/ epc = "term_end" /\ ~eTerminate
Awaited(w) ==
  \/ epc = "next_wait" /\ Counted(w)
  \/ epc \in {"reset_wait", "nogoods_wait"} /\ wpc[w] \notin {"reset_wait", "reset_stop"}
  \/ epc = "reset_end" /\ wpc[w] \in {"reset_wait", "reset_stop"}
  \/ epc = "term_wait" /\ wpc[w] # "term_wait"
  \/ epc = "term_end" /\ wpc[w] # "gone"

(* w waits for a mutex that the engine's thread holds, or has ended *)
Parked(w) ==
  \/ wpc[w] = "wait" /\ mWait
  \/ wpc[w] = "reset_wait" /\ mWaitReset
  \/ wpc[w] = "term_wait" /\ mWaitTerminate
  \/ wpc[w] = "gone"

(* No wakeup is lost.  While next() waits for e_search and there is something to
   report, e_search has been signalled (signal() is computed before the state changes,
   and a second change may find the event already consumed).  And whatever event the
   engine's thread sleeps for, some worker is still to bring it about, and it holds no
   mutex for which one of these workers waits. *)
Reportable == solutions # <<>> \/ nBusy = 0 \/ hasStopped
NoLostWakeup ==
  /\ epc = "next_wait" /\ Reportable => eSearch
  /\ Asleep => /\ \E w \in Worker : Awaited(w)
               /\ \A w \in Worker : Awaited(w) => ~Parked(w)

(* While reset() rebuilds the workers, or nogoods() reads worker 0's path,
   every worker is parked between ack_reset_start and ack_reset_stop. *)
ResetExclusive ==
  epc \in {"reset_do", "nogoods_do"} => \A w \in Worker : wpc[w] = "reset_wait"

(* The reset cycle is over when reset() returns: no worker is still inside
   it, and the counter is ready for the next cycle. *)
ResetCycleOver ==
  epc \in {"user", "next_cmd", "reset_cmd", "nogoods_cmd", "term_cmd"} =>
    /\ nResetNotAck = NWorkers
    /\ ~eResetStart /\ ~eResetStop
    /\ \A w \in Worker : wpc[w] \notin {"reset_ack", "reset_wait", "reset_stop"}

(* A worker object is deleted only when no other worker can reach it any
   more: nobody works, steals or reports. *)
Deleted(w) == wpc[w] \in {"terminated", "term_signal", "gone"}
NoUseAfterDelete ==
  (\E w \in Worker : Deleted(w)) =>
    \A v \in Worker : Deleted(v) \/ wpc[v] \in {"term_wait", "delete"}

(* The engine is destroyed only after its last worker has made its last
   access to it. *)
DestroyedAfterAll == epc = "destroyed" => \A w \in Worker : wpc[w] = "gone"

(* The barrier of reset() and nogoods(): workers are parked during the cycle and have
   left it when it is over. *)
ResetBarrier == ResetExclusive /\ ResetCycleOver

(* The handshakes of the destructor: neither a worker nor the engine is deleted while
   another thread can still reach it. *)
DeletionSafe == NoUseAfterDelete /\ DestroyedAfterAll

(* reset(), nogoods() and the destructor always come to an end, and so does next(),
   unless workers explore or steal for ever: no report of a solution, a stop or the
   last idle worker leaves the caller asleep. *)
Searches(w) == Explore(w) \/ DiscardSolution(w) \/ \E s \in Solution : StealSpace(w, s)
CallsReturn ==
  /\ epc \in {"reset_cmd", "nogoods_cmd"} ~> epc = "user"
  /\ epc = "term_cmd" ~> epc = "destroyed"
  /\ \/ epc = "next_cmd" ~> epc = "user"
     \/ []<><<\E w \in Worker : Searches(w)>>_vars
=============================================================================
