-------------------------- MODULE ParEngineProofs --------------------------
(***************************************************************************)
(* Theorems about ParEngine, for any number of workers.                    *)
(***************************************************************************)
EXTENDS ParEngine, FiniteSetTheorems, TLAPS

(***************************************************************************)
(* Type correctness, one lemma for each part of TypeOK.                    *)
(***************************************************************************)
LEMMA FlagsStep == FlagsOK /\ [Next]_vars => FlagsOK'
<1> SUFFICES ASSUME FlagsOK, [Next]_vars
             PROVE  FlagsOK'
  OBVIOUS
<1> USE DEF FlagsOK, EGoto, WGoto, searchVars, resetVars, termVars, workerVars
<1>1. CASE EngineNext
  BY <1>1 DEF EngineNext, NextCall, SetCmd, ReleaseWait, AcquireWait, NextWait, NextCheck
<1>2. CASE EngineReset
  <2>1. ASSUME NEW to, ResetCall(to)
        PROVE  FlagsOK'
    BY <2>1 DEF ResetCall
  <2>2. ASSUME NEW from, NEW c, NEW to, SetCmd(from, c, to)
        PROVE  FlagsOK'
    BY <2>2 DEF SetCmd
  <2>3. ASSUME NEW from, NEW to, ReleaseWait(from, to) \/ AcquireWait(from, to)
        PROVE  FlagsOK'
    BY <2>3 DEF ReleaseWait, AcquireWait
  <2>4. ASSUME NEW from, NEW to, ResetWait(from, to)
        PROVE  FlagsOK'
    BY <2>4 DEF ResetWait
  <2>5. CASE ResetDo \/ NogoodsDo
    BY <2>5 DEF ResetDo, NogoodsDo
  <2>6. CASE ResetUnlock
    BY <2>6 DEF ResetUnlock
  <2>7. CASE ResetEnd
    BY <2>7 DEF ResetEnd
  <2> QED
    BY <1>2, <2>1, <2>2, <2>3, <2>4, <2>5, <2>6, <2>7 DEF EngineReset
<1>3. CASE EngineTerm
  BY <1>3 DEF EngineTerm, TermCall, SetCmd, ReleaseWait, TermWait, TermUnlock, TermEnd
<1>4. ASSUME NEW w \in Worker, WorkerControl(w)
      PROVE  FlagsOK'
  <2>1. CASE ReportSolution(w) \/ ReportIdle(w) \/ ReportStop(w) \/ ReportBusy(w)
    BY <2>1 DEF ReportSolution, ReportIdle, ReportStop, ReportBusy, Signal
  <2>2. CASE AckResetStart(w) \/ AckResetStop(w) \/ WaitReset(w)
    BY <2>2 DEF AckResetStart, AckResetStop, WaitReset
  <2>3. CASE AckTerminate(w) \/ WaitTerminate(w) \/ Delete(w) \/ Terminated(w) \/ SignalTerminated(w)
    BY <2>3 DEF AckTerminate, WaitTerminate, Delete, Terminated, SignalTerminated
  <2>4. CASE Poll(w) \/ Wait(w) \/ StartFind(w) \/ FindNothing(w)
    BY <2>4 DEF Poll, Wait, StartFind, FindNothing
  <2> QED
    BY <1>4, <2>1, <2>2, <2>3, <2>4 DEF WorkerControl
<1>5. ASSUME NEW w \in Worker, WorkerSearch(w)
      PROVE  FlagsOK'
  BY <1>5 DEF WorkerSearch, Explore, Stopped, RunDry, DiscardSolution, StealNothing, Take, Solved, StealSpace
<1>6. CASE UNCHANGED vars
  BY <1>6 DEF vars
<1> QED
  BY <1>1, <1>2, <1>3, <1>4, <1>5, <1>6 DEF Next, Engine

LEMMA CountsStep == CountsOK /\ [Next]_vars => CountsOK'
<1> SUFFICES ASSUME CountsOK, [Next]_vars
             PROVE  CountsOK'
  OBVIOUS
<1> USE NWorkersAssumption
    DEF CountsOK, Worker, EGoto, WGoto, searchVars, resetVars, termVars, workerVars
<1>1. CASE EngineNext
  BY <1>1 DEF EngineNext, NextCall, SetCmd, ReleaseWait, AcquireWait, NextWait, NextCheck
<1>2. CASE EngineReset
  BY <1>2 DEF EngineReset, ResetCall, SetCmd, ReleaseWait, ResetWait, ResetDo, NogoodsDo,
              AcquireWait, ResetUnlock, ResetEnd
<1>3. CASE EngineTerm
  BY <1>3 DEF EngineTerm, TermCall, SetCmd, ReleaseWait, TermWait, TermUnlock, TermEnd
<1>4. ASSUME NEW w \in Worker, WorkerControl(w)
      PROVE  CountsOK'
  <2>1. CASE ReportSolution(w) \/ ReportIdle(w) \/ ReportStop(w) \/ ReportBusy(w)
    BY <2>1 DEF ReportSolution, ReportIdle, ReportStop, ReportBusy
  <2>2. CASE AckResetStart(w) \/ AckResetStop(w) \/ WaitReset(w)
    BY <2>2 DEF AckResetStart, AckResetStop, WaitReset
  <2>3. CASE AckTerminate(w) \/ WaitTerminate(w) \/ Delete(w) \/ Terminated(w) \/ SignalTerminated(w)
    BY <2>3 DEF AckTerminate, WaitTerminate, Delete, Terminated, SignalTerminated
  <2>4. CASE Poll(w) \/ Wait(w) \/ StartFind(w) \/ FindNothing(w)
    BY <2>4 DEF Poll, Wait, StartFind, FindNothing
  <2> QED
    BY <1>4, <2>1, <2>2, <2>3, <2>4 DEF WorkerControl
<1>5. ASSUME NEW w \in Worker, WorkerSearch(w)
      PROVE  CountsOK'
  <2>1. CASE StealNothing(w)
    BY <2>1 DEF StealNothing
  <2>2. CASE Take(w)
    BY <2>2 DEF Take
  <2>3. CASE ~StealNothing(w) /\ ~Take(w)
    BY <1>5, <2>3 DEF WorkerSearch, Explore, Stopped, RunDry, DiscardSolution, Solved, StealSpace
  <2> QED
    BY <2>1, <2>2, <2>3
<1>6. CASE UNCHANGED vars
  BY <1>6 DEF vars
<1> QED
  BY <1>1, <1>2, <1>3, <1>4, <1>5, <1>6 DEF Next, Engine

LEMMA ControlStep == ControlOK /\ [Next]_vars => ControlOK'
<1> SUFFICES ASSUME ControlOK, [Next]_vars
             PROVE  ControlOK'
  OBVIOUS
<1> USE DEF ControlOK, EnginePC, WorkerPC, EGoto, WGoto,
            searchVars, resetVars, termVars, workerVars
<1>1. CASE EngineNext
  BY <1>1 DEF EngineNext, NextCall, SetCmd, ReleaseWait, AcquireWait, NextWait, NextCheck
<1>2. CASE EngineReset
  BY <1>2 DEF EngineReset, ResetCall, SetCmd, ReleaseWait, ResetWait, ResetDo, NogoodsDo,
              AcquireWait, ResetUnlock, ResetEnd
<1>3. CASE EngineTerm
  BY <1>3 DEF EngineTerm, TermCall, SetCmd, ReleaseWait, TermWait, TermUnlock, TermEnd
<1>4. ASSUME NEW w \in Worker, WorkerControl(w)
      PROVE  ControlOK'
  BY <1>4 DEF WorkerControl, Poll, PollTarget, Wait, ReportSolution, ReportIdle, ReportStop,
              StartFind, FindNothing, ReportBusy, AckResetStart, WaitReset, AckResetStop,
              AckTerminate, WaitTerminate, Delete, Terminated, SignalTerminated
<1>5. ASSUME NEW w \in Worker, WorkerSearch(w)
      PROVE  ControlOK'
  BY <1>5 DEF WorkerSearch, Explore, Stopped, RunDry, DiscardSolution, StealNothing, Take, Solved, StealSpace
<1>6. CASE UNCHANGED vars
  BY <1>6 DEF vars
<1> QED
  BY <1>1, <1>2, <1>3, <1>4, <1>5, <1>6 DEF Next, Engine

LEMMA SpacesStep == SpacesOK /\ ControlOK /\ [Next]_vars => SpacesOK'
<1> SUFFICES ASSUME SpacesOK, ControlOK, [Next]_vars
             PROVE  SpacesOK'
  OBVIOUS
<1> USE SolutionAssumption
    DEF SpacesOK, ControlOK, EGoto, WGoto, searchVars, resetVars, termVars, workerVars
<1>1. CASE EngineNext
  BY <1>1 DEF EngineNext, NextCall, SetCmd, ReleaseWait, AcquireWait, NextWait, NextCheck
<1>2. CASE EngineReset
  BY <1>2 DEF EngineReset, ResetCall, SetCmd, ReleaseWait, ResetWait, ResetDo, NogoodsDo,
              AcquireWait, ResetUnlock, ResetEnd
<1>3. CASE EngineTerm
  <2>1. CASE TermEnd
    BY <2>1 DEF TermEnd
  <2>2. CASE ~TermEnd
    BY <1>3, <2>2 DEF EngineTerm, TermCall, SetCmd, ReleaseWait, TermWait, TermUnlock
  <2> QED
    BY <2>1, <2>2
<1>4. ASSUME NEW w \in Worker, WorkerControl(w)
      PROVE  SpacesOK'
  <2>1. CASE ReportSolution(w) \/ ReportIdle(w) \/ ReportStop(w) \/ ReportBusy(w)
    BY <2>1 DEF ReportSolution, ReportIdle, ReportStop, ReportBusy
  <2>2. CASE AckResetStart(w) \/ AckResetStop(w) \/ WaitReset(w)
    BY <2>2 DEF AckResetStart, AckResetStop, WaitReset
  <2>3. CASE AckTerminate(w) \/ WaitTerminate(w) \/ Delete(w) \/ Terminated(w) \/ SignalTerminated(w)
    BY <2>3 DEF AckTerminate, WaitTerminate, Delete, Terminated, SignalTerminated
  <2>4. CASE Poll(w) \/ Wait(w) \/ StartFind(w) \/ FindNothing(w)
    BY <2>4 DEF Poll, PollTarget, Wait, StartFind, FindNothing
  <2> QED
    BY <1>4, <2>1, <2>2, <2>3, <2>4 DEF WorkerControl
<1>5. ASSUME NEW w \in Worker, WorkerSearch(w)
      PROVE  SpacesOK'
  BY <1>5 DEF WorkerSearch, Explore, Stopped, RunDry, DiscardSolution, StealNothing, Take, Solved, StealSpace
<1>6. CASE UNCHANGED vars
  BY <1>6 DEF vars
<1> QED
  BY <1>1, <1>2, <1>3, <1>4, <1>5, <1>6 DEF Next, Engine

(* Every variable keeps its type in every reachable state: the loop of find()
   stays within the workers, and a worker never reports or takes the null
   pointer. *)
THEOREM TypeCorrect == Spec => []TypeOK
<1>1. Init => TypeOK
  <2> SUFFICES ASSUME Init
               PROVE  FlagsOK /\ CountsOK /\ ControlOK /\ SpacesOK
    BY DEF TypeOK
  <2>1. FlagsOK
    BY DEF Init, FlagsOK
  <2>2. CountsOK
    BY NWorkersAssumption DEF Init, CountsOK
  <2>3. ControlOK
    BY DEF Init, ControlOK, EnginePC, WorkerPC
  <2>4. SpacesOK
    BY DEF Init, SpacesOK
  <2> QED
    BY <2>1, <2>2, <2>3, <2>4
<1>2. TypeOK /\ [Next]_vars => TypeOK'
  BY FlagsStep, CountsStep, ControlStep, SpacesStep DEF TypeOK
<1> QED
  BY <1>1, <1>2, PTL DEF Spec

(***************************************************************************)
(* Counting the workers at given control points.                           *)
(***************************************************************************)
(* workers at one of the control points in pcs *)
At(pcs) == {w \in Worker : wpc[w] \in pcs}

LEMMA WorkerFinite == IsFiniteSet(Worker) /\ Cardinality(Worker) = NWorkers
  BY NWorkersAssumption, FS_Interval DEF Worker

(* The counters run from 0 to the number of workers, and the upper bound is
   reached only when every worker is counted. *)
LEMMA CountBounds ==
  ASSUME NEW S \in SUBSET Worker
  PROVE  /\ IsFiniteSet(S)
         /\ Cardinality(S) \in 0 .. NWorkers
         /\ Cardinality(S) = NWorkers => S = Worker
         /\ Cardinality(S) = 0 <=> S = {}
<1>1. IsFiniteSet(S) /\ Cardinality(S) <= NWorkers /\ (Cardinality(S) = NWorkers => S = Worker)
  BY WorkerFinite, FS_Subset
<1>2. Cardinality(S) \in Nat
  BY <1>1, FS_CardinalityType
<1> QED
  BY <1>1, <1>2, FS_EmptySet, NWorkersAssumption

(* Two sets of workers that agree on all workers but one. *)
LEMMA CountMove ==
  ASSUME NEW S \in SUBSET Worker, NEW T \in SUBSET Worker, NEW w \in Worker,
         \A v \in Worker \ {w} : v \in T <=> v \in S
  PROVE  /\ (w \in S <=> w \in T) => T = S
         /\ w \notin S /\ w \in T => T = S \cup {w} /\ Cardinality(T) = Cardinality(S) + 1
         /\ w \in S /\ w \notin T => T = S \ {w} /\ Cardinality(T) = Cardinality(S) - 1
<1>1. IsFiniteSet(S)
  BY CountBounds
<1>2. CASE w \notin S /\ w \in T
  <2>1. T = S \cup {w}
    BY <1>2
  <2> QED
    BY <1>1, <1>2, <2>1, FS_AddElement
<1>3. CASE w \in S /\ w \notin T
  <2>1. T = S \ {w}
    BY <1>3
  <2> QED
    BY <1>1, <1>3, <2>1, FS_RemoveElement
<1>4. CASE w \in S <=> w \in T
  <2>1. T = S
    BY <1>4
  <2> QED
    BY <1>4, <2>1
<1> QED
  BY <1>2, <1>3, <1>4

(* What one worker's move from a control point to another does to a count. *)
LEMMA AtMove ==
  ASSUME ControlOK, NEW w \in Worker, NEW from, NEW to, WGoto(w, from, to), NEW pcs
  PROVE  /\ (from \in pcs <=> to \in pcs) => At(pcs)' = At(pcs)
         /\ from \notin pcs /\ to \in pcs =>
              Cardinality(At(pcs)') = Cardinality(At(pcs)) + 1
         /\ from \in pcs /\ to \notin pcs =>
              Cardinality(At(pcs)') = Cardinality(At(pcs)) - 1
<1>1. /\ At(pcs) \in SUBSET Worker
      /\ At(pcs)' \in SUBSET Worker
      /\ from \in pcs <=> w \in At(pcs)
      /\ to \in pcs <=> w \in At(pcs)'
      /\ \A v \in Worker \ {w} : v \in At(pcs)' <=> v \in At(pcs)
  BY DEF At, WGoto, ControlOK
<1>2. CASE from \notin pcs /\ to \in pcs
  BY <1>1, <1>2, CountMove
<1>3. CASE from \in pcs /\ to \notin pcs
  BY <1>1, <1>3, CountMove
<1>4. CASE from \in pcs <=> to \in pcs
  BY <1>1, <1>4
<1> QED
  BY <1>2, <1>3, <1>4

LEMMA AtSame == ASSUME UNCHANGED wpc, NEW pcs PROVE At(pcs)' = At(pcs)
  BY DEF At

(***************************************************************************)
(* The reset barrier.                                                      *)
(***************************************************************************)
ResetPC == {"reset_release", "reset_wait", "reset_do", "reset_block",
            "nogoods_release", "nogoods_wait", "nogoods_do"}
ResetPoint == {"reset_ack", "reset_wait", "reset_stop"}
Acked == {"reset_wait", "reset_stop"}

(* The phases of a reset: before it no worker is inside; up to the signal of
   e_reset_ack_start workers enter and none leaves; then all are parked; after
   m_wait_reset has been released they leave and none enters. *)
ResetInv ==
  /\ nResetNotAck = NWorkers - Cardinality(At(Acked))
  /\ cmd = "reset" <=> epc \in ResetPC
  /\ mWaitReset <=> epc \in ResetPC \cup {"reset_cmd", "nogoods_cmd", "reset_lock", "reset_unlock"}
  /\ eResetStart =>
       /\ epc \in {"reset_release", "reset_wait", "nogoods_release", "nogoods_wait"}
       /\ At(Acked) = Worker
  /\ eResetStop => epc = "reset_end" /\ At(ResetPoint) = {}
  /\ epc \in {"reset_do", "nogoods_do", "reset_block", "reset_lock", "reset_unlock"} =>
       At({"reset_wait"}) = Worker
  /\ mWaitReset => At({"reset_stop"}) = {}
  /\ epc = "reset_end" => At({"reset_ack"}) = {}
  /\ epc \notin ResetPC \cup {"reset_lock", "reset_unlock", "reset_end"} => At(ResetPoint) = {}

LEMMA ResetInit == Init => ResetInv
<1> SUFFICES ASSUME Init
             PROVE  ResetInv
  OBVIOUS
<1>1. \A pcs : "loop" \notin pcs => At(pcs) = {}
  BY DEF Init, At
<1> QED
  BY <1>1, FS_EmptySet, NWorkersAssumption
  DEF Init, ResetInv, ResetPC, ResetPoint, Acked

(* A step of the engine moves no worker. *)
LEMMA ResetEngineStep ==
  ASSUME TypeOK, ResetInv, Engine
  PROVE  ResetInv'
<1> USE DEF EGoto, searchVars, resetVars, termVars, workerVars, ResetPC
<1>1. UNCHANGED wpc
  BY DEF Engine, EngineNext, NextCall, SetCmd, ReleaseWait, AcquireWait, NextWait, NextCheck,
         EngineReset, ResetCall, ResetWait, ResetDo, NogoodsDo, ResetUnlock, ResetEnd,
         EngineTerm, TermCall, TermWait, TermUnlock, TermEnd
<1>2. \A pcs : At(pcs)' = At(pcs)
  BY <1>1 DEF At
<1> USE <1>2 DEF ResetInv
<1>3. CASE EngineNext
  BY <1>3 DEF EngineNext, NextCall, SetCmd, ReleaseWait, AcquireWait, NextWait, NextCheck
<1>4. CASE EngineTerm
  BY <1>4 DEF EngineTerm, TermCall, SetCmd, ReleaseWait, TermWait, TermUnlock, TermEnd
<1>5. CASE EngineReset
  <2>1. CASE ResetCall("reset_cmd") \/ ResetCall("nogoods_cmd")
    <3>1. At({"reset_stop"}) = {}
      <4>1. At(ResetPoint) = {}
        BY <2>1 DEF ResetCall
      <4> QED
        BY <4>1 DEF At, ResetPoint
    <3> QED
      BY <2>1, <3>1 DEF ResetCall
  <2>2. CASE \/ SetCmd("reset_cmd", "reset", "reset_release")
             \/ SetCmd("nogoods_cmd", "reset", "nogoods_release")
             \/ SetCmd("reset_block", "wait", "reset_lock")
    BY <2>2 DEF SetCmd
  <2>3. CASE \/ ReleaseWait("reset_release", "reset_wait")
             \/ ReleaseWait("nogoods_release", "nogoods_wait")
             \/ AcquireWait("reset_lock", "reset_unlock")
    BY <2>3 DEF ReleaseWait, AcquireWait
  <2>4. CASE ResetWait("reset_wait", "reset_do") \/ ResetWait("nogoods_wait", "nogoods_do")
    <3>1. At({"reset_wait"}) = Worker
      <4>1. At(Acked) = Worker /\ At({"reset_stop"}) = {}
        BY <2>4 DEF ResetWait
      <4> QED
        BY <4>1 DEF At, Acked
    <3> QED
      BY <2>4, <3>1 DEF ResetWait
  <2>5. CASE ResetDo \/ NogoodsDo
    BY <2>5 DEF ResetDo, NogoodsDo
  <2>6. CASE ResetUnlock
    <3>1. At({"reset_ack"}) = {}
      <4>1. At({"reset_wait"}) = Worker
        BY <2>6 DEF ResetUnlock
      <4> QED
        BY <4>1 DEF At
    <3> QED
      BY <2>6, <3>1 DEF ResetUnlock
  <2>7. CASE ResetEnd
    BY <2>7 DEF ResetEnd
  <2> QED
    BY <1>5, <2>1, <2>2, <2>3, <2>4, <2>5, <2>6, <2>7 DEF EngineReset
<1> QED
  BY <1>3, <1>4, <1>5 DEF Engine

(* Only a worker that polls or acknowledges moves between the reset points. *)
LEMMA ResetWorkerStep ==
  ASSUME TypeOK, ResetInv, NEW w \in Worker, WorkerControl(w) \/ WorkerSearch(w)
  PROVE  ResetInv'
<1> USE DEF searchVars, resetVars, termVars
<1>0. ControlOK
  BY DEF TypeOK
<1>1. ASSUME NEW from, NEW to, WGoto(w, from, to), from \notin ResetPoint, to \notin ResetPoint,
             UNCHANGED <<cmd, resetVars, epc>>
      PROVE  ResetInv'
  <2>1. \A pcs : pcs \subseteq ResetPoint => At(pcs)' = At(pcs)
    BY <1>0, <1>1, AtMove
  <2>2. /\ At(Acked)' = At(Acked) /\ At(ResetPoint)' = At(ResetPoint)
        /\ At({"reset_wait"})' = At({"reset_wait"}) /\ At({"reset_stop"})' = At({"reset_stop"})
        /\ At({"reset_ack"})' = At({"reset_ack"})
    BY <2>1 DEF ResetPoint, Acked
  <2> QED
    BY <1>1, <2>2 DEF ResetInv
<1>2. CASE Poll(w)
  <2>1. CASE cmd = "reset"
    <3>1. WGoto(w, "loop", "reset_ack") /\ UNCHANGED <<cmd, resetVars, epc>>
      BY <1>2, <2>1 DEF Poll, PollTarget
    <3>2. /\ At(Acked)' = At(Acked) /\ At({"reset_wait"})' = At({"reset_wait"})
          /\ At({"reset_stop"})' = At({"reset_stop"})
      BY <1>0, <3>1, AtMove DEF Acked
    <3>3. At(Acked) # Worker /\ At({"reset_wait"}) # Worker
      BY <3>1 DEF At, Acked, WGoto
    <3> QED
      BY <2>1, <3>1, <3>2, <3>3 DEF ResetInv, ResetPC
  <2>2. CASE cmd # "reset"
    BY <1>0, <1>1, <1>2, <2>2 DEF Poll, PollTarget, ResetPoint, ControlOK
  <2> QED
    BY <2>1, <2>2
<1>3. CASE AckResetStart(w)
  <2>1. WGoto(w, "reset_ack", "reset_wait")
    BY <1>3 DEF AckResetStart
  <2>2. /\ Cardinality(At(Acked)') = Cardinality(At(Acked)) + 1
        /\ At({"reset_stop"})' = At({"reset_stop"})
    BY <1>0, <2>1, AtMove DEF Acked
  <2>3. At({"reset_wait"}) # Worker /\ At(Acked) # Worker /\ At({"reset_ack"}) # {}
        /\ At(ResetPoint) # {}
    BY <2>1 DEF At, Acked, WGoto, ResetPoint
  <2>4. epc \in {"reset_release", "reset_wait", "nogoods_release", "nogoods_wait"}
    BY <2>3 DEF ResetInv, ResetPC
  <2>5. nResetNotAck' = NWorkers - Cardinality(At(Acked)')
    BY <1>0, <1>3, <2>2, CountBounds, NWorkersAssumption DEF AckResetStart, ResetInv, At
  <2>6. eResetStart' => At(Acked)' = Worker
    <3>1. eResetStart' => nResetNotAck' = 0
      BY <1>3, <2>3 DEF AckResetStart, ResetInv
    <3>2. nResetNotAck' = 0 => Cardinality(At(Acked)') = NWorkers
      BY <2>2, <2>5, CountBounds, NWorkersAssumption DEF At
    <3>3. At(Acked)' \in SUBSET Worker
      BY DEF At
    <3> QED
      BY <3>1, <3>2, <3>3, CountBounds
  <2> QED
    BY <1>3, <2>2, <2>3, <2>4, <2>5, <2>6 DEF AckResetStart, ResetInv, ResetPC
<1>4. CASE WaitReset(w)
  <2>1. WGoto(w, "reset_wait", "reset_stop")
    BY <1>4 DEF WaitReset
  <2>2. /\ At(Acked)' = At(Acked) /\ At(ResetPoint)' = At(ResetPoint)
        /\ At({"reset_ack"})' = At({"reset_ack"})
    BY <1>0, <2>1, AtMove DEF Acked, ResetPoint
  <2>3. At(ResetPoint) # {}
    BY <2>1 DEF At, WGoto, ResetPoint
  <2>4. epc = "reset_end" /\ ~mWaitReset
    BY <1>4, <2>3 DEF WaitReset, ResetInv, ResetPC
  <2> QED
    BY <1>4, <2>2, <2>3, <2>4 DEF WaitReset, ResetInv, ResetPC
<1>5. CASE AckResetStop(w)
  <2>1. WGoto(w, "reset_stop", "loop")
    BY <1>5 DEF AckResetStop
  <2>2. /\ Cardinality(At(Acked)') = Cardinality(At(Acked)) - 1
        /\ At({"reset_ack"})' = At({"reset_ack"})
    BY <1>0, <2>1, AtMove DEF Acked
  <2>3. At({"reset_stop"}) # {} /\ At(ResetPoint) # {}
    BY <2>1 DEF At, WGoto, ResetPoint
  <2>4. epc = "reset_end"
    <3>1. At({"reset_wait"}) # Worker
      BY <2>1 DEF At, WGoto
    <3> QED
      BY <1>0, <2>3, <3>1 DEF ResetInv, ResetPC, ControlOK, EnginePC
  <2>5. nResetNotAck' = NWorkers - Cardinality(At(Acked)')
    BY <1>0, <1>5, <2>2, CountBounds, NWorkersAssumption DEF AckResetStop, ResetInv, At
  <2>6. eResetStop' => At(ResetPoint)' = {}
    <3>1. eResetStop' => nResetNotAck' = NWorkers
      BY <1>5, <2>3 DEF AckResetStop, ResetInv
    <3>2. nResetNotAck' = NWorkers => Cardinality(At(Acked)') = 0
      BY <2>5, CountBounds, NWorkersAssumption DEF At
    <3>3. At(Acked)' \in SUBSET Worker
      BY DEF At
    <3>4. nResetNotAck' = NWorkers => At(Acked)' = {}
      BY <3>2, <3>3, CountBounds
    <3>5. At({"reset_ack"})' = {}
      BY <2>2, <2>4 DEF ResetInv
    <3> QED
      BY <3>1, <3>4, <3>5 DEF At, Acked, ResetPoint
  <2> QED
    BY <1>5, <2>2, <2>3, <2>4, <2>5, <2>6 DEF AckResetStop, ResetInv, ResetPC
<1>6. CASE \/ ReportSolution(w) \/ ReportIdle(w) \/ ReportStop(w) \/ ReportBusy(w)
           \/ Wait(w) \/ StartFind(w) \/ FindNothing(w)
  BY <1>1, <1>6 DEF ReportSolution, ReportIdle, ReportStop, ReportBusy, Wait, StartFind,
                    FindNothing, ResetPoint
<1>7. CASE \/ AckTerminate(w) \/ WaitTerminate(w) \/ Delete(w)
           \/ Terminated(w) \/ SignalTerminated(w)
  BY <1>1, <1>7 DEF AckTerminate, WaitTerminate, Delete, Terminated, SignalTerminated, ResetPoint
<1>8. CASE WorkerSearch(w)
  <2>1. CASE StealNothing(w)
    BY <2>1, AtSame DEF StealNothing, ResetInv
  <2> QED
    BY <1>1, <1>8, <2>1 DEF WorkerSearch, Explore, Stopped, RunDry, DiscardSolution, Take, Solved, StealSpace,
                            ResetPoint
<1> QED
  BY <1>2, <1>3, <1>4, <1>5, <1>6, <1>7, <1>8 DEF WorkerControl

(* What the reset barrier promises, from the invariant. *)
LEMMA ResetInvCorrect == Spec => []ResetInv
<1>1. TypeOK /\ ResetInv /\ [Next]_vars => ResetInv'
  <2> SUFFICES ASSUME TypeOK, ResetInv, [Next]_vars
               PROVE  ResetInv'
    OBVIOUS
  <2>1. CASE UNCHANGED vars
    BY <2>1, AtSame DEF vars, resetVars, workerVars, ResetInv
  <2> QED
    BY <2>1, ResetEngineStep, ResetWorkerStep DEF Next
<1> QED
  BY <1>1, ResetInit, TypeCorrect, PTL DEF Spec

(* While reset() rebuilds the workers, or nogoods() reads a path, every worker
   is parked between its two acknowledgements. *)
THEOREM ResetIsExclusive == Spec => []ResetExclusive
<1>1. ResetInv => ResetExclusive
  BY DEF ResetInv, ResetExclusive, At
<1> QED
  BY <1>1, ResetInvCorrect, PTL

(* reset() and nogoods() return only when the cycle is over. *)
THEOREM ResetCycleIsOver == Spec => []ResetCycleOver
<1>1. ResetInv => ResetCycleOver
  <2> SUFFICES ASSUME ResetInv,
                      epc \in {"user", "next_cmd", "reset_cmd", "nogoods_cmd", "term_cmd"}
               PROVE  /\ nResetNotAck = NWorkers /\ ~eResetStart /\ ~eResetStop
                      /\ \A w \in Worker : wpc[w] \notin {"reset_ack", "reset_wait", "reset_stop"}
    BY DEF ResetCycleOver
  <2>1. At(ResetPoint) = {} /\ ~eResetStart /\ ~eResetStop
    BY DEF ResetInv, ResetPC
  <2>2. At(Acked) = {}
    BY <2>1 DEF At, ResetPoint, Acked
  <2>3. nResetNotAck = NWorkers
    BY <2>2, FS_EmptySet, NWorkersAssumption DEF ResetInv
  <2> QED
    BY <2>1, <2>3 DEF At, ResetPoint
<1> QED
  BY <1>1, ResetInvCorrect, PTL

(* Both: the barrier of reset() and nogoods(). *)
THEOREM ResetBarrierCorrect == Spec => []ResetBarrier
<1>1. ResetExclusive /\ ResetCycleOver => ResetBarrier
  BY DEF ResetBarrier
<1> QED
  BY <1>1, ResetIsExclusive, ResetCycleIsOver, PTL

(***************************************************************************)
(* The termination handshake.                                              *)
(***************************************************************************)
TermPC == {"term_release", "term_wait", "term_unlock", "term_end", "destroyed"}
LeftPoint == {"delete", "terminated", "term_signal", "gone"}
TermPoint == {"term_ack", "term_wait"} \cup LeftPoint

(* The phases of a termination: no worker leaves before all have acknowledged,
   and the last of them to count itself off is the one that signals. *)
TermInv ==
  /\ nTermNotAck = NWorkers - Cardinality(At(LeftPoint \cup {"term_wait"}))
  /\ nNotTerminated = NWorkers - Cardinality(At({"term_signal", "gone"}))
  /\ cmd = "terminate" <=> epc \in TermPC
  /\ mWaitTerminate <=> epc \in {"term_cmd", "term_release", "term_wait", "term_unlock"}
  /\ epc \notin TermPC => At(TermPoint) = {}
  /\ eTermAck => epc \in {"term_release", "term_wait"} /\ At({"term_wait"}) = Worker
  /\ epc = "term_unlock" => At({"term_wait"}) = Worker
  /\ mWaitTerminate => At(LeftPoint) = {}
  /\ epc \in {"term_end", "destroyed"} => At(LeftPoint \cup {"term_wait"}) = Worker
  /\ \A w \in Worker : wpc[w] = "term_signal" => \A v \in Worker \ {w} : wpc[v] = "gone"
  /\ eTerminate => epc = "term_end" /\ At({"gone"}) = Worker
  /\ epc = "destroyed" => At({"gone"}) = Worker

LEMMA TermInit == Init => TermInv
<1> SUFFICES ASSUME Init
             PROVE  TermInv
  OBVIOUS
<1>1. \A pcs : "loop" \notin pcs => At(pcs) = {}
  BY DEF Init, At
<1>2. \A w \in Worker : wpc[w] = "loop"
  BY DEF Init
<1> QED
  <2>1. /\ At(LeftPoint \cup {"term_wait"}) = {} /\ At({"term_signal", "gone"}) = {}
        /\ At(TermPoint) = {} /\ At(LeftPoint) = {}
    BY <1>1 DEF TermPoint, LeftPoint
  <2>2. nTermNotAck = NWorkers - 0 /\ nNotTerminated = NWorkers - 0
    BY NWorkersAssumption DEF Init
  <2> QED
    BY <1>2, <2>1, <2>2, FS_EmptySet DEF Init, TermInv, TermPC

LEMMA TermEngineStep ==
  ASSUME TypeOK, TermInv, Engine
  PROVE  TermInv'
<1> USE DEF EGoto, searchVars, resetVars, termVars, workerVars, TermPC
<1>1. UNCHANGED wpc
  BY DEF Engine, EngineNext, NextCall, SetCmd, ReleaseWait, AcquireWait, NextWait, NextCheck,
         EngineReset, ResetCall, ResetWait, ResetDo, NogoodsDo, ResetUnlock, ResetEnd,
         EngineTerm, TermCall, TermWait, TermUnlock, TermEnd
<1>2. \A pcs : At(pcs)' = At(pcs)
  BY <1>1 DEF At
<1>3. CASE EngineNext
  <2>1. CASE NextCall \/ NextCheck
    BY <1>1, <1>2, <2>1 DEF TermInv, NextCall, NextCheck
  <2>2. CASE NextWait \/ ReleaseWait("next_release", "next_wait") \/ AcquireWait("next_lock", "user")
    BY <1>1, <1>2, <2>2 DEF TermInv, NextWait, ReleaseWait, AcquireWait
  <2>3. CASE SetCmd("next_cmd", "work", "next_release") \/ SetCmd("next_block", "wait", "next_lock")
    BY <1>1, <1>2, <2>3 DEF TermInv, SetCmd
  <2> QED
    BY <1>3, <2>1, <2>2, <2>3 DEF EngineNext
<1>4. CASE EngineReset
  BY <1>1, <1>2, <1>4 DEF TermInv, EngineReset, ResetCall, SetCmd, ReleaseWait, AcquireWait,
                          ResetWait, ResetDo, NogoodsDo, ResetUnlock, ResetEnd
<1>5. CASE EngineTerm
  <2>1. CASE TermCall
    <3>1. At(LeftPoint) = {}
      <4>1. At(TermPoint) = {}
        BY <2>1 DEF TermCall, TermInv
      <4> QED
        BY <4>1 DEF At, TermPoint
    <3> QED
      BY <1>1, <1>2, <2>1, <3>1 DEF TermCall, TermInv
  <2>2. CASE SetCmd("term_cmd", "terminate", "term_release")
    BY <1>1, <1>2, <2>2 DEF SetCmd, TermInv
  <2>3. CASE ReleaseWait("term_release", "term_wait")
    BY <1>1, <1>2, <2>3 DEF ReleaseWait, TermInv
  <2>4. CASE TermWait
    BY <1>1, <1>2, <2>4 DEF TermWait, TermInv
  <2>5. CASE TermUnlock
    <3>1. At(LeftPoint \cup {"term_wait"}) = Worker
      <4>1. At({"term_wait"}) = Worker
        BY <2>5 DEF TermUnlock, TermInv
      <4> QED
        BY <4>1 DEF At
    <3> QED
      BY <1>1, <1>2, <2>5, <3>1 DEF TermUnlock, TermInv
  <2>6. CASE TermEnd
    BY <1>1, <1>2, <2>6 DEF TermEnd, TermInv
  <2> QED
    BY <1>5, <2>1, <2>2, <2>3, <2>4, <2>5, <2>6 DEF EngineTerm
<1> QED
  BY <1>3, <1>4, <1>5 DEF Engine

(* Only a worker that polls or takes part in the handshake moves between the
   termination points. *)
LEMMA TermWorkerStep ==
  ASSUME TypeOK, TermInv, NEW w \in Worker, WorkerControl(w) \/ WorkerSearch(w)
  PROVE  TermInv'
<1> USE DEF searchVars, resetVars, termVars
<1>0. ControlOK
  BY DEF TypeOK
<1>1. ASSUME NEW from, NEW to, WGoto(w, from, to), from \notin TermPoint, to \notin TermPoint,
             UNCHANGED <<cmd, termVars, epc>>
      PROVE  TermInv'
  <2>1. \A pcs : pcs \subseteq TermPoint => At(pcs)' = At(pcs)
    BY <1>0, <1>1, AtMove
  <2>2. /\ At(TermPoint)' = At(TermPoint) /\ At(LeftPoint)' = At(LeftPoint)
        /\ At(LeftPoint \cup {"term_wait"})' = At(LeftPoint \cup {"term_wait"})
        /\ At({"term_signal", "gone"})' = At({"term_signal", "gone"})
        /\ At({"term_wait"})' = At({"term_wait"}) /\ At({"gone"})' = At({"gone"})
    BY <2>1 DEF TermPoint, LeftPoint
  <2>3. \A v \in Worker : wpc'[v] = "term_signal" => wpc[v] = "term_signal"
    BY <1>0, <1>1 DEF WGoto, TermPoint, LeftPoint, ControlOK
  <2>4. \A v \in Worker : wpc[v] = "gone" => wpc'[v] = "gone"
    BY <1>0, <1>1 DEF WGoto, TermPoint, LeftPoint, ControlOK
  <2> QED
    BY <1>1, <2>2, <2>3, <2>4 DEF TermInv
<1>2. CASE Poll(w)
  <2>1. CASE cmd = "terminate"
    <3>1. WGoto(w, "loop", "term_ack") /\ UNCHANGED <<cmd, termVars, epc>>
      BY <1>2, <2>1 DEF Poll, PollTarget
    <3>2. /\ At(LeftPoint)' = At(LeftPoint)
          /\ At(LeftPoint \cup {"term_wait"})' = At(LeftPoint \cup {"term_wait"})
          /\ At({"term_signal", "gone"})' = At({"term_signal", "gone"})
          /\ At({"term_wait"})' = At({"term_wait"}) /\ At({"gone"})' = At({"gone"})
      BY <1>0, <3>1, AtMove DEF LeftPoint
    <3>3. \A v \in Worker : wpc'[v] \in {"term_signal", "gone"} <=> wpc[v] \in {"term_signal", "gone"}
      BY <1>0, <3>1 DEF WGoto, ControlOK
    <3>4. \A v \in Worker : /\ wpc'[v] = "term_signal" => wpc[v] = "term_signal"
                            /\ wpc[v] = "gone" => wpc'[v] = "gone"
      BY <1>0, <3>1 DEF WGoto, ControlOK
    <3> QED
      BY <2>1, <3>1, <3>2, <3>4 DEF TermInv
  <2>2. CASE cmd # "terminate"
    BY <1>0, <1>1, <1>2, <2>2 DEF Poll, PollTarget, TermPoint, LeftPoint, ControlOK
  <2> QED
    BY <2>1, <2>2
<1>3. CASE AckTerminate(w)
  <2>1. WGoto(w, "term_ack", "term_wait")
    BY <1>3 DEF AckTerminate
  <2>2. /\ Cardinality(At(LeftPoint \cup {"term_wait"})') =
             Cardinality(At(LeftPoint \cup {"term_wait"})) + 1
        /\ At(LeftPoint)' = At(LeftPoint) /\ At({"gone"})' = At({"gone"})
        /\ At({"term_signal", "gone"})' = At({"term_signal", "gone"})
    BY <1>0, <2>1, AtMove DEF LeftPoint
  <2>3. /\ At(TermPoint) # {} /\ At({"term_wait"}) # Worker /\ At({"gone"}) # Worker
        /\ At(LeftPoint \cup {"term_wait"}) # Worker
    BY <2>1 DEF At, WGoto, TermPoint, LeftPoint
  <2>4. epc \in {"term_release", "term_wait"} /\ mWaitTerminate
    BY <2>3 DEF TermInv, TermPC
  <2>5. nTermNotAck' = NWorkers - Cardinality(At(LeftPoint \cup {"term_wait"})')
    BY <1>0, <1>3, <2>2, CountBounds, NWorkersAssumption DEF AckTerminate, TermInv, At
  <2>6. eTermAck' => At({"term_wait"})' = Worker
    <3>1. eTermAck' => nTermNotAck' = 0
      BY <1>3, <2>3 DEF AckTerminate, TermInv
    <3>2. At(LeftPoint)' = {}
      BY <2>2, <2>4 DEF TermInv
    <3>3. nTermNotAck' = 0 => Cardinality(At(LeftPoint \cup {"term_wait"})') = NWorkers
      BY <2>5, CountBounds, NWorkersAssumption DEF At
    <3>4. At(LeftPoint \cup {"term_wait"})' \in SUBSET Worker
      BY DEF At
    <3>5. nTermNotAck' = 0 => At(LeftPoint \cup {"term_wait"})' = Worker
      BY <3>3, <3>4, CountBounds
    <3> QED
      BY <3>1, <3>2, <3>5 DEF At
  <2>7. \A v \in Worker : /\ wpc'[v] = "term_signal" => wpc[v] = "term_signal"
                          /\ wpc[v] = "gone" => wpc'[v] = "gone"
    BY <1>0, <2>1 DEF WGoto, ControlOK
  <2> QED
    BY <1>3, <2>2, <2>3, <2>4, <2>5, <2>6, <2>7 DEF AckTerminate, TermInv, TermPC
<1>4. CASE WaitTerminate(w) \/ Delete(w)
  <2>1. PICK from \in {"term_wait", "delete"}, to \in {"delete", "terminated"} : WGoto(w, from, to)
    BY <1>4 DEF WaitTerminate, Delete
  <2>2. /\ At(LeftPoint \cup {"term_wait"})' = At(LeftPoint \cup {"term_wait"})
        /\ At(TermPoint)' = At(TermPoint)
        /\ At({"gone"})' = At({"gone"})
        /\ At({"term_signal", "gone"})' = At({"term_signal", "gone"})
    BY <1>0, <2>1, AtMove DEF LeftPoint, TermPoint
  <2>3. At(TermPoint) # {} /\ At({"gone"}) # Worker /\ (wpc[w] = "delete" => At(LeftPoint) # {})
    BY <2>1 DEF At, WGoto, TermPoint, LeftPoint
  <2>4. epc \in {"term_end", "destroyed"} /\ ~mWaitTerminate
    BY <1>4, <2>3 DEF TermInv, TermPC, WaitTerminate, Delete, WGoto
  <2>5. \A v \in Worker : /\ wpc'[v] = "term_signal" => wpc[v] = "term_signal"
                          /\ wpc[v] = "gone" => wpc'[v] = "gone"
    BY <1>0, <2>1 DEF WGoto, ControlOK
  <2> QED
    BY <1>4, <2>2, <2>3, <2>4, <2>5 DEF TermInv, TermPC, WaitTerminate, Delete
<1>5. CASE Terminated(w)
  <2>1. PICK to \in {"term_signal", "gone"} :
          /\ WGoto(w, "terminated", to)
          /\ to = "term_signal" => nNotTerminated' = 0
    BY <1>5 DEF Terminated
  <2>2. /\ At(LeftPoint \cup {"term_wait"})' = At(LeftPoint \cup {"term_wait"})
        /\ At(TermPoint)' = At(TermPoint) /\ At(LeftPoint)' = At(LeftPoint)
        /\ Cardinality(At({"term_signal", "gone"})') = Cardinality(At({"term_signal", "gone"})) + 1
    BY <1>0, <2>1, AtMove DEF LeftPoint, TermPoint
  <2>3. At(TermPoint) # {} /\ At(LeftPoint) # {} /\ At({"gone"}) # Worker
    BY <2>1 DEF At, WGoto, TermPoint, LeftPoint
  <2>4. epc = "term_end" /\ ~mWaitTerminate
    BY <2>3 DEF TermInv, TermPC
  <2>5. nNotTerminated' = NWorkers - Cardinality(At({"term_signal", "gone"})')
    BY <1>0, <1>5, <2>2, CountBounds, NWorkersAssumption DEF Terminated, TermInv, At
  <2>6. \A v \in Worker : wpc[v] # "term_signal"
    BY <2>1 DEF TermInv, WGoto
  <2>7. to = "term_signal" => \A v \in Worker \ {w} : wpc'[v] = "gone"
    <3>1. At({"term_signal", "gone"})' \in SUBSET Worker
      BY DEF At
    <3>2. to = "term_signal" => At({"term_signal", "gone"})' = Worker
      BY <2>1, <2>5, <3>1, CountBounds, NWorkersAssumption
    <3> QED
      BY <1>0, <2>1, <2>6, <3>2 DEF At, WGoto, ControlOK
  <2>8. \A v \in Worker : wpc'[v] = "term_signal" => v = w /\ to = "term_signal"
    BY <1>0, <2>1, <2>6 DEF WGoto, ControlOK
  <2> QED
    BY <1>5, <2>2, <2>3, <2>4, <2>5, <2>7, <2>8 DEF TermInv, TermPC, Terminated
<1>6. CASE SignalTerminated(w)
  <2>1. WGoto(w, "term_signal", "gone")
    BY <1>6 DEF SignalTerminated
  <2>2. /\ At(LeftPoint \cup {"term_wait"})' = At(LeftPoint \cup {"term_wait"})
        /\ At(TermPoint)' = At(TermPoint) /\ At(LeftPoint)' = At(LeftPoint)
        /\ At({"term_signal", "gone"})' = At({"term_signal", "gone"})
    BY <1>0, <2>1, AtMove DEF LeftPoint, TermPoint
  <2>3. At(TermPoint) # {} /\ At(LeftPoint) # {} /\ At({"gone"}) # Worker
    BY <2>1 DEF At, WGoto, TermPoint, LeftPoint
  <2>4. epc = "term_end" /\ ~mWaitTerminate
    BY <2>3 DEF TermInv, TermPC
  <2>5. \A v \in Worker : wpc'[v] = "gone"
    BY <1>0, <2>1 DEF TermInv, WGoto, ControlOK
  <2>6. At({"gone"})' = Worker
    BY <2>5 DEF At
  <2> QED
    BY <1>6, <2>2, <2>3, <2>4, <2>5, <2>6 DEF TermInv, TermPC, SignalTerminated
<1>7. CASE \/ ReportSolution(w) \/ ReportIdle(w) \/ ReportStop(w) \/ ReportBusy(w)
           \/ Wait(w) \/ StartFind(w) \/ FindNothing(w)
           \/ AckResetStart(w) \/ WaitReset(w) \/ AckResetStop(w)
  BY <1>1, <1>7 DEF ReportSolution, ReportIdle, ReportStop, ReportBusy, Wait, StartFind, FindNothing,
                    AckResetStart, WaitReset, AckResetStop, TermPoint, LeftPoint
<1>8. CASE WorkerSearch(w)
  <2>1. CASE StealNothing(w)
    BY <2>1, AtSame DEF StealNothing, TermInv
  <2> QED
    BY <1>1, <1>8, <2>1 DEF WorkerSearch, Explore, Stopped, RunDry, DiscardSolution, Take, Solved, StealSpace,
                            TermPoint, LeftPoint
<1> QED
  BY <1>2, <1>3, <1>4, <1>5, <1>6, <1>7, <1>8 DEF WorkerControl

LEMMA TermInvCorrect == Spec => []TermInv
<1>1. TypeOK /\ TermInv /\ [Next]_vars => TermInv'
  <2> SUFFICES ASSUME TypeOK, TermInv, [Next]_vars
               PROVE  TermInv'
    OBVIOUS
  <2>1. CASE UNCHANGED vars
    BY <2>1, AtSame DEF vars, termVars, workerVars, TermInv
  <2> QED
    BY <2>1, TermEngineStep, TermWorkerStep DEF Next
<1> QED
  BY <1>1, TermInit, TypeCorrect, PTL DEF Spec

(* A worker object is deleted only when no other worker can reach it: all have
   acknowledged the termination, and none works, steals or reports. *)
THEOREM NobodyUsesDeleted == Spec => []NoUseAfterDelete
<1>1. TermInv => NoUseAfterDelete
  <2> SUFFICES ASSUME TermInv, NEW w \in Worker, Deleted(w), NEW v \in Worker
               PROVE  Deleted(v) \/ wpc[v] \in {"term_wait", "delete"}
    BY DEF NoUseAfterDelete
  <2>1. At(TermPoint) # {} /\ At(LeftPoint) # {}
    BY DEF At, Deleted, TermPoint, LeftPoint
  <2>2. At(LeftPoint \cup {"term_wait"}) = Worker
    BY <2>1 DEF TermInv, TermPC
  <2> QED
    BY <2>2 DEF At, Deleted, LeftPoint
<1> QED
  BY <1>1, TermInvCorrect, PTL

(* The engine is destroyed after its last worker's last access to it. *)
THEOREM DestroyedLast == Spec => []DestroyedAfterAll
<1>1. TermInv => DestroyedAfterAll
  BY DEF TermInv, DestroyedAfterAll, At
<1> QED
  BY <1>1, TermInvCorrect, PTL

(* Both: neither a worker nor the engine is deleted too early. *)
THEOREM DeletionIsSafe == Spec => []DeletionSafe
<1>1. NoUseAfterDelete /\ DestroyedAfterAll => DeletionSafe
  BY DEF DeletionSafe
<1> QED
  BY <1>1, NobodyUsesDeleted, DestroyedLast, PTL

(***************************************************************************)
(* The acknowledgements are signalled.                                     *)
(***************************************************************************)
(* When all workers have acknowledged, left the reset or gone, the event has been
   signalled, and it stays so until the engine's thread has taken it. *)
SignalInv ==
  /\ mWait <=> epc \in {"user", "next_cmd", "next_release", "reset_cmd", "reset_release",
                        "nogoods_cmd", "nogoods_release", "reset_unlock", "reset_end",
                        "term_cmd", "term_release"}
  /\ epc \in {"reset_release", "reset_wait", "nogoods_release", "nogoods_wait"} /\ At(Acked) = Worker
       => eResetStart
  /\ epc = "reset_end" /\ At(ResetPoint) = {} => eResetStop
  /\ epc \in {"term_release", "term_wait"} /\ At(LeftPoint \cup {"term_wait"}) = Worker => eTermAck
  /\ epc = "term_end" /\ At({"gone"}) = Worker => eTerminate

LEMMA SomeWorker == Worker # {}
  BY NWorkersAssumption DEF Worker

LEMMA SignalInit == Init => SignalInv
<1> SUFFICES ASSUME Init
             PROVE  SignalInv
  OBVIOUS
<1> QED
  BY DEF Init, SignalInv

(* When the engine starts to wait, no worker has acknowledged yet, left the reset or
   gone. *)
LEMMA SignalEngineStep ==
  ASSUME TypeOK, ResetInv, TermInv, SignalInv, Engine
  PROVE  SignalInv'
<1> USE DEF EGoto, searchVars, resetVars, termVars, workerVars
<1>1. UNCHANGED wpc
  BY DEF Engine, EngineNext, NextCall, SetCmd, ReleaseWait, AcquireWait, NextWait, NextCheck,
         EngineReset, ResetCall, ResetWait, ResetDo, NogoodsDo, ResetUnlock, ResetEnd,
         EngineTerm, TermCall, TermWait, TermUnlock, TermEnd
<1>2. \A pcs : At(pcs)' = At(pcs)
  BY <1>1 DEF At
<1> USE <1>2 DEF SignalInv
<1>3. CASE EngineNext
  BY <1>3 DEF EngineNext, NextCall, SetCmd, ReleaseWait, AcquireWait, NextWait, NextCheck
<1>4. CASE EngineReset
  <2>1. CASE \/ SetCmd("reset_cmd", "reset", "reset_release")
             \/ SetCmd("nogoods_cmd", "reset", "nogoods_release")
    <3>1. At(ResetPoint) = {}
      BY <2>1 DEF SetCmd, ResetInv, ResetPC
    <3>2. At(Acked) # Worker
      BY <3>1, SomeWorker DEF At, ResetPoint, Acked
    <3> QED
      BY <2>1, <3>2 DEF SetCmd
  <2>2. CASE ResetUnlock
    <3>1. At({"reset_wait"}) = Worker
      BY <2>2 DEF ResetUnlock, ResetInv
    <3>2. At(ResetPoint) # {}
      BY <3>1, SomeWorker DEF At, ResetPoint
    <3> QED
      BY <2>2, <3>2 DEF ResetUnlock
  <2>3. CASE \/ ReleaseWait("reset_release", "reset_wait")
             \/ ReleaseWait("nogoods_release", "nogoods_wait")
             \/ SetCmd("reset_block", "wait", "reset_lock")
             \/ AcquireWait("reset_lock", "reset_unlock")
    BY <2>3 DEF ReleaseWait, AcquireWait, SetCmd
  <2>4. CASE \/ ResetCall("reset_cmd") \/ ResetCall("nogoods_cmd")
             \/ ResetWait("reset_wait", "reset_do") \/ ResetWait("nogoods_wait", "nogoods_do")
             \/ ResetDo \/ NogoodsDo \/ ResetEnd
    BY <2>4 DEF ResetCall, ResetWait, ResetDo, NogoodsDo, ResetEnd
  <2> QED
    BY <1>4, <2>1, <2>2, <2>3, <2>4 DEF EngineReset
<1>5. CASE EngineTerm
  <2>1. CASE SetCmd("term_cmd", "terminate", "term_release")
    <3>1. At(TermPoint) = {}
      BY <2>1 DEF SetCmd, TermInv, TermPC
    <3>2. At(LeftPoint \cup {"term_wait"}) # Worker
      BY <3>1, SomeWorker DEF At, TermPoint, LeftPoint
    <3> QED
      BY <2>1, <3>2 DEF SetCmd
  <2>2. CASE TermUnlock
    <3>1. At({"term_wait"}) = Worker
      BY <2>2 DEF TermUnlock, TermInv
    <3>2. At({"gone"}) # Worker
      BY <3>1, SomeWorker DEF At
    <3> QED
      BY <2>2, <3>2 DEF TermUnlock
  <2>3. CASE TermCall \/ ReleaseWait("term_release", "term_wait") \/ TermWait \/ TermEnd
    BY <2>3 DEF TermCall, ReleaseWait, TermWait, TermEnd
  <2> QED
    BY <1>5, <2>1, <2>2, <2>3 DEF EngineTerm
<1> QED
  BY <1>3, <1>4, <1>5 DEF Engine

(* The worker that makes one of these sets of workers complete is the one that finds
   its counter at the end, and signals. *)
LEMMA SignalWorkerStep ==
  ASSUME TypeOK, ResetInv, TermInv, SignalInv, NEW w \in Worker,
         WorkerControl(w) \/ WorkerSearch(w)
  PROVE  SignalInv'
<1> USE DEF searchVars, resetVars, termVars
<1>0. ControlOK
  BY DEF TypeOK
<1> DEFINE Gathered == LeftPoint \cup {"term_wait"}
<1>1. ASSUME NEW from, NEW to, WGoto(w, from, to),
             UNCHANGED <<mWait, epc, eResetStart, eResetStop, eTermAck, eTerminate>>,
             from \in Acked <=> to \in Acked,
             \/ from \in ResetPoint <=> to \in ResetPoint
             \/ epc # "reset_end",
             from \in Gathered <=> to \in Gathered,
             from = "gone" <=> to = "gone"
      PROVE  SignalInv'
  <2>1. /\ At(Acked)' = At(Acked) /\ At(Gathered)' = At(Gathered)
        /\ At({"gone"})' = At({"gone"})
        /\ epc = "reset_end" => At(ResetPoint)' = At(ResetPoint)
    BY <1>0, <1>1, AtMove
  <2> QED
    BY <1>1, <2>1 DEF SignalInv
<1>2. CASE Poll(w)
  <2>1. PICK to \in {"work", "wait", "reset_ack", "term_ack"} :
          WGoto(w, "loop", to) /\ (to = "reset_ack" => cmd = "reset")
    BY <1>0, <1>2 DEF Poll, PollTarget, ControlOK
  <2>2. to = "reset_ack" => epc # "reset_end"
    BY <2>1 DEF ResetInv, ResetPC
  <2> QED
    BY <1>1, <1>2, <2>1, <2>2 DEF Poll, Acked, ResetPoint, LeftPoint
<1>3. CASE AckResetStart(w)
  <2>1. WGoto(w, "reset_ack", "reset_wait")
    BY <1>3 DEF AckResetStart
  <2>2. /\ Cardinality(At(Acked)') = Cardinality(At(Acked)) + 1
        /\ At(Gathered)' = At(Gathered) /\ At({"gone"})' = At({"gone"})
    BY <1>0, <2>1, AtMove DEF Acked, LeftPoint
  <2>3. epc # "reset_end"
    BY <2>1 DEF At, WGoto, ResetInv
  <2>4. At(Acked)' = Worker => eResetStart'
    <3>1. nResetNotAck - 1 = NWorkers - Cardinality(At(Acked)')
      BY <2>2, CountBounds, NWorkersAssumption DEF ResetInv, At
    <3>2. At(Acked)' = Worker => nResetNotAck - 1 = 0
      BY <3>1, WorkerFinite, NWorkersAssumption
    <3> QED
      BY <1>3, <3>2 DEF AckResetStart
  <2> QED
    BY <1>3, <2>2, <2>3, <2>4 DEF AckResetStart, SignalInv
<1>4. CASE WaitReset(w)
  BY <1>1, <1>4 DEF WaitReset, Acked, ResetPoint, LeftPoint
<1>5. CASE AckResetStop(w)
  <2>1. WGoto(w, "reset_stop", "loop")
    BY <1>5 DEF AckResetStop
  <2>2. /\ Cardinality(At(Acked)') = Cardinality(At(Acked)) - 1
        /\ At(Gathered)' = At(Gathered) /\ At({"gone"})' = At({"gone"})
    BY <1>0, <2>1, AtMove DEF Acked, LeftPoint
  <2>3. At(Acked)' # Worker
    BY <1>0, <2>1 DEF At, WGoto, Acked, ControlOK
  <2>4. At(ResetPoint)' = {} => eResetStop'
    <3>1. nResetNotAck + 1 = NWorkers - Cardinality(At(Acked)')
      BY <2>2, CountBounds, NWorkersAssumption DEF ResetInv, At
    <3>2. At(ResetPoint)' = {} => At(Acked)' = {}
      BY DEF At, Acked, ResetPoint
    <3>3. At(ResetPoint)' = {} => nResetNotAck + 1 = NWorkers
      BY <3>1, <3>2, FS_EmptySet, NWorkersAssumption
    <3> QED
      BY <1>5, <3>3 DEF AckResetStop
  <2> QED
    BY <1>5, <2>2, <2>3, <2>4 DEF AckResetStop, SignalInv
<1>6. CASE AckTerminate(w)
  <2>1. WGoto(w, "term_ack", "term_wait")
    BY <1>6 DEF AckTerminate
  <2>2. /\ Cardinality(At(Gathered)') = Cardinality(At(Gathered)) + 1
        /\ At(Acked)' = At(Acked) /\ At({"gone"})' = At({"gone"})
        /\ At(ResetPoint)' = At(ResetPoint)
    BY <1>0, <2>1, AtMove DEF Acked, LeftPoint, ResetPoint
  <2>3. At(Gathered)' = Worker => eTermAck'
    <3>1. nTermNotAck - 1 = NWorkers - Cardinality(At(Gathered)')
      BY <2>2, CountBounds, NWorkersAssumption DEF TermInv, At
    <3>2. At(Gathered)' = Worker => nTermNotAck - 1 = 0
      BY <3>1, WorkerFinite, NWorkersAssumption
    <3> QED
      BY <1>6, <3>2 DEF AckTerminate
  <2> QED
    BY <1>6, <2>2, <2>3 DEF AckTerminate, SignalInv
<1>7. CASE WaitTerminate(w) \/ Delete(w)
  BY <1>1, <1>7 DEF WaitTerminate, Delete, Acked, ResetPoint, LeftPoint
<1>8. CASE Terminated(w)
  <2>1. PICK to \in {"term_signal", "gone"} :
          WGoto(w, "terminated", to) /\ (to = "gone" => nNotTerminated - 1 # 0)
    BY <1>8 DEF Terminated
  <2>2. /\ Cardinality(At({"term_signal", "gone"})') = Cardinality(At({"term_signal", "gone"})) + 1
        /\ At(Acked)' = At(Acked) /\ At(Gathered)' = At(Gathered)
        /\ At(ResetPoint)' = At(ResetPoint)
    BY <1>0, <2>1, AtMove DEF Acked, LeftPoint, ResetPoint
  <2>3. At({"gone"})' # Worker
    <3>1. SUFFICES ASSUME At({"gone"})' = Worker
                   PROVE  FALSE
      OBVIOUS
    <3>2. At({"term_signal", "gone"})' = Worker
      BY <3>1 DEF At
    <3>3. nNotTerminated - 1 = NWorkers - Cardinality(At({"term_signal", "gone"})')
      BY <2>2, CountBounds, NWorkersAssumption DEF TermInv, At
    <3>4. nNotTerminated - 1 = 0
      BY <3>2, <3>3, WorkerFinite, NWorkersAssumption
    <3>5. wpc'[w] = "term_signal"
      BY <1>0, <2>1, <3>4 DEF WGoto, ControlOK
    <3> QED
      BY <3>1, <3>5 DEF At
  <2> QED
    BY <1>8, <2>2, <2>3 DEF Terminated, SignalInv
<1>9. CASE SignalTerminated(w)
  <2>1. WGoto(w, "term_signal", "gone")
    BY <1>9 DEF SignalTerminated
  <2>2. /\ At(Acked)' = At(Acked) /\ At(Gathered)' = At(Gathered)
        /\ At(ResetPoint)' = At(ResetPoint)
    BY <1>0, <2>1, AtMove DEF Acked, LeftPoint, ResetPoint
  <2> QED
    BY <1>9, <2>2 DEF SignalTerminated, SignalInv
<1>10. CASE \/ ReportSolution(w) \/ ReportIdle(w) \/ ReportStop(w) \/ ReportBusy(w)
            \/ Wait(w) \/ StartFind(w) \/ FindNothing(w)
  BY <1>1, <1>10 DEF ReportSolution, ReportIdle, ReportStop, ReportBusy, Wait, StartFind,
                     FindNothing, Acked, ResetPoint, LeftPoint
<1>11. CASE WorkerSearch(w)
  <2>1. CASE StealNothing(w)
    BY <2>1, AtSame DEF StealNothing, SignalInv
  <2> QED
    BY <1>1, <1>11, <2>1 DEF WorkerSearch, Explore, Stopped, RunDry, DiscardSolution, Take, Solved,
                             StealSpace, Acked, ResetPoint, LeftPoint
<1> QED
  BY <1>2, <1>3, <1>4, <1>5, <1>6, <1>7, <1>8, <1>9, <1>10, <1>11 DEF WorkerControl

LEMMA SignalInvCorrect == Spec => []SignalInv
<1>1. TypeOK /\ ResetInv /\ TermInv /\ SignalInv /\ [Next]_vars => SignalInv'
  <2> SUFFICES ASSUME TypeOK, ResetInv, TermInv, SignalInv, [Next]_vars
               PROVE  SignalInv'
    OBVIOUS
  <2>1. CASE UNCHANGED vars
    BY <2>1, AtSame DEF vars, resetVars, termVars, workerVars, SignalInv
  <2> QED
    BY <2>1, SignalEngineStep, SignalWorkerStep DEF Next
<1> QED
  BY <1>1, SignalInit, TypeCorrect, ResetInvCorrect, TermInvCorrect, PTL DEF Spec

(***************************************************************************)
(* The number of busy workers and the wakeup of next().                    *)
(***************************************************************************)
(* A worker that steals, or that is about to call idle() or busy(), has its
   idle flag set. *)
BusyInv ==
  /\ NBusyAccurate
  /\ \A w \in Worker : wpc[w] \in {"find", "busy", "take", "idle"} => idle[w]

Busy == {w \in Worker : Counted(w)}

(* From before the workers are released until next() wakes up. *)
WakeupInv ==
  epc \in {"next_cmd", "next_release", "next_wait"} /\ Reportable => eSearch

LEMMA BusyInit == Init => BusyInv
<1> SUFFICES ASSUME Init
             PROVE  BusyInv
  OBVIOUS
<1>1. Busy = Worker
  BY DEF Init, Busy, Counted
<1> QED
  BY <1>1, WorkerFinite DEF Init, BusyInv, NBusyAccurate, Busy

LEMMA BusyEngineStep ==
  ASSUME TypeOK, ResetInv, BusyInv, Engine
  PROVE  BusyInv'
<1> USE DEF EGoto, searchVars, resetVars, termVars, workerVars
<1>1. CASE ResetDo
  <2>1. /\ nBusy' = NWorkers /\ wpc' = wpc
        /\ \A w \in Worker : ~idle'[w]
    BY <1>1 DEF ResetDo
  <2>2. Busy' = Worker
    BY <2>1 DEF Busy, Counted
  <2>3. \A w \in Worker : wpc[w] = "reset_wait"
    BY <1>1 DEF ResetDo, ResetInv, At
  <2> QED
    BY <2>1, <2>2, <2>3, WorkerFinite DEF BusyInv, NBusyAccurate, Busy
<1>2. CASE ~ResetDo
  <2>1. UNCHANGED <<nBusy, wpc, idle>>
    BY <1>2 DEF Engine, EngineNext, NextCall, SetCmd, ReleaseWait, AcquireWait, NextWait, NextCheck,
           EngineReset, ResetCall, ResetWait, NogoodsDo, ResetUnlock, ResetEnd,
           EngineTerm, TermCall, TermWait, TermUnlock, TermEnd
  <2> QED
    BY <2>1 DEF BusyInv, NBusyAccurate, Counted
<1> QED
  BY <1>1, <1>2

(* A worker's own step changes whether it is counted only in idle() and
   busy(), where n_busy changes as well. *)
LEMMA BusyWorkerStep ==
  ASSUME TypeOK, BusyInv, NEW w \in Worker, WorkerControl(w) \/ WorkerSearch(w)
  PROVE  BusyInv'
<1> USE DEF searchVars, resetVars, termVars
<1>1. ControlOK /\ FlagsOK /\ nBusy \in Int
  BY DEF TypeOK, CountsOK
<1> DEFINE IdlePoint == {"find", "busy", "take", "idle"}
<1>2. ASSUME NEW from, NEW to, WGoto(w, from, to),
             idle' = idle \/ idle' = [idle EXCEPT ![w] = idle'[w]],
             to \in IdlePoint => idle'[w],
             \/ UNCHANGED nBusy /\ (Counted(w)' <=> Counted(w))
             \/ nBusy' = nBusy - 1 /\ ~Counted(w)' /\ Counted(w)
             \/ nBusy' = nBusy + 1 /\ Counted(w)' /\ ~Counted(w)
      PROVE  BusyInv'
  <2>1. \A v \in Worker \ {w} : wpc'[v] = wpc[v] /\ idle'[v] = idle[v]
    BY <1>1, <1>2 DEF WGoto, ControlOK, FlagsOK
  <2>2. /\ Busy \in SUBSET Worker /\ Busy' \in SUBSET Worker
        /\ \A v \in Worker \ {w} : v \in Busy' <=> v \in Busy
        /\ w \in Busy <=> Counted(w)
        /\ w \in Busy' <=> Counted(w)'
    BY <2>1 DEF Busy, Counted
  <2>3. nBusy = Cardinality(Busy)
    BY DEF BusyInv, NBusyAccurate, Busy
  <2>4. nBusy' = Cardinality(Busy')
    <3>1. CASE Counted(w)' <=> Counted(w)
      BY <1>2, <2>2, <2>3, <3>1, CountMove
    <3>2. CASE ~Counted(w)' /\ Counted(w)
      BY <1>2, <2>2, <2>3, <3>2, CountMove
    <3>3. CASE Counted(w)' /\ ~Counted(w)
      BY <1>2, <2>2, <2>3, <3>3, CountMove
    <3> QED
      BY <3>1, <3>2, <3>3
  <2>5. wpc'[w] = to
    BY <1>1, <1>2 DEF WGoto, ControlOK
  <2>6. \A v \in Worker : wpc'[v] \in IdlePoint => idle'[v]
    BY <1>2, <2>1, <2>5 DEF BusyInv
  <2> QED
    BY <2>4, <2>6 DEF BusyInv, NBusyAccurate, Busy
<1>3. CASE ReportIdle(w)
  <2>1. WGoto(w, "idle", "loop") /\ idle[w] /\ idle' = idle /\ nBusy' = nBusy - 1
    BY <1>3 DEF ReportIdle, WGoto, BusyInv
  <2>2. ~Counted(w)' /\ Counted(w)
    BY <1>1, <2>1 DEF Counted, WGoto, ControlOK
  <2> QED
    BY <1>2, <2>1, <2>2
<1>4. CASE ReportBusy(w)
  <2>1. WGoto(w, "busy", "take") /\ idle[w] /\ idle' = idle /\ nBusy' = nBusy + 1
    BY <1>4 DEF ReportBusy, WGoto, BusyInv
  <2>2. Counted(w)' /\ ~Counted(w)
    BY <1>1, <2>1 DEF Counted, WGoto, ControlOK
  <2> QED
    BY <1>2, <2>1, <2>2
<1>5. CASE RunDry(w)
  <2>1. /\ WGoto(w, "work", "idle") /\ ~idle[w] /\ nBusy' = nBusy
        /\ idle' = [idle EXCEPT ![w] = idle'[w]] /\ idle'[w]
    BY <1>1, <1>5 DEF RunDry, FlagsOK
  <2>2. Counted(w)' /\ Counted(w)
    BY <1>1, <2>1 DEF Counted, WGoto, ControlOK
  <2> QED
    BY <1>2, <2>1, <2>2
<1>6. CASE Take(w)
  <2>1. /\ WGoto(w, "take", "loop") /\ nBusy' = nBusy
        /\ idle' = [idle EXCEPT ![w] = idle'[w]] /\ ~idle'[w]
    BY <1>1, <1>6 DEF Take, FlagsOK
  <2>2. Counted(w)' /\ Counted(w)
    BY <2>1 DEF Counted, WGoto
  <2> QED
    BY <1>2, <2>1, <2>2
<1>7. CASE StealNothing(w)
  BY <1>7 DEF StealNothing, BusyInv, NBusyAccurate, Counted
<1>8. ASSUME NEW from, NEW to, WGoto(w, from, to), UNCHANGED <<nBusy, idle>>,
             to \in IdlePoint => idle[w],
             from \notin {"idle", "take"}, to \notin {"idle", "take"}
      PROVE  BusyInv'
  <2>1. Counted(w)' <=> Counted(w)
    BY <1>1, <1>8 DEF Counted, WGoto, ControlOK
  <2> QED
    BY <1>2, <1>8, <2>1
<1>9. CASE StartFind(w) \/ \E s \in Solution : StealSpace(w, s)
  <2>1. CASE StartFind(w)
    BY <1>8, <2>1 DEF StartFind
  <2>2. CASE \E s \in Solution : StealSpace(w, s)
    <3>1. WGoto(w, "find", "busy") /\ UNCHANGED <<nBusy, idle>> /\ idle[w]
      BY <2>2 DEF StealSpace, WGoto, BusyInv
    <3> QED
      BY <1>8, <3>1
  <2> QED
    BY <1>9, <2>1, <2>2
<1>10. CASE Poll(w)
  <2>1. PICK to \in {"work", "wait", "reset_ack", "term_ack"} : WGoto(w, "loop", to)
    BY <1>1, <1>10 DEF Poll, PollTarget, ControlOK
  <2> QED
    BY <1>8, <1>10, <2>1 DEF Poll
<1>11. CASE \/ ReportSolution(w) \/ ReportStop(w) \/ Wait(w) \/ FindNothing(w)
            \/ Explore(w) \/ Stopped(w) \/ DiscardSolution(w) \/ \E s \in Solution : Solved(w, s)
  BY <1>8, <1>11 DEF ReportSolution, ReportStop, Wait, FindNothing, Explore, Stopped,
                    DiscardSolution, Solved
<1>12. CASE AckResetStart(w) \/ WaitReset(w) \/ AckResetStop(w)
  BY <1>8, <1>12 DEF AckResetStart, WaitReset, AckResetStop
<1>13. CASE \/ AckTerminate(w) \/ WaitTerminate(w) \/ Delete(w)
            \/ Terminated(w) \/ SignalTerminated(w)
  <2>1. CASE Terminated(w)
    <3>1. PICK to \in {"term_signal", "gone"} : WGoto(w, "terminated", to)
      BY <2>1 DEF Terminated
    <3> QED
      BY <1>8, <2>1, <3>1 DEF Terminated
  <2> QED
    BY <1>8, <1>13, <2>1 DEF AckTerminate, WaitTerminate, Delete, SignalTerminated
<1> QED
  BY <1>3, <1>4, <1>5, <1>6, <1>7, <1>9, <1>10, <1>11, <1>12, <1>13
  DEF WorkerControl, WorkerSearch

LEMMA BusyInvCorrect == Spec => []BusyInv
<1>1. TypeOK /\ ResetInv /\ BusyInv /\ [Next]_vars => BusyInv'
  <2> SUFFICES ASSUME TypeOK, ResetInv, BusyInv, [Next]_vars
               PROVE  BusyInv'
    OBVIOUS
  <2>1. CASE UNCHANGED vars
    BY <2>1 DEF vars, searchVars, workerVars, BusyInv, NBusyAccurate, Counted
  <2> QED
    BY <2>1, BusyEngineStep, BusyWorkerStep DEF Next
<1> QED
  BY <1>1, BusyInit, TypeCorrect, ResetInvCorrect, PTL DEF Spec

(* n_busy is the number of workers that have a part of the tree or are being
   given one. *)
THEOREM NBusyIsAccurate == Spec => []NBusyAccurate
<1>1. BusyInv => NBusyAccurate
  BY DEF BusyInv
<1> QED
  BY <1>1, BusyInvCorrect, PTL

LEMMA NBusyNatural == BusyInv => nBusy \in Nat
<1>1. Busy \in SUBSET Worker
  BY DEF Busy
<1> QED
  BY <1>1, CountBounds DEF BusyInv, NBusyAccurate, Busy

LEMMA WakeupStep == TypeOK /\ BusyInv /\ WakeupInv /\ [Next]_vars => WakeupInv'
<1> SUFFICES ASSUME TypeOK, BusyInv, WakeupInv, [Next]_vars,
                    epc' \in {"next_cmd", "next_release", "next_wait"}, Reportable'
             PROVE  eSearch'
  BY DEF WakeupInv
<1> USE DEF EGoto, WakeupInv, Reportable, searchVars, resetVars, termVars, workerVars
<1>1. nBusy \in Nat /\ solutions \in Seq(Solution)
  BY NBusyNatural DEF TypeOK, SpacesOK
<1>2. CASE EngineNext
  BY <1>2 DEF EngineNext, NextCall, SetCmd, ReleaseWait, AcquireWait, NextWait, NextCheck
<1>3. CASE EngineReset \/ EngineTerm
  BY <1>3 DEF EngineReset, ResetCall, SetCmd, ReleaseWait, AcquireWait, ResetWait, ResetDo,
         NogoodsDo, ResetUnlock, ResetEnd, EngineTerm, TermCall, TermWait, TermUnlock, TermEnd
<1>4. ASSUME NEW w \in Worker, ReportSolution(w) \/ ReportIdle(w) \/ ReportStop(w)
      PROVE  eSearch'
  <2>1. epc \in {"next_cmd", "next_release", "next_wait"}
    BY <1>4 DEF ReportSolution, ReportIdle, ReportStop
  <2>2. ~Signal => Reportable
    BY <1>1 DEF Signal
  <2>3. CASE Reportable
    BY <1>4, <2>1, <2>3 DEF ReportSolution, ReportIdle, ReportStop
  <2>4. CASE Signal /\ ~Reportable
    <3>1. CASE ReportSolution(w)
      BY <2>4, <3>1 DEF ReportSolution
    <3>2. CASE ReportStop(w)
      BY <2>4, <3>2 DEF ReportStop
    <3>3. CASE ReportIdle(w)
      <4>1. nBusy' = 0
        BY <1>1, <2>4, <3>3 DEF ReportIdle
      <4> QED
        BY <2>4, <3>3, <4>1 DEF ReportIdle
    <3> QED
      BY <1>4, <3>1, <3>2, <3>3
  <2> QED
    BY <2>2, <2>3, <2>4
<1>5. ASSUME NEW w \in Worker, ReportBusy(w)
      PROVE  eSearch'
  BY <1>1, <1>5 DEF ReportBusy
<1>6. ASSUME NEW w \in Worker, WorkerControl(w) \/ WorkerSearch(w)
      PROVE  \/ ReportSolution(w) \/ ReportIdle(w) \/ ReportStop(w) \/ ReportBusy(w)
             \/ UNCHANGED <<epc, searchVars>>
  BY <1>6 DEF WorkerControl, Poll, Wait, StartFind, FindNothing, AckResetStart, WaitReset,
       AckResetStop, AckTerminate, WaitTerminate, Delete, Terminated, SignalTerminated,
       WorkerSearch, Explore, Stopped, RunDry, DiscardSolution, StealNothing, Take, Solved, StealSpace
<1>7. CASE UNCHANGED <<epc, searchVars>>
  BY <1>7
<1>8. CASE UNCHANGED vars
  BY <1>8 DEF vars
<1> QED
  BY <1>2, <1>3, <1>4, <1>5, <1>6, <1>7, <1>8 DEF Next, Engine

(* The engine's thread sleeps only while some worker is still to signal, and none of
   these waits for a mutex that the engine's thread holds. *)
LEMMA SleeperIsAwaited ==
  ASSUME TypeOK, ResetInv, TermInv, SignalInv, BusyInv, WakeupInv, Asleep
  PROVE  /\ \E w \in Worker : Awaited(w)
         /\ \A w \in Worker : Awaited(w) => ~Parked(w)
<1>1. CASE epc = "next_wait" /\ ~eSearch
  <2>1. ~Reportable
    BY <1>1 DEF WakeupInv
  <2>2. Busy # {}
    BY <2>1, FS_EmptySet DEF Reportable, BusyInv, NBusyAccurate, Busy
  <2>3. ~mWait /\ At(ResetPoint) = {} /\ At(TermPoint) = {}
    BY <1>1 DEF SignalInv, ResetInv, ResetPC, TermInv, TermPC
  <2>4. \A w \in Worker : ~Parked(w)
    BY <2>3 DEF Parked, At, ResetPoint, TermPoint, LeftPoint
  <2> QED
    BY <1>1, <2>2, <2>4 DEF Awaited, Busy
<1>2. CASE epc \in {"reset_wait", "nogoods_wait"} /\ ~eResetStart
  <2>1. At(Acked) # Worker
    BY <1>2 DEF SignalInv
  <2>2. ~mWait /\ At(TermPoint) = {}
    BY <1>2 DEF SignalInv, TermInv, TermPC
  <2>3. \A w \in Worker : Awaited(w) => ~Parked(w)
    BY <1>2, <2>2 DEF Awaited, Parked, At, TermPoint, LeftPoint
  <2> QED
    BY <1>2, <2>1, <2>3 DEF Awaited, At, Acked
<1>3. CASE epc = "reset_end" /\ ~eResetStop
  <2>1. At(ResetPoint) # {} /\ At({"reset_ack"}) = {}
    BY <1>3 DEF SignalInv, ResetInv
  <2>2. ~mWaitReset
    BY <1>3 DEF ResetInv, ResetPC
  <2>3. \A w \in Worker : Awaited(w) => ~Parked(w)
    BY <1>3, <2>2 DEF Awaited, Parked
  <2> QED
    BY <1>3, <2>1, <2>3 DEF Awaited, At, ResetPoint
<1>4. CASE epc = "term_wait" /\ ~eTermAck
  <2>1. At(LeftPoint \cup {"term_wait"}) # Worker
    BY <1>4 DEF SignalInv
  <2>2. ~mWait /\ At(ResetPoint) = {} /\ At(LeftPoint) = {}
    BY <1>4 DEF SignalInv, ResetInv, ResetPC, TermInv
  <2>3. \A w \in Worker : Awaited(w) => ~Parked(w)
    BY <1>4, <2>2 DEF Awaited, Parked, At, ResetPoint, LeftPoint
  <2> QED
    BY <1>4, <2>1, <2>3 DEF Awaited, At, LeftPoint
<1>5. CASE epc = "term_end" /\ ~eTerminate
  <2>1. At({"gone"}) # Worker
    BY <1>5 DEF SignalInv
  <2>2. ~mWait /\ ~mWaitTerminate /\ At(ResetPoint) = {}
    BY <1>5 DEF SignalInv, ResetInv, ResetPC, TermInv
  <2>3. \A w \in Worker : Awaited(w) => ~Parked(w)
    BY <1>5, <2>2 DEF Awaited, Parked, At, ResetPoint
  <2> QED
    BY <1>5, <2>1, <2>3 DEF Awaited, At
<1> QED
  BY <1>1, <1>2, <1>3, <1>4, <1>5 DEF Asleep

(* next() never sleeps through a solution, the end of the search or a stop, and
   whatever the engine's thread sleeps for, some worker is still to signal it and none
   of these workers waits for the engine. *)
THEOREM WakeupIsNotLost == Spec => []NoLostWakeup
<1>1. Init => WakeupInv
  BY DEF Init, WakeupInv
<1>2. TypeOK /\ ResetInv /\ TermInv /\ SignalInv /\ BusyInv /\ WakeupInv => NoLostWakeup
  <2>1. WakeupInv => (epc = "next_wait" /\ Reportable => eSearch)
    BY DEF WakeupInv
  <2> QED
    BY <2>1, SleeperIsAwaited DEF NoLostWakeup
<1> QED
  BY <1>1, <1>2, WakeupStep, TypeCorrect, ResetInvCorrect, TermInvCorrect, SignalInvCorrect,
     BusyInvCorrect, PTL DEF Spec
=============================================================================
