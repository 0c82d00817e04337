--------------------------------- MODULE RBS ---------------------------------
(***************************************************************************)
(* Restart-based search, gecode/search/seq/rbs.cpp: a meta engine that     *)
(* keeps a master space and runs another engine on slaves cloned from it.  *)
(*                                                                         *)
(* A space is the set of the solutions that it admits.  The engine e is    *)
(* modelled by what it promises to RBS: it delivers the solutions of its   *)
(* slave, with Best in ever better order, and the no-goods taken from it   *)
(* exclude some of those it is done with.  A parallel engine may have more *)
(* solutions found than delivered; reset() leaves these in its queue.      *)
(*                                                                         *)
(* The restart number, the fail limit and the statistics are left out: a   *)
(* limit may be hit at any time.                                           *)
(***************************************************************************)
EXTENDS Integers, Sequences, SequencesExt

CONSTANTS
  Solution,      \* the objective values of all possible solutions
  NoSpace,       \* the null pointer, no solution
  FailedSpace,   \* a space that is failed
  External,      \* solutions that constrain() may be called with
  Options        \* ways to use RBS, as records of
                 \*   best       e searches for the best solution
                 \*   nogoods    nogoods_limit is positive
                 \*   first      what slave() may return for RR_INIT
                 \*   complete   what slave() may return after that
                 \*   max_queue  solutions found and not delivered: 1 if e is sequential

SolutionAssumption == Solution \subseteq Int /\ External \subseteq Solution
OptionsAssumption ==
  Options \subseteq [best : BOOLEAN, nogoods : BOOLEAN, first : (SUBSET BOOLEAN) \ {{}},
                     complete : (SUBSET BOOLEAN) \ {{}}, max_queue : Nat \ {0}]
(* RBS promises what it does only if the first slave is complete, since it does not
   ask, and if e has delivered all that it has found whenever it restarts *)
EngineAssumption == \A o \in Options : o.first = {TRUE} /\ o.max_queue = 1
SpaceAssumption ==
  /\ FailedSpace # NoSpace /\ NoSpace \notin Solution
  /\ \A m \in SUBSET Solution : m \notin {NoSpace, FailedSpace}

VARIABLES
  problem, opt,                           \* the solutions of the problem, the options
  master, last, complete, restart,        \* members of RBS
  eTodo, eSeen, solutions, eStopped,      \* e: solutions to be found, solutions it
                                          \* is done with, queue, e->stopped()
  e_stopped,                              \* RestartStop: the limit has been hit
  pc, ret,
  delivered                               \* history: the solutions returned

engineVars == <<eTodo, eSeen, solutions, eStopped>>
vars == <<problem, opt, master, last, complete, restart, engineVars, e_stopped, pc, ret, delivered>>

Admitted(m) == IF m = FailedSpace THEN {} ELSE m
BetterThan(S, b) == IF b = NoSpace THEN S ELSE {s \in S : s < b}

(* the slave that slave() makes of a master: incomplete, a neighbourhood *)
Slaves(m, c) == IF c THEN {m} ELSE SUBSET m

Init ==
  /\ problem \in (SUBSET Solution) \ {{}} /\ opt \in Options
  /\ master = problem /\ last = NoSpace /\ complete = TRUE /\ restart = FALSE
  /\ \E c \in opt.first : eTodo \in Slaves(problem, c)
  /\ eSeen = {} /\ solutions = <<>> /\ eStopped = FALSE
  /\ e_stopped = FALSE
  /\ pc = "user" /\ ret = NoSpace /\ delivered = {}

NextCall ==
  /\ pc = "user" /\ pc' = IF restart THEN "restart" ELSE "engine"
  /\ UNCHANGED <<problem, opt, master, last, complete, restart, engineVars, e_stopped, ret, delivered>>

Return(s) == pc' = "user" /\ ret' = s

(* e->reset(s) *)
ResetEngine(s) == eTodo' = s /\ eSeen' = {} /\ UNCHANGED solutions

(* master(mi): the master is constrained and gets the no-goods; it can fail
   only if it admits no solution any more, and then stays failed *)
Configured(m) ==
  LET after == {(IF opt.best THEN BetterThan(Admitted(m), last) ELSE Admitted(m)) \ ng :
                  ng \in IF opt.nogoods THEN SUBSET eSeen ELSE {{}}}
  IN  IF m = FailedSpace THEN {m} ELSE after \cup (IF {} \in after THEN {FailedSpace} ELSE {})

(* a clone of the master is configured by slave() and e is reset to it *)
StartSlave(m) ==
  /\ master' = m
  /\ \E c \in opt.complete : \E s \in Slaves(m, c) : complete' = c /\ ResetEngine(s)
  /\ pc' = "engine" /\ UNCHANGED eStopped

(* next() after a solution: whether to restart is left to master() *)
SolutionRestart ==
  /\ pc = "restart" /\ master # NoSpace
  /\ restart' = FALSE
  /\ \E m \in Configured(master) :
       \/ /\ m = FailedSpace /\ master' = NoSpace
          /\ ResetEngine({}) /\ Return(NoSpace) /\ UNCHANGED <<complete, eStopped>>
       \/ m # FailedSpace /\ StartSlave(m) /\ UNCHANGED ret
       \/ m # FailedSpace /\ master' = m /\ pc' = "engine" /\ UNCHANGED <<complete, engineVars, ret>>
  /\ UNCHANGED <<problem, opt, last, e_stopped, delivered>>

(* e->next() starts: what is left in the queue is delivered at once *)
EngineNext ==
  /\ pc = "engine" /\ solutions = <<>>
  /\ pc' = "search" /\ eStopped' = FALSE
  /\ UNCHANGED <<problem, opt, master, last, complete, restart, eTodo, eSeen, solutions, e_stopped, ret, delivered>>

EngineFinds(s) ==
  LET left == IF opt.best THEN BetterThan(eTodo, s) ELSE eTodo \ {s}
  IN  /\ pc = "search" /\ s \in eTodo /\ Len(solutions) < opt.max_queue
      /\ solutions' = Append(solutions, s)
      /\ eTodo' = left /\ eSeen' = eSeen \cup (eTodo \ left)
      /\ UNCHANGED <<problem, opt, master, last, complete, restart, eStopped, e_stopped, pc, ret, delivered>>

EngineDelivers ==
  /\ pc \in {"engine", "search"} /\ solutions # <<>>
  /\ solutions' = Tail(solutions)
  /\ restart' = TRUE /\ last' = Head(solutions)
  /\ Return(Head(solutions)) /\ delivered' = delivered \cup {Head(solutions)}
  /\ UNCHANGED <<problem, opt, master, complete, eTodo, eSeen, eStopped, e_stopped>>

(* the stop object stops e: by the limit, unless e has been reset to no space
   and has nothing to fail, or because the stop object of the meta engine says
   so *)
EngineStops(limit) ==
  /\ pc = "search" /\ pc' = "null" /\ solutions = <<>>
  /\ limit => master # NoSpace
  /\ eStopped' = TRUE /\ e_stopped' = limit
  /\ UNCHANGED <<problem, opt, master, last, complete, restart, eTodo, eSeen, solutions, ret, delivered>>

EngineExhausted ==
  /\ pc = "search" /\ pc' = "null" /\ solutions = <<>> /\ eTodo = {}
  /\ UNCHANGED <<problem, opt, master, last, complete, restart, engineVars, e_stopped, ret, delivered>>

(* an incomplete round is over, or its limit has been hit *)
MustRestart == (~complete /\ ~eStopped) \/ (eStopped /\ e_stopped)

(* a true restart *)
TrueRestart ==
  /\ pc = "null" /\ MustRestart /\ master # NoSpace
  /\ e_stopped' = FALSE
  /\ \E m \in Configured(master) :
       \/ m = FailedSpace /\ master' = m /\ Return(NoSpace) /\ UNCHANGED <<complete, engineVars>>
       \/ m # FailedSpace /\ StartSlave(m) /\ UNCHANGED ret
  /\ UNCHANGED <<problem, opt, last, restart, delivered>>

GiveUp ==
  /\ pc = "null" /\ ~MustRestart
  /\ Return(NoSpace)
  /\ UNCHANGED <<problem, opt, master, last, complete, restart, engineVars, e_stopped, delivered>>

(* constrain(b), from a portfolio that RBS is a slave of: not after RBS has
   reported that it is exhausted *)
Constrain(b) ==
  /\ pc = "user" /\ opt.best /\ master # NoSpace
  /\ last # NoSpace => b <= last
  /\ last' = b
  /\ master' = IF master = FailedSpace THEN master ELSE BetterThan(master, b)
  /\ eTodo' = BetterThan(eTodo, b) /\ eSeen' = eSeen \cup (eTodo \ BetterThan(eTodo, b))
  /\ UNCHANGED <<problem, opt, complete, restart, solutions, eStopped, e_stopped, pc, ret, delivered>>

Engine ==
  \/ EngineNext \/ (\E s \in Solution : EngineFinds(s)) \/ EngineDelivers
  \/ (\E limit \in BOOLEAN : EngineStops(limit)) \/ EngineExhausted

Next ==
  \/ NextCall \/ SolutionRestart \/ Engine \/ TrueRestart \/ GiveUp
  \/ \E b \in External \cap problem : Constrain(b)

Spec == Init /\ [][Next]_vars

-----------------------------------------------------------------------------
(***************************************************************************)
(* Properties.                                                             *)
(***************************************************************************)

(* Every variable keeps its type, and what e has to explore is apart from what
   it is done with. *)
TypeOK ==
  /\ problem \subseteq Solution /\ delivered \subseteq problem
  /\ master = NoSpace \/ master = FailedSpace \/ master \subseteq problem
  /\ {last, ret} \subseteq problem \cup {NoSpace}
  /\ {complete, restart, eStopped, e_stopped} \subseteq BOOLEAN
  /\ eTodo \subseteq problem /\ eSeen \subseteq problem /\ eTodo \cap eSeen = {}
  /\ solutions \in Seq(problem) /\ Len(solutions) <= opt.max_queue
  /\ pc \in {"user", "restart", "engine", "search", "null"}

(* What is still to be reported: better solutions, or those that have not
   been reported yet (without no-goods others may come again). *)
Remaining == IF opt.best THEN BetterThan(problem, last) ELSE problem \ delivered

(* Restarts lose nothing: whatever no-goods, bounds and neighbourhoods the
   rounds before have left, the master admits every solution that is still to
   be reported, but for those that wait in the queue of e. *)
MasterKeepsRemaining ==
  master # NoSpace => Remaining \subseteq Admitted(master) \cup Range(solutions)

(* If every slave is complete, next() never restarts from a master that it has
   deleted.  (With an incomplete one it does: when the master has failed after
   a solution, another call of next() is one too many.) *)
NoMasterLost ==
  opt.complete = {TRUE} /\ (pc = "restart" \/ (pc = "null" /\ MustRestart)) => master # NoSpace

(* What holds of the master at any time. *)
MasterOK == TypeOK /\ MasterKeepsRemaining /\ NoMasterLost

(* "Return next solution (nullptr, if none exists or search has been stopped)":
   null and not stopped means that nothing is left. *)
NullMeansDone ==
  pc # "user" /\ pc' = "user" /\ ret' = NoSpace /\ ~eStopped' => Remaining' = {}

(* Restart-based search for a best solution is a stream of ever better
   solutions that ends with an optimal one, however often it restarts, by the
   same specification as the engines it restarts. *)
Stream == INSTANCE SolutionStream WITH
  todo <- IF opt.best THEN Remaining ELSE {},
  calling <- opt.best /\ pc # "user",
  ret <- IF opt.best THEN ret ELSE NoSpace,
  stopped <- opt.best /\ eStopped /\ pc = "user",
  Before <- LAMBDA s, t : FALSE,
  After <- LAMBDA S, s : {t \in S : t < s}
=============================================================================
