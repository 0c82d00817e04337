# Gecode: search, propagation and threads, specified and verified

Gecode is a C++ library for constraint programming. This directory holds a TLA+
development of the parts of it that carry its control:

* the **search engines** (`src/gecode/search`), which decide what is explored, by
  whom, and when the search is over;
* what they do on the **kernel** (`src/gecode/kernel`): propagation to a fixpoint,
  branchers and choices, cloning, and the no-goods that restarts post;
* what they run on in the **support library** (`src/gecode/support`): threads,
  global mutexes, parallel jobs, the dynamic queue.

The directory has three kinds of modules: specifications (`ParEngine`,
`Propagation`, ...), their instances for the model checker (`MC*.tla` with
`MC*.cfg`), and modules with proofs (`*Proofs.tla`). `PROJECT.json` lists for every
definition the lines of the code it stands for, for every run what it checks, for
every property a plausible bug that the run finds, and for every hazard of the code
the properties that cover it.

## 1. Inventory

### The system

A *space* is a constraint problem: variables, propagators, branchers. The kernel
gives search four operations on it: `status()` propagates and says failed,
solved or branch; `choice()` describes the alternatives of a node; `commit()`
takes one; `clone()` copies. A *search engine* explores the tree these make and
returns solutions one by one from `next()`. Engines stack: restart-based search
(RBS) and portfolio search (PBS) are engines that run other engines.

| component | state | operations | with whom it interacts |
|---|---|---|---|
| path of edges (`seq/path.hpp`, `par/path.hpp`) | stack of edges: choice, alternative, last alternative to take, clone or none; depth limit for no-goods; count of edges with work | `push`, `next`, `recompute` (two versions), `lc`, `unwind`, `steal`, `post` | owned by an engine or worker; robbed by other workers |
| sequential DFS, BAB (`seq/dfs.hpp`, `seq/bab.hpp`) | current space, path, distance to last clone; BAB: best solution, mark | `next`, `stopped`, `constrain`, `reset`, `nogoods` | kernel, stop object |
| sequential LDS (`seq/lds.hpp`) | root, number of discrepancies, probe with its stack | `next`, `reset` | kernel, stop object |
| parallel engine (`par/engine.hpp`) | command, busy count, solution queue, stop flag, four events, counters of acknowledgements, three mutexes that are held to keep workers waiting | `next`, `release`, `block`, `reset`, `nogoods`, `terminate`; `idle`, `busy`, `stop`, `ack_*`, `wait_*` by workers | one thread per worker |
| parallel DFS, BAB (`par/dfs.hpp`, `par/bab.hpp`) | every worker: current space, path, distance, idle flag; BAB: mark and best solution of every worker and of the engine | `run`, `find`, `solution`, `better`, `constrain`, `reset` | workers steal from each other and tell each other of solutions |
| RBS (`seq/rbs.cpp`) | master space, last solution, complete flag, pending restart, the engine and its stop object | `next`, `stopped`, `constrain`, `reset` | any engine; the `master()` and `slave()` functions of the problem |
| sequential PBS (`seq/pbs.hpp`) | array of slaves, current one, slice, shared limit, exhausted count | `next`, `constrain` | slave engines, a stop object shared by all |
| parallel PBS (`par/pbs.hpp`) | array of slaves split in active and inactive, busy count, stop request, collected solutions | `next`, `report`, `constrain`, destructor | slaves on threads of their own |
| cutoff generators (`cutoff.cpp`) | current value, a part and a counter | `()`, `++` | RBS |
| no-good propagator (`nogoods.cpp`) | chain of literals from a path, the subscribed ones, their number | `post`, `propagate`, `dispose` | RBS's master; views |
| propagation (`kernel/core.cpp`, `core.hpp`) | a queue of propagators for each cost, events of each propagator, the greatest queue in use, disabled groups | `status`, `enqueue`, `post`, `kill`, `fail`, `disable`, `enable` | propagators, advisors, views |
| branchers and choices | list of branchers, the one to ask and the one to commit, the next number | `status`, `choice`, `commit`, `kill`, posting | paths of choices in the engines |
| cloning | forwarding pointers in the original, lists of the clone | `clone`, `recover`, `update` | actors, advisors, variables, local objects |
| threads (`support/thread`) | stack of idle threads, an event and a runnable for each | `run`, `exec` | all parallel engines |
| global mutexes (`support/thread/thread.cpp`) | one thread that owns the mutexes of blocked workers, a request, two events | `acquireGlobalMutex`, `releaseGlobalMutex` | parallel engines |
| parallel jobs (`support/run-jobs.hpp`) | number of threads, next job, queued results, early stop | `run`, `stopped`, destructor | the thread pool; the code of users |
| dynamic queue (`support/dynamic-queue.hpp`) | ring buffer | `push`, `pop`, `resize` | solutions of the parallel engines |
| stop objects, statistics | limits, counters | `stop` | all engines |
| variables, propagators, MiniModel, FlatZinc, Gist, driver | domains and filtering algorithms, front ends | – | kernel |

### What is hard about it

* **Interleaving of workers and caller.** The engine's thread blocks its workers
  by taking a mutex and does not wait for steps that have begun; every call
  (`next`, `reset`, `nogoods`, the destructor) may find workers in the middle of
  anything, stealing included.
* **Windows between critical sections.** A theft, a report and a termination
  each consist of two or three critical sections of different mutexes. A thread of
  the pool is on the idle stack before it waits; a request to the global thread and
  its signal are two steps.
* **Events that remember one signal.** Results and ends of threads, wakeups of
  `next()` and acknowledgements share events; a second signal is lost by design.
* **Recomputation.** Clones are left on few edges, used up at the last
  alternative, placed anew in the middle of long paths, given away, and may fail
  when recomputed; the path and the current space must agree at every moment
  because no-goods are read off the path, and a choice must find the brancher that
  made it in a space that has been made along another way.
* **Bounds.** In branch-and-bound a clone on the path may or may not have been
  constrained with the best solution; one number per path, `mark`, says which.
* **Self-modification while running.** A propagator may schedule, post, disable or
  subsume others and itself while it runs; no-goods are unlinked and subscribed
  while their chain is traversed; cloning keeps forwarding pointers inside the very
  objects that it copies, and has to put them back when it is interrupted.
* **Long protocols of legal calls.** `next()` after null, `constrain()` with
  worse solutions, `reset()` with solutions in the queue, a stop in every place.

### What makes it correct

Every engine promises the same thing, `SolutionStream`: each call of `next()`
returns one of the solutions still to be reported, or null, because none is left
or because it was stopped, and then the next call continues. DFS returns each
solution once, from left to right; LDS by the number of discrepancies; best
solution search in strictly improving order, ending with an optimum. Propagation
promises `FixpointIteration`, the pool of threads `ThreadPool`, the queue `Fifo`.
Around this are the properties of the machinery: no part of the tree lost or explored twice,
no wakeup missed, barriers that exclude, no worker used after its deletion, no
propagator forgotten, clones that are faithful and leave no trace, and calls that
return.

## 2. Modules

```
SolutionStream    <-- implemented by --  SeqDFS  SeqBAB  LDS  RBS  SeqPBS  ParPBS
FixpointIteration <-- implemented by --  Propagation
ThreadPool        <-- implemented by --  Threads
Fifo              <-- implemented by --  DynamicQueue

SearchTree --- SeqDFS, SeqBAB, LDS
SearchPath --- SeqDFS, SeqBAB, ParDFS, ParBAB           (uses Nodes, Spaces)

ParEngine <--- extended by --- ParDFS, ParBAB           (each step conjoined with the tree)
    |                             |       |
ParEngineProofs  <---------- ParDFSProofs ParBABProofs ----------> PathProofs

SeqEngines runs  SeqDFS  SeqBAB  LDS  RBS  SeqPBS  Cutoffs  <--- SeqProofs ---> PathProofs
  MCSeq                                          (instances for the model checker)
Kernel     runs  Propagation  Branching  Cloning  NoGoodProp   <--- KernelProofs
  MCKernel                                       (instances for the model checker)
MCSupport  runs  Threads  GlobalMutex  RunJobs  DynamicQueue   <--- SupportProofs
```

### Search

**SearchTree, SearchPath.** A node is the sequence of alternatives leading to it.
`SearchPath` is the stack, with one operator per member function of `Path` and
`Edge`. An edge also carries the node whose choice it holds, which no operator
but `Edge` reads: that the commits of a recomputation lead to just that node is a
property (`PathOK`), not an assumption. Positions count from 1, in the code from
0. `Nodes` holds what a child is and which nodes lie below another, `Spaces` the
constant `NoSpace`, so that the engines share them. `NextAlt`, `Push`, `Reuse`, `AdaptiveEdge`, `StealEdge`, `GiveAway` correspond
to `next()`, `push()`, the two halves of `recompute()`, and `steal()`.

**ParEngine** is the control of the parallel engines, for any number of workers.
Variables carry the names of the members (`nBusy` for `n_busy`, `eSearch` for
`e_search`, ...); `epc` and `wpc` are the control points of the engine's thread
and of each worker. One action is one critical section, one access to the command,
or one blocking operation. Exploration is abstract: a worker goes on, is stopped,
has found something, or has run dry. An `Event` remembers one signal. The three
mutexes that are held to park threads are Booleans, the others are implicit in
the atomicity of an action.

**ParDFS** and **ParBAB** conjoin to every action of `ParEngine` what it does to
the tree. In `ParBAB`, `solution()` and `constrain()` hold `m_search` while they
call `better()` for one worker after the other (`holder`, `told`, action `Tell`);
meanwhile all workers explore and steal with the bound they have.

**SeqDFS, SeqBAB, LDS** are the sequential engines; one action is one stage of
the loop of `next()`. The tree and the options are variables that never change,
so that one run covers many trees. `IsTree` says what a tree is. The number of
discrepancies of a node is a parameter of `LDS`, `Discrepancies`, of which
`DiscrepanciesAssumption` says what it is; `MCSeq` gives the sum of the alternatives. In the branch-and-bound modules a space is a
node with the solution it was last constrained with.

**RBS, SeqPBS, ParPBS** are the engines that run engines. A space is the set of
solutions it admits (RBS, ParPBS) or the sequence of its leaves (SeqPBS), an inner
engine is what `SolutionStream` says of it. `ParPBS` has a thread per slave, the
report of each under the mutex, both collections, and the completion handshake
through which the destructor waits.

**CutoffGenerators** has every generator and combinator of `cutoff.cpp` as a
record, with what `()` and `++` make of it; the loop of `luby()` is a recursive function
over the natural numbers. **Cutoffs** is the sequence a restarting engine reads, beside
the sequence that `search.hh` documents; the one of Luby is there as its authors define
it, by doubling. `Sound` names the generators that yield what is documented.

**SolutionStream** is the abstract specification. It is instantiated with a
refinement mapping: `todo` is computed from the path (`Frontier`), from the
engines inside or from a history variable, so that losing a subtree shows as a
step that the stream does not have. `StreamSpec` in each module is that claim. Where no
stream exists it is not made: a portfolio that collects all solutions gets each
of them from several slaves, and so may a restart; what is claimed of these is what null
means (`NullMeansDone`).

### Kernel

**Propagation** is `status()` with what can be called between two calls of it.
What propagators, views and advisors do is a parameter: `Propagate` gives the
outcomes of a run, `ModEvent` the strongest event a change sends to a propagator,
`Forced` whether an advisor forces it to be scheduled again, `Cost` its queue.
`ContractAssumption` is what `core.hpp` requires of the author of a propagator. One
action is one run with everything that it schedules. The order inside one queue is
left open. The five results of a run (`ES_FIX`, `ES_NOFIX`, both partial ones,
`ES_SUBSUMED`, and failure), the recorder queue, and groups that are killed,
disabled and enabled are there; `missed` is a history variable.
**FixpointIteration** is what it implements: chaotic iteration in any order.

**Branching** is the list of branchers of a space with `b_status` and `b_commit`. A
brancher is appended with the next number and never moves, so the list is a set of
branchers in the order of their numbers, and what the code does to it one brancher at a
time (the loop of `status()`, `BrancherGroup::kill()`, a function that posts several) is
done at once. It is used along a path with clones anywhere: every commit distance, adaptive
recomputation, constraints on clones, branchers that post others from a commit,
functions, and kills; which exhausted branchers `status()` passes over is open. Choices refer to branchers by number only; that the number
finds the brancher that made the choice is the property.

**Cloning** is `clone()` one member at a time. Each actor, advisor and local object
has a link that is its own or a forwarding pointer; at every member the copy may
throw, then `recover()` runs. Between clones, propagators are killed, advisors
disposed of and variables assigned. Advisors enter a council at its head and never move
in it, so the chain of a council of the original is the set of advisors in it, in the order
of `Council`. `Council::update()` goes along it one advisor at a time: one that has been
disposed of leaves the chain, of any other a copy is linked in front of those made before. So
the chain of the clone is a sequence of its own, in the reverse order.

**NoGoodProp** is the propagator for no-goods: the chain of literals that `post()`
makes of a path, and `propagate()` as one action per case of its loops, with
subscriptions, their count, and the disposal of literals. Which edges become
no-goods is decided in `SearchPath` and checked in `SeqDFS` and `ParDFS`.

### Support

**Threads** is `Thread::run()` and the loop of the threads of the pool, one action
per critical section or event; **ThreadPool** is its promise. A runnable is deleted after
its run if its flag `todelete()` says so (those not in `Kept`), and its terminator, if it has
one (`Told`), is told after that. A runnable that is kept can be submitted again, as
parallel portfolios do with every slave that is active (`Free`): the terminator is how they
learn that the thread needs it no more, although that thread is not on the stack yet.
**GlobalMutex** is the thread that owns mutexes on behalf of the engines, with its
two mutexes and two events; workers compete for the mutexes of the engines.
`ParEngine` has `block()` and `release()` as single steps; `GlobalMutexOK` is what
justifies that.
**RunJobs** has master, workers, results, early stop, and the deferred destruction;
`stop()` is two steps because `stopped()` reads its fields without the mutex.
**DynamicQueue** is the ring buffer with its resizing, **Fifo** the queue it implements.

### Abstractions

What is left out everywhere: statistics, tracing, memory, the contents of
spaces. Two sources of nondeterminism stand for propagation in the search modules:
`WeakFail` (weakly monotonic propagators may fail a space when it is recomputed
although they did not fail it before) and `MayFail` (a constrained space without a
better solution may fail at once or only further down).

`SeqEngines`, `Kernel` and `MCSupport` run several modules that do not interact, one
in each behaviour: the variable `part` says which, and the variables of the others
are `None` or never change. A property of theirs reads `part = "..." => M!Property`.
`Kernel` leaves the propagators, branchers, actors and paths open, and `SeqEngines` the
trees, options, portfolios and generators, so that they can be proved about; `MCKernel` and
`MCSeq` have those of the runs.

## 3. Runs

| run | instance | shows |
|---|---|---|
| `par_engine` | 2 workers, `MaxQueue` 2, one solution identity | `TypeOK`; `NBusyAccurate`; `NoLostWakeup`: no report is slept through, and whatever the engine's thread waits for, a worker that does not wait for it is to signal; `ResetBarrier`; `DeletionSafe`; `CallsReturn`: `reset`, `nogoods` and the destructor return, and `next` unless workers explore for ever |
| `par_dfs` | 2 workers, a comb of depth 4 with a three-way node, 14 nodes, one of which may fail when recomputed | `PathOK`, `NoSolutionLost`, `NoDoubleWork`; a null that is not a stop leaves a solution only in the hand of a thief (`NullOnlyBeforeBusy`) |
| `par_bab` | 2 workers, a comb of depth 3, two solutions | `BoundsOK`: marks and bounds while a solution is being announced; `NoImprovementLost`; `EverBetter`; `NullOnlyBeforeBusy` |
| `par_pbs` | 3 slaves, 2 solutions, both collections | `EngineOK` ("the key invariant of the engine", and whom the caller waits for), `NotReusedInside`, `NullMeansDone`, `StreamSpec`, `CallsReturn` |
| `seq` | the sequential engines, below | `EnginesOK` (the invariant of each), `NogoodsSound`, `StreamSpec`, `NextReturns`, `CutoffsDocumented` for the generators that keep it |
| `kernel` | the parts of the kernel, below | `QueuesOK`, `FixpointOK`, `FixpointSpec`, `StatusReturns`; `ChoicesFindBrancher`, `NothingSkipped`; `Transactional`, `CloneFaithful`; `NoGoodsKeepRest`, `NoGoodsPropagated`, `SubscriptionsExact` |
| `support` | the support library, below | `GlobalMutexOK` and `JobsOK`, each also that nobody waits in vain, `PoolSpec`, `FifoSpec`, `CallsReturn` |
| `par_dfs_null`, `par_dfs_nogoods` | 2 workers, 5-level comb, the constants of `Config` | counterexamples, section 5 |
| `cutoffs`, `nogoods_dispose`, `jobs_stopped` | the parts of the runs above, with the generators of Luby, appending and repeating; 3 jobs | counterexamples, section 5 |

**Bounds and why they are enough.**

* *Parallel engines.* `MaxQueue` bounds how many solutions may be queued when a
  worker finds another one; with one more in the hand of each worker the queue has
  up to three, and two is where "empty" and "not empty" have been told apart in
  every order. Two workers are a victim and a thief, either way round, and the last
  to do something and one that is not; the theorems cover any number. `StealLimit`
  is 0 in the checks where stealing should be frequent and 3, as
  `Config::steal_limit`, where a default behaviour is shown. `CD`/`AD` (4 and 2) are
  small so that paths of depth 3 or 4 already clone in the middle. The three-way
  node in `par_dfs` makes edges reusable. In `par_bab` a better solution next to a
  worse one lets it be found first, second, or be stolen while the other is being
  announced.
* *`seq`.* DFS: all trees of depth ≤ 3 and width ≤ 2 with ≤ 2 solutions, `c_d` 1
  and 3, no-goods to depth 2; combs of depth 7 with third alternatives, `c_d` 2, 4, 8
  and `a_d` 2, 4, so on both sides of the length of the path. BAB: combs of depth
  5 with 3 solutions in every order of value. LDS: all trees of depth 2/width 3 with
  one and of depth 3/width 2 with two solutions, limits 1 and 3. RBS: 4 solution
  values, any behaviour of the engine inside, 8 ways to use it. PBS: 3 slaves, leaves
  with ≤ 2 solutions and ≤ 3 failures, slices 1 and 2; `MaxLimit` stands for
  `ULONG_MAX` and is not reached. Cutoffs: 260 restarts, past the table of 63 that
  the sequence of Luby starts with and past a power of two behind it; 16 where the
  values grow exponentially or are drawn.
* *`kernel`.* Propagation: three variables with two or three values, and propagators
  for `<` (runs until nothing changes), `#` (waits for a value, then subsumed), `=`
  (in two stages, with an advisor that forces) and a recorder, in four queues, two of
  them in a group that the user disables, enables and kills: each result and each
  operation meets each other one. Branching: five edges, choices used twice, commits
  that post and kill. Cloning: two propagators, one with three advisors, a shared
  local object, two branchers, a variable without subscriptions; an exception at
  every member and at every advisor. No-goods: paths of four edges of binary, three-way, `<=` and
  unsupported choices over three variables, the first and the last on one
  variable.
* *`support`.* Three engines: one that is served, one that has been and one that
  waits. Two callers and three runnables: one that is deleted and has a terminator (a
  worker), one that is kept and submitted up to `MaxRuns = 2` times (a slave), one that
  is deleted and has no terminator (a job); for an idle thread, for one that is about to be
  idle, and for a new one. These are four submissions, so four threads are never too few;
  they are created in a fixed order, since they differ in their names only. Four jobs on two threads. The
  queue from 2 to 8 elements with the oldest anywhere when it is resized.

**Fairness.** Threads are fair: weak fairness for every worker or slave
thread and for the engine's thread while it is inside a call. It stands for an
operating system that runs every ready thread. In `GlobalMutex`, where threads
compete for a mutex that is freed and taken again for ever, acquiring one is
strongly fair: the mutexes of the operating systems do not starve a waiting thread.
In `RunJobs` each thread takes the mutex finitely often and weak fairness is
enough; jobs end there, while in `Threads` a runnable need not return. In the
sequential modules only the loop inside `next()` or `status()` is fair.
The caller need not call anything; a worker is not obliged to find something, only
to go on. `CallsReturn` of `ParEngine` holds for `reset()`, `nogoods()` and the
destructor although exploration never ends there, because a worker polls its
command between two steps; for `next()` it excepts workers that explore or steal
for ever.

**Deadlock** is checked, except in the modules where the engine can be destroyed:
there the system stops. In the merged runs the states in which one part may stop
are named by the action `Stops`.

**History variables** (`reported`, `found`, `delivered`, `best` in the portfolios,
`stale` and `standard` in `ParBAB`, `missed` in `Propagation`, `asked`, `given`,
`disposed`, `before`, `made`, `gone`, `got`, `finished`) are read by properties only.
`submitted` in `Threads` also bounds how often a runnable is submitted.

## 4. Proofs

TLC checks the instances of section 3; the theorems below hold for every value of
the constants, so for every number of workers, slaves, engines, runnables and
propagators and for every length of a queue. What they assume of the constants is the
`ASSUME` of the module that declares them, which TLC evaluates in the runs; `Threads`,
`RunJobs` and `DynamicQueue`, which `MCSupport` instantiates, define the assumption and
`MCSupport` assumes it of its parameters, and so do `Kernel` for `Branching`, `Cloning`
and `NoGoodProp`, and `SeqEngines` for the engines of one thread.

| module | theorems | property of a run |
|---|---|---|
| `ParEngineProofs` | `TypeCorrect`, `NBusyIsAccurate`, `WakeupIsNotLost`, `ResetBarrierCorrect` (from `ResetIsExclusive`, `ResetCycleIsOver`), `DeletionIsSafe` (from `NobodyUsesDeleted`, `DestroyedLast`) | all safety properties of `par_engine` |
| `ParDFSProofs`, `ParBABProofs` | `DFSImplementsEngine`, `DFSEngineSafe`, `BABImplementsEngine`, `BABEngineSafe` | – |
| `ParDFSProofs` | `PathIsOK`, `NothingIsLost`, `NothingIsDoneTwice`, `NullIsOnlyBeforeBusy` | all properties of `par_dfs`: `PathOK`, `NoSolutionLost`, `NoDoubleWork`, `NullOnlyBeforeBusy` |
| `ParBABProofs` | `BoundsAreOK`, `NoImprovementIsLost`, `ReturnedIsEverBetter`, `NullIsOnlyBeforeBusy` | all properties of `par_bab`: `BoundsOK`, `NoImprovementLost`, `EverBetter`, `NullOnlyBeforeBusy` |
| `SeqProofs` | `EnginesAreOK`, `NogoodsAreSound`, `EnginesAreStreams`, `CutoffsAreDocumented` | `EnginesOK`, `NogoodsSound`, `StreamSpec`, `CutoffsDocumented` of `seq` |
| `KernelProofs`, propagation | `TypeCorrect`, `QueuesCorrect`, `FixpointCorrect`, `PropagationImplementsIteration` | `QueuesOK`, `FixpointOK`, `FixpointSpec` of `kernel` |
| `KernelProofs`, no-goods | `SubscriptionsAreExact`, `NoGoodsKeepTheRest`, `NoGoodsArePropagated` (from `ExactSubscriptions`, `NothingElseIsLost`, `AllIsPruned`, the same of `NoGoodProp` by itself) | `SubscriptionsExact`, `NoGoodsKeepRest`, `NoGoodsPropagated` of `kernel` |
| `KernelProofs`, branching | `ChoicesFindTheirBranchers`, `NoBrancherIsSkipped` (from `EveryChoiceIsFound`, `EveryBrancherIsAsked`, the same of `Branching` by itself) | `ChoicesFindBrancher`, `NothingSkipped` of `kernel` |
| `KernelProofs`, cloning | `CloningIsTransactional`, `ClonesAreFaithful` (from `CloneOrNothing`, `ClonesAreCopies`, the same of `Cloning` by itself) | `Transactional`, `CloneFaithful` of `kernel` |
| `SupportProofs` | `GlobalMutexCorrect`, `JobsCorrect`, `PoolSafe`, `NoRunnableForgotten`, `QueueIsFifo` | `GlobalMutexOK`, `JobsOK`, the safety part of `PoolSpec`, and `FifoSpec` of `support` |
| `ParPBSProofs` | `EngineCorrect`, `HandshakeCorrect`, `NullCorrect` (both collections), `StreamCorrect` (best solutions) | all safety properties of `par_pbs` |

**ParEngineProofs.** None of the properties is inductive. Each has an invariant of its own.

* *`ResetInv`* says for every point at which the engine's thread can wait in
  `reset()` how many workers have acknowledged, where those are, and where the others
  may be. The clause that is easily missed: while `m_wait_reset` is held no worker is at
  `reset_stop`. One left there by the last cycle could give the acknowledgement of the
  next.
* *`TermInv`* is the same for the termination of the workers: nobody leaves before all
  have acknowledged, and only the last one to count itself off signals.
* *`BusyInv`* says that `n_busy` is the number of workers that explore, report or run
  dry; a worker is idle wherever it steals. The case of `reset()` needs `ResetInv`,
  since `n_busy` is set there to the number of workers while they all wait.
* *`WakeupInv`* extends the first part of `NoLostWakeup` backwards to the point where
  `next()` clears `has_stopped`; it needs from `BusyInv` that `n_busy` is a natural number.
* *`SignalInv`* is the converse of what `ResetInv` and `TermInv` say of the events: when
  the last worker has acknowledged, left the barrier or gone, its event is set, until
  the engine's thread takes it; and it says at which points that thread holds `_m_wait`.
  So a sleeper has a worker outside the set that it waits for (lemma `SleeperIsAwaited`),
  and the other invariants say that this worker waits for none of the three mutexes that
  the sleeper holds. This is the safety behind `CallsReturn`: what remains there for
  TLC is that such a worker gets there under fairness.

The lemmas `CountMove` and `AtMove` say how the number of workers at a set of control
points changes with one step; all cardinality arguments go through them.

**ParDFSProofs, ParBABProofs**, first, show that forgetting the tree turns every step of the
detailed engine into a step of `ParEngine` or a stutter, and therefore that the theorems
above hold for the engines with trees.

**PathProofs** are the lemmas about one worker and its path. They take the tree, the
number of its alternatives and the set of edges as parameters, so the depth-first and the
branch-and-bound engine, whose edges and spaces are different records, use the same ones.
A tree is a set of nodes that is closed under prefixes, finite or not; any node may fail
when it is recomputed; the recomputation distances are any.

* `ShapeOK` is about the path. `EdgesOK`: an edge counts the alternatives of its node, and
  a clone in it is the space of just that node; only the last edge, above the depth limit,
  may be left with its last alternative. `CopiesOK`: an edge with alternatives to give has
  a clone at or before it. `BelowOK`: every node of the path is below the current
  alternative of each edge before it. `TurnsOK`: the alternatives of the edges from `i` to
  `j` lead from the node of `i` to that of `j`, unless a reused edge, which leaves a
  gap, lies in between (`Straight`). It is stated for all pairs of edges, not for
  neighbours, so that recomputation from any clone is correct without an induction
  over the length of the path.
* `PointsOK` relates the path to the current space and to the distance from the last clone;
  the number of open edges is what stealing reads. `WorkerOK` is `ShapeOK` and `PointsOK`.
* `RecomputeOK` says that recomputation then arrives at the node it should.

The rest of **ParDFSProofs** proves what `ParDFS` promises of its tree. The inductive
invariant `TreeInv` has three parts besides the type: `WorkerOK` of every worker, and

* An idle worker has no current space and an empty path.
* `Covers`: the nodes still to be explored, in the paths, as current spaces and in
  the hands of thieves, are complete (every solution has been reported or is below one of
  them) and disjoint (none is below another, and no reported solution below any).

The frontier changes in five ways, each with a lemma: a part without solutions is given up
(`ShrinkOK`), a node is replaced by its children (`ExpandOK`) or by a reported
solution (`SolveOK`), a part moves from one worker to another (`MoveOK`), search starts anew
(`StartOK`). Every action is one of these, or leaves the frontier as it is.
`NothingIsLost` and `NothingIsDoneTwice` then follow from `Covers`, and
`NullIsOnlyBeforeBusy` from `Covers` and `BusyInv` of `ParEngineProofs`: when `n_busy` is 0
only a thief that has not yet called `busy()` can hold anything.

The rest of **ParBABProofs** is about bounds: what has been constrained with what, and that
nothing better than the best solution known is ever cut off. `BoundInv` is inductive.

* `WorkersOK` is `WorkerOK` with the bounds added. `MarkOK`: above the mark the bound of
  every edge is the worker's own best solution, whatever its clone was made with (`Tight`),
  and below it no bound is tighter than that (`Justified`). The lemmas `NextAltKept`,
  `ReuseKept`, `GiveAwayKept`, ... say that each member of `Path` keeps the bounds of the
  edges that it keeps (`Kept`).
* `BestKnown`: a worker's best solution is the engine's or an older, worse one. `HandsOK`:
  what a thief holds is constrained by nothing better than what the engine knows. `HolderOK`:
  which worker holds the mutex of search over the calls of `better()` for the others.
* `Covering`: each solution that is better than the best one known is below a node of the
  frontier, or in the hand of the worker that has just found it.

A constraint may cut off a node only when nothing below it is better than its bound, and
since all bounds are justified by the best one known, `Covering` survives. For
`ReturnedIsEverBetter` the invariant `QueueInv` describes the queue: after the first
`stale` ones, which `constrain()` left there, the queued solutions are in strictly
improving order and better than the standard that was last returned or imposed.

**SeqProofs** proves of `SeqEngines` that each engine keeps its invariant and is a stream of
solutions, for every tree, finite or not, every distance of recomputation, any number of slaves
and any behaviour of an engine inside. A behaviour is of one engine, so `SeqInv` is one
invariant for each.

* *Depth-first search* (`DFSInv`). The path is the one of `WorkerOK`, of which all
  alternatives are the engine's own (`Whole`), with a clone at most `c_d` edges before each
  edge that is open (`Near`): `SeqOK` in `PathProofs`, with a lemma for each member
  of `Path`. The two ways to recompute, with a clone half way or without, keep it because
  a clone is put just where the last one is too far away. What is still to be reported is
  `Todo`, the solutions below `Own`, the nodes that the path and the current space leave.
  Everything on the path lies to the right of the current space (`PendingRight`), so what is
  delivered is the leftmost. `NogoodsAreSound` is the same on the other side: what the
  no-goods exclude has been left behind.
* *Branch-and-bound* (`BABInv`) has the same path with a bound in each edge. `Marked`: a clone
  above the mark has the bound of the best solution, one below it an older one, which is
  worse, so constraining the clones above again would change nothing. `BABTodo` is `Todo` without what is not
  better than the best solution; a constrained space fails only if none of it is below.
* *Limited discrepancies* (`LDSInv`). `AccountOK`: along the stack and at the current space the
  discrepancies taken and left add up to those of the probe. `FoundOK`: all solutions with fewer
  have been found, and of those with as many just the ones have not that are below what the probe
  still comes to; if the probe has left nothing out, this holds of all solutions, which is
  when the engine may give up.
* *Restarts* (`RBSInv`). The master admits all that remains, `RBSAhead` is what remains behind
  the solution that the engine inside has found, and that engine still has all of it before it
  when its slave is complete, and has not been told to skip any of it (`RBSRound`).
* *Portfolio* (`PBSInv`). Every slave has all that remains still before it (`PBSLeft`), so any
  of them can be killed, and only one that is exhausted shows that nothing is left. `PBSTurns`:
  while a slave runs, there is one whose slice is not used up, so the search for the next turn
  ends.

* *Cutoffs* (`CutoffInv`). A generator is where the number of restarts says; in a merge
  one part is half a step ahead of the other, and which one alternates (`MergeInv`,
  `After`). For the sequence of Luby the work is in three lemmas about functions. The
  recursive ones exist, because a least number without a value has one (`FunctionExists`,
  from `LeastNat`); the table of 63 entries obeys the same recursion as the loop
  (`LubyStep`), so the value at `i` is found by `log(i)` (`LogIs`) whether `i` is in it or
  not; and the doubling of `Terms` has that recursion too (`TermsAreLuby`, `LubyIsLuby`).
  The theorem is about the generators in `Sound`, the others being those of the
  counterexample in section 5; TLC evaluates that those of the run are sound.

What is assumed: `IsTree`, discrepancies that grow by the number of the alternative, integer
values, slaves of a portfolio that are finitely many and have the same solutions, and
the two exceptions of RBS in section 5 (`EngineAssumption`). `NextReturns` is liveness and stays
with TLC.

**KernelProofs** is about the four parts of the kernel. *Propagation* assumes `ContractAssumption` (a run only prunes; a propagator
that reports a fixpoint is at one, one that reports none is, unless its own changes
schedule it; what a view does not notify of leaves a fixpoint one) and `QueuesAssumption`. The heart is lemma `Scheduled`:
a change schedules every propagator that it concerns, with events and in the queue
for its cost; one that has no events then had none before and is not concerned.
Then `QueuesOK` is inductive together with the type, and `FixpointOK`
follows at the end of `status()`, where all queues are empty.

*No-goods* assumes `PathAssumption`: the alternatives of a choice are different, and a
solution satisfies one of them if it satisfies the choices before. Domains, solutions and
the length of the path are any. The theorems are about what `post()` builds and
what `propagate()` makes of it, in three layers.

* `SubInv` says at each control point what has been subscribed to: between two executions
  the first literal and the leaves up to the next non-leaf (`Watches`), in the loop over
  the leaves those it has seen, when a prefix has been cut off only what is left of it.
  `Ready` and `Ascending` describe the chain: its literals come in the order of the path and
  each once, which makes the counting of subscriptions right.
* `KeepInv` says why a leaf may be pruned at all. It follows a solution that has not been
  explored and satisfies the constraints given from outside: it is in the domains, and
  each alternative that was taken in front of a leaf is still a literal of the chain or one
  that the solution satisfies (`Why`). So literals may be cut off once they are subsumed,
  and when all in front of a leaf are, a solution that satisfies the leaf has been explored.
* `PropInv` is the converse: each alternative to the left of the path is dead, that is, one
  of its literals is false in the domains, or its leaf is in the chain, as long as all choices
  have no-goods (`Supported`). The watched literals are not subsumed unless the propagator
  is scheduled.

`BuiltChain` is the lemma that `post()` establishes all three for every path.

*Cloning* assumes `ActorsAssumption`: an actor is a propagator or a brancher, each advisor
is of one propagator, and a copy constructor updates the council of its actor, if that has
advisors, once, and the variables that it is subscribed to. What else is updated, in which
order, and where memory is exhausted are any.

* `Original` is what a space is between two calls: no forwarding pointer, whoever is
  subscribed is in the space, an advisor is in the council of its propagator. Killing,
  disposing and assigning keep it.
* `Copying` relates the original, the partial clone, and the original from before: each link
  has a forwarding pointer exactly if what it belongs to has been copied or started,
  each variable exactly if the clone has registered it, with the array or without. Every
  copy function keeps `Copying` (`CopyVarOK`, `CopyLocalOK`, `EnterOK`,
  `CopyAdvisorOK`, `DropAdvisorOK`, `StartOK`, `LinkOK`), the handler that takes half a council back included (`AdvisorsThrowOK`). Since
  `recover()` is right for every clone in this relation (`RecoveredIs`), it does not
  matter where the exception came from.
* `CopyInv` adds how far the constructors are: the lists of the clone are prefixes of those of
  the original, and every actor in them is `Complete`. At the end all that is subscribed
  has been copied, so that reading through the forwarding pointers loses nothing
  (`ReturnedIs`).

*Branching* assumes `BranchersAssumption`: branchers of finitely many alternatives, the
commits of which post sequences of branchers. The invariant `BranchInv` is about the path, not
about one space, since a choice is made in one space and committed in others.

* `SpaceOK` is what every space keeps: numbers are unique and below the next one, both
  pointers are at branchers, whoever is left of `b_status` has been asked.
* `Along` explains the path: for each edge `k` a set `av[k]` of pairs of a number and a kind,
  and a number `nx[k]`, such that the brancher of the edge is in `av[k]`, and `av[k + 1]` and
  `nx[k + 1]` are what the commit of the edge leaves of them (`After`). Each clone at `k`
  `Fits`: it has all of `av[k]`, its next number is `nx[k]`, and what `status()` has still
  to ask in it is in `av[k]`. The next number matters because commits post branchers:
  only in a space with the same next number do they get the numbers by which later choices
  know them.
* The current space fits after the last edge, or at the edge that is committed next.
  `status()`, `choice()` and `commit()` keep this (`StatusFits`, `ChooseFits`, `CommitFits`).
  `choice()` deletes branchers, also such that older choices on the path have been made
  by; but it does so in the current space only, and the clones on the path keep them.
* An edge with alternatives left has a clone at it or below it on the path.

The sets are not unique. When a space is recomputed, more branchers may be left after an edge
than in the space that was explored first (it had deleted some); no clone lies
beyond, so the set is enlarged there (`AlongReplace`). `ChoicesFindBrancher` then
follows edge by edge from each clone (`AllFound`).

**SupportProofs** are four independent proofs over `MCSupport`.

* *Global mutexes.* `MutexesInv` has four parts: the type; `MutexInv`, which relates the owner
  of each of the two mutexes to the control points; `RequestInv`, that a pending request
  belongs to the engine that waits for it, and that no request is reported as done while
  it is pending; `OwnerInv`, that the thread holds for an engine exactly what its last
  served call asked for. `ServedInv` adds who wakes an engine that waits: while its request is
  pending the thread has been signalled, or will be, or has not looked yet; afterwards its
  own event has been signalled, or is the next thing the thread does.
* *Pool of threads.* `IdleInv` says that a thread that can be given a runnable is on the
  idle stack once, or in the hand of one caller, and never both; `OnceInv` that a
  runnable, kept or not, is in one place and free only when in none; `HoldInv` that what a thread holds is what was put there last.
  `WakeInv` says that a thread that waits with a runnable has been or will be signalled, and
  that the mutex is with a caller that waits for nothing: `NoRunnableForgotten` is the
  safety that the liveness part of `PoolSpec` rests on.
* *Parallel jobs.* `AliveInv` says that `n_threads` is the number of workers that have not
  ended; `StartedInv` that each job started is at one worker or has ended, and
  `ResultsInv` that each that has ended is queued or returned, once. When no worker is left
  the last two leave only one place for each job (`EndInv`). `AsleepInv` says that a wait
  whose event has not been signalled finds no result and a worker left, although one signal can
  stand for several results and ends.
* *Dynamic queue.* `RingInv` is the type and that both indices lie in the ring. The `i`-th
  oldest element is at `At(i)`, on either side of the end of the array, and there are
  `Held` of them: lemma `RingIs` shows that this is what the refinement mapping computes,
  and each operation then does to it what `Fifo` does, the resizing one included.

**ParPBSProofs.** `BusyInv` is "the key invariant of the engine" of the
code; `DoneInv`, `LeftInv` and `BestInv` relate what a slave has still to report to what
has been collected; `CompleteInv` says that no slave drops a solution unless that one or
a better one is known to the engine; `EndInv` says why a run of the slaves is over:
one is exhausted, a solution has been collected, or the stop object has said so. `SleepInv`
says for whom the caller waits: `next()` holds the mutex while it waits for the completion
of a slave it runs again, and that slave has reported, so it needs the mutex no more. The refinement `StreamCorrect`
is the last step: for a portfolio that collects best solutions null is returned only when
`EndInv` leaves nothing to report. For all solutions `NullCorrect` says what null means.

**Only model-checked** is what needs fairness: `CallsReturn` (of the parallel engine, the
parallel portfolio and the support library), `NextReturns`, `StatusReturns`, and the
liveness part of `PoolSpec`. Liveness and `ENABLED` are outside what the prover does. Every
other property of a passing run is a theorem. No module declares a recursive operator.

## 5. Where code and documentation disagree

Checked, as runs that end in a counterexample:

* **A theft is not accounted for at once** (`par_dfs_null`). `steal()` releases
  the victim's mutex before it calls `busy()` (`par/engine.hpp:279-283`). Until it
  has, the victim can exhaust its path and report idle; `n_busy` drops to 0 and
  `next()` returns null with `stopped()` false, although a solution is below the
  stolen space (in a debug build the thief then runs into `assert(n_busy > 0)`,
  `par/engine.hpp:170`). `search.hh:945` says null means that none exists or that search
  was stopped. `NullOnlyBeforeBusy` shows that this window is the only one. The
  code in `par/bab.hpp` shares it.
* **No-goods after a theft** (`par_dfs_nogoods`). When an alternative of edge `n`
  is given away, the depth limit becomes `min(ngdl, n)`; `par/path.hpp:278` says
  that no no-goods can be extracted above `n`. The edges `0..n-1` stay, and once
  the victim backtracks past `n` the no-good of edge `n-1` excludes what the
  thief still explores.
* **Cutoffs that are read and advanced** (`cutoffs`). Appending takes one value too
  many from its first part and skips the first one of the second (`cutoff.cpp:113`
  against `search.hh:514`; `flatzinc.cpp:2173` appends after one value); `++` of
  Luby's sequence returns the value from before (`cutoff.cpp:75` against
  `search.hh:484`), so the first cutoff comes twice; repeating never advances what it
  repeats (`cutoff.cpp:140` against `search.hh:520`).
* **Literals that are never disposed of** (`nogoods_dispose`). `notice()` asks for
  "Whether dispose must always be called" (`core.hpp:1380`), but literals behind one
  that has failed are unlinked (`nogoods.cpp:166-170`) and then are on no list.
* **A result that is not of the job that stopped** (`jobs_stopped`).
  `stoppedjob()` reads the result and the index without the mutex
  (`run-jobs.hpp:188-189`), so a worker that stops in between makes `stopped()`
  return its index with the result from before, against `run-jobs.hpp:154`.

Not part of a run, but met while modelling; the modules exclude them by
configuration or describe what the code does:

* RBS does not use the result of the first call of `slave()` (`rbs.hpp:101`), so
  the first slave counts as complete whatever it was; `core.hpp:2127-2130` describes the
  result for every restart. `EngineAssumption` of `RBS` excludes an incomplete one.
* After the master has failed, RBS deletes it; a further `next()` dereferences it
  (`rbs.cpp:106`). `RBS` has no step there.
* RBS over a parallel engine may return null while the queue of that engine holds
  a solution (`rbs.cpp:72`), and returns null with `stopped()` true when its own
  limit was hit and the slave was complete (`rbs.cpp:110`). `EngineAssumption` has
  `max_queue = 1`.
* `constrain()` and `reset()` of a parallel engine leave the queue alone: next()
  can then return a solution that is not better (`par/bab.hpp:189-206`, against
  "Constrain future solutions to be better than b", `search.hh:951`). `EverBetter`
  excepts what was queued before.
* The limit of sequential PBS is the sum of limit and slice in `unsigned long`
  and can wrap around (`seq/pbs.hpp:125-130`); and it can grow before every slave has used its
  slice, when a slave is removed in the middle of a round.
* The random generator of cutoffs can exceed its maximum when it is asked for more
  values than lie between its bounds, because its step is at least 1.
* The comment of `Thread::run()` (`thread.hpp:243-244`) says that the runnable is deleted
  when it has terminated, and then the thread terminates; it is deleted only if its flag says
  so (`thread.cpp:62-66`), and the thread waits for the next one. `ThreadPool` says what the
  code does.
* The comment of `RunJobs` (`run-jobs.hpp:68-74`) says that a job that stops has a
  default constructed result; `run()` does return the result that it was stopped with.

## 6. Not modelled, and the plan

Not modelled:

* *Variables and propagators of integers, sets, floats and strings, MiniModel,
  FlatZinc, Gist, the script driver:* filtering algorithms, translation of
  expressions, parsing, input and output. What the kernel requires of a propagator is
  the assumption of `Propagation`; that each of them keeps it is a matter for its own
  tests. This is most of the code by lines, and none of its control.
* *Heuristics, AFC, action, CHB:* they decide the shape of trees, and the models
  quantify over trees.
* *Memory management:* pools and free lists of one space, addresses and sizes.
* *The data shared between spaces*, in cloning: reference counts.
* *Stop objects and statistics:* a stop is a choice of the environment at every
  node; only the limits that the meta engines compute are modelled exactly.
* *Tracing and the CP profiler, options and construction of engines, the dead
  engine:* they observe, forward, or have no state.
* *The dynamic stack:* it is used as a sequence in `SearchPath`.

What is left of the plan:

* The stealing of `ParBAB` together with `ParPBS`: a portfolio of parallel engines
  is out of TLC's reach as a composition; the refinements `StreamSpec` are what it would
  rest on.
