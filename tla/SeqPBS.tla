------------------------------- MODULE SeqPBS -------------------------------
(***************************************************************************)
(* Sequential portfolio search, gecode/search/seq/pbs.hpp and pbs.cpp: the *)
(* slaves take turns, each runs until its failures have reached the shared *)
(* limit, and the limit grows by one slice after as many slaves in a row   *)
(* as there are have been stopped by it.                                   *)
(*                                                                         *)
(* A slave is modelled by the leaves of its tree in the order in which it  *)
(* explores them: a solution, or Failure.  All slaves explore trees of the *)
(* same problem, each with a heuristic of its own.                         *)
(***************************************************************************)
EXTENDS Integers, Sequences, SequencesExt, FiniteSets

CONSTANTS
  Slave,       \* the slaves
  Solution,    \* the objective values of all possible solutions
  Failure,     \* a failed leaf
  NoSpace,     \* the null pointer, no solution
  Portfolios,  \* the possible portfolios: for each slave its leaves
  Slices,      \* values of opt.slice
  MaxLimit     \* ULONG_MAX

SolutionAssumption == Solution \subseteq Int /\ {Failure, NoSpace} \cap Solution = {}
PortfoliosAssumption ==
  \A f \in Portfolios :
    /\ f \in [Slave -> Seq(Solution \cup {Failure})]
    /\ \A i, j \in Slave : Range(f[i]) \ {Failure} = Range(f[j]) \ {Failure}
NumbersAssumption == MaxLimit \in Nat /\ Slices \subseteq 1 .. MaxLimit
SlaveAssumption == IsFiniteSet(Slave)

VARIABLES
  slice, problem,      \* opt.slice, the solutions of the problem
  searchesBest,        \* the template argument: PBS<true> or PBS<false>
  slaves,              \* the first n_slaves entries of slaves
  cur,                 \* current slave, as an index from 0
  l, done,             \* ssi
  slave_stop, n_exhausted,
  leaves, fail, bound, \* each slave: the leaves to explore, its failures, best
  slaveStopped,        \* each slave: stopped()
  pc, ret,
  best, delivered      \* history: the best solution and all that were returned

portfolioVars == <<slice, problem, searchesBest, slaves, cur>>
engineVars == <<leaves, fail, bound, slaveStopped>>
vars == <<portfolioVars, l, done, slave_stop, n_exhausted, engineVars, pc, ret, best, delivered>>

n_slaves == Len(slaves)
Current == slaves[cur + 1]

Init ==
  /\ slice \in Slices /\ leaves \in Portfolios
  /\ problem = (UNION {Range(leaves[i]) : i \in Slave}) \ {Failure}
  /\ searchesBest \in BOOLEAN
  /\ slaves = SetToSeq(Slave)   \* any order: Portfolios says which slave has which tree
  /\ cur = 0 /\ l = slice /\ done = FALSE
  /\ slave_stop = FALSE /\ n_exhausted = 0
  /\ fail = [i \in Slave |-> 0] /\ bound = [i \in Slave |-> NoSpace]
  /\ slaveStopped = [i \in Slave |-> FALSE]
  /\ pc = "user" /\ ret = NoSpace /\ best = NoSpace /\ delivered = {}

Better(s, b) == b # NoSpace => s < b

(* is the leaf a solution, and one that is good enough? *)
Solved(s, b) == s # Failure /\ (searchesBest => Better(s, b))

NextCall ==
  /\ pc = "user"
  /\ slave_stop' = FALSE /\ n_exhausted' = 0
  /\ pc' = IF n_slaves > 0 THEN "slave" ELSE "no slave"
  /\ UNCHANGED <<portfolioVars, l, done, engineVars, ret, best, delivered>>

-----------------------------------------------------------------------------
(***************************************************************************)
(* next() of the current slave: before every leaf the stop object of the   *)
(* user is asked first, then the failures are compared with the limit.     *)
(***************************************************************************)

Searching == pc = "slave" /\ fail[Current] < l

SlaveStopped(byLimit) ==
  /\ pc = "slave" /\ pc' = "slave returned"
  /\ byLimit => fail[Current] >= l
  /\ slaveStopped' = [slaveStopped EXCEPT ![Current] = TRUE]
  /\ done' = byLimit
  /\ UNCHANGED <<portfolioVars, l, slave_stop, n_exhausted, leaves, fail, bound, ret, best, delivered>>

SlaveFails ==
  /\ Searching
  /\ leaves[Current] # <<>> /\ ~Solved(Head(leaves[Current]), bound[Current])
  /\ leaves' = [leaves EXCEPT ![Current] = Tail(@)]
  /\ fail' = [fail EXCEPT ![Current] = @ + 1]
  /\ UNCHANGED <<portfolioVars, l, done, slave_stop, n_exhausted, bound, slaveStopped, pc, ret, best, delivered>>

SlaveExhausted ==
  /\ Searching /\ pc' = "slave returned"
  /\ leaves[Current] = <<>>
  /\ slaveStopped' = [slaveStopped EXCEPT ![Current] = FALSE]
  /\ UNCHANGED <<portfolioVars, l, done, slave_stop, n_exhausted, leaves, fail, bound, ret, best, delivered>>

Return(s) == pc' = "user" /\ ret' = s

(* a solution is returned and constrains all slaves, its finder included *)
SlaveSolves ==
  LET s == Head(leaves[Current])
  IN  /\ Searching
      /\ leaves[Current] # <<>> /\ Solved(s, bound[Current])
      /\ leaves' = [leaves EXCEPT ![Current] = Tail(@)]
      /\ bound' = IF searchesBest THEN [i \in Slave |-> IF i \in Range(slaves) THEN s ELSE bound[i]]
                  ELSE bound
      /\ slaveStopped' = [slaveStopped EXCEPT ![Current] = FALSE]
      /\ Return(s) /\ best' = s /\ delivered' = delivered \cup {s}
      /\ UNCHANGED <<portfolioVars, l, done, slave_stop, n_exhausted, fail>>

-----------------------------------------------------------------------------
(***************************************************************************)
(* What next() makes of null.                                              *)
(***************************************************************************)

NoSlave ==
  /\ pc = "no slave"
  /\ Return(NoSpace)
  /\ UNCHANGED <<portfolioVars, l, done, slave_stop, n_exhausted, engineVars, best, delivered>>

(* at the end of the loop: all have exhausted their slice *)
NextTurn(limit, exhausted, slave) ==
  /\ IF exhausted = n_slaves'
     THEN n_exhausted' = 0 /\ l' = (limit + slice) % (MaxLimit + 1)
     ELSE n_exhausted' = exhausted /\ l' = limit
  /\ cur' = IF slave = n_slaves' THEN 0 ELSE slave
  /\ IF n_slaves' > 0 THEN pc' = "slave" /\ UNCHANGED ret ELSE Return(NoSpace)

SliceOver ==
  /\ pc = "slave returned" /\ slaveStopped[Current] /\ done
  /\ UNCHANGED <<slice, problem, searchesBest, slaves, done, slave_stop, engineVars, best, delivered>>
  /\ NextTurn(l, n_exhausted + 1, cur + 1)

Stopped ==
  /\ pc = "slave returned" /\ slaveStopped[Current] /\ ~done
  /\ slave_stop' = TRUE
  /\ Return(NoSpace)
  /\ UNCHANGED <<portfolioVars, l, done, n_exhausted, engineVars, best, delivered>>

(* a slave is done and deleted, the last one takes its place; stopping is
   disabled for the one that remains *)
SlaveDone ==
  /\ pc = "slave returned" /\ ~slaveStopped[Current]
  /\ slaves' = Front([slaves EXCEPT ![cur + 1] = Last(slaves)])
  /\ UNCHANGED <<slice, problem, searchesBest, done, slave_stop, engineVars, best, delivered>>
  /\ NextTurn(IF n_slaves' = 1 THEN MaxLimit ELSE l, n_exhausted, cur)

(* constrain(b), from a portfolio that this one is a slave of *)
Constrain(b) ==
  /\ pc = "user" /\ searchesBest
  /\ bound' = [i \in Slave |-> IF i \in Range(slaves) /\ Better(b, bound[i]) THEN b ELSE bound[i]]
  /\ best' = IF Better(b, best) THEN b ELSE best
  /\ UNCHANGED <<portfolioVars, l, done, slave_stop, n_exhausted, leaves, fail, slaveStopped, pc, ret, delivered>>

Loop ==
  \/ NoSlave \/ SlaveFails \/ SlaveExhausted \/ SlaveSolves \/ (\E byLimit \in BOOLEAN : SlaveStopped(byLimit))
  \/ SliceOver \/ Stopped \/ SlaveDone

Next == NextCall \/ Loop \/ \E b \in problem : Constrain(b)

Spec == Init /\ [][Next]_vars

-----------------------------------------------------------------------------
(***************************************************************************)
(* Properties.                                                             *)
(***************************************************************************)

(* Every variable keeps its type; the current slave is always one of those
   that are left, and each of these comes once. *)
TypeOK ==
  /\ slaves \in Seq(Slave) /\ IsInjective(slaves)
  /\ cur \in 0 .. n_slaves - 1 \/ (n_slaves = 0 /\ cur = 0)
  /\ l \in 0 .. MaxLimit /\ n_exhausted \in 0 .. n_slaves
  /\ {searchesBest, done, slave_stop} \subseteq BOOLEAN /\ slaveStopped \in [Slave -> BOOLEAN]
  /\ fail \in [Slave -> Nat]
  /\ {ret, best} \subseteq problem \cup {NoSpace} /\ delivered \subseteq problem

Remaining == IF searchesBest THEN {s \in problem : Better(s, best)} ELSE problem \ delivered

(* A portfolio for a best solution is a stream of ever better solutions that
   ends with an optimal one, whichever slave finds them. *)
Stream == INSTANCE SolutionStream WITH
  todo <- IF searchesBest THEN Remaining ELSE {},
  calling <- searchesBest /\ pc # "user",
  ret <- IF searchesBest THEN ret ELSE NoSpace,
  stopped <- searchesBest /\ slave_stop,
  Before <- LAMBDA s, t : FALSE,
  After <- LAMBDA S, s : {t \in S : t < s}

(* A portfolio for all solutions, too, returns null, not stopped, only when
   every solution has been returned. *)
NullMeansDone ==
  pc # "user" /\ pc' = "user" /\ ret' = NoSpace /\ ~slave_stop' => Remaining' = {}
=============================================================================
