--------------------------------- MODULE LDS ---------------------------------
(***************************************************************************)
(* Limited discrepancy search, gecode/search/seq/lds.hpp: a probing engine *)
(* that finds the solutions with an exact number of discrepancies, and the *)
(* engine that runs it with 0, 1, ..., d_l discrepancies.  Taking          *)
(* alternative a counts as a discrepancies.                                *)
(***************************************************************************)
EXTENDS SearchTree, Spaces

CONSTANTS
  Node,      \* the nodes of all trees
  Trees,     \* the trees
  Limits,    \* values of opt.d_l
  Discrepancies(_)   \* of a node: the sum of the alternatives that lead to it

TreesAssumption == \A t \in Trees : IsTree(t, Node)
DiscrepanciesAssumption ==
  /\ Discrepancies(<<>>) = 0
  /\ \A t \in Trees : \A n \in Node : \A a \in 0 .. t.alternatives[n] - 1 :
       Discrepancies(Child(n, a)) = Discrepancies(n) + a
LimitsAssumption == Limits \subseteq Nat
NoSpaceAssumption == NoSpace \notin Node

VARIABLES
  tree, dl,    \* the problem and opt.d_l
  root,        \* root space, until it has been given to the last probe
  dLDS,        \* d of LDS: discrepancies of the current probe
  cur, d, ds,  \* the probe: current space, discrepancies left, stack
  exhausted,   \* the probe has left out no alternative
  stopped, pc, ret,
  found        \* history: the solutions returned since the last reset

ldsVars == <<root, dLDS>>
probeVars == <<cur, d, ds, exhausted>>
vars == <<tree, dl, ldsVars, probeVars, stopped, pc, ret, found>>

Root(t) == IF FailedIn(t, <<>>) THEN NoSpace ELSE <<>>
RootFor(t, limit) == IF limit > 0 THEN Root(t) ELSE NoSpace

Init ==
  /\ tree \in Trees /\ dl \in Limits
  /\ root = RootFor(tree, dl) /\ dLDS = 0
  /\ cur = Root(tree) /\ d = 0 /\ ds = <<>> /\ exhausted = TRUE
  /\ stopped = FALSE /\ pc = "user" /\ ret = NoSpace /\ found = {}

ProblemUnchanged == UNCHANGED <<tree, dl>>
Start == IF cur = NoSpace THEN "backtrack" ELSE "check"

(* next(), and with it the next() of the probe *)
NextCall ==
  /\ pc = "user" /\ pc' = Start
  /\ stopped' = FALSE
  /\ ProblemUnchanged /\ UNCHANGED <<ldsVars, probeVars, ret, found>>

-----------------------------------------------------------------------------
(***************************************************************************)
(* The probe.                                                              *)
(***************************************************************************)

(* backtrack: the next alternative to the left of the topmost choice *)
Backtrack ==
  LET top == Last(ds)
  IN  /\ pc = "backtrack" /\ ds # <<>> /\ pc' = "check"
      /\ cur' = Child(top.space, top.alt)
      /\ ds' = IF top.alt = 0 THEN Front(ds) ELSE [ds EXCEPT ![Len(ds)].alt = @ - 1]
      /\ d' = d + 1
      /\ ProblemUnchanged /\ UNCHANGED <<ldsVars, exhausted, stopped, ret, found>>

(* the probe returns nullptr: it has come to its end, or it is stopped, where
   it backtracks or where it follows the leftmost alternatives *)
ProbeEnds ==
  /\ \/ pc = "backtrack" /\ ds = <<>> /\ UNCHANGED stopped
     \/ pc = "backtrack" /\ ds # <<>> /\ stopped' = TRUE
     \/ pc = "check" /\ d = 0 /\ tree.alternatives[cur] > 0 /\ stopped' = TRUE
  /\ pc' = "ended"
  /\ ProblemUnchanged /\ UNCHANGED <<ldsVars, probeVars, ret, found>>

(* no discrepancy left: leftmost alternatives only *)
Leftmost ==
  /\ pc = "check" /\ d = 0
  /\ tree.alternatives[cur] > 0
  /\ cur' = Child(cur, 0)
  /\ exhausted' = (exhausted /\ tree.alternatives[cur] = 1)
  /\ ProblemUnchanged /\ UNCHANGED <<ldsVars, d, ds, stopped, pc, ret, found>>

(* a solution with the exact number of discrepancies *)
Solved ==
  /\ pc = "check" /\ d = 0
  /\ cur \in tree.solved
  /\ ret' = cur /\ found' = found \cup {cur}
  /\ cur' = NoSpace /\ pc' = "user"
  /\ ProblemUnchanged /\ UNCHANGED <<ldsVars, d, ds, exhausted, stopped>>

(* a failure, or a solution that an earlier probe has found *)
Discard ==
  /\ pc = "check" /\ pc' = "backtrack"
  /\ FailedIn(tree, cur) \/ (d > 0 /\ cur \in tree.solved)
  /\ cur' = NoSpace
  /\ ProblemUnchanged /\ UNCHANGED <<ldsVars, d, ds, exhausted, stopped, ret, found>>

(* as many discrepancies as possible at once, fewer on backtracking *)
Branch ==
  LET n == tree.alternatives[cur]
      dA == IF d >= n - 1 THEN n - 1 ELSE d
  IN  /\ pc = "check" /\ d > 0
      /\ n > 0
      /\ exhausted' = (exhausted /\ d >= n - 1)
      /\ ds' = IF n > 1 THEN Append(ds, [space |-> cur, alt |-> dA - 1]) ELSE ds
      /\ cur' = Child(cur, dA)
      /\ d' = d - dA
      /\ ProblemUnchanged /\ UNCHANGED <<ldsVars, stopped, pc, ret, found>>

Probe == Backtrack \/ ProbeEnds \/ Leftmost \/ Solved \/ Discard \/ Branch

-----------------------------------------------------------------------------
(* LDS::next() after the probe has returned nullptr: give up, or start the
   probe with one more discrepancy.  Beyond d_l the counter is not read any
   more and is kept at d_l+1 here. *)
DNew == IF dLDS > dl THEN dLDS ELSE dLDS + 1

GiveUp ==
  /\ pc = "ended" /\ pc' = "user"
  /\ \/ stopped /\ UNCHANGED dLDS
     \/ ~stopped /\ (DNew > dl \/ exhausted) /\ dLDS' = DNew
  /\ ret' = NoSpace
  /\ ProblemUnchanged /\ UNCHANGED <<root, probeVars, stopped, found>>

NextProbe ==
  /\ pc = "ended" /\ ~stopped /\ DNew <= dl /\ ~exhausted
  /\ dLDS' = DNew
  /\ IF root = NoSpace THEN UNCHANGED <<probeVars, root>>
     ELSE /\ cur' = root /\ ds' = <<>> /\ d' = DNew /\ exhausted' = TRUE
          /\ root' = IF DNew = dl THEN NoSpace ELSE root
  /\ pc' = IF cur' = NoSpace THEN "backtrack" ELSE "check"
  /\ ProblemUnchanged /\ UNCHANGED <<stopped, ret, found>>

(* reset(s): to the root of the same problem or to nullptr *)
Reset ==
  /\ pc = "user"
  /\ \E s \in {Root(tree), NoSpace} :
       /\ cur' = s /\ root' = IF dl > 0 THEN s ELSE NoSpace
       /\ found' = IF s = NoSpace THEN tree.solved ELSE {}
  /\ dLDS' = 0 /\ d' = 0 /\ ds' = <<>> /\ exhausted' = TRUE
  /\ ProblemUnchanged /\ UNCHANGED <<stopped, pc, ret>>

Loop == Probe \/ GiveUp \/ NextProbe
Next == NextCall \/ Loop \/ Reset

Spec == Init /\ [][Next]_vars

-----------------------------------------------------------------------------
(***************************************************************************)
(* Properties.                                                             *)
(***************************************************************************)

(* Every variable keeps its type; the probe backtracks only without a current
   space, and the next alternative of a choice on the stack is never negative. *)
TypeOK ==
  /\ {root, cur, ret} \subseteq Node \cup {NoSpace} /\ found \subseteq tree.solved
  /\ dLDS \in 0 .. dl + 1 /\ d \in 0 .. dl
  /\ ds \in Seq([space : Node, alt : Nat])
  /\ exhausted \in BOOLEAN /\ stopped \in BOOLEAN
  /\ pc \in {"user", "backtrack", "check", "ended"}
  /\ pc = "check" => cur # NoSpace
  /\ pc = "backtrack" => cur = NoSpace

(* The probe keeps its account: the discrepancies on the way to the current
   space and those that are left add up to those of the probe, and so do, when
   it backtracks, those on the way to the alternative that is next. *)
DiscrepancyAccount ==
  LET total == IF dLDS < dl THEN dLDS ELSE dl
      next == Last(ds)
  IN  /\ cur # NoSpace => Discrepancies(cur) + d = total
      /\ cur = NoSpace /\ ds # <<>> =>
           Discrepancies(next.space) + next.alt + d + 1 = total
      /\ \A i \in 1 .. Len(ds) - 1 :
           Below(Child(ds[i].space, ds[i].alt + 1), ds[i+1].space)

(* What holds of a probe at any time. *)
ProbeOK == TypeOK /\ DiscrepancyAccount

(* Limited discrepancy search is the stream of the solutions with at most d_l
   discrepancies, those with fewer discrepancies first: none is missed, none
   comes twice although every probe passes the shallower ones again, and the
   search ends early only if all have been found. *)
Stream == INSTANCE SolutionStream WITH
  Solution <- Node,
  todo <- {s \in tree.solved : Discrepancies(s) <= dl} \ found,
  calling <- pc # "user",
  stopped <- stopped /\ pc # "ended",
  Before <- LAMBDA s, t : Discrepancies(s) < Discrepancies(t),
  After <- LAMBDA S, s : S \ {s}
=============================================================================
