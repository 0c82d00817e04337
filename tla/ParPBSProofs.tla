----------------------------- MODULE ParPBSProofs -----------------------------
(***************************************************************************)
(* Parallel portfolio search is correct for any number of slaves and any   *)
(* problem (gecode/search/par/pbs.hpp).                                    *)
(***************************************************************************)
EXTENDS ParPBS, FiniteSetTheorems, SequenceTheorems, TLAPS

(* a slave that is inside run() and has not reported yet *)
Busy == {i \in Slave : thread[i] \in {"search", "report"}}
(* one that has found a solution and not yet reported it *)
Found(i) == thread[i] = "report" /\ result[i] # NoSpace

SlavesOK ==
  /\ slaves \in [1 .. Cardinality(Slave) -> Slave] /\ IsInjective(slaves)
  /\ \A i \in Slave : \E k \in 1 .. Cardinality(Slave) : slaves[k] = i
CountsOK ==
  /\ n_active \in 0 .. Cardinality(Slave) /\ n_busy \in 0 .. Cardinality(Slave)
  /\ submitted \in 0 .. Cardinality(Slave)
  /\ pc \in {"user", "submit", "wait", "take", "destroy", "deleted"}
  /\ pc = "submit" => submitted < n_active
  /\ pc = "destroy" => submitted < Cardinality(Slave)
FlagsOK ==
  /\ collectsBest \in BOOLEAN /\ slave_stop \in BOOLEAN /\ tostop \in BOOLEAN /\ idle \in BOOLEAN
  /\ done \in [Slave -> BOOLEAN] /\ stopped \in [Slave -> BOOLEAN]
  /\ thread \in [Slave -> {"search", "report", "leave", "off"}]
SpacesOK ==
  /\ problem \subseteq Solution /\ delivered \subseteq problem /\ solutions \in Seq(problem)
  /\ b \in problem \cup {NoSpace} /\ ret \in problem \cup {NoSpace}
  /\ best \in problem \cup {NoSpace} /\ reporter \in Slave \cup {NoSlave}
  /\ result \in [Slave -> problem \cup {NoSpace}] /\ left \in [Slave -> SUBSET problem]
TypeInv == SlavesOK /\ CountsOK /\ FlagsOK /\ SpacesOK

(* n_busy counts the slaves that are busy or have still to be submitted, all of them
   active ones *)
BusyInv ==
  /\ pc \in {"submit", "wait"} => Busy \subseteq Active
  /\ pc \notin {"submit", "wait"} => Busy = {}
  /\ n_busy = Cardinality(Busy) + (IF pc = "submit" THEN n_active - submitted ELSE 0)
  /\ idle => pc = "wait" /\ n_busy = 0

(* the completion of a slave is signalled when its thread has let go *)
DoneInv ==
  /\ \A i \in Slave : done[i] => thread[i] = "off"
  /\ pc = "destroy" => \A k \in 1 .. submitted : thread[slaves[k]] = "off"
  /\ pc = "deleted" => \A i \in Slave : thread[i] = "off"

(* what is left to a slave that is exhausted or about to say so *)
LeftInv ==
  \A i \in Slave :
    i \notin Active \/ (thread[i] = "report" /\ result[i] = NoSpace /\ ~stopped[i]) => left[i] = {}

(* a slave that has found a solution and the reporter search for better ones only *)
BestInv ==
  collectsBest =>
    /\ \A i \in Slave : left[i] \subseteq BetterThan(problem, best)
    /\ \A i \in Slave : Found(i) => /\ result[i] \in BetterThan(problem, best)
                                    /\ left[i] \subseteq BetterThan(problem, result[i])
    /\ reporter = NoSlave => best = b
    /\ reporter # NoSlave => /\ b \in BetterThan(problem, best)
                             /\ left[reporter] \subseteq BetterThan(problem, b)

(* no slave drops a solution unless it, or for the best one a better one, is known *)
CompleteInv ==
  \A i \in Slave : \A s \in problem \ left[i] :
    \/ collectsBest /\ b # NoSpace /\ b <= s
    \/ ~collectsBest /\ s \in delivered \cup Range(solutions)
    \/ Found(i) /\ (IF collectsBest THEN result[i] <= s ELSE result[i] = s)

(* why a run of the slaves comes to an end *)
Exhausted == \E i \in Slave : left[i] = {} /\ ~Found(i)
EndInv ==
  /\ pc = "submit" => ~tostop /\ ~slave_stop /\ n_busy = n_active
  /\ pc = "wait" => /\ tostop => ~Empty \/ Exhausted
                    /\ ~tostop /\ ~slave_stop => n_busy = n_active /\ n_active > 0
  /\ pc = "take" => slave_stop \/ ~Empty \/ Exhausted

IInv == TypeInv /\ BusyInv /\ DoneInv /\ LeftInv /\ BestInv /\ CompleteInv /\ EndInv

USE DEF Goto, controlVars, collectVars, slaveVars, callVars

LEMMA CountOK == Cardinality(Slave) \in Nat \ {0}
BY SlaveAssumption, FS_CardinalityType, FS_EmptySet

LEMMA AppendRange ==
  ASSUME NEW S, NEW q \in Seq(S), NEW x \in S
  PROVE  /\ Append(q, x) \in Seq(S) /\ Range(Append(q, x)) = Range(q) \cup {x} /\ Append(q, x) # <<>>
         /\ q # <<>> => /\ Head(q) \in S /\ Tail(q) \in Seq(S)
                        /\ Range(q) = {Head(q)} \cup Range(Tail(q))
<1>1. /\ Append(q, x) \in Seq(S) /\ Append(q, x) # <<>>
      /\ Range(Append(q, x)) = Range(q) \cup {x}
  BY AppendProperties DEF Range
<1>2. ASSUME q # <<>>
      PROVE  /\ Head(q) \in S /\ Tail(q) \in Seq(S)
             /\ Range(q) = {Head(q)} \cup Range(Tail(q))
  <2>1. /\ Head(q) \in S /\ Tail(q) \in Seq(S) /\ Head(q) = q[1]
        /\ Len(q) \in Nat \ {0} /\ Len(Tail(q)) = Len(q) - 1
        /\ DOMAIN q = 1 .. Len(q) /\ DOMAIN Tail(q) = 1 .. Len(q) - 1
        /\ \A k \in 1 .. Len(q) - 1 : Tail(q)[k] = q[k + 1]
    BY <1>2, HeadTailProperties, LenProperties
  <2>2. \A k \in 1 .. Len(q) : k # 1 => k - 1 \in 1 .. Len(q) - 1 /\ q[k] = Tail(q)[k - 1]
    BY <2>1
  <2>3. \A k \in 1 .. Len(q) - 1 : k + 1 \in 1 .. Len(q)
    BY <2>1
  <2>4. \A y : y \in Range(q) => y \in {Head(q)} \cup Range(Tail(q))
    BY <2>1, <2>2 DEF Range
  <2>5. \A y : y \in Range(Tail(q)) => y \in Range(q)
    BY <2>1, <2>3 DEF Range
  <2>6. Head(q) \in Range(q)
    BY <2>1 DEF Range
  <2> QED BY <2>1, <2>4, <2>5, <2>6
<1> QED BY <1>1, <1>2

LEMMA InitOK == Init => IInv
<1> SUFFICES ASSUME Init PROVE IInv
  OBVIOUS
<1> USE CountOK, SlaveAssumption, SolutionAssumption
<1> DEFINE N == Cardinality(Slave)
<1>1. /\ slaves \in [1 .. N -> Slave] /\ IsInjective(slaves)
      /\ \A i \in Slave : \E k \in 1 .. N : slaves[k] = i
  <2>1. PICK f \in [1 .. N -> Slave] : IsInjective(f)
    BY FS_CardinalityType DEF ExistsBijection, Bijection, Injection, IsInjective
  <2>2. slaves \in [1 .. N -> Slave] /\ IsInjective(slaves)
    BY <2>1 DEF Init, SetToSeq
  <2>3. slaves \in Injection(1 .. N, Slave)
    BY <2>2 DEF Injection
  <2>4. Cardinality(1 .. N) = N
    BY FS_Interval
  <2>5. slaves \in Surjection(1 .. N, Slave)
    BY <2>3, <2>4, FS_Injection
  <2> QED BY <2>2, <2>5 DEF Surjection
<1>2. TypeInv
  <2>1. SlavesOK
    BY <1>1 DEF SlavesOK
  <2>2. CountsOK
    BY DEF Init, CountsOK
  <2>3. FlagsOK
    BY DEF Init, FlagsOK
  <2>4. SpacesOK
    BY DEF Init, SpacesOK
  <2> QED BY <2>1, <2>2, <2>3, <2>4 DEF TypeInv
<1>3. Busy = {} /\ Active = Slave
  BY <1>1 DEF Init, Busy, Active
<1>4. BusyInv /\ DoneInv
  BY <1>3, FS_EmptySet DEF Init, BusyInv, DoneInv
<1>5. LeftInv /\ BestInv /\ CompleteInv /\ EndInv
  BY <1>3 DEF Init, LeftInv, BestInv, CompleteInv, EndInv, Found, BetterThan, Better
<1> QED BY <1>2, <1>4, <1>5 DEF IInv

-----------------------------------------------------------------------------
(***************************************************************************)
(* One lemma for each part of the invariant.                               *)
(***************************************************************************)

(* how the set of the busy slaves changes when one of them goes on *)
LEMMA BusyMove ==
  ASSUME thread \in [Slave -> {"search", "report", "leave", "off"}], NEW i \in Slave, NEW to, Goto(i, to)
  PROVE  /\ IsFiniteSet(Busy) /\ Cardinality(Busy) \in Nat
         /\ (i \in Busy <=> to \in {"search", "report"}) => Busy' = Busy
         /\ i \in Busy /\ to \notin {"search", "report"} =>
              /\ Busy' = Busy \ {i} /\ Cardinality(Busy') = Cardinality(Busy) - 1
              /\ Cardinality(Busy) > 0
         /\ i \notin Busy /\ to \in {"search", "report"} =>
              Busy' = Busy \cup {i} /\ Cardinality(Busy') = Cardinality(Busy) + 1
<1>1. IsFiniteSet(Busy) /\ Cardinality(Busy) \in Nat
  BY SlaveAssumption, FS_Subset, FS_CardinalityType DEF Busy
<1>2. (i \in Busy <=> to \in {"search", "report"}) => Busy' = Busy
  BY DEF Busy
<1>3. ASSUME i \in Busy, to \notin {"search", "report"}
      PROVE  /\ Busy' = Busy \ {i} /\ Cardinality(Busy') = Cardinality(Busy) - 1
             /\ Cardinality(Busy) > 0
  <2>1. Busy' = Busy \ {i}
    BY <1>3 DEF Busy
  <2>2. Cardinality(Busy) # 0
    BY <1>1, <1>3, FS_EmptySet
  <2> QED BY <1>1, <1>3, <2>1, <2>2, FS_RemoveElement
<1>4. ASSUME i \notin Busy, to \in {"search", "report"}
      PROVE  Busy' = Busy \cup {i} /\ Cardinality(Busy') = Cardinality(Busy) + 1
  <2>1. Busy' = Busy \cup {i}
    BY <1>4 DEF Busy
  <2> QED BY <1>1, <1>4, <2>1, FS_AddElement
<1> QED BY <1>1, <1>2, <1>3, <1>4

(* a slave reports only while next() waits, and is active *)
LEMMA ReportWaits ==
  ASSUME TypeInv, BusyInv, NEW i \in Slave, Reporting(i)
  PROVE  /\ pc = "wait" /\ i \in Busy /\ i \in Active /\ n_busy = Cardinality(Busy)
         /\ n_busy \in Nat \ {0} /\ n_active \in Nat \ {0}
<1>1. pc = "wait" /\ i \in Busy
  BY DEF Reporting, BusyInv, TypeInv, SlavesOK, CountsOK, FlagsOK, Busy
<1>2. i \in Active /\ n_busy = Cardinality(Busy)
  BY <1>1, SlaveAssumption, FS_Subset, FS_CardinalityType DEF BusyInv, Busy
<1>3. n_busy \in Nat /\ n_active \in Nat /\ n_active # 0
  BY <1>2, CountOK DEF TypeInv, SlavesOK, CountsOK, FlagsOK, Active
<1>4. n_busy # 0
  BY <1>1, <1>2, SlaveAssumption, FS_Subset, FS_EmptySet DEF Busy
<1> QED BY <1>1, <1>2, <1>3, <1>4

(* the exhausted slave changes places with the last active one *)
LEMMA ExhaustedMoves ==
  ASSUME TypeInv, BusyInv, NEW i \in Slave, ReportExhausted(i)
  PROVE  /\ slaves' \in [1 .. Cardinality(Slave) -> Slave] /\ IsInjective(slaves')
         /\ \A j \in Slave : \E k \in 1 .. Cardinality(Slave) : slaves'[k] = j
         /\ n_active' = n_active - 1 /\ n_active \in 1 .. Cardinality(Slave)
         /\ Active' = Active \ {i}
<1> DEFINE N == Cardinality(Slave)
           k == CHOOSE j \in DOMAIN slaves : slaves[j] = i
<1>1. /\ slaves \in [1 .. N -> Slave] /\ N \in Nat \ {0} /\ n_active \in 1 .. N /\ i \in Active
      /\ \A x, y \in 1 .. N : slaves[x] = slaves[y] => x = y
  <2>1. i \in Active /\ n_active \in Nat \ {0}
    BY ReportWaits DEF ReportExhausted
  <2>2. n_active \in 1 .. N
    BY <2>1, CountOK DEF TypeInv, SlavesOK, CountsOK, FlagsOK
  <2>3. slaves \in [1 .. N -> Slave] /\ IsInjective(slaves)
    BY DEF TypeInv, SlavesOK, CountsOK, FlagsOK
  <2>4. \A x, y \in 1 .. N : slaves[x] = slaves[y] => x = y
    BY <2>3 DEF IsInjective
  <2> QED BY <2>1, <2>2, <2>3, <2>4, CountOK
<1>2. k \in 1 .. n_active /\ slaves[k] = i
  BY <1>1 DEF Active
<1> HIDE DEF k
<1>3. /\ slaves' \in [1 .. N -> Slave] /\ n_active' = n_active - 1
      /\ \A x \in 1 .. N : slaves'[x] = IF x = n_active THEN i
                                        ELSE IF x = k THEN slaves[n_active] ELSE slaves[x]
  BY <1>1, <1>2 DEF ReportExhausted, k
<1>4. \A x, y \in 1 .. N : slaves'[x] = slaves'[y] => x = y
  BY <1>1, <1>2, <1>3
<1>5. IsInjective(slaves')
  BY <1>3, <1>4 DEF IsInjective
<1>6. \A j \in Slave : \E x \in 1 .. N : slaves'[x] = j
  <2> SUFFICES ASSUME NEW j \in Slave PROVE \E x \in 1 .. N : slaves'[x] = j
    OBVIOUS
  <2>1. PICK x \in 1 .. N : slaves[x] = j
    BY DEF TypeInv, SlavesOK
  <2> QED BY <1>1, <1>2, <1>3, <2>1
<1>7. Active' = Active \ {i}
  <2>1. \A j : j \in Active' => j \in Active /\ j # i
    BY <1>1, <1>2, <1>3 DEF Active
  <2>2. ASSUME NEW x \in 1 .. n_active, slaves[x] # i PROVE slaves[x] \in Active'
    <3>1. CASE x = n_active
      BY <1>1, <1>2, <1>3, <2>2, <3>1 DEF Active
    <3>2. CASE x # n_active
      BY <1>1, <1>2, <1>3, <2>2, <3>2 DEF Active
    <3> QED BY <3>1, <3>2
  <2> QED BY <2>1, <2>2 DEF Active
<1> QED BY <1>1, <1>3, <1>5, <1>6, <1>7

LEMMA TypeStep ==
  ASSUME TypeInv, BusyInv, BestInv, Next
  PROVE  TypeInv'
<1> DEFINE N == Cardinality(Slave)
<1> USE CountOK DEF TypeInv
<1>1. ASSUME NEW i \in Slave, NEW s \in Solution, SlaveFinds(i, s)
      PROVE  TypeInv'
  BY <1>1 DEF SlaveFinds, BetterThan, SlavesOK, CountsOK, FlagsOK, SpacesOK
<1>2. ASSUME NEW i \in Slave, SlaveNull(i) \/ Terminated(i)
      PROVE  TypeInv'
  <2>1. SlavesOK' /\ CountsOK' /\ FlagsOK'
    BY <1>2 DEF SlaveNull, Terminated, SlavesOK, CountsOK, FlagsOK
  <2>2. SpacesOK'
    BY <1>2 DEF SlaveNull, Terminated, SpacesOK
  <2> QED BY <2>1, <2>2
<1>3. ASSUME NEW i \in Slave, Reporting(i), ReportSolution(i) \/ ReportStopped(i) \/ ReportExhausted(i)
      PROVE  TypeInv'
  <2>1. n_busy - 1 \in 0 .. N /\ n_active - 1 \in 0 .. N /\ pc = "wait"
    BY <1>3, ReportWaits DEF CountsOK
  <2>2. CASE ReportSolution(i)
    <3>1. result[i] \in problem /\ Append(solutions, result[i]) \in Seq(problem)
      BY <2>2, AppendRange DEF ReportSolution, SpacesOK
    <3>2. SlavesOK' /\ CountsOK'
      BY <2>1, <2>2 DEF ReportSolution, Decrement, SlavesOK, CountsOK
    <3>3. FlagsOK'
      BY <2>2 DEF ReportSolution, Decrement, FlagsOK
    <3>4. SpacesOK'
      BY <2>2, <3>1 DEF ReportSolution, SpacesOK
    <3> QED BY <3>2, <3>3, <3>4
  <2>3. CASE ReportStopped(i)
    BY <2>1, <2>3 DEF ReportStopped, Decrement, SlavesOK, CountsOK, FlagsOK, SpacesOK
  <2>4. CASE ReportExhausted(i)
    <3>1. SlavesOK'
      BY <2>4, ExhaustedMoves DEF SlavesOK
    <3>2. CountsOK' /\ FlagsOK' /\ SpacesOK'
      BY <2>1, <2>4 DEF ReportExhausted, Decrement, CountsOK, FlagsOK, SpacesOK
    <3> QED BY <3>1, <3>2
  <2> QED BY <1>3, <2>2, <2>3, <2>4
<1>4. CASE NextQueued \/ NextRun \/ Woken \/ TakeNothing \/ Destroy
  <2>1. SlavesOK' /\ FlagsOK' /\ SpacesOK'
    BY <1>4 DEF NextQueued, NextRun, Woken, TakeNothing, Destroy, SlavesOK, FlagsOK, SpacesOK
  <2>2. CountsOK'
    BY <1>4 DEF NextQueued, NextRun, Woken, TakeNothing, Destroy, CountsOK
  <2> QED BY <2>1, <2>2
<1>5. CASE Submit
  <2>1. submitted + 1 \in 0 .. N
    BY <1>5 DEF Submit, CountsOK
  <2> QED BY <1>5, <2>1 DEF Submit, SlavesOK, CountsOK, FlagsOK, SpacesOK
<1>6. CASE DestroyWait
  <2>1. submitted + 1 \in 0 .. N /\ Len(slaves) = N
    BY <1>6 DEF DestroyWait, CountsOK, SlavesOK
  <2> QED BY <1>6, <2>1 DEF DestroyWait, SlavesOK, CountsOK, FlagsOK, SpacesOK
<1>7. CASE TakeSolution
  <2>1. /\ collectsBest => b \in problem
        /\ ~collectsBest => Head(solutions) \in problem /\ Tail(solutions) \in Seq(problem)
    BY <1>7, AppendRange DEF TakeSolution, Empty, BestInv, BetterThan, SpacesOK
  <2>2. SlavesOK' /\ CountsOK' /\ FlagsOK'
    BY <1>7 DEF TakeSolution, SlavesOK, CountsOK, FlagsOK
  <2>3. SpacesOK'
    BY <1>7, <2>1 DEF TakeSolution, ConstrainLeft, BetterThan, SpacesOK
  <2> QED BY <2>2, <2>3
<1>8. ASSUME NEW s \in problem, Constrain(s) PROVE TypeInv'
  BY <1>8 DEF Constrain, ConstrainLeft, BetterThan, SlavesOK, CountsOK, FlagsOK, SpacesOK
<1>9. ASSUME NEW i \in Slave, SlaveStep(i) PROVE TypeInv'
  BY <1>9, <1>1, <1>2, <1>3 DEF SlaveStep, ReportSolution, ReportStopped, ReportExhausted
<1> QED BY <1>4, <1>5, <1>6, <1>7, <1>8, <1>9 DEF Next, User, CallerStep

LEMMA BusyStep ==
  ASSUME TypeInv, BusyInv, DoneInv, Next
  PROVE  BusyInv'
<1> DEFINE N == Cardinality(Slave)
<1>0. Cardinality(Busy) \in Nat
  BY SlaveAssumption, FS_Subset, FS_CardinalityType DEF Busy
<1>1. ASSUME NEW i \in Slave,
             (\E s \in Solution : SlaveFinds(i, s)) \/ SlaveNull(i) \/ Terminated(i)
      PROVE  BusyInv'
  <2>1. Busy' = Busy
    BY <1>1 DEF SlaveFinds, SlaveNull, Terminated, Busy, TypeInv, CountsOK, FlagsOK
  <2> QED BY <1>1, <2>1 DEF SlaveFinds, SlaveNull, Terminated, BusyInv, Active
<1>2. ASSUME NEW i \in Slave, Reporting(i), ReportSolution(i) \/ ReportStopped(i) \/ ReportExhausted(i)
      PROVE  BusyInv'
  <2> DEFINE to == thread'[i]
  <2>1. /\ pc = "wait" /\ pc' = "wait" /\ i \in Busy /\ i \in Active
        /\ n_busy = Cardinality(Busy) /\ n_busy \in Nat \ {0}
    BY <1>2, ReportWaits DEF ReportSolution, ReportStopped, ReportExhausted
  <2>2. CASE to = "search"
    <3>1. ReportSolution(i) /\ Goto(i, "search") /\ UNCHANGED <<n_busy, idle>>
      BY <1>2, <2>2 DEF ReportSolution, ReportStopped, ReportExhausted, Decrement, TypeInv, FlagsOK
    <3>2. Busy' = Busy /\ Active' = Active
      BY <2>1, <3>1 DEF ReportSolution, Busy, Active, TypeInv, FlagsOK
    <3> QED BY <2>1, <3>1, <3>2 DEF BusyInv
  <2>3. CASE to # "search"
    <3>1. Goto(i, "leave") /\ n_busy' = n_busy - 1 /\ idle' = (idle \/ n_busy' = 0)
      BY <1>2, <2>3 DEF ReportSolution, ReportStopped, ReportExhausted, Decrement, TypeInv, CountsOK, FlagsOK
    <3>2. Busy' = Busy \ {i} /\ Cardinality(Busy') = Cardinality(Busy) - 1
      <4>1. thread \in [Slave -> {"search", "report", "leave", "off"}]
        BY DEF TypeInv, FlagsOK
      <4>2. "leave" \notin {"search", "report"}
        OBVIOUS
      <4> HIDE DEF Goto
      <4> QED BY <2>1, <3>1, <4>1, <4>2, BusyMove
    <3>3. Active' = Active \/ Active' = Active \ {i}
      <4>1. CASE ReportExhausted(i)
        BY <4>1, ExhaustedMoves
      <4>2. CASE ~ReportExhausted(i)
        BY <1>2, <4>2 DEF ReportSolution, ReportStopped, Active
      <4> QED BY <4>1, <4>2
    <3>4. n_busy' = Cardinality(Busy') /\ n_busy' \in Nat /\ Busy \subseteq Active
      BY <2>1, <3>1, <3>2 DEF BusyInv
    <3>5. idle' => n_busy' = 0
      BY <2>1, <3>1 DEF BusyInv
    <3> QED BY <2>1, <3>1, <3>2, <3>3, <3>4, <3>5 DEF BusyInv
  <2> QED BY <2>2, <2>3
<1>3. CASE NextQueued \/ TakeNothing \/ TakeSolution \/ Destroy
  <2>1. UNCHANGED <<Busy, Active, n_busy, idle>> /\ {pc, pc'} \cap {"submit", "wait"} = {}
    BY <1>3 DEF NextQueued, TakeNothing, TakeSolution, Destroy, Busy, Active
  <2> QED BY <1>0, <2>1 DEF BusyInv
<1>4. CASE NextRun
  <2>1. Busy' = Busy /\ Busy = {} /\ Cardinality(Busy) = 0
    BY <1>4, FS_EmptySet DEF NextRun, BusyInv, Busy
  <2> QED BY <1>4, <2>1, CountOK DEF NextRun, BusyInv, TypeInv, CountsOK, FlagsOK
<1>5. CASE Submit
  <2> DEFINE i == slaves[submitted + 1]
  <2>1. i \in Slave /\ i \in Active /\ submitted \in Nat /\ n_active \in Nat
    BY <1>5, CountOK DEF Submit, TypeInv, CountsOK, SlavesOK, Active
  <2>2. Goto(i, "search") /\ i \notin Busy
    BY <1>5, <2>1 DEF Submit, DoneInv, Busy
  <2>3. Busy' = Busy \cup {i} /\ Cardinality(Busy') = Cardinality(Busy) + 1
    BY <2>1, <2>2, BusyMove DEF TypeInv, CountsOK, FlagsOK
  <2>4. /\ pc = "submit" /\ submitted' = submitted + 1 /\ UNCHANGED <<n_busy, n_active, idle, Active>>
        /\ pc' = IF submitted' = n_active THEN "wait" ELSE "submit"
    BY <1>5 DEF Submit, Active
  <2> QED BY <1>0, <2>1, <2>3, <2>4 DEF BusyInv
<1>6. CASE Woken
  <2>1. Busy' = Busy /\ n_busy = 0 /\ n_busy = Cardinality(Busy)
    BY <1>0, <1>6 DEF Woken, BusyInv, Busy
  <2>2. Busy = {}
    BY <2>1, SlaveAssumption, FS_Subset, FS_EmptySet DEF Busy
  <2> QED BY <1>6, <2>1, <2>2 DEF Woken, BusyInv
<1>7. CASE DestroyWait
  BY <1>0, <1>7 DEF DestroyWait, BusyInv, Busy, Active
<1>8. ASSUME NEW s \in problem, Constrain(s) PROVE BusyInv'
  BY <1>0, <1>8 DEF Constrain, BusyInv, Busy, Active
<1>9. ASSUME NEW i \in Slave, SlaveStep(i) PROVE BusyInv'
  BY <1>9, <1>1, <1>2 DEF SlaveStep, ReportSolution, ReportStopped, ReportExhausted
<1> QED BY <1>3, <1>4, <1>5, <1>6, <1>7, <1>8, <1>9 DEF Next, User, CallerStep

LEMMA DoneStep ==
  ASSUME TypeInv, BusyInv, DoneInv, Next
  PROVE  DoneInv'
<1> DEFINE N == Cardinality(Slave)
<1>1. ASSUME NEW i \in Slave, SlaveStep(i) PROVE DoneInv'
  <2>1. CASE Terminated(i)
    <3>1. thread' = [thread EXCEPT ![i] = "off"] /\ done' = [done EXCEPT ![i] = TRUE]
      BY <2>1 DEF Terminated
    <3>2. \A j \in Slave : (done'[j] => thread'[j] = "off") /\ (thread[j] = "off" => thread'[j] = "off")
      BY <3>1 DEF DoneInv, TypeInv, FlagsOK
    <3> QED BY <2>1, <3>2, CountOK DEF Terminated, DoneInv, TypeInv, SlavesOK, CountsOK
  <2>2. CASE ~Terminated(i)
    <3>1. thread[i] \in {"search", "report"} /\ UNCHANGED <<done, pc, submitted>>
          /\ \A j \in Slave \ {i} : thread'[j] = thread[j]
      BY <1>1, <2>2 DEF SlaveStep, SlaveFinds, SlaveNull, Reporting, ReportSolution, ReportStopped,
                        ReportExhausted, TypeInv, FlagsOK
    <3>2. pc \in {"submit", "wait"}
      BY <3>1 DEF BusyInv, Busy
    <3> QED BY <3>1, <3>2 DEF DoneInv
  <2> QED BY <2>1, <2>2
<1>2. CASE Submit
  <2>1. slaves[submitted + 1] \in Slave /\ pc = "submit" /\ pc' \in {"submit", "wait"}
    BY <1>2, CountOK DEF Submit, TypeInv, SlavesOK, CountsOK
  <2> QED BY <1>2, <2>1 DEF Submit, DoneInv, TypeInv, FlagsOK
<1>3. CASE Destroy
  BY <1>3 DEF Destroy, DoneInv
<1>4. CASE DestroyWait
  <2> DEFINE i == slaves[submitted + 1]
  <2>1. i \in Slave /\ submitted + 1 \in 1 .. N /\ Len(slaves) = N /\ submitted \in Nat
    BY <1>4, CountOK DEF DestroyWait, TypeInv, SlavesOK, CountsOK
  <2>2. /\ thread[i] = "off" /\ thread' = thread /\ slaves' = slaves
        /\ \A j \in Slave : done'[j] => done[j]
    BY <1>4, <2>1 DEF DestroyWait, DoneInv, TypeInv, FlagsOK
  <2>3. \A k \in 1 .. submitted' : thread[slaves[k]] = "off"
    BY <1>4, <2>1, <2>2 DEF DestroyWait, DoneInv
  <2>4. pc' = "deleted" => \A j \in Slave : thread[j] = "off"
    BY <1>4, <2>1, <2>3 DEF DestroyWait, TypeInv, SlavesOK
  <2> QED BY <1>4, <2>2, <2>3, <2>4 DEF DestroyWait, DoneInv
<1>5. CASE NextQueued \/ NextRun \/ Woken \/ TakeNothing \/ TakeSolution
  BY <1>5 DEF NextQueued, NextRun, Woken, TakeNothing, TakeSolution, DoneInv
<1>6. ASSUME NEW s \in problem, Constrain(s) PROVE DoneInv'
  BY <1>6 DEF Constrain, DoneInv
<1> QED BY <1>1, <1>2, <1>3, <1>4, <1>5, <1>6 DEF Next, User, CallerStep

(* what is left to a slave only shrinks *)
LEMMA LeftShrinks ==
  ASSUME TypeInv, Next, NEW i \in Slave
  PROVE  left'[i] \subseteq left[i]
<1>1. ASSUME NEW j \in Slave, SlaveStep(j) PROVE left'[i] \subseteq left[i]
  <2>1. ASSUME NEW s \in Solution, SlaveFinds(j, s) PROVE left'[i] \subseteq left[i]
    BY <2>1 DEF SlaveFinds, BetterThan, TypeInv, SpacesOK
  <2>2. CASE ~\E s \in Solution : SlaveFinds(j, s)
    BY <1>1, <2>2 DEF SlaveStep, SlaveNull, ReportSolution, ReportStopped, ReportExhausted, Terminated
  <2> QED BY <2>1, <2>2
<1>2. CASE TakeSolution
  BY <1>2 DEF TakeSolution, ConstrainLeft, BetterThan
<1>3. ASSUME NEW s \in problem, Constrain(s) PROVE left'[i] \subseteq left[i]
  BY <1>3 DEF Constrain, ConstrainLeft, BetterThan
<1>4. CASE NextQueued \/ NextRun \/ Destroy \/ Submit \/ Woken \/ TakeNothing \/ DestroyWait
  BY <1>4 DEF NextQueued, NextRun, Destroy, Submit, Woken, TakeNothing, DestroyWait
<1> QED BY <1>1, <1>2, <1>3, <1>4 DEF Next, User, CallerStep

LEMMA LeftStep ==
  ASSUME TypeInv, BusyInv, DoneInv, LeftInv, Next
  PROVE  LeftInv'
<1> SUFFICES ASSUME NEW i \in Slave, left'[i] # {},
                    i \notin Active' \/ (thread'[i] = "report" /\ result'[i] = NoSpace /\ ~stopped'[i])
             PROVE  FALSE
  BY DEF LeftInv
<1>1. left[i] # {}
  BY LeftShrinks
<1>2. i \in Active /\ ~(thread[i] = "report" /\ result[i] = NoSpace /\ ~stopped[i])
  BY <1>1 DEF LeftInv
<1>3. ASSUME NEW j \in Slave, SlaveStep(j) PROVE FALSE
  <2>1. CASE ReportExhausted(j)
    <3>1. Active' = Active \ {j}
      BY <2>1, ExhaustedMoves
    <3>2. left[j] = {}
      BY <2>1 DEF ReportExhausted, Reporting, LeftInv
    <3> QED BY <1>1, <1>2, <2>1, <3>1, <3>2 DEF ReportExhausted, TypeInv, FlagsOK
  <2>2. CASE ~ReportExhausted(j)
    <3>1. Active' = Active
      BY <1>3, <2>2 DEF SlaveStep, SlaveFinds, SlaveNull, ReportSolution, ReportStopped, Terminated, Active
    <3>2. ASSUME NEW s \in Solution, SlaveFinds(j, s) PROVE FALSE
      BY <1>2, <3>1, <3>2, SolutionAssumption DEF SlaveFinds, TypeInv, FlagsOK, SpacesOK
    <3>3. CASE SlaveNull(j)
      BY <1>1, <1>2, <3>1, <3>3 DEF SlaveNull, TypeInv, FlagsOK, SpacesOK
    <3>4. CASE ReportSolution(j) \/ ReportStopped(j) \/ Terminated(j)
      BY <1>2, <3>1, <3>4 DEF ReportSolution, ReportStopped, Terminated, TypeInv, FlagsOK
    <3> QED BY <1>3, <2>2, <3>2, <3>3, <3>4 DEF SlaveStep
  <2> QED BY <2>1, <2>2
<1>4. CASE Submit
  BY <1>2, <1>4 DEF Submit, Active, TypeInv, FlagsOK
<1>5. CASE NextQueued \/ NextRun \/ Destroy \/ Woken \/ TakeNothing \/ TakeSolution \/ DestroyWait
  BY <1>2, <1>5 DEF NextQueued, NextRun, Destroy, Woken, TakeNothing, TakeSolution, DestroyWait, Active
<1>6. ASSUME NEW s \in problem, Constrain(s) PROVE FALSE
  BY <1>2, <1>6 DEF Constrain, Active
<1> QED BY <1>3, <1>4, <1>5, <1>6 DEF Next, User, CallerStep

LEMMA BestStep ==
  ASSUME TypeInv, BusyInv, DoneInv, LeftInv, BestInv, Next
  PROVE  BestInv'
<1> SUFFICES ASSUME collectsBest PROVE BestInv'
  BY DEF BestInv, Next, User, CallerStep, SlaveStep, NextQueued, NextRun, Constrain, Destroy, Submit, Woken,
         TakeNothing, TakeSolution, DestroyWait, SlaveFinds, SlaveNull, ReportSolution, ReportStopped,
         ReportExhausted, Terminated
<1>0. /\ \A i \in Slave : left[i] \subseteq BetterThan(problem, best) /\ left'[i] \subseteq left[i]
      /\ \A i \in Slave : Found(i) => /\ result[i] \in BetterThan(problem, best)
                                      /\ left[i] \subseteq BetterThan(problem, result[i])
      /\ reporter = NoSlave => best = b
      /\ reporter # NoSlave => /\ reporter \in Slave /\ b \in BetterThan(problem, best)
                               /\ left[reporter] \subseteq BetterThan(problem, b)
  BY LeftShrinks DEF BestInv, TypeInv, SpacesOK
<1>1. ASSUME NEW i \in Slave, SlaveStep(i) PROVE BestInv'
  <2>1. ASSUME NEW s \in Solution, SlaveFinds(i, s) PROVE BestInv'
    <3>1. /\ UNCHANGED <<problem, best, b, reporter, collectsBest>> /\ s \in left[i]
          /\ thread' = [thread EXCEPT ![i] = "report"] /\ result' = [result EXCEPT ![i] = s]
          /\ left'[i] = BetterThan(left[i], s)
      BY <2>1 DEF SlaveFinds, TypeInv, SpacesOK
    <3>2. left'[i] \subseteq BetterThan(problem, s)
      BY <3>1 DEF BetterThan, TypeInv, SpacesOK
    <3>3. \A j \in Slave : Found(j)' => /\ result'[j] \in BetterThan(problem, best)
                                        /\ left'[j] \subseteq BetterThan(problem, result'[j])
      BY <1>0, <3>1, <3>2 DEF Found, TypeInv, FlagsOK, SpacesOK
    <3>4. \A S, t : BetterThan(S, t)' = BetterThan(S, t)
      BY DEF BetterThan, Better
    <3> QED BY <1>0, <3>1, <3>3, <3>4 DEF BestInv, BetterThan, Better
  <2>2. CASE ReportSolution(i)
    <3>1. /\ UNCHANGED <<problem, best, collectsBest, left, result>> /\ Found(i)
          /\ \A j \in Slave : Found(j)' => Found(j)
          /\ UNCHANGED <<b, reporter>> \/ (b' = result[i] /\ reporter' = i)
      BY <2>2 DEF ReportSolution, Reporting, Found, TypeInv, FlagsOK
    <3> QED BY <1>0, <3>1, SlaveAssumption DEF BestInv, BetterThan, Better
  <2>3. CASE SlaveNull(i) \/ ReportStopped(i) \/ ReportExhausted(i) \/ Terminated(i)
    <3>1. /\ UNCHANGED <<problem, best, collectsBest, left, b, reporter>>
          /\ \A j \in Slave : Found(j)' => Found(j) /\ result'[j] = result[j]
      BY <2>3 DEF SlaveNull, ReportStopped, ReportExhausted, Terminated, Found, TypeInv, FlagsOK, SpacesOK
    <3> QED BY <1>0, <3>1 DEF BestInv, BetterThan, Better
  <2> QED BY <1>1, <2>1, <2>2, <2>3 DEF SlaveStep
<1>2. CASE TakeSolution
  <2>1. /\ reporter # NoSlave /\ reporter' = NoSlave /\ best' = b
        /\ UNCHANGED <<b, problem, collectsBest, thread>> /\ pc = "take"
        /\ ConstrainLeft(Active \ {reporter}, b)
    BY <1>2 DEF TakeSolution, Empty
  <2>2. \A i \in Slave : left'[i] \subseteq BetterThan(problem, b)
    <3> SUFFICES ASSUME NEW i \in Slave PROVE left'[i] \subseteq BetterThan(problem, b)
      OBVIOUS
    <3>1. CASE i = reporter
      BY <1>0, <2>1, <3>1
    <3>2. CASE i \in Active \ {reporter}
      BY <2>1, <3>2 DEF ConstrainLeft, BetterThan, TypeInv, SpacesOK
    <3>3. CASE i \notin Active
      BY <1>0, <3>3 DEF LeftInv
    <3> QED BY <3>1, <3>2, <3>3
  <2>3. \A i \in Slave : ~Found(i)'
    BY <2>1 DEF Found, BusyInv, Busy
  <2> QED BY <2>1, <2>2, <2>3 DEF BestInv, BetterThan, Better
<1>3. ASSUME NEW s \in problem, Constrain(s) PROVE BestInv'
  <2>1. /\ reporter' = NoSlave /\ best' = s /\ b' = s /\ pc = "user"
        /\ UNCHANGED <<problem, collectsBest, thread>> /\ ConstrainLeft(Active, s)
    BY <1>3 DEF Constrain
  <2>2. \A i \in Slave : left'[i] \subseteq BetterThan(problem, s)
    <3> SUFFICES ASSUME NEW i \in Slave PROVE left'[i] \subseteq BetterThan(problem, s)
      OBVIOUS
    <3>1. CASE i \in Active
      BY <2>1, <3>1 DEF ConstrainLeft, BetterThan, TypeInv, SpacesOK
    <3>2. CASE i \notin Active
      BY <1>0, <3>2 DEF LeftInv
    <3> QED BY <3>1, <3>2
  <2>3. \A i \in Slave : ~Found(i)'
    BY <2>1 DEF Found, BusyInv, Busy
  <2> QED BY <2>1, <2>2, <2>3 DEF BestInv, BetterThan, Better
<1>4. CASE Submit
  <2>1. /\ UNCHANGED <<problem, best, collectsBest, left, b, reporter, result>>
        /\ \A j \in Slave : Found(j)' => Found(j)
    BY <1>4 DEF Submit, Found, TypeInv, FlagsOK
  <2> QED BY <1>0, <2>1 DEF BestInv, BetterThan, Better
<1>5. CASE NextQueued \/ NextRun \/ Destroy \/ Woken \/ TakeNothing \/ DestroyWait
  BY <1>0, <1>5 DEF NextQueued, NextRun, Destroy, Woken, TakeNothing, DestroyWait, BestInv, Found,
                    BetterThan, Better
<1> QED BY <1>1, <1>2, <1>3, <1>4, <1>5 DEF Next, User, CallerStep

(* what is known of a solution s that slave i does not search for any more *)
Known(i, s) ==
  \/ collectsBest /\ b # NoSpace /\ b <= s
  \/ ~collectsBest /\ s \in delivered \cup Range(solutions)
  \/ Found(i) /\ (IF collectsBest THEN result[i] <= s ELSE result[i] = s)

LEMMA CompleteStep ==
  ASSUME TypeInv, BusyInv, DoneInv, BestInv, CompleteInv, Next
  PROVE  CompleteInv'
<1>0. /\ \A i \in Slave : \A s \in problem \ left[i] : Known(i, s)
      /\ problem' = problem /\ collectsBest' = collectsBest
      /\ problem \subseteq Int /\ NoSpace \notin problem
  <2>1. problem' = problem /\ collectsBest' = collectsBest
    BY DEF Next, User, CallerStep, SlaveStep, NextQueued, NextRun, Constrain, Destroy, Submit, Woken,
           TakeNothing, TakeSolution, DestroyWait, SlaveFinds, SlaveNull, ReportSolution, ReportStopped,
           ReportExhausted, Terminated
  <2> QED BY <2>1, SolutionAssumption DEF CompleteInv, Known, TypeInv, SpacesOK
<1> SUFFICES ASSUME NEW i \in Slave, NEW s \in problem, s \notin left'[i]
             PROVE  Known(i, s)'
  BY <1>0 DEF CompleteInv, Known
<1>1. ASSUME NEW j \in Slave, SlaveStep(j) PROVE Known(i, s)'
  <2>1. ASSUME NEW t \in Solution, SlaveFinds(j, t) PROVE Known(i, s)'
    <3>1. /\ UNCHANGED <<b, solutions, delivered, collectsBest>> /\ t \in left[j] /\ t \in problem
          /\ thread[j] = "search" /\ thread' = [thread EXCEPT ![j] = "report"]
          /\ result' = [result EXCEPT ![j] = t]
          /\ left' = [left EXCEPT ![j] = IF collectsBest THEN BetterThan(left[j], t) ELSE left[j] \ {t}]
      BY <2>1 DEF SlaveFinds, TypeInv, SpacesOK
    <3>2. CASE s \in left[i]
      <4>1. i = j /\ (IF collectsBest THEN ~(s < t) ELSE s = t)
        BY <3>1, <3>2, <1>0 DEF BetterThan, Better, TypeInv, SpacesOK
      <4>2. Found(i)' /\ result'[i] = t
        BY <1>0, <3>1, <4>1 DEF Found, TypeInv, FlagsOK, SpacesOK
      <4> QED BY <1>0, <3>1, <4>1, <4>2 DEF Known
    <3>3. CASE s \notin left[i]
      <4>1. Known(i, s)
        BY <1>0, <3>3
      <4>2. Found(i) => i # j /\ Found(i)' /\ result'[i] = result[i]
        BY <3>1 DEF Found, TypeInv, FlagsOK, SpacesOK
      <4> QED BY <3>1, <4>1, <4>2 DEF Known
    <3> QED BY <3>2, <3>3
  <2>2. CASE ReportSolution(j)
    <3>1. /\ UNCHANGED <<left, result, delivered, collectsBest>> /\ Found(j)
          /\ result[j] \in problem /\ b \in problem \cup {NoSpace}
          /\ i # j => (Found(i)' <=> Found(i))
      BY <2>2 DEF ReportSolution, Reporting, Found, TypeInv, FlagsOK, SpacesOK
    <3>2. Known(i, s)
      BY <1>0, <3>1
    <3>3. CASE collectsBest
      <4>1. b' \in problem /\ b' <= result[j] /\ (b # NoSpace => b' <= b)
        <5>1. b' = IF b # NoSpace /\ b < result[j] THEN b ELSE result[j]
          BY <2>2, <3>3 DEF ReportSolution
        <5> QED BY <1>0, <3>1, <5>1
      <4>2. b' # NoSpace
        BY <1>0, <4>1
      <4>3. CASE b # NoSpace /\ b <= s
        <5>1. b' <= s
          BY <1>0, <3>1, <4>1, <4>3
        <5> QED BY <1>0, <3>3, <4>2, <5>1 DEF Known
      <4>4. CASE Found(i) /\ result[i] <= s
        <5>1. CASE i = j
          <6>1. b' <= s
            BY <1>0, <3>1, <4>1, <4>4, <5>1
          <6> QED BY <1>0, <3>3, <4>2, <6>1 DEF Known
        <5>2. CASE i # j
          BY <1>0, <3>1, <3>3, <4>4, <5>2 DEF Known
        <5> QED BY <5>1, <5>2
      <4> QED BY <3>2, <3>3, <4>3, <4>4 DEF Known
    <3>4. CASE ~collectsBest
      <4>1. Range(solutions') = Range(solutions) \cup {result[j]}
        <5>1. solutions' = Append(solutions, result[j]) /\ solutions \in Seq(problem)
          BY <2>2, <3>4 DEF ReportSolution, TypeInv, SpacesOK
        <5> QED BY <3>1, <5>1, AppendRange
      <4> QED BY <3>1, <3>2, <3>4, <4>1 DEF Known
    <3> QED BY <3>3, <3>4
  <2>3. CASE SlaveNull(j) \/ ReportStopped(j) \/ ReportExhausted(j) \/ Terminated(j)
    <3>1. /\ UNCHANGED <<left, b, solutions, delivered, collectsBest>>
          /\ Found(i) => Found(i)' /\ result'[i] = result[i]
      BY <2>3 DEF SlaveNull, Reporting, ReportStopped, ReportExhausted, Terminated, Found, TypeInv, FlagsOK,
                  SpacesOK
    <3>2. Known(i, s)
      BY <1>0, <3>1
    <3> QED BY <3>1, <3>2 DEF Known
  <2> QED BY <1>1, <2>1, <2>2, <2>3 DEF SlaveStep
<1>2. CASE TakeSolution
  <2>1. UNCHANGED <<b, collectsBest, result, thread>>
    BY <1>2 DEF TakeSolution
  <2>2. CASE collectsBest
    <3>1. b \in problem
      BY <1>2, <2>2 DEF TakeSolution, Empty, BestInv, BetterThan
    <3>2. s \in left[i] => ~(s < b)
      BY <1>2, <2>2 DEF TakeSolution, ConstrainLeft, BetterThan, Better
    <3>3. s \notin left[i] => Known(i, s)
      BY <1>0
    <3> QED BY <1>0, <2>1, <2>2, <3>1, <3>2, <3>3 DEF Known, Found
  <2>3. CASE ~collectsBest
    <3>1. /\ left' = left /\ solutions # <<>> /\ solutions' = Tail(solutions)
          /\ delivered' = delivered \cup {Head(solutions)}
      BY <1>2, <2>3 DEF TakeSolution, Empty
    <3>2. Range(solutions) = {Head(solutions)} \cup Range(solutions')
      BY <3>1, AppendRange DEF TypeInv, SpacesOK
    <3>3. Known(i, s)
      BY <1>0, <3>1
    <3> QED BY <2>1, <2>3, <3>1, <3>2, <3>3 DEF Known, Found
  <2> QED BY <2>2, <2>3
<1>3. ASSUME NEW t \in problem, Constrain(t) PROVE Known(i, s)'
  <2>1. /\ collectsBest /\ collectsBest' /\ b' = t /\ (b # NoSpace => t <= b)
        /\ pc = "user" /\ b \in problem \cup {NoSpace}
    BY <1>3 DEF Constrain, TypeInv, SpacesOK
  <2>2. s \in left[i] => ~(s < t)
    BY <1>3 DEF Constrain, ConstrainLeft, BetterThan, Better
  <2>3. s \notin left[i] => b # NoSpace /\ b <= s
    BY <1>0, <2>1 DEF Known, Found, BusyInv, Busy
  <2> QED BY <1>0, <2>1, <2>2, <2>3 DEF Known
<1>4. CASE Submit
  <2>1. /\ UNCHANGED <<left, b, solutions, delivered, collectsBest, result>> /\ Known(i, s)
        /\ thread[slaves[submitted + 1]] = "off"
    <3>1. UNCHANGED <<left, b, solutions, delivered, collectsBest, result>>
      BY <1>4 DEF Submit
    <3>2. slaves[submitted + 1] \in Slave
      BY <1>4, CountOK DEF Submit, TypeInv, SlavesOK, CountsOK
    <3> QED BY <1>0, <1>4, <3>1, <3>2 DEF Submit, DoneInv
  <2> QED BY <1>4, <2>1 DEF Submit, Known, Found, TypeInv, FlagsOK
<1>5. CASE NextQueued \/ NextRun \/ Destroy \/ Woken \/ TakeNothing \/ DestroyWait
  <2>1. UNCHANGED <<left, b, solutions, delivered, collectsBest, result, thread>>
    BY <1>5 DEF NextQueued, NextRun, Destroy, Woken, TakeNothing, DestroyWait
  <2>2. Known(i, s)
    BY <1>0, <2>1
  <2> QED BY <2>1, <2>2 DEF Known, Found
<1> QED BY <1>1, <1>2, <1>3, <1>4, <1>5 DEF Next, User, CallerStep

LEMMA EndStep ==
  ASSUME TypeInv, BusyInv, LeftInv, EndInv, Next
  PROVE  EndInv'
<1>1. ASSUME NEW i \in Slave, SlaveStep(i) PROVE EndInv'
  <2>1. ASSUME \A j \in Slave : Found(j)' => Found(j) \/ left[j] # {}, \A j \in Slave : left[j] = {} => left'[j] = {},
               Exhausted
        PROVE  Exhausted'
    BY <2>1 DEF Exhausted
  <2>2. ASSUME NEW s \in Solution, SlaveFinds(i, s) PROVE EndInv'
    <3>1. (\A j \in Slave : Found(j)' => Found(j) \/ left[j] # {}) /\ \A j \in Slave : left[j] = {} => left'[j] = {}
      BY <2>2, LeftShrinks DEF SlaveFinds, Found, TypeInv, FlagsOK, SpacesOK
    <3>2. UNCHANGED <<pc, tostop, slave_stop, n_busy, n_active, Empty>>
      BY <2>2 DEF SlaveFinds, Empty
    <3> QED BY <2>1, <3>1, <3>2 DEF EndInv
  <2>3. CASE SlaveNull(i) \/ Terminated(i)
    <3>1. (\A j \in Slave : Found(j)' => Found(j)) /\ left' = left
      BY <2>3 DEF SlaveNull, Terminated, Found, TypeInv, FlagsOK, SpacesOK
    <3>2. UNCHANGED <<pc, tostop, slave_stop, n_busy, n_active, Empty>>
      BY <2>3 DEF SlaveNull, Terminated, Empty
    <3> QED BY <2>1, <3>1, <3>2 DEF EndInv
  <2>4. CASE ReportSolution(i)
    <3>1. (\A j \in Slave : Found(j)' => Found(j)) /\ left' = left /\ pc = "wait" /\ pc' = "wait"
      BY <2>4, ReportWaits DEF ReportSolution, Found, TypeInv, FlagsOK
    <3>2. CASE collectsBest /\ b # NoSpace /\ b < result[i]
      <4>1. UNCHANGED <<tostop, slave_stop, n_busy, n_active, Empty>>
        BY <2>4, <3>2 DEF ReportSolution, Decrement, Empty
      <4> QED BY <2>1, <3>1, <4>1 DEF EndInv
    <3>3. CASE ~(collectsBest /\ b # NoSpace /\ b < result[i])
      <4>1. tostop' /\ ~Empty'
        <5>1. CASE collectsBest
          BY <2>4, <3>3, <5>1, SlaveAssumption DEF ReportSolution, Empty
        <5>2. CASE ~collectsBest
          <6>1. /\ solutions' = Append(solutions, result[i]) /\ solutions \in Seq(problem)
                /\ result[i] \in problem /\ tostop' /\ ~collectsBest'
            BY <2>4, <5>2 DEF ReportSolution, TypeInv, SpacesOK
          <6> QED BY <6>1, AppendRange DEF Empty
        <5> QED BY <5>1, <5>2
      <4> QED BY <3>1, <4>1 DEF EndInv
    <3> QED BY <3>2, <3>3
  <2>5. CASE ReportStopped(i)
    <3>1. (\A j \in Slave : Found(j)' => Found(j)) /\ left' = left /\ pc = "wait" /\ pc' = "wait"
      BY <2>5, ReportWaits DEF ReportStopped, Found, TypeInv, FlagsOK
    <3>2. UNCHANGED <<tostop, Empty>> /\ (~tostop => slave_stop')
      BY <2>5 DEF ReportStopped, Empty
    <3> QED BY <2>1, <3>1, <3>2 DEF EndInv
  <2>6. CASE ReportExhausted(i)
    <3>1. pc' = "wait" /\ tostop' /\ left' = left /\ left[i] = {} /\ thread'[i] = "leave"
      BY <2>6, ReportWaits DEF ReportExhausted, Reporting, LeftInv, TypeInv, FlagsOK
    <3> QED BY <3>1 DEF EndInv, Exhausted, Found
  <2> QED BY <1>1, <2>2, <2>3, <2>4, <2>5, <2>6 DEF SlaveStep
<1>2. CASE NextRun
  <2>1. CASE n_active = 0
    <3>1. PICK i \in Slave : TRUE
      BY SlaveAssumption
    <3>2. left[i] = {} /\ ~Found(i)
      BY <1>2, <2>1 DEF NextRun, LeftInv, Active, BusyInv, Busy, Found
    <3>3. left' = left /\ pc' = "take" /\ ~Found(i)'
      BY <1>2, <2>1, <3>2 DEF NextRun, Found
    <3> QED BY <3>2, <3>3 DEF EndInv, Exhausted
  <2>2. CASE n_active # 0
    BY <1>2, <2>2, CountOK DEF NextRun, EndInv, TypeInv, CountsOK
  <2> QED BY <2>1, <2>2
<1>3. CASE Submit
  BY <1>3, CountOK DEF Submit, EndInv, TypeInv, CountsOK
<1>4. CASE Woken
  <2>1. UNCHANGED <<Empty, Exhausted, slave_stop>> /\ pc = "wait" /\ pc' = "take" /\ n_busy = 0
    BY <1>4 DEF Woken, Empty, Exhausted, Found, BusyInv
  <2> QED BY <2>1 DEF EndInv
<1>5. CASE NextQueued
  BY <1>5 DEF NextQueued, EndInv, Empty
<1>6. CASE TakeNothing \/ TakeSolution \/ Destroy \/ DestroyWait \/ \E s \in problem : Constrain(s)
  BY <1>6 DEF TakeNothing, TakeSolution, Destroy, DestroyWait, Constrain, EndInv
<1> QED BY <1>1, <1>2, <1>3, <1>4, <1>5, <1>6 DEF Next, User, CallerStep

LEMMA Inductive == IInv /\ [Next]_vars => IInv'
<1> SUFFICES ASSUME IInv, [Next]_vars PROVE IInv'
  OBVIOUS
<1>1. CASE Next
  BY <1>1, TypeStep, BusyStep, DoneStep, LeftStep, BestStep, CompleteStep, EndStep DEF IInv
<1>2. CASE UNCHANGED vars
  <2>1. TypeInv' /\ DoneInv'
    BY <1>2 DEF vars, IInv, TypeInv, SlavesOK, CountsOK, FlagsOK, SpacesOK, DoneInv
  <2>2. BusyInv'
    BY <1>2 DEF vars, IInv, BusyInv, Busy, Active
  <2>3. LeftInv' /\ BestInv'
    BY <1>2 DEF vars, IInv, LeftInv, BestInv, Active, Found, BetterThan, Better
  <2>4. CompleteInv' /\ EndInv'
    BY <1>2 DEF vars, IInv, CompleteInv, EndInv, Exhausted, Empty, Found
  <2> QED BY <2>1, <2>2, <2>3, <2>4 DEF IInv
<1> QED BY <1>1, <1>2

THEOREM IInvHolds == Spec => []IInv
BY InitOK, Inductive, PTL DEF Spec

-----------------------------------------------------------------------------
(* For whom the caller waits: the event of the last report, and the completion of a
   slave, are signalled until the caller has taken them; and a slave that is still to be
   submitted has reported, so it does not need the mutex that the caller holds. *)
SleepInv ==
  /\ pc = "wait" /\ n_busy = 0 => idle
  /\ pc \notin {"destroy", "deleted"} => \A i \in Slave : thread[i] = "off" => done[i]
  /\ pc = "destroy" =>
       \A k \in submitted + 1 .. Cardinality(Slave) : thread[slaves[k]] = "off" => done[slaves[k]]
  /\ pc = "submit" => \A k \in submitted + 1 .. n_active : slaves[k] \notin Busy

LEMMA SleepStep ==
  ASSUME IInv, SleepInv, [Next]_vars
  PROVE  SleepInv'
<1> DEFINE N == Cardinality(Slave)
<1>0. /\ N \in Nat /\ n_active \in 0 .. N /\ submitted \in 0 .. N /\ n_busy \in 0 .. N
      /\ slaves \in [1 .. N -> Slave] /\ IsInjective(slaves)
      /\ done \in [Slave -> BOOLEAN] /\ idle \in BOOLEAN
      /\ thread \in [Slave -> {"search", "report", "leave", "off"}]
      /\ pc = "submit" => submitted < n_active
      /\ pc = "destroy" => submitted < N
  BY CountOK DEF IInv, TypeInv, SlavesOK, CountsOK, FlagsOK
<1> HIDE DEF N
<1>1. ASSUME NEW i \in Slave, NEW to \in {"report", "leave", "search"}, thread[i] # "off", Goto(i, to),
             UNCHANGED <<pc, submitted, done>>, pc = "submit" => UNCHANGED <<slaves, n_active>>,
             pc = "submit" /\ to # "leave" => thread[i] \in {"search", "report"},
             pc # "destroy" \/ UNCHANGED slaves,
             pc = "wait" /\ n_busy' = 0 => idle'
      PROVE  SleepInv'
  <2>1. \A j \in Slave : thread'[j] = "off" => thread[j] = "off"
    BY <1>0, <1>1
  <2>2. pc = "submit" => \A j \in Slave : j \in Busy' => j \in Busy
    BY <1>0, <1>1 DEF Busy
  <2>3. \A k \in 1 .. N : slaves[k] \in Slave
    BY <1>0
  <2> QED BY <1>0, <1>1, <2>1, <2>2, <2>3 DEF SleepInv, N
<1>2. ASSUME NEW i \in Slave, (\E s \in Solution : SlaveFinds(i, s)) \/ SlaveNull(i)
      PROVE  SleepInv'
  <2>1. Goto(i, "report") /\ thread[i] = "search" /\ UNCHANGED <<controlVars, pc, submitted, done>>
    BY <1>2 DEF SlaveFinds, SlaveNull
  <2> QED BY <1>1, <2>1 DEF SleepInv
<1>3. ASSUME NEW i \in Slave, ReportSolution(i) \/ ReportStopped(i) \/ ReportExhausted(i)
      PROVE  SleepInv'
  <2>1. /\ thread[i] = "report" /\ pc \notin {"submit", "take"} /\ UNCHANGED <<pc, submitted, done>>
        /\ \E to \in {"leave", "search"} : Goto(i, to)
        /\ \E repeat \in BOOLEAN : Decrement(repeat)
    BY <1>3 DEF ReportSolution, ReportStopped, ReportExhausted, Reporting
  <2>2. pc # "destroy"
    BY <2>1 DEF IInv, BusyInv, Busy
  <2>3. pc = "wait" /\ n_busy' = 0 => idle'
    BY <1>0, <2>1 DEF Decrement, SleepInv
  <2> QED BY <1>1, <2>1, <2>2, <2>3
<1>4. ASSUME NEW i \in Slave, Terminated(i)
      PROVE  SleepInv'
  <2>1. /\ done' = [done EXCEPT ![i] = TRUE] /\ thread' = [thread EXCEPT ![i] = "off"]
        /\ UNCHANGED <<pc, submitted, controlVars>>
    BY <1>4 DEF Terminated
  <2>2. \A j \in Slave : (thread'[j] = "off" => thread[j] = "off" \/ j = i) /\ (done[j] \/ j = i => done'[j])
    BY <1>0, <2>1
  <2>3. \A j \in Slave : j \in Busy' => j \in Busy
    BY <1>0, <2>1 DEF Busy
  <2>4. \A k \in 1 .. N : slaves[k] \in Slave
    BY <1>0
  <2> QED BY <1>0, <2>1, <2>2, <2>3, <2>4 DEF SleepInv, N
<1>5. CASE NextQueued \/ NextRun
  <2>1. /\ pc = "user" /\ pc' \in {"submit", "take"} /\ UNCHANGED <<done, thread, slaves, n_active>>
        /\ Busy = {}
    BY <1>5 DEF NextQueued, NextRun, IInv, BusyInv
  <2>2. Busy' = {}
    BY <2>1 DEF Busy
  <2> QED BY <2>1, <2>2 DEF SleepInv
<1>6. CASE Submit
  <2> DEFINE i == slaves[submitted + 1]
  <2>1. /\ pc = "submit" /\ submitted' = submitted + 1 /\ submitted + 1 \in 1 .. N
        /\ thread' = [thread EXCEPT ![i] = "search"] /\ done' = [done EXCEPT ![i] = FALSE]
        /\ UNCHANGED <<slaves, n_active, n_busy>>
        /\ pc' = IF submitted + 1 = n_active THEN "wait" ELSE "submit"
    BY <1>0, <1>6 DEF Submit
  <2>2. i \in Slave
    BY <1>0, <2>1
  <2>3. \A k \in submitted + 2 .. n_active : slaves[k] # i /\ slaves[k] \in Slave
    BY <1>0, <2>1 DEF IsInjective
  <2>4. n_busy' # 0
    BY <1>0, <2>1 DEF IInv, EndInv
  <2> HIDE DEF i
  <2>5. \A j \in Slave : thread'[j] = "off" => done'[j]
    BY <1>0, <2>1, <2>2 DEF SleepInv
  <2>6. \A k \in submitted + 2 .. n_active : slaves[k] \notin Busy'
    BY <1>0, <2>1, <2>2, <2>3 DEF SleepInv, Busy
  <2> QED BY <1>0, <2>1, <2>4, <2>5, <2>6 DEF SleepInv
<1>7. CASE Woken \/ TakeNothing \/ TakeSolution \/ \E s \in problem : Constrain(s)
  <2>1. pc \notin {"destroy", "deleted"} /\ pc' \in {"take", "user"} /\ UNCHANGED <<done, thread>>
    BY <1>7 DEF Woken, TakeNothing, TakeSolution, Constrain
  <2> QED BY <2>1 DEF SleepInv
<1>8. CASE Destroy
  <2>1. \A k \in 1 .. N : slaves[k] \in Slave
    BY <1>0
  <2> QED BY <1>0, <1>8, <2>1 DEF Destroy, SleepInv, N
<1>9. CASE DestroyWait
  <2> DEFINE i == slaves[submitted + 1]
  <2>1. /\ pc = "destroy" /\ submitted' = submitted + 1 /\ submitted + 1 \in 1 .. N
        /\ done' = [done EXCEPT ![i] = FALSE] /\ UNCHANGED <<slaves, thread>>
        /\ pc' \in {"destroy", "deleted"}
    BY <1>0, <1>9 DEF DestroyWait
  <2>2. \A k \in submitted + 2 .. N : slaves[k] # i /\ slaves[k] \in Slave
    BY <1>0, <2>1 DEF IsInjective
  <2> HIDE DEF i
  <2>3. \A k \in submitted + 2 .. N : thread[slaves[k]] = "off" => done'[slaves[k]]
    BY <1>0, <2>1, <2>2 DEF SleepInv, N
  <2> QED BY <1>0, <2>1, <2>3 DEF SleepInv, N
<1>10. CASE UNCHANGED vars
  BY <1>10 DEF vars, SleepInv, Busy
<1> QED
  BY <1>2, <1>3, <1>4, <1>5, <1>6, <1>7, <1>8, <1>9, <1>10 DEF Next, User, CallerStep, SlaveStep

LEMMA SleepInvHolds == Spec => []SleepInv
<1>1. Init => SleepInv
  BY DEF Init, SleepInv
<1> QED BY <1>1, IInvHolds, SleepStep, PTL DEF Spec

-----------------------------------------------------------------------------
(* For any number of slaves the key invariant of the engine holds: outside of next()
   no slave runs and no signal is left, the slaves behind the active ones have nothing
   left, between two calls all search for better solutions only, none is deleted with
   its thread inside, and the caller waits for none in vain: see EngineOK. *)
THEOREM EngineCorrect == Spec => []EngineOK
<1>1. IInv /\ SleepInv => EngineOK
  <2> SUFFICES ASSUME IInv, SleepInv PROVE EngineOK
    OBVIOUS
  <2>1. TypeOK
    BY DEF IInv, TypeInv, SlavesOK, CountsOK, FlagsOK, SpacesOK, TypeOK
  <2>2. KeyInvariant
    <3>1. ASSUME pc \in {"user", "take", "destroy", "deleted"}
          PROVE  n_busy = 0 /\ ~idle /\ \A i \in Slave : thread[i] \in {"leave", "off"}
      <4>1. Busy = {} /\ n_busy = Cardinality({}) + 0 /\ ~idle
        BY <3>1 DEF IInv, BusyInv
      <4> QED BY <4>1, FS_EmptySet DEF Busy, IInv, TypeInv, FlagsOK
    <3> QED BY <3>1 DEF IInv, LeftInv, KeyInvariant
  <2>3. Active \subseteq Slave
    BY CountOK DEF IInv, TypeInv, SlavesOK, CountsOK, Active
  <2>4. SlavesConstrained /\ NotDeletedInside
    BY <2>3 DEF IInv, BestInv, DoneInv, SlavesConstrained, NotDeletedInside
  <2>5. WokenBySlave
    <3>1. ASSUME pc = "wait", ~idle
          PROVE  \E i \in Slave : thread[i] \in {"search", "report"}
      <4>1. Busy # {}
        BY <3>1, FS_EmptySet DEF IInv, BusyInv, SleepInv
      <4> QED BY <4>1 DEF Busy
    <3>2. ASSUME pc \in {"submit", "destroy"}, ~done[slaves[submitted + 1]]
          PROVE  thread[slaves[submitted + 1]] = "leave"
      <4>1. /\ submitted + 1 \in 1 .. Cardinality(Slave)
            /\ slaves[submitted + 1] \in Slave
            /\ thread[slaves[submitted + 1]] \in {"search", "report", "leave", "off"}
        BY <3>2, CountOK DEF IInv, TypeInv, SlavesOK, CountsOK, FlagsOK
      <4>2. thread[slaves[submitted + 1]] # "off"
        BY <3>2, <4>1, CountOK DEF SleepInv, IInv, TypeInv, CountsOK
      <4>3. pc = "submit" => slaves[submitted + 1] \notin Busy
        BY <4>1, CountOK DEF SleepInv, IInv, TypeInv, CountsOK
      <4>4. pc = "destroy" => Busy = {}
        BY DEF IInv, BusyInv
      <4> QED BY <3>2, <4>1, <4>2, <4>3, <4>4 DEF Busy
    <3> QED BY <3>1, <3>2 DEF WokenBySlave
  <2> QED BY <2>1, <2>2, <2>4, <2>5 DEF EngineOK
<1> QED BY <1>1, IInvHolds, SleepInvHolds, PTL

(* For any number of slaves a slave is submitted only after the thread of its last run
   has let go of it: see NotReusedInside. *)
THEOREM HandshakeCorrect == Spec => NotReusedInside
<1>1. IInv /\ [Next]_vars => [pc = "submit" => thread[slaves[submitted + 1]] = "off"]_submitted
  <2> SUFFICES ASSUME IInv, Next, pc = "submit", submitted' # submitted
               PROVE  thread[slaves[submitted + 1]] = "off"
    BY DEF vars, callVars
  <2>1. Submit
    BY DEF Next, User, CallerStep, SlaveStep, NextQueued, NextRun, Constrain, Destroy, Woken,
           TakeNothing, TakeSolution, DestroyWait, SlaveFinds, SlaveNull, ReportSolution, ReportStopped,
           ReportExhausted, Terminated
  <2>2. slaves[submitted + 1] \in Slave
    BY <2>1, CountOK DEF Submit, IInv, TypeInv, SlavesOK, CountsOK
  <2> QED BY <2>1, <2>2 DEF Submit, IInv, DoneInv
<1> QED BY <1>1, IInvHolds, PTL DEF Spec, NotReusedInside

(* why nothing remains when nothing has been collected and no slave was stopped *)
LEMMA NothingRemains ==
  ASSUME IInv, pc = "take", Empty, ~slave_stop
  PROVE  Remaining = {}
<1>1. PICK i \in Slave : left[i] = {} /\ ~Found(i)
  BY DEF IInv, EndInv, Exhausted
<1>2. \A s \in problem : \/ collectsBest /\ b # NoSpace /\ b <= s
                         \/ ~collectsBest /\ s \in delivered \cup Range(solutions)
  BY <1>1 DEF IInv, CompleteInv
<1>3. CASE collectsBest
  <2>1. best = b /\ \A s \in problem : b # NoSpace /\ b <= s
    BY <1>2, <1>3 DEF IInv, BestInv, Empty
  <2>2. problem \subseteq Int /\ b \in problem \cup {NoSpace}
    BY SolutionAssumption DEF IInv, TypeInv, SpacesOK
  <2>3. ASSUME NEW s \in problem PROVE ~Better(s, best)
    BY <2>1, <2>2, <2>3 DEF Better
  <2> QED BY <1>3, <2>3 DEF Remaining, BetterThan
<1>4. CASE ~collectsBest
  BY <1>2, <1>4 DEF Remaining, Empty, Range
<1> QED BY <1>3, <1>4

(* what is taken is one of the solutions of the problem, and for the best one a better
   one than the last *)
LEMMA Taken ==
  ASSUME IInv, TakeSolution
  PROVE  ret' \in problem /\ (collectsBest => ret' = b /\ b \in BetterThan(problem, best))
BY AppendRange DEF IInv, TypeInv, SpacesOK, BestInv, TakeSolution, Empty, BetterThan

(* For any number of slaves next() returns null without stopped() only when every
   solution has been returned, or the last one is optimal: see NullMeansDone. *)
THEOREM NullCorrect == Spec => NullMeansDone
<1>1. IInv /\ [Next]_vars =>
        [pc = "take" /\ pc' = "user" /\ ret' = NoSpace /\ ~slave_stop => Remaining = {}]_vars
  <2> SUFFICES ASSUME IInv, Next, pc = "take", pc' = "user", ret' = NoSpace, ~slave_stop
               PROVE  Remaining = {}
    OBVIOUS
  <2>1. TakeNothing \/ TakeSolution
    BY DEF Next, User, CallerStep, SlaveStep, NextQueued, NextRun, Constrain, Destroy, Woken, Submit,
           DestroyWait, SlaveFinds, SlaveNull, ReportSolution, ReportStopped, ReportExhausted, Terminated
  <2>2. ~TakeSolution
    BY Taken, SolutionAssumption DEF IInv, TypeInv, SpacesOK
  <2> QED BY <2>1, <2>2, NothingRemains DEF TakeNothing
<1> QED BY <1>1, IInvHolds, PTL DEF Spec, NullMeansDone

(* For any number of slaves parallel portfolio search for a best solution implements the
   stream of ever better solutions: see StreamSpec.  Nothing is claimed of the search for
   all solutions. *)
THEOREM StreamCorrect == Spec => StreamSpec /\ (collectsBest => Stream!Spec)
<1>1. Init /\ collectsBest => Stream!Init
  <2> SUFFICES ASSUME Init, collectsBest PROVE Stream!Init
    OBVIOUS
  <2>1. BetterThan(problem, best) \in SUBSET Solution /\ ret = NoSpace
    BY DEF Init, BetterThan
  <2>2. (pc \in Calls) = FALSE /\ (slave_stop /\ ret = NoSpace /\ pc \notin Calls) = FALSE
    BY DEF Init, Calls
  <2> QED BY <2>1, <2>2 DEF Stream!Init
<1> DEFINE same == UNCHANGED <<problem, best, ret>>
<1>2. [Next]_vars => collectsBest' = collectsBest
  BY DEF Next, User, CallerStep, SlaveStep, NextQueued, NextRun, Constrain, Destroy, Woken, Submit,
         DestroyWait, SlaveFinds, SlaveNull, ReportSolution, ReportStopped, ReportExhausted,
         Terminated, TakeNothing, TakeSolution, vars
<1>3. IInv /\ [Next]_vars /\ collectsBest => [Stream!Next]_(Stream!vars)
  <2> SUFFICES ASSUME IInv, [Next]_vars, collectsBest PROVE Stream!Next \/ UNCHANGED Stream!vars
    OBVIOUS
  <2>1. ASSUME same, pc \in Calls <=> pc' \in Calls, slave_stop' = slave_stop \/ pc \in Calls
        PROVE  UNCHANGED Stream!vars
    BY <2>1 DEF Stream!vars, BetterThan, Better
  <2>2. ASSUME NEW i \in Slave, SlaveStep(i) PROVE UNCHANGED Stream!vars
    <3>1. same /\ pc' = pc /\ (slave_stop' = slave_stop \/ ReportStopped(i))
      BY <2>2 DEF SlaveStep, SlaveFinds, SlaveNull, ReportSolution, ReportStopped, ReportExhausted,
                  Terminated, callVars
    <3>2. ReportStopped(i) => pc = "wait"
      BY ReportWaits DEF ReportStopped, IInv
    <3> QED BY <2>1, <3>1, <3>2 DEF Calls
  <2>3. CASE Submit \/ Woken \/ Destroy \/ DestroyWait
    <3>1. same /\ slave_stop' = slave_stop /\ (pc \in Calls <=> pc' \in Calls)
      BY <2>3 DEF Submit, Woken, Destroy, DestroyWait, Calls
    <3> QED BY <2>1, <3>1
  <2>4. CASE NextQueued \/ NextRun
    <3>1. same /\ pc = "user" /\ pc' \in Calls
      BY <2>4 DEF NextQueued, NextRun, Calls
    <3>2. Stream!Call
      BY <3>1 DEF Stream!Call, Calls, BetterThan, Better
    <3> QED BY <3>2 DEF Stream!Next
  <2>5. CASE TakeNothing
    <3>1. /\ UNCHANGED <<problem, best, slave_stop>> /\ pc = "take" /\ pc' = "user"
          /\ ret' = NoSpace /\ Empty
      BY <2>5 DEF TakeNothing
    <3>2. BetterThan(problem, best)' = BetterThan(problem, best)
      BY <3>1 DEF BetterThan, Better
    <3>3. CASE slave_stop
      <4>1. Stream!Stop
        BY <3>1, <3>2, <3>3 DEF Stream!Stop, Calls
      <4> QED BY <4>1 DEF Stream!Next
    <3>4. CASE ~slave_stop
      <4>1. BetterThan(problem, best) = {}
        BY <3>1, <3>4, NothingRemains DEF Remaining
      <4>2. Stream!NoneLeft
        BY <3>1, <3>2, <3>4, <4>1 DEF Stream!NoneLeft, Calls
      <4> QED BY <4>2 DEF Stream!Next
    <3> QED BY <3>3, <3>4
  <2>6. CASE TakeSolution
    <3>1. /\ UNCHANGED <<problem, slave_stop>> /\ pc = "take" /\ pc' = "user"
          /\ ret' = best' /\ ret' \in problem
      BY <2>6, Taken DEF TakeSolution
    <3>2. /\ problem \subseteq Int /\ problem \subseteq Solution /\ NoSpace \notin problem
          /\ best \in problem \cup {NoSpace}
      BY SolutionAssumption DEF IInv, TypeInv, SpacesOK
    <3>3. ret' \in problem /\ (best # NoSpace => ret' < best)
      BY <2>6, <3>1, Taken DEF BetterThan, Better
    <3>4. ret' \in BetterThan(problem, best)
      BY <3>3 DEF BetterThan, Better
    <3>5. BetterThan(problem, best)' = {s \in BetterThan(problem, best) : s < ret'}
      <4>1. \A s \in problem : Better(s, best)' <=> s < ret'
        BY <3>1, <3>2 DEF Better
      <4>2. \A s \in problem : s < ret' => Better(s, best)
        BY <3>2, <3>3 DEF Better
      <4> QED BY <3>1, <4>1, <4>2 DEF BetterThan
    <3>6. Stream!Deliver(ret')
      BY <3>1, <3>2, <3>4, <3>5 DEF Stream!Deliver, Calls
    <3> QED BY <3>2, <3>3, <3>6 DEF Stream!Next
  <2>7. ASSUME NEW s \in problem, Constrain(s) PROVE Stream!Next
    <3>1. UNCHANGED <<problem, ret, pc, slave_stop>> /\ pc = "user" /\ problem \subseteq Solution
      BY <2>7 DEF Constrain, IInv, TypeInv, SpacesOK
    <3>2. Stream!Replace
      BY <3>1 DEF Stream!Replace, BetterThan, Calls
    <3> QED BY <3>2 DEF Stream!Next
  <2>8. CASE UNCHANGED vars
    BY <2>1, <2>8 DEF vars, controlVars, callVars
  <2> QED BY <2>2, <2>3, <2>4, <2>5, <2>6, <2>7, <2>8 DEF Next, User, CallerStep
<1>4. IInv /\ [Next]_vars => [collectsBest => Stream!Next]_(Stream!vars)
  BY <1>3
<1>5. Spec => StreamSpec
  BY <1>1, <1>4, IInvHolds, PTL DEF Spec, StreamSpec
<1>6. Spec /\ collectsBest => [](collectsBest)
  <2>1. collectsBest /\ [Next]_vars => collectsBest'
    BY <1>2
  <2> QED BY <2>1, PTL DEF Spec
<1>7. Spec /\ collectsBest => Stream!Spec
  BY <1>1, <1>3, <1>6, IInvHolds, PTL DEF Spec, Stream!Spec
<1> QED BY <1>5, <1>7
=============================================================================
