---------------------------- MODULE CutoffGenerators ----------------------------
(***************************************************************************)
(* Cutoff generators for restarts, gecode/search/cutoff.cpp, cutoff.hpp:   *)
(* () reads the current cutoff, ++ increments and returns a cutoff.        *)
(* Generators are combined one level deep; a base is a fraction num / den. *)
(***************************************************************************)
EXTENDS Integers, Sequences

Larger(a, b) == IF a < b THEN b ELSE a

-----------------------------------------------------------------------------
(* Luby's sequence: a table, and a loop for what is not in it *)

start ==
  <<1,1,2,1,1,2,4,1,1,2,1,1,2,4,8,1,1,2,1,1,2,4,1,1,2,1,1,2,4,8,16,
    1,1,2,1,1,2,4,1,1,2,1,1,2,4,8,1,1,2,1,1,2,4,1,1,2,1,1,2,4,8,16,32>>

(* 1ULL << l, and the bits that i has behind its first one *)
bit[l \in Nat] == IF l = 0 THEN 1 ELSE 2 * bit[l - 1]
log(i) == CHOOSE l \in 0 .. i : bit[l] <= i /\ i < bit[l + 1]

luby[i \in Nat] ==
  IF i <= Len(start) THEN start[i]
  ELSE IF i = bit[log(i) + 1] - 1 THEN bit[log(i)] ELSE luby[i - bit[log(i)] + 1]

-----------------------------------------------------------------------------
(* Generators that are no combination: what () returns, what ++ may make of one *)

RndStep(g) == Larger(1, (g.max - g.min + 1) \div g.n)
RndValues(g) == {g.min + RndStep(g) * i : i \in 0 .. g.n - 1}

Current(g) ==
  CASE g.kind = "constant"  -> g.c
    [] g.kind = "linear"    -> g.n
    [] g.kind = "geometric" -> (g.scale * g.num^g.e) \div g.den^g.e
    [] g.kind = "luby"      -> g.scale * luby[g.i]
    [] g.kind = "rnd"       -> g.cur

Increment(g) ==
  CASE g.kind = "constant"  -> {g}
    [] g.kind = "linear"    -> {[g EXCEPT !.n = @ + g.scale]}
    [] g.kind = "geometric" -> {[g EXCEPT !.e = @ + 1]}
    [] g.kind = "luby"      -> {[g EXCEPT !.i = @ + 1]}
    [] g.kind = "rnd"       -> {[g EXCEPT !.cur = v] : v \in RndValues(g)}

(* what ++ returns: CutoffLuby increments its i after reading it *)
Returned(g, h) == IF g.kind = "luby" THEN Current(g) ELSE Current(h)

(* and combinations *)
Read(g) ==
  CASE g.kind = "append" -> IF g.n > 0 THEN Current(g.c1) ELSE Current(g.c2)
    [] g.kind = "merge"  -> Current(g.c1)
    [] g.kind = "repeat" -> g.cutoff
    [] OTHER             -> Current(g)

(* mutant: the parts are swapped before the first is incremented *)
NextMergeSwapsFirst(g) ==
  CASE g.kind = "append" ->
         IF g.n > 0 THEN {<<Returned(g.c1, h), [g EXCEPT !.c1 = h, !.n = @ - 1]>> : h \in Increment(g.c1)}
         ELSE {<<Returned(g.c2, h), [g EXCEPT !.c2 = h]>> : h \in Increment(g.c2)}
    [] g.kind = "merge"  ->
         {<<Current(h), [g EXCEPT !.c1 = h, !.c2 = g.c1]>> : h \in Increment(g.c2)}
    [] g.kind = "repeat" ->
         LET c == IF g.i + 1 = g.n THEN Current(g.c) ELSE g.cutoff
         IN {<<c, [g EXCEPT !.cutoff = c, !.i = (@ + 1) % g.n]>>}
    [] OTHER             -> {<<Returned(g, h), h>> : h \in Increment(g)}

(* ++: pairs of what it returns and of what becomes of the generator *)
Successors(g) ==
  CASE g.kind = "append" ->
         IF g.n > 0 THEN {<<Returned(g.c1, h), [g EXCEPT !.c1 = h, !.n = @ - 1]>> : h \in Increment(g.c1)}
         ELSE {<<Returned(g.c2, h), [g EXCEPT !.c2 = h]>> : h \in Increment(g.c2)}
    [] g.kind = "merge"  ->
         {<<Current(g.c2), [g EXCEPT !.c1 = g.c2, !.c2 = h]>> : h \in Increment(g.c1)}
    [] g.kind = "repeat" ->
         LET c == IF g.i + 1 = g.n THEN Current(g.c) ELSE g.cutoff
         IN {<<c, [g EXCEPT !.cutoff = c, !.i = (@ + 1) % g.n]>>}
    [] OTHER             -> {<<Returned(g, h), h>> : h \in Increment(g)}

-----------------------------------------------------------------------------
(* The generators as they are made *)

Constant(c) == [kind |-> "constant", c |-> c]
Linear(s) == [kind |-> "linear", scale |-> s, n |-> s]
Geometric(s, num, den) == [kind |-> "geometric", scale |-> s, num |-> num, den |-> den, e |-> 0]
LubyTimes(s) == [kind |-> "luby", scale |-> s, i |-> 1]
(* one of these: the constructor draws the first number *)
Rnd(min, max, n) ==
  LET g == [kind |-> "rnd", min |-> min, max |-> max, n |-> n, cur |-> min] IN Increment(g)
AppendTo(c1, n, c2) == [kind |-> "append", c1 |-> c1, c2 |-> c2, n |-> n]
Merge(c1, c2) == [kind |-> "merge", c1 |-> c1, c2 |-> c2]
Repeat(c, n) == [kind |-> "repeat", c |-> c, n |-> n, i |-> 0, cutoff |-> Current(c)]
=============================================================================
