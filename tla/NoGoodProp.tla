------------------------------ MODULE NoGoodProp ------------------------------
(***************************************************************************)
(* The no-goods of a path, gecode/search/nogoods.cpp and nogoods.hpp:      *)
(* post() turns the alternatives that have been explored into a chain of   *)
(* literals, leaves and non-leaves; a leaf with the non-leaves before it   *)
(* is a no-good.  propagate() watches only the root, its leaves and the    *)
(* next non-leaf.                                                          *)
(*                                                                         *)
(* A choice has literals x = v for its alternatives, or x <= v for the     *)
(* first of two and none for the second; a brancher may support none.      *)
(***************************************************************************)
EXTENDS Integers, Sequences, FiniteSets, SequencesExt

CONSTANTS
  Var, Val,
  Solution,   \* the solutions of the problem, [Var -> Val]
  Path        \* the paths: edges [x, vals, lq, alt, supported], of which alternative
              \* a < Len(vals) is x = vals[a + 1]; or, if lq or Len(vals) = 1, there are
              \* two, x <= v (or x = v) and its negation

VARIABLES
  path,       \* the path that the no-goods are from
  dom,        \* the domains of the variables
  given,      \* history: the domains but for what no-goods have pruned
  failed,     \* whether the space is failed
  chain,      \* the literals from root on
  l, k,       \* in propagate(): the literals from l on, the position of l in chain
  subs, n,    \* the literals with subscriptions, and their number as it is counted
  scheduled,  \* whether the propagator is in a queue
  disposed,   \* history: how often each literal has been disposed of
  pc          \* where propagate() is; "post", "idle", "gone" when subsumed, "deleted"

space == <<dom, given, failed>>
vars == <<path, space, chain, l, k, subs, n, scheduled, disposed, pc>>

-----------------------------------------------------------------------------
(* Edges of the path *)

Binary(e) == Len(e.vals) = 1
Alternatives(e) == IF Binary(e) THEN 2 ELSE Len(e.vals)
Rightmost(e) == e.alt + 1 >= Alternatives(e)
TrueAlt(e) == IF e.alt < Alternatives(e) THEN e.alt ELSE Alternatives(e) - 1

(* Space::ngl(): a literal, or none *)
HasLiteral(e, a) == e.supported /\ a < Len(e.vals)
Literal(i, a, leaf) ==
  LET e == path[i] IN [at |-> <<i, a>>, x |-> e.x, v |-> e.vals[a + 1], lq |-> e.lq, leaf |-> leaf]
(* the alternatives to the left of the one that was taken, and that one *)
Leaves(i) == [a \in 1 .. TrueAlt(path[i]) |-> Literal(i, a - 1, TRUE)]
NonLeaf(i) == Literal(i, TrueAlt(path[i]), FALSE)
HasNonLeaf(i) == HasLiteral(path[i], TrueAlt(path[i]))

(* what the literal allows, and what its negation does *)
Allows(b, w) == IF b.lq THEN w <= b.v ELSE w = b.v
Status(d, b) ==
  IF \A w \in d[b.x] : Allows(b, w) THEN "subsumed"
  ELSE IF \A w \in d[b.x] : ~Allows(b, w) THEN "failed" ELSE "none"
Pruned(d, b) == [d EXCEPT ![b.x] = {w \in @ : ~Allows(b, w)}]
Failing(d) == \E x \in Var : d[x] = {}

(* alternative a of e as a constraint *)
Alternative(e, a, w) ==
  LET first == IF e.lq THEN w <= e.vals[1] ELSE w = e.vals[1]
  IN IF Binary(e) THEN (a = 0 <=> first) ELSE w = e.vals[a + 1]
Taken(e, s) == Alternative(e, TrueAlt(e), s[e.x])

(* the alternatives of a choice are different, and of a solution that satisfies the
   constraints before it there is one that it satisfies *)
Edge == [x : Var, vals : Seq(Int), lq : BOOLEAN, alt : Nat, supported : BOOLEAN]
PathAssumption ==
  /\ Val \in SUBSET Int /\ Val # {} /\ IsFiniteSet(Val) /\ Solution \subseteq [Var -> Val]
  /\ \A p \in Path : p \in Seq(Edge)
  /\ \A p \in Path : \A i \in DOMAIN p :
       /\ p[i].vals # <<>> /\ IsInjective(p[i].vals) /\ (p[i].lq => Binary(p[i]))
       /\ \A s \in Solution :
            (\A j \in 1 .. i - 1 : Taken(p[j], s)) =>
              \E a \in 0 .. Alternatives(p[i]) - 1 : Alternative(p[i], a, s[p[i].x])

-----------------------------------------------------------------------------
(* The kernel: a literal x = v subscribes to the assignment of x, x <= v to the
   bounds of x; subscribing schedules. *)

Notices(d1, d2, b) ==
  LET s == d1[b.x] t == d2[b.x]
  IN /\ s # t /\ t # {}
     /\ \/ Cardinality(t) = 1
        \/ b.lq /\ (Max(s) # Max(t) \/ Min(s) # Min(t))
Wakes(d1, d2, s) == \E b \in s : Notices(d1, d2, b)

Init ==
  /\ path \in Path
  /\ dom = [x \in Var |-> Val] /\ given = dom /\ failed = FALSE
  /\ chain = <<>> /\ l = <<>> /\ k = 0 /\ subs = {} /\ n = 0 /\ scheduled = FALSE
  /\ disposed = <<>> /\ pc = "post"

(* other propagators, branchers and the engine *)
Others ==
  /\ pc \in {"idle", "gone"} /\ ~failed
  /\ \E x \in Var : \E v \in dom[x] : \E t \in {{v}, dom[x] \ {v}} :
       /\ t # {} /\ t # dom[x]
       /\ dom' = [dom EXCEPT ![x] = t] /\ given' = [given EXCEPT ![x] = @ \cap t]
  /\ scheduled' = (scheduled \/ Wakes(dom, dom', subs))
  /\ UNCHANGED <<path, failed, chain, l, k, subs, n, disposed, pc>>

-----------------------------------------------------------------------------
(* post() *)

Entries == Max({0} \cup {i \in DOMAIN path : TrueAlt(path[i]) > 0})
FirstUncommitted ==
  Min({Entries + 1} \cup {i \in 1 .. Entries : TrueAlt(path[i]) = 0 \/ ~Rightmost(path[i])})

(* the literals that are pruned at once and the root, when the first edge that is
   not committed to has been left for another alternative *)
Middle == FirstUncommitted <= Entries /\ TrueAlt(path[FirstUncommitted]) > 0

Committed ==
  [x \in Var |->
     {w \in dom[x] :
        /\ \A i \in 1 .. FirstUncommitted - 1 :
             path[i].x = x => Alternative(path[i], TrueAlt(path[i]), w)
        /\ Middle /\ path[FirstUncommitted].supported /\ path[FirstUncommitted].x = x =>
             \A a \in 0 .. TrueAlt(path[FirstUncommitted]) - 1 :
               ~Alternative(path[FirstUncommitted], a, w)}]

(* The chain is built from its end c: c is lost when the chain has been cut after
   its last leaf, which is done when a brancher does not support no-goods. *)
Cut(b) == [b EXCEPT !.chain = SubSeq(@, 1, b.last), !.lost = @ \/ Len(b.chain) > b.last,
                    !.none = @ \/ b.last = 0]
Add(b, s) == IF b.lost THEN b ELSE [b EXCEPT !.chain = @ \o s]

AddLeaves(b, i) ==
  IF TrueAlt(path[i]) = 0 THEN b
  ELSE IF ~path[i].supported THEN Cut(b)
  ELSE LET c == Add(b, Leaves(i)) IN [c EXCEPT !.last = IF b.lost THEN @ ELSE Len(c.chain)]

AddNonLeaf(b, i) ==
  IF HasNonLeaf(i) THEN Add(b, <<NonLeaf(i)>>)
  ELSE IF Rightmost(path[i]) THEN b ELSE [Cut(b) EXCEPT !.done = TRUE]

(* mutant: the literal of the alternative that was taken is forgotten *)
AddEdgeLeavesOnly(b, i) ==
  IF b.done \/ b.none THEN b
  ELSE [AddLeaves(b, i) EXCEPT !.done = ~path[i].supported]

AddEdge(b, i) == IF b.done \/ b.none THEN b ELSE AddNonLeaf(AddLeaves(b, i), i)

(* what is built of the edges up to i: edge i is added to b *)
Nothing == [chain |-> <<>>, last |-> 0, lost |-> FALSE, none |-> FALSE, done |-> FALSE]
Extended(b, i) ==
  IF i = FirstUncommitted /\ Middle
  THEN [b EXCEPT !.chain = <<NonLeaf(i)>>]
  ELSE AddEdge(b, i)
built[i \in FirstUncommitted - 1 .. Entries] ==
  IF i < FirstUncommitted THEN Nothing ELSE Extended(built[i - 1], i)
Built == IF built[Entries].none THEN <<>> ELSE built[Entries].chain

LeavesFrom(c, i) == {j \in i .. Len(c) : \A h \in i .. j : c[h].leaf}
NextSubtree(c, i) == i + Cardinality(LeavesFrom(c, i))
(* the literals from position i of c to the first non-leaf *)
Watched(c, i) == {c[j] : j \in LeavesFrom(c, i) \cup ({NextSubtree(c, i)} \cap DOMAIN c)}

Post ==
  /\ pc = "post"
  /\ dom' = Committed /\ failed' = Failing(dom')
  /\ IF failed' \/ FirstUncommitted > Entries
        \/ (Middle /\ ~path[FirstUncommitted].supported) \/ Built = <<>>
     THEN pc' = "gone" /\ UNCHANGED <<chain, subs, n, scheduled, disposed>>
     ELSE /\ pc' = "idle" /\ chain' = Built
          /\ subs' = {Built[1]} \cup Watched(Built, 2) /\ n' = Cardinality(subs')
          /\ scheduled' = TRUE
          /\ disposed' = [b \in Range(Built) |-> 0]
  /\ UNCHANGED <<path, given, l, k>>

-----------------------------------------------------------------------------
(* propagate() *)

At(where) == pc = where /\ ~failed
Dispose(bs) == disposed' = [b \in DOMAIN disposed |-> disposed[b] + IF b \in bs THEN 1 ELSE 0]
Cancel(bs) == subs' = subs \ bs /\ n' = n - Cardinality(bs)
Prune(b) ==
  /\ dom' = Pruned(dom, b) /\ failed' = Failing(dom')
  /\ scheduled' = (scheduled \/ Wakes(dom, dom', subs'))
kept == <<path, given>>

CallPropagate ==
  /\ At("idle") /\ scheduled /\ scheduled' = FALSE /\ pc' = "root"
  /\ UNCHANGED <<kept, dom, failed, chain, l, k, subs, n, disposed>>

(* ES_SUBSUMED, and so dispose() of a space that is not failed: what is watched is
   cancelled, n is not needed any more *)
Subsumed(c) ==
  /\ pc' = "gone" /\ chain' = <<>> /\ scheduled' = FALSE
  /\ subs' = IF c = <<>> THEN subs ELSE subs \ ({c[1]} \cup Watched(c, 2))
  /\ n' = 0

RootFailed ==
  /\ At("root") /\ Status(dom, chain[1]) = "failed"
  /\ Subsumed(chain) /\ Dispose(Range(chain))
  /\ UNCHANGED <<kept, dom, failed, l, k>>

RootSubsumed ==
  /\ At("root") /\ Status(dom, chain[1]) = "subsumed"
  /\ Cancel({chain[1]}) /\ Dispose({chain[1]})
  /\ l' = Tail(chain) /\ pc' = "prune"
  /\ UNCHANGED <<kept, dom, failed, chain, k, scheduled>>

(* a failure leaves root at the literal that has been disposed of *)
PruneLeaf ==
  /\ At("prune") /\ l # <<>> /\ l[1].leaf
  /\ Cancel({l[1]}) /\ Prune(l[1])
  /\ IF failed' THEN UNCHANGED <<l, disposed>> ELSE Dispose({l[1]}) /\ l' = Tail(l)
  /\ UNCHANGED <<kept, chain, k, pc>>

NothingLeft ==
  /\ At("prune") /\ l = <<>> /\ Subsumed(<<>>)
  /\ UNCHANGED <<kept, dom, failed, l, k, disposed>>

(* mutant: only leaves are subscribed to *)
NewRootLeavesOnly ==
  /\ At("prune") /\ l # <<>> /\ ~l[1].leaf
  /\ chain' = l /\ l' = <<>> /\ pc' = "root"
  /\ LET new == {b \in Watched(chain', 2) : b.leaf}
     IN /\ subs' = subs \cup new /\ n' = n + Cardinality(new)
        /\ scheduled' = (scheduled \/ new # {})
  /\ UNCHANGED <<kept, dom, failed, k, disposed>>

NewRoot ==
  /\ At("prune") /\ l # <<>> /\ ~l[1].leaf
  /\ chain' = l /\ l' = <<>> /\ pc' = "root"
  /\ LET new == Watched(chain', 2)
     IN /\ subs' = subs \cup new /\ n' = n + Cardinality(new)
        /\ scheduled' = (scheduled \/ new # {})
  /\ UNCHANGED <<kept, dom, failed, k, disposed>>

RootNone ==
  /\ At("root") /\ Status(dom, chain[1]) = "none"
  /\ k' = 2 /\ pc' = "leaf"
  /\ UNCHANGED <<kept, dom, failed, chain, l, subs, n, scheduled, disposed>>

Leaf == At("leaf") /\ k <= Len(chain) /\ chain[k].leaf

(* the root is pruned and therefore failed, or pruning it fails *)
LeafSubsumed ==
  /\ Leaf /\ Status(dom, chain[k]) = "subsumed"
  /\ dom' = Pruned(dom, chain[1]) /\ failed' = Failing(dom')
  /\ LET rest == RemoveAt(chain, k)
     IN IF failed' THEN /\ chain' = rest /\ Cancel({chain[k]}) /\ Dispose({chain[k]})
                        /\ UNCHANGED <<pc, scheduled>>
        ELSE Subsumed(chain) /\ Dispose(Range(chain))
  /\ UNCHANGED <<kept, l, k>>

(* mutant: the subscription stays *)
LeafFailedKeeps ==
  /\ Leaf /\ Status(dom, chain[k]) = "failed"
  /\ chain' = RemoveAt(chain, k) /\ n' = n - 1 /\ Dispose({chain[k]})
  /\ UNCHANGED <<kept, dom, failed, l, k, subs, scheduled, pc>>

LeafFailed ==
  /\ Leaf /\ Status(dom, chain[k]) = "failed"
  /\ chain' = RemoveAt(chain, k) /\ Cancel({chain[k]}) /\ Dispose({chain[k]})
  /\ UNCHANGED <<kept, dom, failed, l, k, scheduled, pc>>

LeafNone ==
  /\ Leaf /\ Status(dom, chain[k]) = "none" /\ k' = k + 1
  /\ UNCHANGED <<kept, dom, failed, chain, l, subs, n, scheduled, disposed, pc>>

Subtree == At("leaf") /\ k <= Len(chain) /\ ~chain[k].leaf

(* the literals after it are neither cancelled nor disposed of *)
SubtreeFailed ==
  /\ Subtree /\ Status(dom, chain[k]) = "failed"
  /\ chain' = SubSeq(chain, 1, k - 1) /\ Cancel({chain[k]}) /\ Dispose({chain[k]})
  /\ pc' = "idle"
  /\ UNCHANGED <<kept, dom, failed, l, k, scheduled>>

SubtreeSubsumed ==
  /\ Subtree /\ Status(dom, chain[k]) = "subsumed"
  /\ chain' = RemoveAt(chain, k) /\ Dispose({chain[k]})
  /\ LET new == Watched(chain', k)
     IN /\ subs' = (subs \ {chain[k]}) \cup new /\ n' = n - 1 + Cardinality(new)
        /\ scheduled' = (scheduled \/ new # {})
  /\ pc' = "idle"
  /\ UNCHANGED <<kept, dom, failed, l, k>>

(* ES_NOFIX: again if pruning has scheduled it *)
Finished ==
  /\ At("leaf")
  /\ k <= Len(chain) => ~chain[k].leaf /\ Status(dom, chain[k]) = "none"
  /\ pc' = "idle"
  /\ UNCHANGED <<kept, dom, failed, chain, l, k, subs, n, scheduled, disposed>>

(* ~Space(): dispose() of a failed space, when a literal asked for it *)
DeleteSpace ==
  /\ failed \/ (pc \in {"idle", "gone"} /\ ~scheduled)
  /\ pc \notin {"deleted", "post"}
  /\ Dispose(Range(chain)) /\ pc' = "deleted" /\ failed' = TRUE
  /\ UNCHANGED <<kept, dom, chain, l, k, subs, n, scheduled>>

Next ==
  \/ Others \/ Post \/ CallPropagate \/ RootFailed \/ RootSubsumed \/ PruneLeaf \/ NothingLeft
  \/ NewRoot \/ RootNone \/ LeafSubsumed \/ LeafFailed \/ LeafNone
  \/ SubtreeFailed \/ SubtreeSubsumed \/ Finished \/ DeleteSpace

Spec == Init /\ [][Next]_vars

-----------------------------------------------------------------------------
(* the solution s is in a part of the tree that has been explored *)
Explored(s) ==
  \E i \in DOMAIN path : \E a \in 0 .. TrueAlt(path[i]) - 1 :
    /\ \A j \in 1 .. i - 1 : Taken(path[j], s)
    /\ Alternative(path[i], a, s[path[i].x])

(* No-goods remove only what has been explored: a space does not fail and a value is
   not pruned as long as a solution that has not been explored needs it (post() and
   propagate(); branchers without no-goods in the middle of the path included). *)
NoGoodsKeepRest ==
  pc # "deleted" =>
    \A s \in Solution :
      (\A x \in Var : s[x] \in given[x]) /\ ~Explored(s)
        => ~failed /\ \A x \in Var : s[x] \in dom[x]

(* the literals of the no-good that ends with alternative a of edge i *)
NoGood(i, a) ==
  {Literal(i, a, TRUE)} \cup {NonLeaf(j) : j \in {h \in 1 .. i - 1 : HasNonLeaf(h)}}

(* At fixpoint no no-good is violated or has a single literal left that can still
   become true, although only a few literals are watched at any time
   (NoGoodsProp::propagate()). *)
NoGoodsPropagated ==
  pc \in {"idle", "gone"} /\ ~failed /\ ~scheduled
    /\ (\A i \in DOMAIN path : path[i].supported) =>
    \A i \in DOMAIN path : \A a \in 0 .. TrueAlt(path[i]) - 1 :
      \E b \in NoGood(i, a) :
        \/ Status(dom, b) = "failed"
        \/ Status(dom, b) = "none" /\ \E c \in NoGood(i, a) : c # b /\ Status(dom, c) # "subsumed"

(* Between two executions the subscriptions are those to the root, its leaves and the
   next non-leaf, n is their number and none is left when the propagator is gone
   (propagate(), dispose(); n is the cost of the propagator). *)
SubscriptionsExact ==
  /\ pc = "idle" /\ ~failed => /\ subs = {chain[1]} \cup Watched(chain, 2)
                               /\ n = Cardinality(subs)
  /\ pc = "gone" => subs = {}

(* "Whether dispose must always be called": once each literal that notices it has
   been disposed of when the space has been deleted (NGL::notice()). *)
LiteralsDisposed == pc = "deleted" => \A b \in DOMAIN disposed : disposed[b] = 1
=============================================================================
