------------------------------- MODULE Branching -------------------------------
(***************************************************************************)
(* The branchers of a space, gecode/kernel/core.cpp and core.hpp: the list *)
(* bl with the pointers b_status and b_commit, the numbers by which a      *)
(* choice finds its brancher again, and what status(), choice(), commit(), *)
(* kill and the post of a brancher do to them.  A brancher enters the list *)
(* at its tail with the next number and never moves in it, so that the     *)
(* list is a set of branchers, in the order of their numbers.              *)
(*                                                                         *)
(* They are used the way the engines use them: spaces are cloned onto a    *)
(* path of choices and recomputed from a clone, with further clones placed *)
(* in the middle (search/seq/path.hpp).  Where clones are placed is left   *)
(* open, so that every commit distance and every adaptive distance is      *)
(* covered, and so is whether a brancher is exhausted: propagation decides *)
(* that, and with weakly monotonic propagators or a constraint for a       *)
(* better solution it may decide differently in a recomputed space.        *)
(***************************************************************************)
EXTENDS Integers, Sequences, SequencesExt

CONSTANTS
  Kind,               \* the branchers there are
  Function,           \* those that branch() makes of a function
  Alternatives(_),    \* of a choice of a brancher of this kind
  MaxUse(_),          \* how often it can be committed to
  Posts(_, _),        \* Posts(k, a): the branchers posted by the commit of a
  Kills(_, _),        \* Kills(k, a): the kinds of the branchers it kills
  Root,               \* the branchers of the root, a sequence of kinds
  Again,              \* those posted in a solution that is searched again
  MaxDepth, MaxRounds

BranchersAssumption ==
  /\ Function \subseteq Kind
  /\ Root \in Seq(Kind) /\ Again \in Seq(Kind)
  /\ \A k \in Kind : /\ Alternatives(k) \in Nat \ {0} /\ MaxUse(k) \in Nat \ {0}
                      /\ \A a \in 0 .. Alternatives(k) - 1 : Posts(k, a) \in Seq(Kind)

END == 0       \* Brancher::cast(&bl)
NoSpace == [bl |-> {}, b_status |-> END, b_commit |-> END, bid |-> 0, asked |-> {}]

VARIABLES
  cur,      \* the current space: bl, b_status, b_commit, the next number bid,
            \* and, as history, the branchers that said they are exhausted
  path,     \* the edges: space, the choice as bid and kind, alt
  pc,       \* what the engine does next
  i,        \* while recomputing: the next edge to commit
  fresh,    \* the next edge needs a clone: d = 0
  round     \* solutions searched again

vars == <<cur, path, pc, i, fresh, round>>

Ids(B) == {b.id : b \in B}
First(B) == IF B = {} THEN END ELSE Min(Ids(B))
Place(s, p) == IF p = END THEN s.bid ELSE p
From(s, p) == {b \in s.bl : b.id >= Place(s, p)}
Before(s, p) == {b \in s.bl : b.id < Place(s, p)}

-----------------------------------------------------------------------------
(* Brancher::Brancher(Home): if no brancher is available it is the first one *)
Posted(id, ks) == {[id |-> id + j - 1, kind |-> ks[j], used |-> 0] : j \in DOMAIN ks}
PostAll(s, ks) ==
  IF ks = <<>> THEN s
  ELSE [s EXCEPT !.bl = @ \cup Posted(s.bid, ks),
                 !.bid = @ + Len(ks),
                 !.b_status = IF @ = END THEN s.bid ELSE @,
                 !.b_commit = IF s.b_status = END /\ @ = END THEN s.bid ELSE @]

(* kill(): neither pointer stays at a brancher that is gone *)
Kept(s, ks) == {b \in s.bl : b.kind \notin ks}
Moved(s, ks, p) == First({b \in Kept(s, ks) : b.id >= Place(s, p)})
KillKinds(s, ks) ==
  [s EXCEPT !.bl = Kept(s, ks), !.b_status = Moved(s, ks, @), !.b_commit = Moved(s, ks, @)]

(* what a brancher may say: a function is run once, the others depend on what
   propagation has done *)
MayBeExhausted(b) == b.kind \in Function => b.used > 0
MayContinue(b) == IF b.kind \in Function THEN b.used = 0 ELSE b.used < MaxUse(b.kind)

(* where status() may stop, after all that is passed is exhausted: at a brancher
   with alternatives, or at the end *)
Stops(s) ==
  {p \in Ids(From(s, s.b_status)) \cup {END} :
     /\ \A b \in s.bl : b.id = p => MayContinue(b)
     /\ \A b \in From(s, s.b_status) : b.id < Place(s, p) => MayBeExhausted(b)}
Passed(s, p) == From(s, s.b_status) \cap Before(s, p)

(* mutant: exhausted branchers are deleted at once *)
StatusesDelete(s) ==
  {[s EXCEPT !.b_status = p, !.b_commit = p, !.bl = From(s, p)] : p \in Stops(s)}

(* status(): the branchers from b_status on that report to be exhausted are
   left of it *)
Statuses(s) == {[s EXCEPT !.b_status = p, !.asked = @ \cup Ids(Passed(s, p))] : p \in Stops(s)}

(* mutant: b_commit may point to a brancher that has been deleted *)
ChooseKeepsCommit(s) == [s EXCEPT !.bl = From(s, s.b_status)]

(* choice(): older choices are not used any more, so that all branchers left
   of b_status are deleted, and all branchers if there is none left *)
Choose(s) == [s EXCEPT !.bl = From(s, s.b_status), !.b_commit = s.b_status]

(* brancher(): the branchers from b_commit on, then those before it *)
Found(s, id) == id \in Ids(From(s, s.b_commit)) \/ id \in Ids(Before(s, s.b_commit))
Brancher(s, id) == CHOOSE b \in s.bl : b.id = id

(* the brancher that commit() is sent to is the one that made the choice *)
Meets(s, e) == Found(s, e.bid) /\ Brancher(s, e.bid).kind = e.kind

(* commit(): the brancher commits, and a function may post and kill others *)
Committed(s, id) ==
  LET b == Brancher(s, id)
  IN [s EXCEPT !.b_commit = id, !.bl = (@ \ {b}) \cup {[b EXCEPT !.used = @ + 1]}]
Commit(s, e) == PostAll(KillKinds(Committed(s, e.bid), Kills(e.kind, e.alt)), Posts(e.kind, e.alt))

-----------------------------------------------------------------------------
(* The engine *)

Empty == [NoSpace EXCEPT !.bid = 1]
HasSpace(e) == e.space # NoSpace
Rightmost(e) == e.alt = Alternatives(e.kind) - 1
Open(e) == ~Rightmost(e)
LastCopy == SelectLastInSeq(path, HasSpace)

Init ==
  /\ cur = PostAll(Empty, Root) /\ path = <<>>
  /\ pc = "status" /\ i = 0 /\ fresh = TRUE /\ round = 0

Fails ==
  /\ pc = "status" /\ pc' = "next"
  /\ cur' = NoSpace
  /\ UNCHANGED <<path, i, fresh, round>>

Status ==
  /\ pc = "status"
  /\ cur' \in Statuses(cur)
  /\ pc' = IF cur'.b_status = END THEN "solved" ELSE "branch"
  /\ UNCHANGED <<path, i, fresh, round>>

(* push(), with a clone or without: the clone is made before choice().  An edge
   below that has used up its clone is not recomputed through any more; push()
   may drop it, and here it stays. *)
Branch(copy) ==
  /\ pc = "branch" /\ Len(path) < MaxDepth
  /\ (fresh => copy) /\ fresh' = FALSE
  /\ LET e == [space |-> IF copy THEN cur ELSE NoSpace, bid |-> cur.b_status,
               kind |-> Brancher(cur, cur.b_status).kind, alt |-> 0]
     IN path' = Append(path, e) /\ cur' = Commit(Choose(cur), e)
  /\ pc' = "status"
  /\ UNCHANGED <<i, round>>

(* a solution goes to the user, without its branchers; another search may
   start from it with new ones *)
Solved ==
  /\ pc = "solved"
  /\ \/ pc' = "next" /\ cur' = NoSpace /\ UNCHANGED <<path, fresh, round>>
     \/ /\ round < MaxRounds /\ round' = round + 1 /\ fresh' = TRUE
        /\ cur' = PostAll(Choose(cur), Again) /\ path' = <<>> /\ pc' = "status"
  /\ UNCHANGED i

Cut == pc = "branch" /\ Len(path) = MaxDepth /\ pc' = "next" /\ cur' = NoSpace /\ UNCHANGED <<path, i, fresh, round>>

(* next(), and the clone to recompute from: that of the topmost edge is used
   up when its last alternative is committed *)
Backtrack ==
  /\ pc = "next"
  /\ LET k == SelectLastInSeq(path, Open)
         p == IF k = 0 THEN <<>> ELSE [SubSeq(path, 1, k) EXCEPT ![k].alt = @ + 1]
     IN IF k = 0 THEN path' = <<>> /\ pc' = "done" /\ UNCHANGED <<cur, i, fresh>>
        ELSE LET l == SelectLastInSeq(p, HasSpace)
                 reuse == l = k /\ Rightmost(p[k])
             IN /\ path' = IF reuse THEN [p EXCEPT ![k].space = NoSpace] ELSE p
                /\ cur' = p[l].space /\ i' = l /\ fresh' = reuse /\ pc' = "recompute"
  /\ UNCHANGED round

Recompute ==
  /\ pc = "recompute" /\ i <= Len(path)
  /\ Meets(cur, path[i])
  /\ cur' = Commit(cur, path[i]) /\ i' = i + 1
  /\ UNCHANGED <<path, pc, fresh, round>>

NoBrancher ==
  /\ pc = "recompute" /\ i <= Len(path)
  /\ ~Meets(cur, path[i])
  /\ pc' = "thrown" /\ UNCHANGED <<cur, path, i, fresh, round>>

Recomputed ==
  /\ pc = "recompute" /\ i > Len(path)
  /\ pc' = "status" /\ i' = 0
  /\ UNCHANGED <<cur, path, fresh, round>>

(* adaptive recomputation: status() in the middle may fail, or another clone is
   placed there *)
Adapt ==
  /\ pc = "recompute" /\ i < Len(path)
  /\ 0 < LastCopy /\ LastCopy < i
  /\ ~Rightmost(path[i])
  /\ \/ /\ path' = SubSeq(path, 1, i - 1) /\ pc' = "next" /\ cur' = NoSpace /\ i' = 0
     \/ /\ cur' \in Statuses(cur)
        /\ path' = [path EXCEPT ![i].space = cur']
        /\ UNCHANGED <<pc, i>>
  /\ UNCHANGED <<fresh, round>>

(* constrain() for a better solution: the clone on the path is propagated *)
Constrain ==
  /\ pc = "recompute" /\ LastCopy > 0 /\ i = LastCopy /\ cur = path[i].space
  /\ \E s \in Statuses(cur) : cur' = s /\ path' = [path EXCEPT ![i].space = s]
  /\ UNCHANGED <<pc, i, fresh, round>>

Next ==
  \/ Fails \/ Status \/ Solved \/ Cut \/ Backtrack \/ (\E copy \in BOOLEAN : Branch(copy))
  \/ Recompute \/ NoBrancher \/ Recomputed \/ Adapt \/ Constrain

Spec == Init /\ [][Next]_vars

-----------------------------------------------------------------------------
Spaces == {s \in {cur} \cup {path[j].space : j \in DOMAIN path} : s # NoSpace}

(* Whatever clone a space is recomputed from, every choice on the path finds
   the brancher that made it, under the same number and of the same kind: no
   brancher is deleted as exhausted while there are choices for it, and branchers
   posted by commits get the same numbers again.  commit() never throws
   SpaceNoBrancher. *)
Replayed(l) ==
  LET r[j \in l .. Len(path) + 1] ==
        IF j = l THEN path[l].space
        ELSE IF Meets(r[j - 1], path[j - 1]) THEN Commit(r[j - 1], path[j - 1]) ELSE NoSpace
  IN r
ChoicesFindBrancher ==
  /\ pc # "thrown"
  /\ \A l \in DOMAIN path : HasSpace(path[l]) =>
       \A j \in l .. Len(path) : Meets(Replayed(l)[j], path[j])

(* A space counts as solved only when every brancher has been asked: whatever is
   left of b_status has said that it is exhausted, also after branchers have been
   posted and killed by commits, and both pointers are at branchers of the list. *)
NothingSkipped ==
  \A s \in Spaces :
    /\ {s.b_status, s.b_commit} \subseteq Ids(s.bl) \cup {END}
    /\ Ids(Before(s, s.b_status)) \subseteq s.asked
=============================================================================
