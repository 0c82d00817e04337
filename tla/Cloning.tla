-------------------------------- MODULE Cloning --------------------------------
(***************************************************************************)
(* Cloning a space, gecode/kernel/core.cpp, core.hpp and var-imp.hpp: the  *)
(* clone is made by copying actors, variables and local objects, each of   *)
(* which leaves in the original a forwarding pointer to its copy, in the   *)
(* place of something that the original needs.  Any copy may throw for     *)
(* lack of memory or because the copy constructor of a user does; then     *)
(* recover() restores the original and disposes of what has been copied.   *)
(*                                                                         *)
(* A link keeps "own" what it has in the original (its predecessor, or the *)
(* propagator of an advisor), "copy" the forwarding pointer, or "null".    *)
(* Advisors that have been disposed of and local objects that are not      *)
(* copied have null.                                                       *)
(***************************************************************************)
EXTENDS Integers, Sequences, FiniteSets, SequencesExt

CONSTANTS
  Propagator, Brancher, Advisor, Local, Var,
  Council(_),        \* the advisors of a propagator, in the order of its chain
  Subscribed(_),     \* the propagators and advisors subscribed to a variable
  Members(_),        \* what the copy constructor of an actor updates, in order
  SpaceMembers,      \* and that of the space itself
  Noticed            \* the actors with a notice for disposal

Actor == Propagator \cup Brancher
Link == Actor \cup Advisor \cup Local

(* Actors are of one kind, an advisor is of one propagator.  Copy constructors update
   what they have to: an actor its council, once, and the variables that it or its
   advisors are subscribed to. *)
Datum == [kind : {"var"}, of : Var] \cup [kind : {"local"}, of : Local]
Member(a) == Datum \cup (IF a \in Propagator THEN [kind : {"council"}, of : {a}] ELSE {})
ActorsAssumption ==
  /\ IsFiniteSet(Propagator) /\ IsFiniteSet(Brancher) /\ Noticed \subseteq Actor
  /\ Propagator \cap Brancher = {} /\ Advisor \cap Actor = {} /\ Local \cap (Actor \cup Advisor) = {}
  /\ \A p \in Propagator :
       /\ Council(p) \in Seq(Advisor) /\ IsInjective(Council(p))
       /\ \A q \in Propagator \ {p} : Range(Council(p)) \cap Range(Council(q)) = {}
       /\ Council(p) # <<>> => \E j \in DOMAIN Members(p) : Members(p)[j].kind = "council"
  /\ SpaceMembers \in Seq(Datum)
  /\ \A a \in Actor :
       /\ Members(a) \in Seq(Member(a))
       /\ \A j, h \in DOMAIN Members(a) :
            Members(a)[j].kind = "council" /\ Members(a)[h].kind = "council" => j = h
  /\ \A v \in Var : \A l \in Subscribed(v) :
       \E p \in Propagator : /\ l = p \/ l \in Range(Council(p))
                             /\ \E j \in DOMAIN Members(p) : Members(p)[j] = [kind |-> "var", of |-> v]

VARIABLES
  src,     \* the original: lists pl and bl, prev of each link, whether u.advisors
           \* is set, the advisors in the chain of each council, which stay in
           \* the order of Council, base and index of each variable,
           \* the subscriptions of each, and the actors noticed
  cl,      \* the clone: the same, but for the chain of each council, which is a
           \* sequence, and what pc.c records, partial while d_fst is the sentinel
  pc,      \* what is copied now: "pl", "bl", "space", "array", or "user",
           \* "returned", "thrown" at the end of clone()
  actor,   \* the actor being copied: its position in pl or bl
  member,  \* and the member of it
  before,  \* history: the original when clone() was called
  made,    \* history: copies that have been constructed
  gone     \* history: how often each has been disposed of

vars == <<src, cl, pc, actor, member, before, made, gone>>

NoClone ==
  [pl |-> <<>>, bl |-> <<>>, local |-> <<>>, vars_u |-> {}, vars_noidx |-> {}, partial |-> TRUE,
   base |-> [v \in Var |-> "null"], subscribed |-> [v \in Var |-> {}],
   advisors |-> [p \in Propagator |-> <<>>], noticed |-> {}]

InitSource ==
  [pl |-> SetToSeq(Propagator), bl |-> SetToSeq(Brancher),
   prev |-> [l \in Link |-> IF l \in Local THEN "null" ELSE "own"],
   forwarding |-> [p \in Propagator |-> FALSE],
   council |-> [p \in Propagator |-> Range(Council(p))],
   base |-> [v \in Var |-> IF Subscribed(v) = {} THEN "null" ELSE "array"],
   index |-> [v \in Var |-> "own"],
   subscribed |-> [v \in Var |-> Subscribed(v)],
   noticed |-> Noticed]

Init ==
  /\ src = InitSource /\ cl = NoClone
  /\ pc = "user" /\ actor = 0 /\ member = 0
  /\ before = src /\ made = {} /\ gone = [l \in Link |-> 0]

-----------------------------------------------------------------------------
(* Between two calls of clone() *)

Live(s, p) == {a \in s.council[p] : s.prev[a] # "null"}
Before(p, a, b) ==
  \E i, j \in DOMAIN Council(p) : i < j /\ Council(p)[i] = a /\ Council(p)[j] = b
Unsubscribe(s, as) == [s EXCEPT !.subscribed = [v \in Var |-> @[v] \ as]]

(* Advisor::dispose(): it stays in the chain, without the propagator, and the
   chain is shortened by one if the next one has been disposed of as well *)
DisposeAdvisor(p, a) ==
  /\ pc = "user" /\ a \in Live(src, p)
  /\ LET after == {b \in src.council[p] : Before(p, a, b)}
         next == {b \in after : \A b2 \in after : ~Before(p, b2, b)}
     IN src' = Unsubscribe([src EXCEPT !.prev[a] = "null",
                                       !.council[p] = @ \ {b \in next : src.prev[b] = "null"}], {a})
  /\ UNCHANGED <<cl, pc, actor, member, before, made, gone>>

KillPropagator(p) ==
  /\ pc = "user"
  /\ \E j \in DOMAIN src.pl :
       /\ src.pl[j] = p
       /\ src' = Unsubscribe([src EXCEPT !.pl = RemoveAt(@, j), !.noticed = @ \ {p},
                                         !.council[p] = {}],
                             {p} \cup Live(src, p))
  /\ UNCHANGED <<cl, pc, actor, member, before, made, gone>>

(* VarImp::cancel(home): an assigned variable has no subscriptions any more *)
Assign(v) ==
  /\ pc = "user" /\ src.base[v] = "array"
  /\ src' = [src EXCEPT !.base[v] = "null", !.subscribed[v] = {}]
  /\ UNCHANGED <<cl, pc, actor, member, before, made, gone>>

-----------------------------------------------------------------------------
(* Copying: each takes and returns [s |-> original, c |-> clone] *)

(* VarImp(home, x): the copy keeps base and index, the original the forwarding
   pointer and the link to the variable copied before *)
CopyVar(s, c, v) ==
  IF s.base[v] = "copy" THEN [s |-> s, c |-> c]
  ELSE [s |-> [s EXCEPT !.base[v] = "copy", !.index[v] = "next"],
        c |-> IF s.base[v] = "null" THEN [c EXCEPT !.vars_noidx = @ \cup {v}]
              ELSE [c EXCEPT !.vars_u = @ \cup {v}, !.base[v] = "shared"]]

(* LocalHandle::update(), fwd() and fwdcopy() *)
CopyLocal(s, c, l) ==
  IF s.prev[l] # "null" THEN [s |-> s, c |-> c]
  ELSE [s |-> [s EXCEPT !.prev[l] = "copy"], c |-> [c EXCEPT !.local = <<l>> \o @]]

Update(s, c, m) == IF m.kind = "var" THEN CopyVar(s, c, m.of) ELSE CopyLocal(s, c, m.of)

(* the chain from the first advisor that has not been disposed of *)
Chain(s, p) == {b \in s.council[p] : \E a \in Live(s, p) : a = b \/ Before(p, a, b)}

(* what of it Council::update() has not come to yet, and the first of that *)
Left(s, p) == {a \in s.council[p] : s.prev[a] # "copy"}
First(p, a, S) == a \in S /\ \A b \in S \ {a} : Before(p, a, b)

(* its handler: the copies are disposed of, and the advisors that have been copied
   get their propagator back *)
AdvisorsThrow(s, c, p) ==
  [s |-> [s EXCEPT !.forwarding[p] = FALSE,
                   !.prev = [l \in Link |-> IF l \in s.council[p] /\ @[l] = "copy"
                                            THEN "own" ELSE @[l]]],
   c |-> [c EXCEPT !.advisors[p] = <<>>]]

-----------------------------------------------------------------------------
(* recover() *)

(* mutant: also in a partial clone subscriptions are looked for, in the array
   that the copy of the variable still shares with the original *)
CancelPartial(s, c, as) ==
  [s EXCEPT !.subscribed = [v \in Var |-> IF c.base[v] = "shared" THEN @[v] \ as ELSE @[v]]]

(* cancel() of a propagator or advisor that is disposed of *)
Cancel(s, c, as) ==
  [s EXCEPT !.subscribed = [v \in Var |-> IF c.base[v] = "shared" /\ ~c.partial THEN @[v] \ as
                                          ELSE @[v]]]

Linked(s) == Range(s.pl) \cup Range(s.bl)

(* prev of the actors in the lists, of their advisors and of local objects;
   advisors in the chain of a council get their propagator back *)
RestoreLinks(s, c) ==
  LET as == UNION {s.council[p] : p \in {q \in Range(s.pl) : s.forwarding[q]}}
  IN [s EXCEPT !.prev = [l \in Link |-> IF l \in as \cup Linked(s) THEN "own"
                                        ELSE IF l \in Range(c.local) THEN "null" ELSE @[l]],
               !.forwarding = [p \in Propagator |-> IF p \in Range(s.pl) THEN FALSE ELSE @[p]]]

RestoreVars(s, c) ==
  [s EXCEPT !.base = [v \in Var |-> CASE v \in c.vars_noidx -> "null"
                                      [] v \in c.vars_u -> "array"
                                      [] OTHER -> @[v]],
            !.index = [v \in Var |-> IF v \in c.vars_noidx \cup c.vars_u THEN "own" ELSE @[v]]]

Disposed(c) == Range(c.pl) \cup Range(c.bl) \cup Range(c.local)

Recovered(s, c) ==
  LET as == Range(c.pl) \cup UNION {Range(c.advisors[p]) : p \in Range(c.pl)}
  IN RestoreVars(RestoreLinks(Cancel(s, c, as), c), c)

(* The exception leaves the constructor of Space, or that of a class derived
   from it, so that ~Space() runs, or clone() deletes the clone. *)
Throw(s, c) ==
  /\ src' = Recovered(s, c)
  /\ gone' = [l \in Link |-> IF l \in Disposed(c) THEN gone[l] + 1 ELSE gone[l]]
  /\ cl' = NoClone /\ pc' = "thrown"

-----------------------------------------------------------------------------
(* clone() *)

Clone ==
  /\ pc = "user"
  /\ before' = src /\ made' = {} /\ gone' = [l \in Link |-> 0]
  /\ cl' = NoClone /\ pc' = "pl" /\ actor' = 1 /\ member' = 0
  /\ UNCHANGED src

List(l) == IF l = "pl" THEN src.pl ELSE src.bl
Current == List(pc)[actor]
Todo == IF pc = "space" THEN SpaceMembers ELSE Members(Current)
Made == Range(cl'.local) \ Range(cl.local)

(* the constructor of Actor sets the forwarding pointer *)
StartActor ==
  /\ pc \in {"pl", "bl"} /\ actor <= Len(List(pc)) /\ member = 0
  /\ src' = [src EXCEPT !.prev[Current] = "copy"]
  /\ member' = 1
  /\ UNCHANGED <<cl, pc, actor, before, made, gone>>

CopyMember ==
  /\ pc \in {"pl", "bl", "space"} /\ 0 < member /\ member <= Len(Todo)
  /\ Todo[member].kind # "council"
  /\ LET u == Update(src, cl, Todo[member]) IN src' = u.s /\ cl' = u.c
  /\ made' = made \cup Made
  /\ member' = member + 1
  /\ UNCHANGED <<pc, actor, before, gone>>

(* Council::update(): the advisors disposed of at the head of the chain leave it; when
   others are left, u.advisors of the propagator is set *)
InCouncil == pc = "pl" /\ 0 < member /\ member <= Len(Todo) /\ Todo[member].kind = "council"
Visiting == InCouncil /\ src.forwarding[Current]

EnterCouncil ==
  /\ InCouncil /\ ~src.forwarding[Current]
  /\ src' = [src EXCEPT !.council[Current] = Chain(src, Current),
                        !.forwarding[Current] = Chain(src, Current) # {}]
  /\ member' = IF Chain(src, Current) = {} THEN member + 1 ELSE member
  /\ UNCHANGED <<cl, pc, actor, before, made, gone>>

(* mutant: the copy is linked behind the one made before *)
CopyAdvisorBehind ==
  /\ Visiting
  /\ \E a \in Live(src, Current) :
       /\ First(Current, a, Left(src, Current))
       /\ src' = [src EXCEPT !.prev[a] = "copy"]
       /\ cl' = [cl EXCEPT !.advisors[Current] = Append(@, a)]
  /\ UNCHANGED <<pc, actor, member, before, made, gone>>

(* the next advisor of the chain: its copy is linked in front of those made before,
   so that the chain of the clone is in the reverse order *)
CopyAdvisor ==
  /\ Visiting
  /\ \E a \in Live(src, Current) :
       /\ First(Current, a, Left(src, Current))
       /\ src' = [src EXCEPT !.prev[a] = "copy"]
       /\ cl' = [cl EXCEPT !.advisors[Current] = <<a>> \o @]
  /\ UNCHANGED <<pc, actor, member, before, made, gone>>

(* or it has been disposed of, and leaves the chain *)
DropAdvisor ==
  /\ Visiting
  /\ \E a \in src.council[Current] \ Live(src, Current) :
       /\ First(Current, a, Left(src, Current))
       /\ src' = [src EXCEPT !.council[Current] = @ \ {a}]
  /\ UNCHANGED <<cl, pc, actor, member, before, made, gone>>

LeaveCouncil ==
  /\ Visiting /\ Left(src, Current) = {}
  /\ member' = member + 1
  /\ UNCHANGED <<src, cl, pc, actor, before, made, gone>>

LinkActor ==
  /\ pc \in {"pl", "bl"} /\ actor <= Len(List(pc)) /\ member > Len(Todo)
  /\ cl' = IF pc = "pl" THEN [cl EXCEPT !.pl = Append(@, Current)]
           ELSE [cl EXCEPT !.bl = Append(@, Current)]
  /\ made' = made \cup {Current}
  /\ actor' = actor + 1 /\ member' = 0
  /\ UNCHANGED <<src, pc, before, gone>>

NextList ==
  /\ pc \in {"pl", "bl"} /\ actor > Len(List(pc))
  /\ IF pc = "pl" THEN pc' = "bl" /\ member' = 0 ELSE pc' = "space" /\ member' = 1
  /\ actor' = 1
  /\ UNCHANGED <<src, cl, before, made, gone>>

CopiedSpace ==
  /\ pc = "space" /\ member > Len(Todo)
  /\ pc' = "array"
  /\ UNCHANGED <<src, cl, actor, member, before, made, gone>>

(* no memory for an actor, for a member of it or of the space: a variable may
   already have been registered then, some advisors may have been copied *)
Throws ==
  /\ pc \in {"pl", "bl", "space"}
  /\ \/ /\ pc # "space" /\ actor <= Len(List(pc)) /\ member = 0
        /\ Throw(src, cl)
     \/ /\ member > 0 /\ (pc = "space" => member <= Len(Todo)) /\ ~Visiting
        /\ Throw(src, cl)
     \/ /\ member > 0 /\ member <= Len(Todo) /\ Todo[member].kind = "var"
        /\ LET u == CopyVar(src, cl, Todo[member].of) IN Throw(u.s, u.c)
     \/ /\ Visiting
        /\ \E a \in Live(src, Current) : First(Current, a, Left(src, Current))
        /\ LET u == AdvisorsThrow(src, cl, Current) IN Throw(u.s, u.c)
  /\ UNCHANGED <<actor, member, before, made>>

(* no memory for the array of the actors that must be disposed of *)
ArrayThrows ==
  /\ pc = "array" /\ src.noticed # {}
  /\ Throw(src, cl)
  /\ UNCHANGED <<actor, member, before, made>>

(* what is subscribed in the clone is read through the forwarding pointers *)
Forwarded(ls) == {l \in ls : src.prev[l] = "copy"}

Returns ==
  /\ pc = "array" /\ pc' = "returned"
  /\ cl' = [cl EXCEPT !.partial = FALSE, !.noticed = Forwarded(src.noticed),
                      !.base = [v \in Var |-> IF v \in cl.vars_u THEN "array" ELSE "null"],
                      !.subscribed = [v \in Var |-> IF v \in cl.vars_u THEN Forwarded(src.subscribed[v])
                                                    ELSE {}]]
  /\ src' = RestoreVars(RestoreLinks(src, cl), cl)
  /\ UNCHANGED <<actor, member, before, made, gone>>

Back ==
  /\ pc \in {"returned", "thrown"} /\ pc' = "user"
  /\ cl' = NoClone /\ actor' = 0 /\ member' = 0
  /\ before' = src /\ made' = {} /\ gone' = [l \in Link |-> 0]
  /\ UNCHANGED src

Next ==
  \/ Clone \/ StartActor \/ CopyMember \/ EnterCouncil \/ CopyAdvisor \/ DropAdvisor
  \/ LeaveCouncil \/ LinkActor \/ NextList \/ CopiedSpace
  \/ Throws \/ ArrayThrows \/ Returns \/ Back
  \/ \E p \in Propagator : KillPropagator(p) \/ \E a \in Advisor : DisposeAdvisor(p, a)
  \/ \E v \in Var : Assign(v)

Spec == Init /\ [][Next]_vars

-----------------------------------------------------------------------------
(* clone() leaves the original as it was, whether it returns or throws: no
   forwarding pointer stays, no subscription is lost to the disposal of copies,
   no advisor that has been disposed of comes back; only the chains of councils
   may be shorter by such advisors.  When it throws, each copy that was finished
   has been disposed of exactly once (changelog.in, "transactional"). *)
SameSource ==
  /\ \A f \in DOMAIN before \ {"council"} : src[f] = before[f]
  /\ \A p \in Propagator : /\ src.council[p] \subseteq before.council[p]
                            /\ Live(src, p) = Live(before, p)
Transactional ==
  /\ pc \in {"returned", "thrown"} => SameSource
  /\ pc = "thrown" => \A l \in Link : gone[l] = IF l \in made THEN 1 ELSE 0

Reversed(p, q) == \A i, j \in DOMAIN q : i < j => Before(p, q[j], q[i])

(* What clone() returns is a copy: the same propagators and branchers in the same
   order, with the same subscriptions and notices; each propagator with a copy of
   each advisor that has not been disposed of, in the reverse order
   (Council::update()). *)
CloneFaithful ==
  pc = "returned" =>
    /\ cl.pl = src.pl /\ cl.bl = src.bl /\ cl.noticed = src.noticed
    /\ cl.subscribed = src.subscribed
    /\ \A p \in Range(src.pl) :
         Range(cl.advisors[p]) = Live(src, p) /\ Reversed(p, cl.advisors[p])
=============================================================================
