------------------------------- MODULE MCKernel -------------------------------
(***************************************************************************)
(* Instances of the kernel: propagators, branchers, actors and paths that  *)
(* meet the interesting cases.                                             *)
(***************************************************************************)
EXTENDS Kernel

-----------------------------------------------------------------------------
(* Propagation: three variables and four propagators: x < y on bounds, which runs
   until nothing changes; x # z, which waits for a value and is then subsumed; y = z
   in two stages, bounds first; and a recorder in the lowest queue.  They are posted
   between two calls of status(), and not while one is running. *)

Domain(v) == IF v = "y" THEN 0 .. 2 ELSE 0 .. 1
Variable == {"x", "y", "z"}
Domains(v) == SUBSET Domain(v) \ {{}}
MCStore == {s \in [Variable -> SUBSET (0 .. 2)] : \A v \in Variable : s[v] \in Domains(v)}
MCStart == {[v \in Variable |-> Domain(v)]}
MCStronger(t, s) == \A v \in Variable : t[v] \subseteq s[v]

Greatest(D) == CHOOSE n \in D : \A k \in D : k <= n
Least(D) == CHOOSE n \in D : \A k \in D : n <= k
Assigned(D) == Cardinality(D) = 1

(* the modification event of a change of one variable *)
Change(D, E) ==
  IF D = E THEN ME_NONE
  ELSE IF Assigned(E) THEN ME_VAL
  ELSE IF Least(D) # Least(E) \/ Greatest(D) # Greatest(E) THEN ME_BND ELSE ME_DOM

(* the weakest event that the propagation condition lets through *)
Condition == [lt |-> [x |-> ME_BND, y |-> ME_BND], ne |-> [x |-> ME_VAL, z |-> ME_VAL],
              eq |-> [y |-> ME_DOM, z |-> ME_DOM],
              rec |-> [x |-> ME_DOM, y |-> ME_DOM]]
MCPropagator == DOMAIN Condition

MCModEvent(p, s, t) ==
  LET c == Condition[p]
      seen == {Change(s[v], t[v]) : v \in {w \in DOMAIN c : Change(s[w], t[w]) >= c[w]}}
  IN Greatest(seen \cup {ME_NONE})

(* an advisor of y = z asks for a new cost whenever z is assigned *)
MCForced(p, s, t) == p = "eq" /\ Change(s["z"], t["z"]) = ME_VAL

MCWakeup(p, s) ==
  IF \E v \in DOMAIN Condition[p] : Assigned(s[v]) THEN ME_VAL
  ELSE IF p = "ne" THEN ME_NONE ELSE ME_BND

MCCost(p, m) ==
  CASE p = "rec" -> AC_RECORD [] p = "ne" -> 3 [] p = "lt" -> 2
    [] p = "eq" -> IF m = ME_DOM THEN 1 ELSE 2

MCAtFixpoint(p, s) ==
  LET x == s["x"] y == s["y"] z == s["z"] IN
  CASE p = "rec" -> TRUE
    [] p = "lt" -> Least(x) < Least(y) /\ Greatest(x) < Greatest(y)
    [] p = "ne" -> (Assigned(x) \/ Assigned(z)) => x \cap z = {}
    [] p = "eq" -> y = z

(* the outcome that leaves the variables of f with the domains that f gives *)
Result(s, f, status, m) ==
  {IF \E v \in DOMAIN f : f[v] = {} THEN [store |-> s, status |-> "failed", med |-> ME_NONE]
   ELSE [store |-> [v \in Variable |-> IF v \in DOMAIN f THEN f[v] ELSE s[v]],
         status |-> status, med |-> m]}

MCPropagate(p, s, m) ==
  LET x == s["x"] y == s["y"] z == s["z"] IN
  CASE p = "rec" -> Result(s, s, "fix", ME_NONE)
    [] p = "lt" ->
         Result(s, [x |-> {n \in x : n < Greatest(y)}, y |-> {n \in y : n > Least(x)}],
                IF Greatest(x) < Least(y) THEN "subsumed" ELSE "nofix", ME_NONE)
    [] p = "ne" ->
         IF Assigned(x) \/ Assigned(z)
         THEN Result(s, IF Assigned(x) THEN [z |-> z \ x] ELSE [x |-> x \ z], "subsumed", ME_NONE)
         ELSE Result(s, s, "fix", ME_NONE)
    [] p = "eq" ->
         IF m = ME_DOM \/ Assigned(y) \/ Assigned(z)
         THEN Result(s, [y |-> y \cap z, z |-> y \cap z],
                     IF Assigned(y \cap z) THEN "subsumed" ELSE "fix", ME_NONE)
         ELSE Result(s, [y |-> {n \in y : Least(z) <= n /\ n <= Greatest(z)},
                         z |-> {n \in z : Least(y) <= n /\ n <= Greatest(y)}],
                     "nofix_partial", ME_DOM)

-----------------------------------------------------------------------------
(* Branching: a brancher whose choices last twice, one with a commit that posts
   another, functions, and one that kills *)
MCKind == {"x", "y", "f", "g"}
MCFunction == {"f", "g"}
MCArity(b) == IF b \in MCFunction THEN 1 ELSE 2
MCMaxUse(b) == IF b = "x" THEN 2 ELSE 1
MCPosts(b, a) == CASE b = "f" -> <<"y">> [] b = "y" /\ a = 1 -> <<"g">> [] OTHER -> <<>>
MCKills(b, a) == IF b = "g" THEN {"y"} ELSE {}

MCRoot == <<"x", "y", "f", "x">>
MCAgain == <<"f", "x">>

(* Cloning: two propagators, one with three advisors, that share a local object, and
   two branchers; the variable z has no subscriptions *)
MCCouncil(p) == IF p = "p" THEN <<"a1", "a2", "a3">> ELSE <<>>
MCSubscribed(v) == CASE v = "x" -> {"p", "q"} [] v = "y" -> {"a1", "a2", "a3", "q"} [] OTHER -> {}
V(v) == [kind |-> "var", of |-> v]
L(o) == [kind |-> "local", of |-> o]
MCMembers(a) ==
  CASE a = "p" -> <<V("x"), L("l"), [kind |-> "council", of |-> "p"], V("y")>>
    [] a = "q" -> <<V("x"), V("y"), L("l")>>
    [] a = "b" -> <<V("y"), V("z")>>
    [] a = "c" -> <<L("m")>>

MCSpaceMembers == <<V("x"), V("y"), V("z"), L("l")>>

(* NoGoodProp: paths over three variables: of binary choices, of choices with three
   alternatives, of splits, with a brancher that supports no no-goods *)
Eq(x, v, alt) == [x |-> x, vals |-> <<v>>, lq |-> FALSE, alt |-> alt, supported |-> TRUE]
Lq(x, v, alt) == [Eq(x, v, alt) EXCEPT !.lq = TRUE]
Values(x, alt) == [Eq(x, 1, alt) EXCEPT !.vals = <<1, 2, 3>>]
No(x, v, alt) == [Eq(x, v, alt) EXCEPT !.supported = FALSE]
MCPath ==
  {<<e, f, g, h>> : e \in {Eq("x", 1, 1), Eq("x", 1, 0), Lq("x", 2, 0)},
                    f \in {Eq("y", 2, 1), Eq("y", 2, 0), Values("y", 2), No("y", 2, 1), No("y", 2, 0)},
                    g \in {Values("z", 1), Lq("z", 1, 0)},
                    h \in {Eq("y", 1, 1), Lq("x", 1, 1)}}

MCSolution == [NVar -> NVal]
=============================================================================
