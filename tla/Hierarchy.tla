------------------------------ MODULE Hierarchy ------------------------------
(***************************************************************************)
(* The vocabulary of single inheritance, over a parent function f whose     *)
(* domain is the set of declared types; a value outside the domain (the     *)
(* builtin Object) ends the chain.  What the registry and the runtime walk  *)
(* is compared with these definitions.                                      *)
(***************************************************************************)
EXTENDS Naturals, FiniteSets

CONSTANT None   \* nothing: no owner, no signature, no type

(* Every way up ends: no set of types holds the parents of all its members. *)
Grounded(f) == \A S \in SUBSET DOMAIN f : S = {} \/ \E t \in S : f[t] \notin S

(* Sets that contain the parents of their members.                          *)
UpClosed(f, S) == \A t \in S : f[t] \in DOMAIN f => f[t] \in S

(* u is t or one of its ancestors.                                          *)
Subtype(f, t, u) ==
  /\ t \in DOMAIN f
  /\ \A S \in SUBSET DOMAIN f : UpClosed(f, S) /\ t \in S => u \in S

(* t or an ancestor of t is a member of D.                                  *)
Reaches(f, t, D) == \E u \in D : Subtype(f, t, u)

(* u is the member of D that t inherits from: t's own or the first above.   *)
IsNearest(f, D, t, u) ==
  /\ u \in D
  /\ Subtype(f, t, u)
  /\ \A v \in D : Subtype(f, t, v) => Subtype(f, u, v)

(* The way up from t, as a function of the number of steps.                 *)
Path(f, t) ==
  LET up[i \in 0..Cardinality(DOMAIN f)] ==
        IF i = 0 THEN t
        ELSE IF up[i - 1] \in DOMAIN f THEN f[up[i - 1]] ELSE up[i - 1]
  IN up

Above(f, t) == {Path(f, t)[i] : i \in 1..Cardinality(DOMAIN f)} \cap DOMAIN f
OnCycle(f, t) == t \in Above(f, t)

(* The first member of D on the way up from t, None when there is none.     *)
Nearest(f, D, t) ==
  LET up == Path(f, t)
      hits == {i \in DOMAIN up : up[i] \in D}
  IN IF hits = {} THEN None
     ELSE up[CHOOSE i \in hits : \A j \in hits : i <= j]
=============================================================================
