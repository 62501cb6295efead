--------------------------- MODULE HierarchyProofs ---------------------------
(***************************************************************************)
(* Proofs about the vocabulary of single inheritance, for every parent      *)
(* function: Subtype as an order, the way up a finite hierarchy as the set  *)
(* of ancestors, and Nearest as the one type IsNearest describes when the   *)
(* hierarchy is grounded.                                                   *)
(***************************************************************************)
EXTENDS Hierarchy, FiniteSetTheorems, NaturalsInduction, WellFoundedInduction, TLAPS

(* The relation between a type and its ancestors.                           *)

LEMMA SubtypeType ==
  ASSUME NEW f, NEW t, NEW u, Subtype(f, t, u)
  PROVE  t \in DOMAIN f /\ u \in DOMAIN f
  <1>1. UpClosed(f, DOMAIN f)
    BY DEF UpClosed
  <1> QED BY <1>1 DEF Subtype

LEMMA SubtypeReflexive ==
  ASSUME NEW f, NEW t \in DOMAIN f PROVE Subtype(f, t, t)
  BY DEF Subtype

LEMMA SubtypeTransitive ==
  ASSUME NEW f, NEW t, NEW u, NEW v, Subtype(f, t, u), Subtype(f, u, v)
  PROVE  Subtype(f, t, v)
  BY DEF Subtype

LEMMA SubtypeParent ==
  ASSUME NEW f, NEW t \in DOMAIN f, f[t] \in DOMAIN f
  PROVE  Subtype(f, t, f[t])
  BY DEF Subtype, UpClosed

(* A proper ancestor of t is the parent of t or an ancestor of the parent.  *)
LEMMA SubtypeStep ==
  ASSUME NEW f, NEW t, NEW u, Subtype(f, t, u), u # t
  PROVE  f[t] \in DOMAIN f /\ Subtype(f, f[t], u)
  <1>1. t \in DOMAIN f
    BY DEF Subtype
  <1>2. f[t] \in DOMAIN f
    <2>1. SUFFICES ASSUME f[t] \notin DOMAIN f PROVE FALSE
      OBVIOUS
    <2>2. UpClosed(f, {t})
      BY <2>1 DEF UpClosed
    <2>3. {t} \in SUBSET DOMAIN f
      BY <1>1
    <2>4. u \in {t}
      BY <2>2, <2>3 DEF Subtype
    <2> QED BY <2>4
  <1>3. ASSUME NEW S \in SUBSET DOMAIN f, UpClosed(f, S), f[t] \in S
        PROVE  u \in S
    <2>1. UpClosed(f, S \cup {t})
      BY <1>3 DEF UpClosed
    <2>2. S \cup {t} \in SUBSET DOMAIN f
      BY <1>1
    <2>3. u \in S \cup {t}
      BY <2>1, <2>2 DEF Subtype
    <2> QED BY <2>3
  <1> QED BY <1>2, <1>3 DEF Subtype

(* In a grounded hierarchy nothing is above what is above it.               *)
LEMMA SubtypeAntisymmetric ==
  ASSUME NEW f, Grounded(f), NEW t, NEW u, Subtype(f, t, u), Subtype(f, u, t)
  PROVE  t = u
  <1> DEFINE S == {w \in DOMAIN f : Subtype(f, t, w) /\ Subtype(f, w, t)}
  <1> SUFFICES ASSUME t # u PROVE FALSE
    OBVIOUS
  <1>1. t \in S /\ u \in S
    BY SubtypeType, SubtypeReflexive
  <1>2. ASSUME NEW w \in S PROVE f[w] \in S
    <2>1. PICK v \in S : v # w
      BY <1>1
    <2>2. Subtype(f, w, v)
      BY <2>1, SubtypeTransitive
    <2>3. f[w] \in DOMAIN f /\ Subtype(f, f[w], v)
      BY <2>1, <2>2, SubtypeStep
    <2>4. Subtype(f, f[w], t) /\ Subtype(f, t, f[w])
      BY <2>1, <2>3, SubtypeParent, SubtypeTransitive
    <2> QED BY <2>3, <2>4
  <1> QED BY <1>1, <1>2 DEF Grounded

(* What is above a type of a cycle is on that cycle.                        *)
LEMMA CycleReturns ==
  ASSUME NEW f, NEW t, Subtype(f, f[t], t), NEW u, Subtype(f, t, u)
  PROVE  Subtype(f, u, t)
  <1> DEFINE S == {w \in DOMAIN f : Subtype(f, w, t)}
  <1>1. t \in S
    BY SubtypeType, SubtypeReflexive
  <1>2. ASSUME NEW w \in S, f[w] \in DOMAIN f PROVE f[w] \in S
    BY <1>2, SubtypeStep
  <1>3. UpClosed(f, S) /\ S \in SUBSET DOMAIN f
    BY <1>2 DEF UpClosed
  <1> QED BY <1>1, <1>3 DEF Subtype

LEMMA NearestUnique ==
  ASSUME NEW f, Grounded(f), NEW D, NEW t, NEW u, NEW v, IsNearest(f, D, t, u), IsNearest(f, D, t, v)
  PROVE  u = v
  BY SubtypeAntisymmetric DEF IsNearest

(* A member of D is its own nearest.                                        *)
LEMMA NearestSelf ==
  ASSUME NEW f, NEW D, NEW t \in D, t \in DOMAIN f
  PROVE  IsNearest(f, D, t, t)
  BY SubtypeReflexive DEF IsNearest

(* What is nearest to the parent is nearest to a type that is not in D.     *)
LEMMA NearestAbove ==
  ASSUME NEW f, NEW D, NEW t \in DOMAIN f, t \notin D, NEW u, IsNearest(f, D, f[t], u)
  PROVE  IsNearest(f, D, t, u)
  <1>1. f[t] \in DOMAIN f /\ Subtype(f, t, u)
    BY SubtypeType, SubtypeParent, SubtypeTransitive DEF IsNearest
  <1>2. ASSUME NEW v \in D, Subtype(f, t, v) PROVE Subtype(f, u, v)
    BY <1>2, SubtypeStep DEF IsNearest
  <1> QED BY <1>1, <1>2 DEF IsNearest

(* What is nearest among fewer to the nearest among more is the nearest.    *)
LEMMA NearestOfNearest ==
  ASSUME NEW f, NEW H, NEW D \in SUBSET H, NEW t, NEW u, NEW v,
         IsNearest(f, H, t, u), IsNearest(f, D, u, v)
  PROVE  IsNearest(f, D, t, v)
  BY SubtypeTransitive DEF IsNearest
-----------------------------------------------------------------------------
(* The way up from t.                                                       *)

LEMMA LeastNumber ==
  ASSUME NEW T \in SUBSET Nat, T # {}
  PROVE  \E x \in T : \A y \in T : x <= y
  <1> DEFINE R == {ss \in Nat \X Nat : ss[1] < ss[2]}
  <1>1. IsWellFoundedOn(R, Nat)
    BY NatLessThanWellFounded DEF OpToRel
  <1> HIDE DEF R
  <1>2. PICK x \in T : \A y \in T : ~(<<y, x>> \in R)
    BY <1>1, WFMin
  <1>3. ASSUME NEW y \in T PROVE x <= y
    <2>1. x \in Nat /\ y \in Nat /\ ~(<<y, x>> \in R)
      BY <1>2
    <2>2. ~(y < x)
      BY <2>1 DEF R
    <2> QED BY <2>1, <2>2
  <1> QED BY <1>3

Up(f, x) == IF x \in DOMAIN f THEN f[x] ELSE x

(* g holds the first n steps up from t.                                     *)
Steps(f, t, g, n) ==
  g = [i \in 0..n |-> g[i]] /\ g[0] = t /\ \A i \in 1..n : g[i] = Up(f, g[i - 1])

LEMMA StepsExist == ASSUME NEW f, NEW t PROVE \A n \in Nat : \E g : Steps(f, t, g, n)
  <1> DEFINE T == {n \in Nat : ~ \E g : Steps(f, t, g, n)}
  <1> SUFFICES ASSUME T # {} PROVE FALSE
    OBVIOUS
  <1>1. PICK n \in T : \A k \in T : n <= k
    BY LeastNumber
  <1>2. CASE n = 0
    <2>1. Steps(f, t, [i \in 0..0 |-> t], 0)
      BY DEF Steps
    <2> QED BY <1>1, <1>2, <2>1
  <1>3. CASE n # 0
    <2>1. n - 1 \in Nat /\ n - 1 \notin T
      BY <1>1, <1>3
    <2>2. PICK g : Steps(f, t, g, n - 1)
      BY <2>1
    <2> DEFINE h == [i \in 0..n |-> IF i = n THEN Up(f, g[n - 1]) ELSE g[i]]
    <2>3. h = [i \in 0..n |-> h[i]] /\ h[0] = t
      BY <1>3, <2>1, <2>2 DEF Steps
    <2>4. ASSUME NEW i \in 1..n PROVE h[i] = Up(f, h[i - 1])
      <3>1. i \in 0..n /\ i - 1 \in 0..n /\ i - 1 # n
        OBVIOUS
      <3>2. h[i - 1] = g[i - 1]
        BY <3>1
      <3>3. CASE i = n
        BY <3>1, <3>2, <3>3
      <3>4. CASE i # n
        <4>1. i \in 1..(n - 1) /\ h[i] = g[i]
          BY <3>1, <3>4
        <4> QED BY <2>2, <3>2, <4>1 DEF Steps
      <3> QED BY <3>3, <3>4
    <2>5. Steps(f, t, h, n)
      BY <2>3, <2>4 DEF Steps
    <2> QED BY <1>1, <2>5
  <1> QED BY <1>2, <1>3

LEMMA PathDef ==
  ASSUME NEW f, NEW t, IsFiniteSet(DOMAIN f)
  PROVE  Steps(f, t, Path(f, t), Cardinality(DOMAIN f))
  <1> DEFINE n == Cardinality(DOMAIN f)
  <1>1. n \in Nat
    BY FS_CardinalityType
  <1>2. PICK g : Steps(f, t, g, n)
    BY <1>1, StepsExist
  <1>3. ASSUME NEW i \in 0..n
        PROVE  g[i] = IF i = 0 THEN t
                      ELSE IF g[i - 1] \in DOMAIN f THEN f[g[i - 1]] ELSE g[i - 1]
    <2>1. CASE i = 0
      BY <1>2, <2>1 DEF Steps
    <2>2. CASE i # 0
      <3>1. i \in 1..n
        BY <1>1, <2>2
      <3> QED BY <1>2, <2>2, <3>1 DEF Steps, Up
    <2> QED BY <2>1, <2>2
  <1>4. g = [i \in 0..n |-> IF i = 0 THEN t
                            ELSE IF g[i - 1] \in DOMAIN f THEN f[g[i - 1]] ELSE g[i - 1]]
    BY <1>2, <1>3 DEF Steps
  <1> DEFINE p == Path(f, t)
  <1>5. p = [i \in 0..n |-> IF i = 0 THEN t
                            ELSE IF p[i - 1] \in DOMAIN f THEN f[p[i - 1]] ELSE p[i - 1]]
    BY <1>4 DEF Path
  <1> HIDE DEF p, n
  <1>6. p = [i \in 0..n |-> p[i]] /\ p[0] = t
    BY <1>1, <1>5
  <1>7. ASSUME NEW i \in 1..n PROVE p[i] = Up(f, p[i - 1])
    BY <1>1, <1>5 DEF Up
  <1> QED BY <1>6, <1>7 DEF Steps, p, n

LEMMA PathParts ==
  ASSUME NEW f, NEW t, IsFiniteSet(DOMAIN f)
  PROVE  /\ Cardinality(DOMAIN f) \in Nat
         /\ DOMAIN Path(f, t) = 0..Cardinality(DOMAIN f)
         /\ Path(f, t)[0] = t
         /\ \A i \in 1..Cardinality(DOMAIN f) : Path(f, t)[i] = Up(f, Path(f, t)[i - 1])
  <1> DEFINE p == Path(f, t)
             n == Cardinality(DOMAIN f)
  <1>1. n \in Nat
    BY FS_CardinalityType
  <1>2. Steps(f, t, p, n)
    BY PathDef
  <1> HIDE DEF p, n
  <1>3. DOMAIN p = 0..n /\ p[0] = t /\ \A i \in 1..n : p[i] = Up(f, p[i - 1])
    BY <1>2 DEF Steps
  <1> QED BY <1>1, <1>3 DEF p, n

(* A type on the way up is above every type before it on the way.           *)
LEMMA PathClimbs ==
  ASSUME NEW f, NEW t, IsFiniteSet(DOMAIN f), NEW i \in 0..Cardinality(DOMAIN f),
         NEW j \in i..Cardinality(DOMAIN f), Path(f, t)[j] \in DOMAIN f
  PROVE  Subtype(f, Path(f, t)[i], Path(f, t)[j])
  <1> DEFINE p == Path(f, t)
             n == Cardinality(DOMAIN f)
             T == {k \in i..n : p[k] \in DOMAIN f /\ ~Subtype(f, p[i], p[k])}
  <1>1. n \in Nat /\ \A k \in 1..n : p[k] = Up(f, p[k - 1])
    BY PathParts
  <1> HIDE DEF p, n
  <1>2. ASSUME T # {} PROVE FALSE
    <2>1. T \in SUBSET Nat
      BY <1>1 DEF n
    <2>2. PICK k \in T : \A l \in T : k <= l
      BY <1>2, <2>1, LeastNumber
    <2>3. k # i
      BY <2>2, SubtypeReflexive
    <2>4. k \in 1..n /\ k - 1 \in i..n /\ ~(k <= k - 1)
      BY <1>1, <2>1, <2>2, <2>3 DEF n
    <2>5. p[k] = Up(f, p[k - 1]) /\ p[k] \in DOMAIN f
      BY <1>1, <2>2, <2>4
    <2>6. p[k - 1] \in DOMAIN f /\ p[k] = f[p[k - 1]]
      BY <2>5 DEF Up
    <2>7. Subtype(f, p[i], p[k - 1])
      BY <2>2, <2>4, <2>6
    <2> QED BY <2>2, <2>5, <2>6, <2>7, SubtypeParent, SubtypeTransitive
  <1> QED BY <1>2 DEF p, n

(* Two equal places on the way up are followed by equal places.             *)
LEMMA PathRepeats ==
  ASSUME NEW f, NEW t, IsFiniteSet(DOMAIN f), NEW a \in 0..Cardinality(DOMAIN f),
         NEW b \in 0..Cardinality(DOMAIN f), a < b, Path(f, t)[a] = Path(f, t)[b]
  PROVE  \A k \in 0..Cardinality(DOMAIN f) - b : Path(f, t)[a + k] = Path(f, t)[b + k]
  <1> DEFINE p == Path(f, t)
             n == Cardinality(DOMAIN f)
             T == {k \in 0..n - b : p[a + k] # p[b + k]}
  <1>1. n \in Nat /\ a \in 0..n /\ b \in 0..n /\ \A k \in 1..n : p[k] = Up(f, p[k - 1])
    BY PathParts
  <1>2. p[a] = p[b]
    OBVIOUS
  <1> HIDE DEF p, n
  <1>3. ASSUME T # {} PROVE FALSE
    <2>1. T \in SUBSET Nat
      BY <1>1
    <2>2. PICK k \in T : \A l \in T : k <= l
      BY <1>3, <2>1, LeastNumber
    <2>3. k # 0
      BY <1>1, <1>2, <2>2
    <2>4. k \in 1..n - b /\ k - 1 \notin T /\ k - 1 \in 0..n - b
      <3>1. n \in Nat /\ b \in Nat /\ k \in 0..n - b /\ k \in Nat
        BY <1>1, <2>1, <2>2
      <3>2. k - 1 \notin T
        <4> HIDE DEF T
        <4> QED BY <2>2, <3>1
      <3> QED BY <2>3, <3>1, <3>2
    <2>5. p[a + (k - 1)] = p[b + (k - 1)]
      BY <2>4
    <2>6. /\ a + k \in 1..n /\ b + k \in 1..n
          /\ a + (k - 1) = (a + k) - 1 /\ b + (k - 1) = (b + k) - 1
      BY <1>1, <2>4
    <2>7. p[a + k] = p[b + k]
      BY <1>1, <2>5, <2>6
    <2> QED BY <2>2, <2>7
  <1> QED BY <1>3 DEF p, n

(* The parent of a type on the way up is on the way up.                     *)
LEMMA PathParent ==
  ASSUME NEW f, NEW t, IsFiniteSet(DOMAIN f), NEW i \in 0..Cardinality(DOMAIN f),
         Path(f, t)[i] \in DOMAIN f
  PROVE  \E j \in 1..Cardinality(DOMAIN f) : Path(f, t)[j] = f[Path(f, t)[i]]
  <1> DEFINE p == Path(f, t)
             n == Cardinality(DOMAIN f)
  <1>1. /\ n \in Nat /\ DOMAIN p = 0..n /\ i \in 0..n /\ p[i] \in DOMAIN f
        /\ \A k \in 1..n : p[k] = Up(f, p[k - 1])
    BY PathParts
  <1>2. CASE i < n
    <2>1. i + 1 \in 1..n /\ (i + 1) - 1 = i
      BY <1>1, <1>2
    <2>2. p[i + 1] = f[p[i]]
      BY <1>1, <2>1 DEF Up
    <2> QED BY <2>1, <2>2
  <1>3. CASE i = n
    <2>1. \A k \in 0..n : p[k] \in DOMAIN f
      <3> TAKE k \in 0..n
      <3>1. i \in k..n
        BY <1>1, <1>3
      <3> QED BY <1>1, <3>1, PathClimbs, SubtypeType
    <2>2. \E a, b \in 0..n : a # b /\ p[a] = p[b]
      <3> DEFINE q == [k \in 0..n |-> p[k]]
                 Places == 0..n
      <3>1. q \in [Places -> DOMAIN f]
        BY <2>1
      <3>2. IsFiniteSet(Places) /\ Cardinality(Places) = n + 1
        BY <1>1, FS_Interval
      <3>3. Cardinality(DOMAIN f) < Cardinality(Places)
        BY <1>1, <3>2
      <3>4. \A k \in Places : q[k] = p[k]
        OBVIOUS
      <3> HIDE DEF q, Places
      <3>5. \E a, b \in Places : a # b /\ q[a] = q[b]
        BY <3>1, <3>2, <3>3, FS_PigeonHole
      <3> QED BY <3>4, <3>5 DEF Places
    <2>3. PICK a \in 0..n, b \in 0..n : a < b /\ p[a] = p[b]
      BY <1>1, <2>2
    <2>4. n - b \in 0..n - b /\ b + (n - b) = n
      BY <1>1
    <2>5. p[a + (n - b)] = p[n]
      BY <2>3, <2>4, PathRepeats
    <2> DEFINE c == a + (n - b)
    <2>6. c + 1 \in 1..n /\ (c + 1) - 1 = c
      BY <1>1, <2>3
    <2> HIDE DEF c, p, n
    <2>7. p[c + 1] = f[p[n]]
      <3>1. p[c] = p[n]
        BY <2>5 DEF c
      <3> QED BY <1>1, <1>3, <2>6, <3>1 DEF Up
    <2>8. \E j \in 1..n : p[j] = f[p[i]]
      BY <1>3, <2>6, <2>7
    <2> QED BY <2>8 DEF p, n
  <1> QED BY <1>1, <1>2, <1>3

(* The way up meets all ancestors, and nothing else among the types.        *)
LEMMA PathIsAncestors ==
  ASSUME NEW f, IsFiniteSet(DOMAIN f), NEW t \in DOMAIN f, NEW u
  PROVE  Subtype(f, t, u) <=>
           u \in DOMAIN f /\ \E i \in 0..Cardinality(DOMAIN f) : Path(f, t)[i] = u
  <1> DEFINE p == Path(f, t)
             n == Cardinality(DOMAIN f)
             S == {w \in DOMAIN f : \E i \in 0..n : p[i] = w}
  <1>1. n \in Nat /\ p[0] = t
    BY PathParts
  <1>2. ASSUME NEW i \in 0..n, p[i] \in DOMAIN f PROVE Subtype(f, t, p[i])
    <2>1. 0 \in 0..n /\ i \in 0..n
      BY <1>1
    <2> QED BY <1>1, <1>2, <2>1, PathClimbs
  <1>3. ASSUME Subtype(f, t, u) PROVE u \in S
    <2>1. t \in S
      BY <1>1
    <2>2. UpClosed(f, S)
      <3> SUFFICES ASSUME NEW w \in S, f[w] \in DOMAIN f PROVE f[w] \in S
        BY DEF UpClosed
      <3>1. PICK i \in 0..n : p[i] = w
        OBVIOUS
      <3>2. PICK j \in 1..n : p[j] = f[w]
        BY <3>1, PathParent
      <3>3. j \in 0..n
        BY <1>1
      <3> QED BY <3>2, <3>3
    <2> QED BY <1>3, <2>1, <2>2 DEF Subtype
  <1> QED BY <1>2, <1>3

(* Above(f, t) are the proper ancestors of t: the parent and all above it.  *)
LEMMA AboveIsAncestors ==
  ASSUME NEW f, IsFiniteSet(DOMAIN f), NEW t \in DOMAIN f, NEW u
  PROVE  u \in Above(f, t) <=> Subtype(f, f[t], u)
  <1> DEFINE p == Path(f, t)
             n == Cardinality(DOMAIN f)
             S == {w \in DOMAIN f : \E i \in 1..n : p[i] = w}
  <1>1. n \in Nat /\ p[0] = t /\ \A i \in 1..n : p[i] = Up(f, p[i - 1])
    BY PathParts
  <1>2. n # 0
    BY FS_EmptySet
  <1>3. 1 \in 1..n /\ 1 - 1 = 0
    BY <1>1, <1>2
  <1>4. p[1] = f[t]
    BY <1>1, <1>3 DEF Up
  <1>5. Above(f, t) = S
    BY DEF Above
  <1>6. ASSUME NEW i \in 1..n, p[i] \in DOMAIN f PROVE Subtype(f, f[t], p[i])
    <2>1. 1 \in 0..n /\ i \in 1..n
      BY <1>1, <1>3
    <2> QED BY <1>4, <1>6, <2>1, PathClimbs
  <1>7. ASSUME Subtype(f, f[t], u) PROVE u \in S
    <2>1. f[t] \in S
      BY <1>3, <1>4, <1>7, SubtypeType
    <2>2. UpClosed(f, S)
      <3> SUFFICES ASSUME NEW w \in S, f[w] \in DOMAIN f PROVE f[w] \in S
        BY DEF UpClosed
      <3>1. PICK i \in 1..n : p[i] = w
        OBVIOUS
      <3>2. i \in 0..n
        BY <1>1
      <3>3. PICK j \in 1..n : p[j] = f[w]
        BY <3>1, <3>2, PathParent
      <3> QED BY <3>3
    <2> QED BY <1>7, <2>1, <2>2 DEF Subtype
  <1> QED BY <1>5, <1>6, <1>7

(* Nearest returns the member of D that IsNearest describes, or None.       *)
LEMMA NearestFound ==
  ASSUME NEW f, IsFiniteSet(DOMAIN f), NEW D \in SUBSET DOMAIN f, NEW t \in DOMAIN f
  PROVE  IF Reaches(f, t, D) THEN IsNearest(f, D, t, Nearest(f, D, t)) ELSE Nearest(f, D, t) = None
  <1> DEFINE p == Path(f, t)
             n == Cardinality(DOMAIN f)
             hits == {i \in DOMAIN p : p[i] \in D}
             first == CHOOSE i \in hits : \A j \in hits : i <= j
  <1>1. n \in Nat /\ DOMAIN p = 0..n
    BY PathParts
  <1>2. Nearest(f, D, t) = IF hits = {} THEN None ELSE p[first]
    BY DEF Nearest
  <1>3. Reaches(f, t, D) <=> hits # {}
    BY <1>1, PathIsAncestors DEF Reaches
  <1>4. ASSUME hits # {} PROVE IsNearest(f, D, t, p[first])
    <2>1. hits \in SUBSET Nat
      BY <1>1
    <2>2. \E i \in hits : \A j \in hits : i <= j
      BY <1>4, <2>1, LeastNumber
    <2>3. first \in hits /\ \A j \in hits : first <= j
      BY <2>2
    <2> HIDE DEF first
    <2>4. first \in 0..n /\ p[first] \in D /\ p[first] \in DOMAIN f
      BY <1>1, <2>3
    <2>5. Subtype(f, t, p[first])
      BY <2>4, PathIsAncestors
    <2>6. ASSUME NEW v \in D, Subtype(f, t, v) PROVE Subtype(f, p[first], v)
      <3>1. PICK j \in 0..n : p[j] = v
        BY <2>6, PathIsAncestors
      <3>2. j \in hits
        BY <1>1, <3>1
      <3>3. j \in first..n
        BY <1>1, <2>3, <2>4, <3>2
      <3> QED BY <2>4, <3>1, <3>3, PathClimbs
    <2> QED BY <2>4, <2>5, <2>6 DEF IsNearest
  <1> QED BY <1>2, <1>3, <1>4

(* In a grounded hierarchy it is the only one.                              *)
LEMMA NearestIs ==
  ASSUME NEW f, IsFiniteSet(DOMAIN f), Grounded(f), NEW D \in SUBSET DOMAIN f, NEW t \in DOMAIN f,
         NEW u, IsNearest(f, D, t, u)
  PROVE  Nearest(f, D, t) = u
  <1>1. Reaches(f, t, D)
    BY DEF IsNearest, Reaches
  <1> QED BY <1>1, NearestFound, NearestUnique
=============================================================================
