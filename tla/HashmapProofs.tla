--------------------------- MODULE HashmapProofs ----------------------------
(***************************************************************************)
(* Proofs about Hashmap, for all keys and values, every width and set of       *)
(* hashes, and every length of a probe.  First arithmetic, of the powers of 2    *)
(* and of the place of a key; then what storing and clearing do to a table;      *)
(* then the invariant, the slots found while moving, and the map that is        *)
(* implemented.                                                             *)
(***************************************************************************)
EXTENDS Hashmap, FiniteSetTheorems, TLAPS

(* A set of naturals that is not empty has a least element.  Proofs by         *)
(* induction below look for the least counterexample.                        *)
LEMMA LeastNat ==
  ASSUME NEW T \in SUBSET Nat, T # {}
  PROVE  \E x \in T : \A y \in T : x <= y
<1> DEFINE R == {ss \in Nat \X Nat : ss[1] < ss[2]}
<1>1. IsWellFoundedOn(R, Nat)
  BY NatLessThanWellFounded DEF OpToRel
<1> HIDE DEF R
<1>2. PICK x \in T : \A y \in T : ~(<<y, x>> \in R)
  BY <1>1, WFMin
<1>3. ASSUME NEW y \in T PROVE x <= y
  <2>1. x \in Nat /\ y \in Nat /\ ~(<<y, x>> \in R)
    BY <1>2
  <2>2. ~(y < x)
    BY <2>1 DEF R
  <2>3. QED BY <2>1, <2>2
<1>4. QED BY <1>3
-----------------------------------------------------------------------------
(* Powers of 2.  The equation that defines Power2 has a solution: its values   *)
(* up to n are those of the one function on 0 .. n that obeys it.              *)
PowersTo(f, n) == f \in [0 .. n -> Nat] /\ f[0] = 1 /\ \A i \in 1 .. n : f[i] = 2 * f[i - 1]

LEMMA PowersAgree ==
  ASSUME NEW m \in Nat, NEW n \in Nat, m <= n, NEW f, NEW g, PowersTo(f, m), PowersTo(g, n)
  PROVE  \A i \in 0 .. m : f[i] = g[i]
<1> DEFINE T == {i \in Nat : i <= m /\ f[i] # g[i]}
<1>1. SUFFICES ASSUME T # {} PROVE FALSE
  OBVIOUS
<1>2. PICK i \in T : \A j \in T : i <= j
  BY <1>1, LeastNat
<1>3. i # 0
  BY <1>2 DEF PowersTo
<1>4. i - 1 \in 0 .. m /\ i \in 1 .. m /\ i \in 1 .. n /\ i - 1 \notin T
  BY <1>2, <1>3
<1>5. f[i] = 2 * f[i - 1] /\ g[i] = 2 * g[i - 1]
  BY <1>4 DEF PowersTo
<1>6. f[i - 1] = g[i - 1]
  BY <1>4
<1>7. QED BY <1>2, <1>5, <1>6

LEMMA PowersExist == \A n \in Nat : \E f : PowersTo(f, n)
<1> DEFINE T == {n \in Nat : ~ \E f : PowersTo(f, n)}
<1>1. SUFFICES ASSUME T # {} PROVE FALSE
  OBVIOUS
<1>2. PICK n \in T : \A m \in T : n <= m
  BY <1>1, LeastNat
<1>3. CASE n = 0
  <2>1. PowersTo([i \in 0 .. 0 |-> 1], 0)
    BY DEF PowersTo
  <2>2. QED BY <1>2, <1>3, <2>1
<1>4. CASE n # 0
  <2>1. n - 1 \in Nat /\ n - 1 \notin T
    BY <1>2, <1>4
  <2>2. PICK f : PowersTo(f, n - 1)
    BY <2>1
  <2> DEFINE g == [i \in 0 .. n |-> IF i = n THEN 2 * f[n - 1] ELSE f[i]]
  <2>3. f \in [0 .. n - 1 -> Nat] /\ f[0] = 1 /\ \A i \in 1 .. n - 1 : f[i] = 2 * f[i - 1]
    BY <2>2 DEF PowersTo
  <2>4. g \in [0 .. n -> Nat]
    BY <2>1, <2>3
  <2>5. g[0] = 1 /\ \A i \in 1 .. n : g[i] = 2 * g[i - 1]
    BY <1>4, <2>1, <2>3
  <2>6. PowersTo(g, n)
    BY <2>4, <2>5 DEF PowersTo
  <2>7. QED BY <1>2, <2>6
<1>5. QED BY <1>3, <1>4

LEMMA PowerDef == Power2 = [n \in Nat |-> IF n = 0 THEN 1 ELSE 2 * Power2[n - 1]]
<1> DEFINE F(n) == CHOOSE f : PowersTo(f, n)
           G == [n \in Nat |-> F(n)[n]]
<1>1. \A n \in Nat : PowersTo(F(n), n)
  BY PowersExist
<1> HIDE DEF F
<1>2. ASSUME NEW n \in Nat PROVE G[n] = IF n = 0 THEN 1 ELSE 2 * G[n - 1]
  <2>1. CASE n = 0
    BY <1>1, <2>1 DEF PowersTo
  <2>2. CASE n # 0
    <3>1. n - 1 \in Nat /\ n - 1 \in 0 .. n - 1 /\ n - 1 <= n /\ n \in 1 .. n
      BY <2>2
    <3>2. PowersTo(F(n), n) /\ PowersTo(F(n - 1), n - 1)
      BY <1>1, <3>1
    <3>3. F(n - 1)[n - 1] = F(n)[n - 1]
      BY <3>1, <3>2, PowersAgree
    <3>4. F(n)[n] = 2 * F(n)[n - 1]
      BY <3>1, <3>2 DEF PowersTo
    <3>5. QED BY <2>2, <3>1, <3>3, <3>4
  <2>3. QED BY <2>1, <2>2
<1>3. G = [n \in Nat |-> IF n = 0 THEN 1 ELSE 2 * G[n - 1]]
  BY <1>2
<1> HIDE DEF G
<1>4. QED BY <1>3 DEF Power2

LEMMA PowerStep == Power2[0] = 1 /\ \A n \in Nat : Power2[n + 1] = 2 * Power2[n]
BY PowerDef

LEMMA PowerType == \A n \in Nat : Power2[n] \in Nat \ {0}
<1> DEFINE T == {n \in Nat : Power2[n] \notin Nat \ {0}}
<1>1. SUFFICES ASSUME T # {} PROVE FALSE
  OBVIOUS
<1>2. PICK n \in T : \A m \in T : n <= m
  BY <1>1, LeastNat
<1>3. n # 0
  BY <1>2, PowerStep
<1>4. n - 1 \in Nat /\ n - 1 \notin T /\ (n - 1) + 1 = n
  BY <1>2, <1>3
<1>5. Power2[n - 1] \in Nat \ {0} /\ Power2[n] = 2 * Power2[n - 1]
  BY <1>4, PowerStep
<1>6. QED BY <1>2, <1>5

LEMMA PowerSum == ASSUME NEW b \in Nat PROVE \A a \in Nat : Power2[a + b] = Power2[a] * Power2[b]
<1> DEFINE T == {a \in Nat : Power2[a + b] # Power2[a] * Power2[b]}
<1>1. SUFFICES ASSUME T # {} PROVE FALSE
  OBVIOUS
<1>2. PICK a \in T : \A c \in T : a <= c
  BY <1>1, LeastNat
<1>3. a # 0
  BY <1>2, PowerStep, PowerType
<1>4. a - 1 \in Nat /\ a - 1 \notin T /\ (a - 1) + 1 = a /\ (a - 1) + b \in Nat /\ ((a - 1) + b) + 1 = a + b
  BY <1>2, <1>3
<1>5. Power2[a + b] = 2 * Power2[(a - 1) + b] /\ Power2[a] = 2 * Power2[a - 1]
  BY <1>4, PowerStep
<1>6. Power2[(a - 1) + b] = Power2[a - 1] * Power2[b]
  BY <1>4
<1>7. 2 * (Power2[a - 1] * Power2[b]) = (2 * Power2[a - 1]) * Power2[b]
  BY <1>4, PowerType
<1>8. QED BY <1>2, <1>5, <1>6, <1>7
-----------------------------------------------------------------------------
(* The place of a key lies in the table, and doubles with the capacity.        *)
HashOK == hash \in [Keys -> 0 .. Power2[Bits] - 1]

LEMMA PlaceInTable ==
  ASSUME HashOK, NEW k \in Keys, NEW log \in 1 .. Bits - 1
  PROVE  Place(k, log) \in 0 .. Capacity(log) - 1
<1>1. Bits \in Nat /\ log \in Nat /\ Bits - log \in Nat /\ log + (Bits - log) = Bits
  BY HashmapAssumption
<1> DEFINE d == Power2[Bits - log]
           c == Power2[log]
<1>2. d \in Nat \ {0} /\ c \in Nat \ {0}
  BY <1>1, PowerType
<1>3. Power2[Bits] = c * d
  BY <1>1, PowerSum
<1>4. hash[k] \in Nat /\ hash[k] < c * d
  <2>1. hash[k] \in 0 .. Power2[Bits] - 1
    BY DEF HashOK
  <2>2. Power2[Bits] \in Nat
    BY <1>1, PowerType
  <2>3. QED BY <2>1, <2>2, <1>3
<1> HIDE DEF d, c
<1>5. hash[k] \div d \in 0 .. c - 1
  BY <1>2, <1>4
<1>6. QED BY <1>5 DEF d, c, Place, Capacity

LEMMA Halves ==
  ASSUME NEW h \in Nat, NEW d \in Nat, d > 0
  PROVE  h \div d = 2 * (h \div (2 * d)) \/ h \div d = 2 * (h \div (2 * d)) + 1
OBVIOUS

LEMMA PlaceDoubles ==
  ASSUME HashOK, NEW k \in Keys, NEW log \in 1 .. Bits - 2
  PROVE  Place(k, log + 1) \in {2 * Place(k, log), 2 * Place(k, log) + 1}
<1>1. Bits \in Nat /\ log \in Nat /\ Bits - (log + 1) \in Nat /\ (Bits - (log + 1)) + 1 = Bits - log
  BY HashmapAssumption
<1> DEFINE d == Power2[Bits - (log + 1)]
<1>2. d \in Nat \ {0} /\ Power2[Bits - log] = 2 * d
  BY <1>1, PowerType, PowerStep
<1>3. hash[k] \in Nat
  <2>1. hash[k] \in 0 .. Power2[Bits] - 1
    BY DEF HashOK
  <2>2. QED BY <2>1
<1> HIDE DEF d
<1>4. hash[k] \div d = 2 * (hash[k] \div (2 * d)) \/ hash[k] \div d = 2 * (hash[k] \div (2 * d)) + 1
  BY <1>2, <1>3, Halves
<1>5. Place(k, log) = hash[k] \div (2 * d)
  BY <1>2 DEF Place
<1>6. Place(k, log + 1) = hash[k] \div d
  BY DEF d, Place
<1>7. QED BY <1>4, <1>5, <1>6

LEMMA WindowInTable ==
  ASSUME HashOK, NEW k \in Keys, NEW log \in 1 .. Bits - 1
  PROVE  /\ Window(k, log) \subseteq Slots(log)
         /\ Window(k, log) \subseteq Nat /\ Slots(log) \subseteq Nat
         /\ Capacity(log) \in Nat \ {0}
<1>1. Place(k, log) \in 0 .. Capacity(log) - 1
  BY PlaceInTable
<1>2. Capacity(log) \in Nat \ {0}
  BY PowerType, HashmapAssumption DEF Capacity
<1>3. ProbeLength \in Nat
  BY HashmapAssumption
<1>4. QED BY <1>1, <1>2, <1>3 DEF Window, Slots
-----------------------------------------------------------------------------
(* Tables.  An element is not free; a key that a table holds it holds once,     *)
(* where get looks for it.                                                  *)
LEMMA NotFree == \A e \in Element : e # Free /\ e.key \in Keys /\ e.value \in Values /\ e.key # NoKey
BY HashmapAssumption DEF Element, Free

LEMMA TableParts ==
  ASSUME NEW t, TableTypeOK(t)
  PROVE  /\ DOMAIN t.data = Slots(t.log) /\ Elements(t) \subseteq Slots(t.log)
         /\ t.log \in 1 .. Bits - 1 /\ t.log \in Nat /\ t.size \in Nat
         /\ \A i \in Elements(t) : t.data[i] \in Element
         /\ \A i \in Slots(t.log) : t.data[i] \in Element \cup {Free}
         /\ IsFiniteSet(Elements(t)) /\ Capacity(t.log) \in Nat \ {0} /\ Slots(t.log) \subseteq Nat
<1>1. t.data \in [Slots(t.log) -> Element \cup {Free}] /\ t.log \in 1 .. Bits - 1 /\ t.size \in Nat
  BY DEF TableTypeOK
<1>2. t.log \in Nat /\ ProbeLength \in Nat
  BY <1>1, HashmapAssumption
<1>3. Capacity(t.log) \in Nat \ {0}
  BY <1>2, PowerType DEF Capacity
<1>4. Slots(t.log) \subseteq Nat
  BY <1>2, <1>3 DEF Slots
<1>5. Elements(t) \subseteq Slots(t.log)
  BY <1>1 DEF Elements
<1>6. IsFiniteSet(Slots(t.log))
  BY <1>2, <1>3, FS_Interval DEF Slots
<1>7. IsFiniteSet(Elements(t))
  BY <1>5, <1>6, FS_Subset
<1>8. QED BY <1>1, <1>2, <1>3, <1>4, <1>5, <1>7 DEF Elements

LEMMA SlotFound ==
  ASSUME HashOK, NEW t, TableTypeOK(t), NEW k \in Keys, FindsSlot(t, k)
  PROVE  /\ Slot(t, k) \in Window(k, t.log) /\ Slot(t, k) \in Slots(t.log) /\ t.size # Capacity(t.log)
         /\ \/ t.data[Slot(t, k)].key = k
            \/ /\ t.data[Slot(t, k)] = Free /\ Holding(t, k) = {}
               /\ \A j \in Window(k, t.log) : j < Slot(t, k) => t.data[j] # Free
<1>1. t.log \in 1 .. Bits - 1
  BY TableParts
<1>2. Window(k, t.log) \subseteq Slots(t.log) /\ Window(k, t.log) \subseteq Nat
  BY <1>1, WindowInTable
<1>3. SlotsFor(t, k) # {} /\ SlotsFor(t, k) \subseteq Window(k, t.log)
  BY DEF FindsSlot, SlotsFor, Holding, Unused
<1>4. \E i \in SlotsFor(t, k) : \A j \in SlotsFor(t, k) : i <= j
  BY <1>2, <1>3, LeastNat
<1>5. Slot(t, k) \in SlotsFor(t, k) /\ \A j \in SlotsFor(t, k) : Slot(t, k) <= j
  BY <1>4 DEF Slot
<1>6. t.size # Capacity(t.log)
  BY <1>3 DEF SlotsFor
<1>7. CASE Holding(t, k) # {}
  BY <1>2, <1>3, <1>5, <1>6, <1>7 DEF SlotsFor, Holding
<1>8. CASE Holding(t, k) = {}
  <2>1. SlotsFor(t, k) = Unused(t, k)
    BY <1>6, <1>8 DEF SlotsFor
  <2>2. t.data[Slot(t, k)] = Free
    BY <1>5, <2>1 DEF Unused
  <2>3. ASSUME NEW j \in Window(k, t.log), j < Slot(t, k) PROVE t.data[j] # Free
    <3>1. j \in Nat /\ Slot(t, k) \in Nat
      BY <1>2, <1>3, <1>5
    <3>2. j \notin Unused(t, k)
      BY <1>5, <2>1, <2>3, <3>1
    <3>3. QED BY <3>2 DEF Unused
  <2>4. QED BY <1>2, <1>3, <1>5, <1>6, <1>8, <2>2, <2>3
<1>9. QED BY <1>7, <1>8

LEMMA HeldOnce ==
  ASSUME HashOK, NEW t, TableTypeOK(t), TableOK(t), NEW k \in Keys
  PROVE  /\ Holding(t, k) = {i \in Elements(t) : t.data[i].key = k}
         /\ \A i, j \in Holding(t, k) : i = j
<1>1. Window(k, t.log) \subseteq Slots(t.log) /\ DOMAIN t.data = Slots(t.log)
  BY WindowInTable, TableParts
<1>2. k # NoKey
  BY HashmapAssumption
<1>3. ASSUME NEW i \in Holding(t, k) PROVE i \in Elements(t) /\ t.data[i].key = k
  BY <1>1, <1>2 DEF Holding, Elements, Free
<1>4. ASSUME NEW i \in Elements(t), t.data[i].key = k PROVE i \in Holding(t, k)
  BY <1>4 DEF Holding, TableOK
<1>5. QED BY <1>3, <1>4 DEF TableOK

LEMMA ValueHeld ==
  ASSUME HashOK, NEW t, TableTypeOK(t), TableOK(t), NEW i \in Elements(t)
  PROVE  /\ t.data[i].key \in Keys /\ t.data[i].value \in Values
         /\ Holding(t, t.data[i].key) = {i}
         /\ ValueAt(t, t.data[i].key) = t.data[i].value
<1>1. t.data[i] \in Element
  BY TableParts
<1>2. t.data[i].key \in Keys /\ t.data[i].value \in Values
  BY <1>1, NotFree
<1>3. i \in Holding(t, t.data[i].key) /\ \A j \in Holding(t, t.data[i].key) : j = i
  BY <1>2, HeldOnce
<1>4. Holding(t, t.data[i].key) = {i}
  BY <1>3
<1>5. i \in Nat
  BY TableParts
<1>6. (CHOOSE j \in Holding(t, t.data[i].key) : \A l \in Holding(t, t.data[i].key) : j <= l) = i
  BY <1>4, <1>5
<1>7. QED BY <1>2, <1>4, <1>6 DEF ValueAt

LEMMA ValueMissing ==
  ASSUME HashOK, NEW t, TableTypeOK(t), TableOK(t), NEW k \in Keys, \A i \in Elements(t) : t.data[i].key # k
  PROVE  Holding(t, k) = {} /\ ValueAt(t, k) = NoValue
<1>1. Holding(t, k) = {}
  BY HeldOnce
<1>2. QED BY <1>1 DEF ValueAt
-----------------------------------------------------------------------------
(* What storing and clearing an element do to a table.                       *)
LEMMA StoredTable ==
  ASSUME HashOK, NEW t, TableTypeOK(t), TableOK(t), NEW e \in Element, FindsSlot(t, e.key)
  PROVE  LET s == Slot(t, e.key)
             u == Stored(t, e)
         IN  /\ u.data = [t.data EXCEPT ![s] = e] /\ u.log = t.log /\ u.cursor = t.cursor
             /\ u.size = IF t.data[s] = Free THEN t.size + 1 ELSE t.size
             /\ s \in Slots(t.log) /\ s \in Window(e.key, t.log) /\ Elements(u) = Elements(t) \cup {s}
             /\ TableTypeOK(u) /\ TableOK(u)
<1> DEFINE s == Slot(t, e.key)
           u == Stored(t, e)
<1>1. e # Free /\ e.key \in Keys
  BY NotFree
<1>2. /\ s \in Window(e.key, t.log) /\ s \in Slots(t.log) /\ t.size # Capacity(t.log)
      /\ t.data[s].key = e.key \/ (t.data[s] = Free /\ Holding(t, e.key) = {})
  BY <1>1, SlotFound
<1>3. /\ t \in [log : 1 .. Bits - 1, size : Nat, data : [Slots(t.log) -> Element \cup {Free}], cursor : Nat]
      /\ t.cursor <= Capacity(t.log) + ProbeLength
      /\ t.size <= Capacity(t.log) /\ t.size = Cardinality(Elements(t))
  BY DEF TableTypeOK, TableOK
<1>5. s \in Slots(t.log) /\ s \in Window(e.key, t.log)
  BY <1>2
<1>4. /\ u.data = [t.data EXCEPT ![s] = e] /\ u.log = t.log /\ u.cursor = t.cursor
      /\ u.size = IF t.data[s] = Free THEN t.size + 1 ELSE t.size
  <2> HIDE DEF s
  <2>1. u = [t EXCEPT !.data[s] = e, !.size = IF t.data[s] = Free THEN @ + 1 ELSE @]
    BY DEF s, Stored
  <2> HIDE DEF u
  <2>2. QED BY <1>3, <1>5, <2>1
<1>6. u \in [log : 1 .. Bits - 1, size : Nat, data : [Slots(t.log) -> Element \cup {Free}], cursor : Nat]
  <2> HIDE DEF s
  <2>1. u = [t EXCEPT !.data[s] = e, !.size = IF t.data[s] = Free THEN @ + 1 ELSE @]
    BY DEF s, Stored
  <2>2. [t.data EXCEPT ![s] = e] \in [Slots(t.log) -> Element \cup {Free}]
    BY <1>3, <1>5
  <2>3. (IF t.data[s] = Free THEN t.size + 1 ELSE t.size) \in Nat
    BY <1>3
  <2> HIDE DEF u
  <2>4. QED BY <1>3, <2>1, <2>2, <2>3
<1> HIDE DEF s, u
<1>7. TableTypeOK(u)
  BY <1>3, <1>4, <1>6 DEF TableTypeOK
<1>8. Elements(u) = Elements(t) \cup {s}
  BY <1>1, <1>3, <1>4, <1>5, <1>6 DEF Elements
<1>9. u.size = Cardinality(Elements(u)) /\ u.size <= Capacity(u.log)
  <2>1. IsFiniteSet(Elements(t)) /\ Capacity(t.log) \in Nat
    BY TableParts
  <2>2. CASE t.data[s] = Free
    <3>1. s \notin Elements(t)
      BY <2>2 DEF Elements
    <3>2. Cardinality(Elements(t) \cup {s}) = Cardinality(Elements(t)) + 1
      BY <2>1, <3>1, FS_AddElement
    <3>3. t.size < Capacity(t.log)
      BY <1>2, <1>3, <2>1
    <3>4. QED BY <1>3, <1>4, <1>8, <2>1, <2>2, <3>2, <3>3
  <2>3. CASE t.data[s] # Free
    <3>1. s \in Elements(t)
      BY <1>3, <1>5, <2>3 DEF Elements
    <3>2. Elements(u) = Elements(t)
      BY <1>8, <3>1
    <3>3. QED BY <1>3, <1>4, <2>3, <3>2
  <2>4. QED BY <2>2, <2>3
<1>10. \A i \in Elements(t) : t.data[i].key = e.key => i = s
  <2>1. CASE t.data[s].key = e.key
    <3>1. s \in Holding(t, e.key)
      BY <1>5, <2>1 DEF Holding
    <3>2. QED BY <1>1, <3>1, HeldOnce
  <2>2. CASE Holding(t, e.key) = {}
    BY <1>1, <2>2, HeldOnce
  <2>3. QED BY <1>2, <2>1, <2>2 DEF s
<1>11. \A i \in Elements(u) : u.data[i] = IF i = s THEN e ELSE t.data[i]
  BY <1>3, <1>4, <1>8, <1>5 DEF Elements
<1>12. \A i \in Elements(u) : i \in Window(u.data[i].key, u.log)
  BY <1>4, <1>5, <1>8, <1>11 DEF TableOK
<1>13. \A i, j \in Elements(u) : u.data[i].key = u.data[j].key => i = j
  BY <1>8, <1>10, <1>11 DEF TableOK
<1>14. TableOK(u)
  BY <1>9, <1>12, <1>13 DEF TableOK
<1>15. QED BY <1>4, <1>5, <1>7, <1>8, <1>14 DEF s, u

LEMMA ClearedTable ==
  ASSUME NEW t, TableTypeOK(t), TableOK(t), NEW i \in Elements(t)
  PROVE  LET u == Cleared(t, i)
         IN  /\ u.data = [t.data EXCEPT ![i] = Free] /\ u.log = t.log /\ u.cursor = t.cursor
             /\ u.size = t.size - 1 /\ u.size \in Nat
             /\ Elements(u) = Elements(t) \ {i} /\ TableTypeOK(u) /\ TableOK(u)
<1> DEFINE u == Cleared(t, i)
<1>1. /\ t \in [log : 1 .. Bits - 1, size : Nat, data : [Slots(t.log) -> Element \cup {Free}], cursor : Nat]
      /\ t.cursor <= Capacity(t.log) + ProbeLength
      /\ t.size <= Capacity(t.log) /\ t.size = Cardinality(Elements(t))
  BY DEF TableTypeOK, TableOK
<1>2. i \in Slots(t.log) /\ IsFiniteSet(Elements(t)) /\ Capacity(t.log) \in Nat
  BY TableParts
<1>0. u = [t EXCEPT !.data[i] = Free, !.size = @ - 1]
  BY DEF Cleared
<1> HIDE DEF u
<1>3. /\ u.data = [t.data EXCEPT ![i] = Free] /\ u.log = t.log /\ u.cursor = t.cursor
      /\ u.size = t.size - 1
  BY <1>0, <1>1, <1>2
<1>4. u.data \in [Slots(t.log) -> Element \cup {Free}]
  BY <1>1, <1>2, <1>3
<1>5. Elements(u) = Elements(t) \ {i}
  BY <1>1, <1>2, <1>3, <1>4 DEF Elements
<1>6. Cardinality(Elements(u)) = t.size - 1 /\ t.size - 1 \in Nat
  <2>1. Cardinality(Elements(t) \ {i}) = Cardinality(Elements(t)) - 1
    BY <1>2, FS_RemoveElement
  <2>2. IsFiniteSet(Elements(u))
    BY <1>2, <1>5, FS_RemoveElement
  <2>3. Cardinality(Elements(u)) \in Nat
    BY <2>2, FS_CardinalityType
  <2>4. QED BY <1>1, <1>5, <2>1, <2>3
<1>7. TableTypeOK(u)
  <2>1. [t.data EXCEPT ![i] = Free] \in [Slots(t.log) -> Element \cup {Free}]
    BY <1>1, <1>2
  <2>2. u \in [log : 1 .. Bits - 1, size : Nat, data : [Slots(t.log) -> Element \cup {Free}], cursor : Nat]
    BY <1>0, <1>1, <1>6, <2>1
  <2>3. QED BY <1>1, <1>3, <2>2 DEF TableTypeOK
<1>8. \A j \in Elements(u) : j \in Elements(t) /\ u.data[j] = t.data[j]
  BY <1>1, <1>3, <1>5 DEF Elements
<1>9. TableOK(u)
  BY <1>1, <1>2, <1>3, <1>6, <1>8 DEF TableOK
<1>10. QED BY <1>3, <1>5, <1>6, <1>7, <1>9 DEF u

LEMMA CursorMoved ==
  ASSUME NEW t, TableTypeOK(t), TableOK(t), NEW c \in Nat, c <= Capacity(t.log) + ProbeLength
  PROVE  LET u == [t EXCEPT !.cursor = c]
         IN  /\ u.data = t.data /\ u.log = t.log /\ u.cursor = c /\ u.size = t.size
             /\ Elements(u) = Elements(t) /\ TableTypeOK(u) /\ TableOK(u)
<1> DEFINE u == [t EXCEPT !.cursor = c]
<1>1. t \in [log : 1 .. Bits - 1, size : Nat, data : [Slots(t.log) -> Element \cup {Free}], cursor : Nat]
  BY DEF TableTypeOK
<1>2. u.data = t.data /\ u.log = t.log /\ u.cursor = c /\ u.size = t.size
  BY <1>1
<1>3. u \in [log : 1 .. Bits - 1, size : Nat, data : [Slots(t.log) -> Element \cup {Free}], cursor : Nat]
  BY <1>1
<1> HIDE DEF u
<1>4. Elements(u) = Elements(t)
  BY <1>2 DEF Elements
<1>5. TableTypeOK(u)
  BY <1>2, <1>3 DEF TableTypeOK
<1>6. TableOK(u)
  BY <1>2, <1>4 DEF TableOK
<1>7. QED BY <1>2, <1>4, <1>5, <1>6 DEF u

LEMMA CreatedTable ==
  ASSUME NEW log \in 1 .. Bits - 1
  PROVE  LET u == Create(log)
         IN  /\ u.log = log /\ u.size = 0 /\ u.cursor = 0 /\ Elements(u) = {}
             /\ TableTypeOK(u) /\ TableOK(u)
<1> DEFINE u == Create(log)
<1>1. /\ u.log = log /\ u.size = 0 /\ u.cursor = 0 /\ u.data = [i \in Slots(log) |-> Free]
      /\ u \in [log : 1 .. Bits - 1, size : Nat, data : [Slots(log) -> Element \cup {Free}], cursor : Nat]
  BY DEF Create
<1> HIDE DEF u
<1>2. Elements(u) = {}
  BY <1>1 DEF Elements
<1>3. Capacity(log) \in Nat /\ ProbeLength \in Nat
  BY PowerType, HashmapAssumption DEF Capacity
<1>4. TableTypeOK(u)
  BY <1>1, <1>3 DEF TableTypeOK
<1>5. TableOK(u)
  BY <1>1, <1>2, <1>3, FS_EmptySet DEF TableOK
<1>6. QED BY <1>1, <1>2, <1>4, <1>5 DEF u
-----------------------------------------------------------------------------
(* Moving to the larger table.  A slot is found for every element: if the      *)
(* window of one were full, the slots from the start a of the run that ends      *)
(* there would hold elements whose old places are not before a \div 2, and more  *)
(* of them than Rehashing allows.                                            *)
RehashAssumption(old, new) ==
  /\ HashOK /\ TableTypeOK(old) /\ TableTypeOK(new) /\ TableOK(old) /\ TableOK(new)
  /\ Rehashing(old, new) /\ old.cursor \in DOMAIN old.data

LEMMA MovingFinds ==
  ASSUME NEW old, NEW new, RehashAssumption(old, new), old.data[old.cursor] # Free
  PROVE  FindsSlot(new, old.data[old.cursor].key)
<1> DEFINE s == old.cursor
           k == old.data[s].key
           p == Place(k, old.log)
           q == Place(k, new.log)
           end == q + ProbeLength - 1
<1> USE DEF RehashAssumption
<1>1. s \in Elements(old) /\ k \in Keys /\ s \in Nat
  BY TableParts, NotFree DEF Elements
<1>2. /\ old.log \in 1 .. Bits - 1 /\ new.log \in 1 .. Bits - 1 /\ new.log = old.log + 1
      /\ old.log \in 1 .. Bits - 2 /\ Bits \in Nat /\ ProbeLength \in Nat \ {0}
  BY TableParts, HashmapAssumption DEF Rehashing
<1>3. p \in Nat /\ q \in Nat /\ q \in {2 * p, 2 * p + 1} /\ s \in p .. p + ProbeLength - 1
  <2>1. Place(k, old.log) \in 0 .. Capacity(old.log) - 1 /\ Capacity(old.log) \in Nat
    BY <1>1, <1>2, PlaceInTable, WindowInTable
  <2>2. Place(k, new.log) \in 0 .. Capacity(new.log) - 1 /\ Capacity(new.log) \in Nat
    BY <1>1, <1>2, PlaceInTable, WindowInTable
  <2>3. Place(k, old.log + 1) \in {2 * Place(k, old.log), 2 * Place(k, old.log) + 1}
    BY <1>1, <1>2, PlaceDoubles
  <2>4. s \in Window(k, old.log)
    BY <1>1 DEF TableOK
  <2>5. QED BY <1>2, <2>1, <2>2, <2>3, <2>4 DEF Window
<1>4. new.size # Capacity(new.log)
  <2>1. Capacity(new.log) = 2 * Capacity(old.log) /\ Capacity(old.log) \in Nat \ {0}
    BY <1>2, PowerStep, PowerType DEF Capacity
  <2>2. old.size \in Nat /\ new.size \in Nat /\ old.size + new.size <= Capacity(old.log)
    BY TableParts DEF Rehashing
  <2>3. QED BY <2>1, <2>2
<1>5. SUFFICES ASSUME \A j \in q .. end : j \in Elements(new) PROVE FALSE
  <2>1. SUFFICES ASSUME SlotsFor(new, k) = {} PROVE \A j \in Window(k, new.log) : new.data[j] # Free
    <3>1. Window(k, new.log) \subseteq DOMAIN new.data
      BY <1>1, <1>2, WindowInTable, TableParts
    <3>2. QED BY <3>1 DEF FindsSlot, Elements, Window
  <2>2. Unused(new, k) = {}
    BY <1>4, <2>1 DEF SlotsFor
  <2>3. QED BY <2>2 DEF Unused
<1> HIDE DEF k
<1> DEFINE A == {a \in Nat : a <= q /\ \A j \in a .. end : j \in Elements(new)}
<1>6. q \in A
  BY <1>3, <1>5
<1>7. PICK a \in A : \A b \in A : a <= b
  BY <1>6, LeastNat
<1>8. a \in Nat /\ a <= q /\ \A j \in a .. end : j \in Elements(new)
  BY <1>7
<1>9. a = 0 \/ a - 1 \notin Elements(new)
  <2>1. SUFFICES ASSUME a # 0, a - 1 \in Elements(new) PROVE FALSE
    OBVIOUS
  <2>2. a - 1 \in Nat /\ a - 1 <= q /\ \A j \in a - 1 .. end : j \in Elements(new)
    BY <1>2, <1>3, <1>8, <2>1
  <2>3. a - 1 \in A
    BY <2>2
  <2>4. QED BY <1>7, <1>8, <2>3
<1> HIDE DEF A
<1> DEFINE x == a \div 2
<1>10. x \in Nat /\ a \in {2 * x, 2 * x + 1}
  BY <1>8
<1>11. \A i \in a .. end : i \in Behind(new, x, old.log)
  <2>1. TAKE i \in a .. end
  <2> DEFINE l == new.data[i].key
  <2>2. i \in Elements(new) /\ l \in Keys /\ i \in Nat /\ a <= i
    BY <1>2, <1>3, <1>8, TableParts, NotFree
  <2>3. /\ Place(l, old.log) \in Nat /\ Place(l, new.log) \in Nat
        /\ Place(l, new.log) \in {2 * Place(l, old.log), 2 * Place(l, old.log) + 1}
    <3>1. Place(l, old.log) \in 0 .. Capacity(old.log) - 1 /\ Capacity(old.log) \in Nat
      BY <1>2, <2>2, PlaceInTable, WindowInTable
    <3>2. Place(l, new.log) \in 0 .. Capacity(new.log) - 1 /\ Capacity(new.log) \in Nat
      BY <1>2, <2>2, PlaceInTable, WindowInTable
    <3>3. Place(l, old.log + 1) \in {2 * Place(l, old.log), 2 * Place(l, old.log) + 1}
      BY <1>2, <2>2, PlaceDoubles
    <3>4. QED BY <1>2, <3>1, <3>2, <3>3
  <2> HIDE DEF l
  <2>4. Place(l, new.log) >= a
    <3>1. SUFFICES ASSUME Place(l, new.log) < a PROVE FALSE
      BY <1>8, <2>3
    <3>2. a # 0 /\ a - 1 \in Place(l, new.log) .. i - 1
      BY <1>8, <2>2, <2>3, <3>1
    <3>3. a - 1 \in Elements(new)
      BY <2>2, <3>2 DEF Rehashing, GapFree, l
    <3>4. QED BY <1>9, <3>2, <3>3
  <2>5. Place(l, old.log) >= x
    BY <1>8, <1>10, <2>3, <2>4
  <2>6. QED BY <2>2, <2>5 DEF Behind, l
<1>12. x \in 0 .. s
  BY <1>1, <1>3, <1>8, <1>10
<1>13. Cardinality(Behind(new, x, old.log)) <= s - x
  BY <1>12 DEF Rehashing
<1>14. /\ Cardinality(a .. end) = q + ProbeLength - a
       /\ Cardinality(a .. end) <= Cardinality(Behind(new, x, old.log))
       /\ Cardinality(Behind(new, x, old.log)) \in Nat
  <2>1. IsFiniteSet(Behind(new, x, old.log))
    BY TableParts, FS_Subset DEF Behind
  <2>2. a .. end \in SUBSET Behind(new, x, old.log)
    BY <1>11
  <2>3. Cardinality(a .. end) <= Cardinality(Behind(new, x, old.log)) /\ Cardinality(Behind(new, x, old.log)) \in Nat
    BY <2>1, <2>2, FS_Subset, FS_CardinalityType
  <2>4. a \in Int /\ end \in Int /\ a <= end /\ end - a + 1 = q + ProbeLength - a
    BY <1>2, <1>3, <1>8
  <2> HIDE DEF end
  <2>5. Cardinality(a .. end) = end - a + 1
    BY <2>4, FS_Interval
  <2>6. QED BY <2>3, <2>4, <2>5
<1> HIDE DEF s, p, q, x, end
<1>15. q + ProbeLength - a <= s - x
  BY <1>1, <1>2, <1>3, <1>8, <1>10, <1>13, <1>14
<1>16. QED BY <1>1, <1>2, <1>3, <1>8, <1>10, <1>12, <1>15

(* The steps between the two tables preserve what Rehashing says of them.      *)
LEMMA RehashingStarts ==
  ASSUME HashOK, NEW t, TableTypeOK(t), TableOK(t), t.cursor = 0, t.log + 1 < Bits
  PROVE  Rehashing(t, Create(t.log + 1))
<1> DEFINE u == Create(t.log + 1)
<1>1. t.log + 1 \in 1 .. Bits - 1 /\ t.size \in Nat /\ t.size <= Capacity(t.log)
  BY TableParts, HashmapAssumption DEF TableOK
<1>2. u.log = t.log + 1 /\ u.size = 0 /\ Elements(u) = {}
  BY <1>1, CreatedTable
<1> HIDE DEF u
<1>3. GapFree(u) /\ \A x \in 0 .. 0 : Cardinality(Behind(u, x, t.log)) <= 0 - x
  <2>1. \A x \in 0 .. 0 : Behind(u, x, t.log) = {}
    BY <1>2 DEF Behind
  <2>2. QED BY <1>2, <2>1, FS_EmptySet DEF GapFree
<1>4. \A i \in Elements(t) : i >= t.cursor
  BY TableParts
<1>5. QED BY <1>1, <1>2, <1>3, <1>4 DEF Rehashing, u

LEMMA BehindShrinks ==
  ASSUME NEW t, TableTypeOK(t), HashOK, NEW log \in 1 .. Bits - 1, NEW x \in Nat, NEW y \in Nat, x <= y
  PROVE  /\ IsFiniteSet(Behind(t, y, log)) /\ Cardinality(Behind(t, y, log)) \in Nat
         /\ Cardinality(Behind(t, y, log)) <= Cardinality(Behind(t, x, log)) /\ Cardinality(Behind(t, x, log)) \in Nat
<1>1. \A i \in Elements(t) : Place(t.data[i].key, log) \in Nat
  <2>1. TAKE i \in Elements(t)
  <2>2. t.data[i].key \in Keys
    BY TableParts, NotFree
  <2>3. Place(t.data[i].key, log) \in 0 .. Capacity(log) - 1
    BY <2>2, PlaceInTable
  <2>4. QED BY <2>3
<1>2. Behind(t, y, log) \in SUBSET Behind(t, x, log)
  BY <1>1 DEF Behind
<1>3. IsFiniteSet(Behind(t, x, log))
  BY TableParts, FS_Subset DEF Behind
<1>4. QED BY <1>2, <1>3, FS_Subset, FS_CardinalityType

LEMMA RehashingSkips ==
  ASSUME NEW old, NEW new, RehashAssumption(old, new), old.data[old.cursor] = Free
  PROVE  LET u == Passed(old)
         IN  TableTypeOK(u) /\ TableOK(u) /\ Rehashing(u, new) /\ Elements(u) = Elements(old) /\ u.data = old.data
<1> DEFINE s == old.cursor
           u == [old EXCEPT !.cursor = s + 1]
<1> USE DEF RehashAssumption
<1>1. s \in Slots(old.log) /\ s \in Nat /\ s + 1 <= Capacity(old.log) + ProbeLength
  <2>1. s \in Slots(old.log) /\ Slots(old.log) \subseteq Nat /\ Capacity(old.log) \in Nat /\ ProbeLength \in Nat
    BY TableParts, HashmapAssumption
  <2>2. QED BY <2>1 DEF Slots
<1>2. /\ u.data = old.data /\ u.log = old.log /\ u.cursor = s + 1 /\ u.size = old.size
      /\ Elements(u) = Elements(old) /\ TableTypeOK(u) /\ TableOK(u)
  BY <1>1, CursorMoved
<1>3. s \notin Elements(old)
  BY DEF Elements
<1> HIDE DEF u
<1>4. \A i \in Elements(u) : i >= u.cursor
  BY <1>1, <1>2, <1>3, TableParts DEF Rehashing
<1>5. \A x \in 0 .. u.cursor : Cardinality(Behind(new, x, u.log)) <= u.cursor - x
  <2>1. TAKE x \in 0 .. u.cursor
  <2>2. old.log \in 1 .. Bits - 1
    BY TableParts
  <2>3. CASE x <= s
    <3>1. Cardinality(Behind(new, x, old.log)) <= s - x
      BY <1>1, <1>2, <2>3 DEF Rehashing
    <3>2. Cardinality(Behind(new, x, old.log)) \in Nat
      BY <1>1, <1>2, <2>2, BehindShrinks
    <3>3. QED BY <1>1, <1>2, <3>1, <3>2
  <2>4. CASE x = s + 1
    <3>1. Cardinality(Behind(new, s, old.log)) <= s - s
      BY <1>1 DEF Rehashing
    <3>2. /\ Cardinality(Behind(new, x, old.log)) <= Cardinality(Behind(new, s, old.log))
          /\ Cardinality(Behind(new, s, old.log)) \in Nat /\ Cardinality(Behind(new, x, old.log)) \in Nat
      BY <1>1, <2>2, <2>4, BehindShrinks
    <3>3. QED BY <1>1, <1>2, <2>4, <3>1, <3>2
  <2>5. QED BY <1>1, <1>2, <2>3, <2>4
<1>6. Rehashing(u, new)
  BY <1>2, <1>4, <1>5 DEF Rehashing
<1>7. QED BY <1>2, <1>6 DEF u, Passed

LEMMA RehashingMoves ==
  ASSUME NEW old, NEW new, RehashAssumption(old, new), old.data[old.cursor] # Free
  PROVE  LET e == old.data[old.cursor]
             u == Passed(Cleared(old, old.cursor))
             v == Stored(new, e)
         IN  /\ e \in Element /\ old.cursor \in Elements(old)
             /\ TableTypeOK(u) /\ TableOK(u) /\ TableTypeOK(v) /\ TableOK(v) /\ Rehashing(u, v)
             /\ Elements(u) = Elements(old) \ {old.cursor} /\ \A i \in Elements(u) : u.data[i] = old.data[i]
             /\ \E sl : /\ sl \notin Elements(new) /\ Elements(v) = Elements(new) \cup {sl} /\ v.data[sl] = e
                        /\ \A i \in Elements(new) : v.data[i] = new.data[i]
<1> DEFINE s == old.cursor
           e == old.data[s]
           c == Cleared(old, s)
           u == [c EXCEPT !.cursor = s + 1]
           v == Stored(new, e)
           sl == Slot(new, e.key)
<1> USE DEF RehashAssumption
<1>1. /\ s \in Slots(old.log) /\ s \in Nat /\ s + 1 <= Capacity(old.log) + ProbeLength
      /\ s \in Elements(old) /\ e \in Element /\ e.key \in Keys
  <2>1. s \in Slots(old.log) /\ Slots(old.log) \subseteq Nat /\ Capacity(old.log) \in Nat /\ ProbeLength \in Nat
    BY TableParts, HashmapAssumption
  <2>2. s \in Elements(old)
    BY DEF Elements
  <2>3. QED BY <2>1, <2>2, TableParts, NotFree DEF Slots
<1>2. FindsSlot(new, e.key)
  BY MovingFinds
<1>3. \A i \in Elements(new) : new.data[i].key # e.key
  BY <1>1 DEF Rehashing
<1>4. Holding(new, e.key) = {}
  BY <1>1, <1>3, ValueMissing
<1>5. /\ sl \in Window(e.key, new.log) /\ sl \in Slots(new.log) /\ new.data[sl] = Free
      /\ \A j \in Window(e.key, new.log) : j < sl => new.data[j] # Free
  <2>1. \/ new.data[sl].key = e.key
        \/ new.data[sl] = Free /\ \A j \in Window(e.key, new.log) : j < sl => new.data[j] # Free
    BY <1>1, <1>2, SlotFound
  <2>2. sl \in Window(e.key, new.log) /\ sl \in Slots(new.log)
    BY <1>1, <1>2, SlotFound
  <2>3. new.data[sl].key # e.key
    BY <1>4, <2>2 DEF Holding
  <2>4. QED BY <2>1, <2>2, <2>3
<1>6. /\ v.data = [new.data EXCEPT ![sl] = e] /\ v.log = new.log /\ v.cursor = new.cursor
      /\ v.size = new.size + 1 /\ Elements(v) = Elements(new) \cup {sl} /\ TableTypeOK(v) /\ TableOK(v)
  BY <1>1, <1>2, <1>5, StoredTable
<1>7. /\ c.data = [old.data EXCEPT ![s] = Free] /\ c.log = old.log /\ c.cursor = s
      /\ c.size = old.size - 1 /\ c.size \in Nat
      /\ Elements(c) = Elements(old) \ {s} /\ TableTypeOK(c) /\ TableOK(c)
  BY <1>1, ClearedTable
<1> HIDE DEF c
<1>8. /\ u.data = c.data /\ u.log = old.log /\ u.cursor = s + 1 /\ u.size = old.size - 1
      /\ Elements(u) = Elements(old) \ {s} /\ TableTypeOK(u) /\ TableOK(u)
  BY <1>1, <1>7, CursorMoved
<1>9. sl \notin Elements(new) /\ DOMAIN new.data = Slots(new.log) /\ DOMAIN old.data = Slots(old.log)
  BY <1>5, TableParts DEF Elements
<1> HIDE DEF u, v, sl
<1>10. \A i \in Elements(u) : i \in Elements(old) /\ i # s /\ u.data[i] = old.data[i]
  BY <1>1, <1>7, <1>8, <1>9, TableParts
<1>11. v.data[sl] = e /\ \A i \in Elements(new) : v.data[i] = new.data[i]
  BY <1>5, <1>6, <1>9, TableParts
<1>12. \A i \in Elements(u) : i >= u.cursor
  BY <1>1, <1>8, <1>10, TableParts DEF Rehashing
<1>13. \A i \in Elements(u), j \in Elements(v) : u.data[i].key # v.data[j].key
  <2>1. TAKE i \in Elements(u), j \in Elements(v)
  <2>2. CASE j = sl
    BY <1>1, <1>10, <1>11, <2>2 DEF TableOK
  <2>3. CASE j \in Elements(new)
    BY <1>10, <1>11, <2>3 DEF Rehashing
  <2>4. QED BY <1>6, <2>2, <2>3
<1>14. GapFree(v)
  <2>1. SUFFICES ASSUME NEW i \in Elements(v), NEW j \in Place(v.data[i].key, v.log) .. i - 1 PROVE j \in Elements(v)
    BY DEF GapFree
  <2>2. CASE i = sl
    <3>1. /\ Place(e.key, new.log) \in Nat /\ sl \in Nat /\ ProbeLength \in Nat
          /\ sl <= Place(e.key, new.log) + ProbeLength - 1
      <4>1. new.log \in 1 .. Bits - 1 /\ Capacity(new.log) \in Nat
        BY TableParts
      <4>2. Place(e.key, new.log) \in 0 .. Capacity(new.log) - 1
        BY <1>1, <4>1, PlaceInTable
      <4>3. QED BY <1>5, <4>1, <4>2, HashmapAssumption DEF Window
    <3>2. j \in Place(e.key, new.log) .. sl - 1
      BY <1>6, <1>11, <2>2
    <3>3. j \in Window(e.key, new.log) /\ j < sl
      BY <3>1, <3>2 DEF Window
    <3>4. j \in Slots(new.log)
      BY <1>1, <3>3, WindowInTable, TableParts
    <3>5. j \in Elements(new)
      BY <1>5, <1>9, <3>3, <3>4 DEF Elements
    <3>6. QED BY <1>6, <3>5
  <2>3. CASE i \in Elements(new)
    <3>1. j \in Place(new.data[i].key, new.log) .. i - 1
      BY <1>6, <1>11, <2>3
    <3>2. QED BY <1>6, <2>3, <3>1 DEF Rehashing, GapFree
  <2>4. QED BY <1>6, <2>2, <2>3
<1>15. \A x \in 0 .. u.cursor : Cardinality(Behind(v, x, u.log)) <= u.cursor - x
  <2>1. TAKE x \in 0 .. u.cursor
  <2>2. x \in Nat /\ old.log \in 1 .. Bits - 1
    BY <1>1, <1>8, TableParts
  <2>3. Place(e.key, old.log) \in Nat /\ Place(e.key, old.log) <= s
    <3>1. s \in Window(e.key, old.log) /\ Capacity(old.log) \in Nat /\ ProbeLength \in Nat
      BY <1>1, HashmapAssumption, TableParts DEF TableOK
    <3>2. Place(e.key, old.log) \in 0 .. Capacity(old.log) - 1
      BY <1>1, <2>2, PlaceInTable
    <3>3. QED BY <1>1, <3>1, <3>2 DEF Window
  <2>4. CASE x <= s
    <3>1. Behind(v, x, old.log) \subseteq Behind(new, x, old.log) \cup {sl}
      BY <1>6, <1>11 DEF Behind
    <3>2. Cardinality(Behind(new, x, old.log)) <= s - x
      BY <1>1, <2>2, <2>4 DEF Rehashing
    <3>3. IsFiniteSet(Behind(new, x, old.log)) /\ Cardinality(Behind(new, x, old.log)) \in Nat
      BY <2>2, BehindShrinks
    <3>4. /\ IsFiniteSet(Behind(new, x, old.log) \cup {sl})
          /\ Cardinality(Behind(new, x, old.log) \cup {sl}) <= Cardinality(Behind(new, x, old.log)) + 1
          /\ Cardinality(Behind(new, x, old.log) \cup {sl}) \in Nat
      <4> DEFINE B == Behind(new, x, old.log)
      <4>1. IsFiniteSet(B) /\ Cardinality(B) \in Nat
        BY <3>3
      <4> HIDE DEF B
      <4>2. IsFiniteSet(B \cup {sl}) /\ (sl \notin B => Cardinality(B \cup {sl}) = Cardinality(B) + 1)
        BY <4>1, FS_AddElement
      <4>3. sl \in B => B \cup {sl} = B
        OBVIOUS
      <4>4. IsFiniteSet(B \cup {sl}) /\ Cardinality(B \cup {sl}) <= Cardinality(B) + 1 /\ Cardinality(B \cup {sl}) \in Nat
        <5>1. CASE sl \in B
          BY <4>1, <4>3, <5>1
        <5>2. CASE sl \notin B
          <6>1. Cardinality(B \cup {sl}) = Cardinality(B) + 1
            BY <4>2, <5>2
          <6>2. QED BY <4>1, <4>2, <6>1
        <5>3. QED BY <5>1, <5>2
      <4>5. QED BY <4>4 DEF B
    <3>5. /\ Cardinality(Behind(v, x, old.log)) <= Cardinality(Behind(new, x, old.log) \cup {sl})
          /\ Cardinality(Behind(v, x, old.log)) \in Nat
      BY <3>1, <3>4, FS_Subset, FS_CardinalityType
    <3>6. QED BY <1>1, <1>8, <2>2, <3>2, <3>3, <3>4, <3>5
  <2>5. CASE x = s + 1
    <3>1. Behind(v, x, old.log) \subseteq Behind(new, x, old.log)
      BY <1>1, <1>6, <1>11, <2>3, <2>5 DEF Behind
    <3>2. Cardinality(Behind(new, s, old.log)) <= s - s
      BY <1>1 DEF Rehashing
    <3>3. /\ Cardinality(Behind(new, x, old.log)) <= Cardinality(Behind(new, s, old.log))
          /\ Cardinality(Behind(new, s, old.log)) \in Nat /\ Cardinality(Behind(new, x, old.log)) \in Nat
          /\ IsFiniteSet(Behind(new, x, old.log))
      BY <1>1, <2>2, <2>5, BehindShrinks
    <3>4. Cardinality(Behind(v, x, old.log)) <= Cardinality(Behind(new, x, old.log)) /\ Cardinality(Behind(v, x, old.log)) \in Nat
      BY <3>1, <3>3, FS_Subset, FS_CardinalityType
    <3>5. QED BY <1>1, <1>8, <2>5, <3>2, <3>3, <3>4
  <2>6. QED BY <1>1, <1>8, <2>2, <2>4, <2>5
<1>16. v.log = u.log + 1 /\ u.size + v.size <= Capacity(u.log)
  BY <1>6, <1>8, TableParts DEF Rehashing
<1>17. Rehashing(u, v)
  BY <1>12, <1>13, <1>14, <1>15, <1>16 DEF Rehashing
<1>18. u = Passed(Cleared(old, old.cursor))
  BY <1>7 DEF u, c, Passed
<1>19. QED BY <1>1, <1>6, <1>8, <1>9, <1>10, <1>11, <1>17, <1>18 DEF v
-----------------------------------------------------------------------------
(* The invariant.  There are one or two levels, and an action leaves one or    *)
(* two of which the lemmas above say that they are in order.                  *)
LEMMA OneOrTwo ==
  ASSUME HashmapInv
  PROVE  /\ HashOK /\ request \in Element \cup {Free} /\ result \in Values \cup {NoValue, 0, 1}
         /\ \/ /\ Deep = 1 /\ levels = <<levels[1]>> /\ Top = levels[1]
            \/ /\ Deep = 2 /\ levels = <<levels[1], levels[2]>> /\ Top = levels[2] /\ Above = levels[1]
               /\ ~Idle /\ Rehashing(levels[1], levels[2]) /\ TableTypeOK(levels[2]) /\ TableOK(levels[2])
         /\ TableTypeOK(levels[1]) /\ TableOK(levels[1])
<1>1. /\ HashOK /\ request \in Element \cup {Free} /\ result \in Values \cup {NoValue, 0, 1}
      /\ Deep \in 1 .. 2 /\ levels = [n \in 1 .. Deep |-> levels[n]]
      /\ \A n \in 1 .. Deep : TableTypeOK(levels[n])
      /\ Deep = 2 => ~Idle /\ Rehashing(levels[1], levels[2])
  BY DEF HashmapInv, HashmapTypeOK, HashOK
<1>2. DOMAIN levels = 1 .. Deep
  BY <1>1
<1>3. \A n \in 1 .. Deep : TableOK(levels[n])
  BY <1>2 DEF HashmapInv, TablesOK
<1>4. CASE Deep = 1
  <2>1. levels = <<levels[1]>>
    BY <1>1, <1>4
  <2>2. QED BY <1>1, <1>3, <1>4, <2>1 DEF Top
<1>5. CASE Deep = 2
  <2>1. levels = <<levels[1], levels[2]>>
    BY <1>1, <1>5
  <2>2. QED BY <1>1, <1>3, <1>5, <2>1 DEF Top, Above
<1>6. QED BY <1>1, <1>4, <1>5

LEMMA OneLevel ==
  ASSUME NEW t, HashOK, TableTypeOK(t), TableOK(t), hash' = hash, levels' = <<t>>,
         request' \in Element \cup {Free}, result' \in Values \cup {NoValue, 0, 1}
  PROVE  HashmapInv'
<1>1. /\ Len(levels') = 1 /\ levels'[1] = t /\ DOMAIN levels' = 1 .. 1
      /\ levels' = [n \in 1 .. 1 |-> levels'[n]]
  OBVIOUS
<1>2. HashmapTypeOK'
  BY <1>1 DEF HashmapTypeOK, Deep, HashOK, TableTypeOK
<1>3. TablesOK'
  <2>1. TableOK(levels[1])'
    BY <1>1 DEF TableOK, Window, Place, Elements
  <2>2. QED BY <1>1, <2>1 DEF TablesOK
<1>4. QED BY <1>1, <1>2, <1>3 DEF HashmapInv, Deep

LEMMA TwoLevels ==
  ASSUME NEW t, NEW u, HashOK, TableTypeOK(t), TableTypeOK(u), TableOK(t), TableOK(u), Rehashing(t, u),
         hash' = hash, levels' = <<t, u>>, request' \in Element, result' \in Values \cup {NoValue, 0, 1}
  PROVE  HashmapInv'
<1>1. /\ Len(levels') = 2 /\ levels'[1] = t /\ levels'[2] = u /\ DOMAIN levels' = 1 .. 2
      /\ levels' = [n \in 1 .. 2 |-> levels'[n]] /\ request' # Free
  BY NotFree
<1>2. HashmapTypeOK'
  BY <1>1 DEF HashmapTypeOK, Deep, HashOK, TableTypeOK
<1>3. TablesOK'
  <2>1. TableOK(levels[1])' /\ TableOK(levels[2])'
    BY <1>1 DEF TableOK, Window, Place, Elements
  <2>2. QED BY <1>1, <2>1 DEF TablesOK
<1>4. Rehashing(levels[1], levels[2])'
  BY <1>1 DEF Rehashing, GapFree, Behind, Place, Elements
<1>5. QED BY <1>1, <1>2, <1>3, <1>4 DEF HashmapInv, Deep, Idle
-----------------------------------------------------------------------------
(* The actions, on a state of the invariant: from which levels to which.       *)
LEMMA ChosenHeld ==
  ASSUME HashOK, NEW t, TableTypeOK(t), TableOK(t), NEW k \in Keys, Holding(t, k) # {}
  PROVE  LET i == CHOOSE i \in Holding(t, k) : \A j \in Holding(t, k) : i <= j
         IN  i \in Elements(t) /\ t.data[i].key = k /\ ValueAt(t, k) = t.data[i].value
<1>1. Holding(t, k) = {i \in Elements(t) : t.data[i].key = k}
  BY HeldOnce
<1>2. PICK i \in Elements(t) : t.data[i].key = k
  BY <1>1
<1>3. Holding(t, k) = {i} /\ ValueAt(t, k) = t.data[i].value
  BY <1>2, ValueHeld
<1>4. i \in Nat
  BY TableParts
<1>5. (CHOOSE j \in Holding(t, k) : \A l \in Holding(t, k) : j <= l) = i
  BY <1>3, <1>4
<1>6. QED BY <1>2, <1>3, <1>5

LEMMA ValueType ==
  ASSUME HashOK, NEW t, TableTypeOK(t), TableOK(t), NEW k \in Keys
  PROVE  ValueAt(t, k) \in Values \cup {NoValue}
<1>1. CASE Holding(t, k) = {}
  BY <1>1 DEF ValueAt
<1>2. CASE Holding(t, k) # {}
  BY <1>2, ChosenHeld, ValueHeld
<1>3. QED BY <1>1, <1>2

LEMMA StoreStep ==
  ASSUME HashmapInv, Store
  PROVE  /\ HashOK /\ levels = <<levels[1]>> /\ TableTypeOK(levels[1]) /\ TableOK(levels[1])
         /\ request \in Element /\ FindsSlot(levels[1], request.key)
         /\ levels' = <<Stored(levels[1], request)>> /\ request' = Free /\ result' = 0 /\ hash' = hash
BY OneOrTwo DEF Store, Idle

LEMMA SkipStep ==
  ASSUME HashmapInv, Skip
  PROVE  /\ levels = <<levels[1], levels[2]>> /\ RehashAssumption(levels[1], levels[2])
         /\ levels[1].data[levels[1].cursor] = Free
         /\ levels' = <<Passed(levels[1]), levels[2]>>
         /\ hash' = hash /\ request' = request /\ result' = result
<1>1. /\ Deep = 2 /\ levels = <<levels[1], levels[2]>> /\ Above = levels[1]
      /\ RehashAssumption(levels[1], levels[2])
  BY OneOrTwo DEF Skip, Moving, RehashAssumption
<1>2. levels' = <<Passed(levels[1]), levels[2]>>
  BY <1>1 DEF Skip
<1>3. QED BY <1>1, <1>2 DEF Skip, Pending

LEMMA MoveStep ==
  ASSUME HashmapInv, Move
  PROVE  LET old == levels[1]
         IN  /\ levels = <<old, levels[2]>> /\ RehashAssumption(old, levels[2]) /\ old.data[old.cursor] # Free
             /\ levels' = <<Passed(Cleared(old, old.cursor)), Stored(levels[2], old.data[old.cursor])>>
             /\ hash' = hash /\ request' = request /\ result' = result
<1>1. /\ Deep = 2 /\ levels = <<levels[1], levels[2]>> /\ Above = levels[1]
      /\ RehashAssumption(levels[1], levels[2])
  BY OneOrTwo DEF Move, Moving, RehashAssumption
<1>2. Pending = levels[1].data[levels[1].cursor]
  BY <1>1 DEF Pending
<1>3. levels' = <<Passed(Cleared(levels[1], levels[1].cursor)), Stored(levels[2], Pending)>>
  BY <1>1 DEF Move
<1>4. QED BY <1>1, <1>2, <1>3 DEF Move

LEMMA NotCrowded == ASSUME HashmapInv PROVE MovesFindSlots
<1>1. SUFFICES ASSUME Deep > 1, Crowded PROVE FALSE
  BY DEF MovesFindSlots
<1>2. /\ Deep = 2 /\ Top = levels[2] /\ Above = levels[1] /\ RehashAssumption(levels[1], levels[2])
  BY <1>1, OneOrTwo DEF Crowded, Moving, RehashAssumption
<1>3. Pending = levels[1].data[levels[1].cursor] /\ Pending # Free /\ ~FindsSlot(levels[2], Pending.key)
  BY <1>1, <1>2 DEF Pending, Crowded
<1>4. QED BY <1>2, <1>3, MovingFinds

LEMMA GrowStep ==
  ASSUME HashmapInv, Grow
  PROVE  /\ HashOK /\ levels = <<levels[1]>> /\ TableTypeOK(levels[1]) /\ TableOK(levels[1])
         /\ levels[1].log + 1 < Bits /\ request \in Element
         /\ levels' = <<[levels[1] EXCEPT !.cursor = 0], Create(levels[1].log + 1)>>
         /\ hash' = hash /\ request' = request /\ result' = result
<1>1. Deep = 1 /\ levels = <<levels[1]>> /\ Top = levels[1]
  BY OneOrTwo, NotCrowded DEF Grow, MovesFindSlots
<1>2. levels' = <<[levels[1] EXCEPT !.cursor = 0], Create(levels[1].log + 1)>>
  <2>1. [levels EXCEPT ![Deep].cursor = 0] = <<[levels[1] EXCEPT !.cursor = 0]>>
    BY <1>1
  <2>2. ASSUME NEW t, NEW u PROVE Append(<<t>>, u) = <<t, u>>
    <3> DEFINE q == Append(<<t>>, u)
    <3>1. q \in Seq({t, u}) /\ Len(q) = 2 /\ q[1] = t /\ q[2] = u
      OBVIOUS
    <3> HIDE DEF q
    <3>2. q = <<t, u>>
      BY <3>1
    <3>3. QED BY <3>2 DEF q
  <2>3. levels' = Append([levels EXCEPT ![Deep].cursor = 0], Create(Top.log + 1))
    BY DEF Grow
  <2>4. QED BY <1>1, <2>1, <2>2, <2>3
<1>3. QED BY <1>1, <1>2, OneOrTwo DEF Grow, Crowded, Idle

LEMMA ReplaceStep ==
  ASSUME HashmapInv, Replace
  PROVE  LET old == levels[1]
             new == levels[2]
         IN  /\ HashOK /\ levels = <<old, new>> /\ Rehashing(old, new) /\ old.cursor \notin DOMAIN old.data
             /\ TableTypeOK(old) /\ TableOK(old) /\ TableTypeOK(new) /\ TableOK(new)
             /\ levels' = <<new>> /\ hash' = hash /\ request' = request /\ result' = result
<1>1. Deep = 2 /\ levels = <<levels[1], levels[2]>> /\ Top = levels[2] /\ Above = levels[1]
  BY OneOrTwo DEF Replace
<1>2. SubSeq(levels, 1, Deep - 2) = << >>
  BY <1>1
<1>3. levels' = <<levels[2]>>
  <2>1. \A t : Append(<< >>, t) = <<t>>
    OBVIOUS
  <2>2. levels' = Append(SubSeq(levels, 1, Deep - 2), Top)
    BY DEF Replace
  <2>3. QED BY <1>1, <1>2, <2>1, <2>2
<1>4. levels[1].cursor \notin DOMAIN levels[1].data
  BY <1>1 DEF Replace, Moving
<1>5. hash' = hash /\ request' = request /\ result' = result
  BY DEF Replace
<1>6. QED BY <1>1, <1>3, <1>4, <1>5, OneOrTwo

LEMMA ExhaustedStep ==
  ASSUME HashmapInv, Exhausted
  PROVE  /\ HashOK /\ levels = <<levels[1]>> /\ TableTypeOK(levels[1]) /\ TableOK(levels[1]) /\ request \in Element
         /\ levels' = levels /\ request' = Free /\ result' = 1 /\ hash' = hash
BY OneOrTwo, NotCrowded DEF Exhausted, MovesFindSlots, Crowded, Idle

LEMMA CallStep ==
  ASSUME HashmapInv, Idle
  PROVE  /\ HashOK /\ levels = <<levels[1]>> /\ TableTypeOK(levels[1]) /\ TableOK(levels[1])
         /\ Top = levels[1] /\ request = Free /\ result \in Values \cup {NoValue, 0, 1}
BY OneOrTwo DEF Idle
-----------------------------------------------------------------------------
LEMMA InitInv == Init => HashmapInv
<1> SUFFICES ASSUME Init PROVE HashmapInv
  OBVIOUS
<1>1. InitialLog \in 1 .. Bits - 1 /\ HashOK
  BY HashmapAssumption DEF Init, HashOK
<1> DEFINE t == Create(InitialLog)
<1>2. TableTypeOK(t) /\ TableOK(t)
  BY <1>1, CreatedTable
<1>3. levels = <<t>> /\ request = Free /\ result = NoValue
  BY DEF Init
<1> HIDE DEF t
<1>4. Len(levels) = 1 /\ levels[1] = t /\ DOMAIN levels = 1 .. 1 /\ levels = [n \in 1 .. 1 |-> levels[n]]
  BY <1>3
<1>5. HashmapTypeOK
  BY <1>1, <1>2, <1>3, <1>4 DEF HashmapTypeOK, Deep, HashOK
<1>6. TablesOK
  BY <1>2, <1>4 DEF TablesOK
<1>7. QED BY <1>4, <1>5, <1>6 DEF HashmapInv, Deep

LEMMA NextInv == HashmapInv /\ [Next]_vars => HashmapInv'
<1> SUFFICES ASSUME HashmapInv, [Next]_vars PROVE HashmapInv'
  OBVIOUS
<1> DEFINE t == levels[1]
           u == levels[2]
<1>1. HashOK /\ request \in Element \cup {Free} /\ result \in Values \cup {NoValue, 0, 1}
  BY OneOrTwo
<1>2. CASE Store
  <2>1. TableTypeOK(Stored(t, request)) /\ TableOK(Stored(t, request))
    BY <1>2, StoreStep, StoredTable
  <2>2. QED BY <1>2, <2>1, StoreStep, OneLevel
<1>3. CASE Skip
  <2>1. /\ RehashAssumption(t, u) /\ levels' = <<Passed(t), u>> /\ t.data[t.cursor] = Free
        /\ hash' = hash /\ request' = request /\ result' = result
    BY <1>3, SkipStep
  <2>2. TableTypeOK(Passed(t)) /\ TableOK(Passed(t)) /\ Rehashing(Passed(t), u)
    BY <2>1, RehashingSkips
  <2>3. request \in Element /\ TableTypeOK(u) /\ TableOK(u)
    BY <1>1, <1>3, <2>1, OneOrTwo DEF Skip, Moving, Idle, RehashAssumption
  <2>4. QED BY <1>1, <2>1, <2>2, <2>3, TwoLevels
<1>4. CASE Move
  <2> DEFINE a == Passed(Cleared(t, t.cursor))
             b == Stored(u, t.data[t.cursor])
  <2>1. /\ RehashAssumption(t, u) /\ levels' = <<a, b>> /\ t.data[t.cursor] # Free
        /\ hash' = hash /\ request' = request /\ result' = result
    BY <1>4, MoveStep
  <2>2. TableTypeOK(a) /\ TableOK(a) /\ TableTypeOK(b) /\ TableOK(b) /\ Rehashing(a, b)
    BY <2>1, RehashingMoves
  <2>3. request \in Element
    BY <1>1, <1>4, OneOrTwo DEF Move, Moving, Idle
  <2> HIDE DEF a, b
  <2>4. QED BY <1>1, <2>1, <2>2, <2>3, TwoLevels
<1>5. CASE Grow
  <2> DEFINE a == [t EXCEPT !.cursor = 0]
             b == Create(t.log + 1)
  <2>1. /\ TableTypeOK(t) /\ TableOK(t) /\ t.log + 1 < Bits /\ request \in Element
        /\ levels' = <<a, b>> /\ hash' = hash /\ request' = request /\ result' = result
    BY <1>5, GrowStep
  <2>2. t.log \in Nat /\ t.log + 1 \in 1 .. Bits - 1 /\ 0 <= Capacity(t.log) + ProbeLength
    BY <2>1, TableParts, HashmapAssumption
  <2>3. TableTypeOK(a) /\ TableOK(a) /\ a.cursor = 0 /\ a.log = t.log
    BY <2>1, <2>2, CursorMoved
  <2>4. TableTypeOK(b) /\ TableOK(b)
    BY <2>2, CreatedTable
  <2> HIDE DEF a
  <2>5. Rehashing(a, b)
    BY <1>1, <2>1, <2>3, RehashingStarts
  <2> HIDE DEF b
  <2>6. QED BY <1>1, <2>1, <2>3, <2>4, <2>5, TwoLevels
<1>6. CASE Replace
  BY <1>1, <1>6, ReplaceStep, OneLevel
<1>7. CASE Exhausted
  BY <1>1, <1>7, ExhaustedStep, OneLevel
<1>8. ASSUME NEW k \in Keys \cup {NoKey}, NEW v \in Values, Put(k, v) PROVE HashmapInv'
  <2>1. levels = <<t>> /\ TableTypeOK(t) /\ TableOK(t)
    BY <1>8, CallStep DEF Put
  <2>2. levels' = levels /\ hash' = hash
    BY <1>8 DEF Put
  <2>3. request' \in Element \cup {Free} /\ result' \in Values \cup {NoValue, 0, 1}
    BY <1>1, <1>8 DEF Put, Idle, Element
  <2>4. QED BY <1>1, <2>1, <2>2, <2>3, OneLevel
<1>9. ASSUME NEW k \in Keys \cup {NoKey}, Get(k) PROVE HashmapInv'
  <2>1. levels = <<t>> /\ TableTypeOK(t) /\ TableOK(t) /\ Top = t
    BY <1>9, CallStep DEF Get
  <2>2. request' = request /\ levels' = levels /\ hash' = hash /\ result' = IF k = NoKey THEN NoValue ELSE ValueAt(t, k)
    BY <1>9, <2>1 DEF Get
  <2>3. result' \in Values \cup {NoValue, 0, 1}
    BY <1>1, <2>1, <2>2, ValueType
  <2>4. QED BY <1>1, <2>1, <2>2, <2>3, OneLevel
<1>10. ASSUME NEW k \in Keys \cup {NoKey}, Remove(k) PROVE HashmapInv'
  <2> DEFINE i == CHOOSE i \in Holding(t, k) : \A j \in Holding(t, k) : i <= j
  <2>1. levels = <<t>> /\ TableTypeOK(t) /\ TableOK(t) /\ Top = t
    BY <1>10, CallStep DEF Remove
  <2>2. request' = request /\ hash' = hash
    BY <1>10 DEF Remove
  <2>3. CASE k = NoKey \/ Holding(t, k) = {}
    BY <1>1, <1>10, <2>1, <2>2, <2>3, OneLevel DEF Remove
  <2>4. CASE k \in Keys /\ Holding(t, k) # {}
    <3>1. result' = 0 /\ levels' = <<Cleared(t, i)>>
      BY <1>10, <2>1, <2>4, HashmapAssumption DEF Remove
    <3>2. i \in Elements(t)
      BY <1>1, <2>1, <2>4, ChosenHeld
    <3> HIDE DEF i
    <3>3. TableTypeOK(Cleared(t, i)) /\ TableOK(Cleared(t, i))
      BY <2>1, <3>2, ClearedTable
    <3>4. QED BY <1>1, <2>2, <3>1, <3>3, OneLevel
  <2>5. QED BY <2>3, <2>4
<1>11. CASE UNCHANGED vars
  <2>1. hash' = hash /\ levels' = levels /\ request' = request /\ result' = result
    BY <1>11 DEF vars
  <2>2. CASE Deep = 1
    BY <1>1, <2>1, <2>2, OneOrTwo, OneLevel
  <2>3. CASE Deep = 2
    BY <1>1, <2>1, <2>3, OneOrTwo, TwoLevels DEF Idle
  <2>4. QED BY <2>2, <2>3, OneOrTwo
<1>12. QED BY <1>2, <1>3, <1>4, <1>5, <1>6, <1>7, <1>8, <1>9, <1>10, <1>11 DEF Next, Work, Call

(* HashmapInv holds in every state: besides TablesOK, at most two tables are    *)
(* in progress, and between them what Rehashing says.                         *)
THEOREM HashmapInvariant == Spec => []HashmapInv
BY InitInv, NextInv, PTL DEF Spec

(* TablesOK: in every table, also those being moved to, each key lies once and *)
(* near its place, and the size counts the elements.                         *)
THEOREM TablesAlwaysOK == Spec => []TablesOK
<1>1. HashmapInv => TablesOK
  BY DEF HashmapInv
<1>2. QED BY <1>1, HashmapInvariant, PTL

(* MovesFindSlots: hashmap_rehash_iterator finds a slot for every element, so   *)
(* that a table is never outgrown, and never thrown away with elements in it.   *)
THEOREM MovingNeverFails == Spec => []MovesFindSlots
BY NotCrowded, HashmapInvariant, PTL
-----------------------------------------------------------------------------
(* The map.  What get finds in the levels, before and after a step.            *)
Either(t, u, k) == IF ValueAt(t, k) # NoValue THEN ValueAt(t, k) ELSE ValueAt(u, k)

LEMMA OneContents ==
  ASSUME NEW t, levels = <<t>>
  PROVE  Contents = [k \in Keys |-> ValueAt(t, k)]
<1>1. levels[1] = t /\ DOMAIN levels = {1}
  OBVIOUS
<1>2. \A k : Found(k) = {ValueAt(t, k)} \ {NoValue}
  BY <1>1 DEF Found
<1>3. \A k \in Keys : (IF Found(k) = {} THEN NoValue ELSE CHOOSE v \in Found(k) : TRUE) = ValueAt(t, k)
  BY <1>2
<1>4. QED BY <1>3 DEF Contents

LEMMA TwoContents ==
  ASSUME NEW t, NEW u, levels = <<t, u>>, \A k \in Keys : ValueAt(t, k) = NoValue \/ ValueAt(u, k) = NoValue
  PROVE  Contents = [k \in Keys |-> Either(t, u, k)]
<1>1. levels[1] = t /\ levels[2] = u /\ DOMAIN levels = {1, 2}
  OBVIOUS
<1>2. \A k : Found(k) = {ValueAt(t, k), ValueAt(u, k)} \ {NoValue}
  BY <1>1 DEF Found
<1>3. \A k \in Keys : (IF Found(k) = {} THEN NoValue ELSE CHOOSE v \in Found(k) : TRUE) = Either(t, u, k)
  BY <1>2 DEF Either
<1>4. QED BY <1>3 DEF Contents

LEMMA ValueAfter ==
  ASSUME NEW t, hash' = hash, NEW n, levels'[n] = t, NEW k
  PROVE  ValueAt(levels[n], k)' = ValueAt(t, k)
<1>1. Holding(levels[n], k)' = Holding(t, k)
  BY DEF Holding, Window, Place
<1>2. QED BY <1>1 DEF ValueAt

LEMMA OneContentsAfter ==
  ASSUME NEW t, hash' = hash, levels' = <<t>>
  PROVE  Contents' = [k \in Keys |-> ValueAt(t, k)]
<1>1. levels'[1] = t /\ DOMAIN levels' = {1}
  OBVIOUS
<1>2. \A k \in Keys : Found(k)' = {ValueAt(t, k)} \ {NoValue}
  BY <1>1, ValueAfter DEF Found
<1>3. \A k \in Keys : (IF Found(k)' = {} THEN NoValue ELSE CHOOSE v \in Found(k)' : TRUE) = ValueAt(t, k)
  BY <1>2
<1>4. QED BY <1>3 DEF Contents

LEMMA TwoContentsAfter ==
  ASSUME NEW t, NEW u, hash' = hash, levels' = <<t, u>>, \A k \in Keys : ValueAt(t, k) = NoValue \/ ValueAt(u, k) = NoValue
  PROVE  Contents' = [k \in Keys |-> Either(t, u, k)]
<1>1. levels'[1] = t /\ levels'[2] = u /\ DOMAIN levels' = {1, 2}
  OBVIOUS
<1>2. \A k \in Keys : Found(k)' = {ValueAt(t, k), ValueAt(u, k)} \ {NoValue}
  BY <1>1, ValueAfter DEF Found
<1>3. \A k \in Keys : (IF Found(k)' = {} THEN NoValue ELSE CHOOSE v \in Found(k)' : TRUE) = Either(t, u, k)
  BY <1>2 DEF Either
<1>4. QED BY <1>3 DEF Contents

LEMMA SameValue ==
  ASSUME HashOK, NEW t, NEW u, TableTypeOK(t), TableOK(t), TableTypeOK(u), TableOK(u), NEW k \in Keys,
         \A i \in Elements(t) : t.data[i].key = k => i \in Elements(u) /\ u.data[i] = t.data[i],
         \A i \in Elements(u) : u.data[i].key = k => i \in Elements(t) /\ t.data[i] = u.data[i]
  PROVE  ValueAt(u, k) = ValueAt(t, k)
<1>1. CASE \E i \in Elements(t) : t.data[i].key = k
  <2>1. PICK i \in Elements(t) : t.data[i].key = k
    BY <1>1
  <2>2. i \in Elements(u) /\ u.data[i] = t.data[i]
    BY <2>1
  <2>3. ValueAt(t, k) = t.data[i].value
    BY <2>1, ValueHeld
  <2>4. ValueAt(u, k) = u.data[i].value
    BY <2>1, <2>2, ValueHeld
  <2>5. QED BY <2>2, <2>3, <2>4
<1>2. CASE \A i \in Elements(t) : t.data[i].key # k
  <2>1. \A i \in Elements(u) : u.data[i].key # k
    BY <1>2
  <2>2. QED BY <1>2, <2>1, ValueMissing
<1>3. QED BY <1>1, <1>2

(* The steps: storing changes the value of one key, clearing removes it, and    *)
(* the steps between two tables change nothing.                              *)
LEMMA StoredValues ==
  ASSUME HashOK, NEW t, TableTypeOK(t), TableOK(t), NEW e \in Element, FindsSlot(t, e.key), NEW k \in Keys
  PROVE  ValueAt(Stored(t, e), k) = IF k = e.key THEN e.value ELSE ValueAt(t, k)
<1> DEFINE s == Slot(t, e.key)
           u == Stored(t, e)
<1>1. e.key \in Keys /\ e # Free
  BY NotFree
<1>2. /\ u.data = [t.data EXCEPT ![s] = e] /\ s \in Slots(t.log) /\ Elements(u) = Elements(t) \cup {s}
      /\ TableTypeOK(u) /\ TableOK(u)
  BY StoredTable
<1>3. t.data[s].key = e.key \/ t.data[s] = Free
  BY <1>1, SlotFound
<1> HIDE DEF s, u
<1>4. u.data[s] = e /\ \A i \in Elements(t) : i # s => u.data[i] = t.data[i]
  BY <1>2, TableParts
<1>5. CASE k = e.key
  <2>1. s \in Elements(u) /\ u.data[s].key = k
    BY <1>2, <1>4, <1>5
  <2>2. ValueAt(u, u.data[s].key) = u.data[s].value
    BY <1>2, <2>1, ValueHeld
  <2>3. QED BY <1>4, <1>5, <2>1, <2>2 DEF u
<1>6. CASE k # e.key
  <2>1. ASSUME NEW i \in Elements(t), t.data[i].key = k PROVE i \in Elements(u) /\ u.data[i] = t.data[i]
    <3>1. i # s
      BY <1>3, <1>6, <2>1 DEF Elements
    <3>2. QED BY <1>2, <1>4, <3>1
  <2>2. ASSUME NEW i \in Elements(u), u.data[i].key = k PROVE i \in Elements(t) /\ t.data[i] = u.data[i]
    BY <1>2, <1>4, <1>6, <2>2
  <2>3. ValueAt(u, k) = ValueAt(t, k)
    BY <1>2, <2>1, <2>2, SameValue
  <2>4. QED BY <1>6, <2>3 DEF u
<1>7. QED BY <1>5, <1>6

LEMMA ClearedValues ==
  ASSUME HashOK, NEW t, TableTypeOK(t), TableOK(t), NEW i \in Elements(t), NEW k \in Keys
  PROVE  ValueAt(Cleared(t, i), k) = IF k = t.data[i].key THEN NoValue ELSE ValueAt(t, k)
<1> DEFINE u == Cleared(t, i)
<1>1. /\ u.data = [t.data EXCEPT ![i] = Free] /\ Elements(u) = Elements(t) \ {i}
      /\ TableTypeOK(u) /\ TableOK(u)
  BY ClearedTable
<1> HIDE DEF u
<1>2. \A j \in Elements(u) : j \in Elements(t) /\ j # i /\ u.data[j] = t.data[j]
  BY <1>1, TableParts
<1>3. CASE k = t.data[i].key
  <2>1. \A j \in Elements(u) : u.data[j].key # k
    BY <1>2, <1>3 DEF TableOK
  <2>2. QED BY <1>1, <1>3, <2>1, ValueMissing DEF u
<1>4. CASE k # t.data[i].key
  <2>1. \A j \in Elements(t) : t.data[j].key = k => j \in Elements(u) /\ u.data[j] = t.data[j]
    BY <1>1, <1>2, <1>4
  <2>2. \A j \in Elements(u) : u.data[j].key = k => j \in Elements(t) /\ t.data[j] = u.data[j]
    BY <1>2
  <2>3. ValueAt(u, k) = ValueAt(t, k)
    BY <1>1, <2>1, <2>2, SameValue
  <2>4. QED BY <1>4, <2>3 DEF u
<1>5. QED BY <1>3, <1>4

LEMMA PassedValues ==
  ASSUME NEW t, TableTypeOK(t), NEW k
  PROVE  ValueAt(Passed(t), k) = ValueAt(t, k) /\ ValueAt([t EXCEPT !.cursor = 0], k) = ValueAt(t, k)
<1>1. ASSUME NEW u, u.data = t.data, u.log = t.log PROVE ValueAt(u, k) = ValueAt(t, k)
  BY <1>1 DEF ValueAt, Holding
<1>2. Passed(t).data = t.data /\ Passed(t).log = t.log
  BY DEF Passed, TableTypeOK
<1>3. [t EXCEPT !.cursor = 0].data = t.data /\ [t EXCEPT !.cursor = 0].log = t.log
  BY DEF TableTypeOK
<1>4. QED BY <1>1, <1>2, <1>3

LEMMA OneOfTwo ==
  ASSUME HashOK, NEW t, NEW u, TableTypeOK(t), TableOK(t), TableTypeOK(u), TableOK(u), Rehashing(t, u)
  PROVE  \A k \in Keys : ValueAt(t, k) = NoValue \/ ValueAt(u, k) = NoValue
<1> SUFFICES ASSUME NEW k \in Keys, ValueAt(t, k) # NoValue PROVE ValueAt(u, k) = NoValue
  OBVIOUS
<1>1. PICK i \in Elements(t) : t.data[i].key = k
  BY ValueMissing
<1>2. \A j \in Elements(u) : u.data[j].key # k
  BY <1>1 DEF Rehashing
<1>3. QED BY <1>2, ValueMissing

LEMMA SkipContents == ASSUME HashmapInv, Skip PROVE Contents' = Contents
<1> DEFINE t == levels[1]
           u == levels[2]
<1>1. /\ levels = <<t, u>> /\ RehashAssumption(t, u) /\ t.data[t.cursor] = Free
      /\ levels' = <<Passed(t), u>> /\ hash' = hash
  BY SkipStep
<1>2. \A k \in Keys : ValueAt(Passed(t), k) = ValueAt(t, k)
  BY <1>1, PassedValues DEF RehashAssumption
<1>3. \A k \in Keys : ValueAt(t, k) = NoValue \/ ValueAt(u, k) = NoValue
  BY <1>1, OneOfTwo DEF RehashAssumption
<1> HIDE DEF t, u
<1>4. Contents = [k \in Keys |-> Either(t, u, k)]
  BY <1>1, <1>3, TwoContents
<1>5. Contents' = [k \in Keys |-> Either(Passed(t), u, k)]
  BY <1>1, <1>2, <1>3, TwoContentsAfter
<1>6. \A k \in Keys : Either(Passed(t), u, k) = Either(t, u, k)
  BY <1>2 DEF Either
<1>7. QED BY <1>4, <1>5, <1>6

LEMMA MoveContents == ASSUME HashmapInv, Move PROVE Contents' = Contents
<1> DEFINE t == levels[1]
           u == levels[2]
           e == t.data[t.cursor]
           a == Passed(Cleared(t, t.cursor))
           b == Stored(u, e)
<1>1. /\ levels = <<t, u>> /\ RehashAssumption(t, u) /\ e # Free
      /\ levels' = <<a, b>> /\ hash' = hash
  BY MoveStep
<1>2. /\ HashOK /\ TableTypeOK(t) /\ TableOK(t) /\ TableTypeOK(u) /\ TableOK(u) /\ Rehashing(t, u)
  BY <1>1 DEF RehashAssumption
<1>3. /\ e \in Element /\ t.cursor \in Elements(t) /\ e.key \in Keys /\ FindsSlot(u, e.key)
      /\ TableTypeOK(a) /\ TableOK(a) /\ TableTypeOK(b) /\ TableOK(b) /\ Rehashing(a, b)
  <2>1. e \in Element /\ t.cursor \in Elements(t)
    BY <1>1, RehashingMoves
  <2>2. TableTypeOK(a) /\ TableOK(a) /\ TableTypeOK(b) /\ TableOK(b) /\ Rehashing(a, b)
    BY <1>1, RehashingMoves
  <2>3. QED BY <1>1, <2>1, <2>2, NotFree, MovingFinds
<1>4. ASSUME NEW k \in Keys PROVE ValueAt(a, k) = IF k = e.key THEN NoValue ELSE ValueAt(t, k)
  <2>1. ValueAt(Cleared(t, t.cursor), k) = IF k = e.key THEN NoValue ELSE ValueAt(t, k)
    BY <1>2, <1>3, ClearedValues
  <2>2. TableTypeOK(Cleared(t, t.cursor))
    BY <1>2, <1>3, ClearedTable
  <2>3. QED BY <2>1, <2>2, PassedValues
<1>5. \A k \in Keys : ValueAt(b, k) = IF k = e.key THEN e.value ELSE ValueAt(u, k)
  BY <1>2, <1>3, StoredValues
<1>6. ValueAt(t, e.key) = e.value /\ ValueAt(u, e.key) = NoValue /\ e.value # NoValue
  <2>1. ValueAt(t, e.key) = e.value /\ e.value \in Values
    BY <1>2, <1>3, ValueHeld
  <2>2. e.value # NoValue
    BY <2>1, HashmapAssumption
  <2>3. QED BY <1>2, <1>3, <2>1, <2>2, OneOfTwo
<1>7. \A k \in Keys : ValueAt(t, k) = NoValue \/ ValueAt(u, k) = NoValue
  BY <1>2, OneOfTwo
<1>8. \A k \in Keys : ValueAt(a, k) = NoValue \/ ValueAt(b, k) = NoValue
  BY <1>2, <1>3, OneOfTwo
<1> HIDE DEF t, u, e, a, b
<1>9. Contents = [k \in Keys |-> Either(t, u, k)]
  BY <1>1, <1>7, TwoContents
<1>10. Contents' = [k \in Keys |-> Either(a, b, k)]
  BY <1>1, <1>8, TwoContentsAfter
<1>11. \A k \in Keys : Either(a, b, k) = Either(t, u, k)
  BY <1>4, <1>5, <1>6 DEF Either
<1>12. QED BY <1>9, <1>10, <1>11

LEMMA GrowContents == ASSUME HashmapInv, Grow PROVE Contents' = Contents
<1> DEFINE t == levels[1]
           a == [t EXCEPT !.cursor = 0]
           b == Create(t.log + 1)
<1>1. /\ HashOK /\ levels = <<t>> /\ TableTypeOK(t) /\ TableOK(t) /\ t.log + 1 < Bits
      /\ levels' = <<a, b>> /\ hash' = hash
  BY GrowStep
<1>2. \A k \in Keys : ValueAt(a, k) = ValueAt(t, k)
  BY <1>1, PassedValues
<1>3. \A k \in Keys : ValueAt(b, k) = NoValue
  <2>1. t.log + 1 \in 1 .. Bits - 1
    BY <1>1, TableParts, HashmapAssumption
  <2>2. TableTypeOK(b) /\ TableOK(b) /\ Elements(b) = {}
    BY <2>1, CreatedTable
  <2> HIDE DEF b
  <2>3. QED BY <1>1, <2>2, ValueMissing
<1> HIDE DEF t, a, b
<1>4. Contents = [k \in Keys |-> ValueAt(t, k)]
  BY <1>1, OneContents
<1>5. Contents' = [k \in Keys |-> Either(a, b, k)]
  BY <1>1, <1>3, TwoContentsAfter
<1>6. \A k \in Keys : Either(a, b, k) = ValueAt(t, k)
  BY <1>2, <1>3 DEF Either
<1>7. QED BY <1>4, <1>5, <1>6

LEMMA ReplaceContents == ASSUME HashmapInv, Replace PROVE Contents' = Contents
<1> DEFINE t == levels[1]
           u == levels[2]
<1>1. /\ HashOK /\ levels = <<t, u>> /\ Rehashing(t, u) /\ t.cursor \notin DOMAIN t.data
      /\ TableTypeOK(t) /\ TableOK(t) /\ levels' = <<u>> /\ hash' = hash
  BY ReplaceStep
<1>2. Elements(t) = {}
  <2>1. SUFFICES ASSUME NEW i \in Elements(t) PROVE FALSE
    OBVIOUS
  <2>2. i \in Slots(t.log) /\ t.cursor \in Nat /\ t.cursor \notin Slots(t.log) /\ t.cursor <= i
    BY <1>1, TableParts DEF Rehashing, TableTypeOK
  <2>3. Capacity(t.log) \in Nat /\ ProbeLength \in Nat
    BY <1>1, TableParts, HashmapAssumption
  <2>4. QED BY <2>2, <2>3 DEF Slots
<1>3. \A k \in Keys : ValueAt(t, k) = NoValue
  BY <1>1, <1>2, ValueMissing
<1> HIDE DEF t, u
<1>4. Contents = [k \in Keys |-> Either(t, u, k)]
  BY <1>1, <1>3, TwoContents
<1>5. Contents' = [k \in Keys |-> ValueAt(u, k)]
  BY <1>1, OneContentsAfter
<1>6. \A k \in Keys : Either(t, u, k) = ValueAt(u, k)
  BY <1>3 DEF Either
<1>7. QED BY <1>4, <1>5, <1>6
-----------------------------------------------------------------------------
LEMMA InitMap == Init => M!MapInit
<1> SUFFICES ASSUME Init PROVE M!MapInit
  OBVIOUS
<1> DEFINE t == Create(InitialLog)
<1>1. HashOK /\ levels = <<t>> /\ request = Free /\ result = NoValue
  BY HashmapAssumption DEF Init, HashOK
<1>2. InitialLog \in 1 .. Bits - 1
  BY HashmapAssumption
<1>3. TableTypeOK(t) /\ TableOK(t) /\ Elements(t) = {}
  BY <1>2, CreatedTable
<1> HIDE DEF t
<1>4. \A k \in Keys : ValueAt(t, k) = NoValue
  BY <1>1, <1>3, ValueMissing
<1>5. Contents = [k \in Keys |-> NoValue]
  BY <1>1, <1>4, OneContents
<1>6. QED BY <1>1, <1>5 DEF M!MapInit, M!NoRequest, Free

LEMMA NextMap == HashmapInv /\ [Next]_vars => [M!MapNext]_<<Contents, request, result>>
<1> SUFFICES ASSUME HashmapInv, [Next]_vars PROVE [M!MapNext]_<<Contents, request, result>>
  OBVIOUS
<1> DEFINE t == levels[1]
<1>1. CASE Store
  <2>1. /\ HashOK /\ levels = <<t>> /\ TableTypeOK(t) /\ TableOK(t) /\ request \in Element
        /\ FindsSlot(t, request.key) /\ levels' = <<Stored(t, request)>>
        /\ request' = Free /\ result' = 0 /\ hash' = hash
    BY <1>1, StoreStep
  <2>2. request # Free /\ request.key \in Keys
    BY <2>1, NotFree
  <2>3. \A k \in Keys : ValueAt(Stored(t, request), k) = IF k = request.key THEN request.value ELSE ValueAt(t, k)
    BY <2>1, StoredValues
  <2>4. Contents = [k \in Keys |-> ValueAt(t, k)]
    BY <2>1, OneContents
  <2>5. Contents' = [k \in Keys |-> ValueAt(Stored(t, request), k)]
    BY <2>1, OneContentsAfter
  <2> HIDE DEF t
  <2>6. Contents' = [Contents EXCEPT ![request.key] = request.value]
    BY <2>2, <2>3, <2>4, <2>5
  <2>7. QED BY <2>1, <2>2, <2>6 DEF M!MapNext, M!PutEnds, M!NoRequest, Free
<1>2. CASE Skip
  BY <1>2, SkipContents DEF Skip
<1>3. CASE Move
  BY <1>3, MoveContents DEF Move
<1>4. CASE Grow
  BY <1>4, GrowContents DEF Grow
<1>5. CASE Replace
  BY <1>5, ReplaceContents DEF Replace
<1>6. CASE Exhausted
  <2>1. /\ levels = <<t>> /\ request \in Element /\ levels' = <<t>> /\ request' = Free /\ result' = 1 /\ hash' = hash
    BY <1>6, ExhaustedStep
  <2>2. Contents' = Contents /\ request # Free
    BY <2>1, OneContents, OneContentsAfter, NotFree
  <2>3. QED BY <2>1, <2>2 DEF M!MapNext, M!PutEnds, M!NoRequest, Free
<1>7. ASSUME NEW k \in Keys \cup {NoKey}, NEW v \in Values, Put(k, v) PROVE M!MapNext
  <2>1. levels = <<t>> /\ request = Free /\ levels' = <<t>> /\ hash' = hash
    BY <1>7, CallStep DEF Put
  <2>2. Contents' = Contents
    BY <2>1, OneContents, OneContentsAfter
  <2>3. M!Put(k, v)
    BY <1>7, <2>1, <2>2 DEF Put, M!Put, M!NoRequest, Free
  <2>4. QED BY <2>3 DEF M!MapNext
<1>8. ASSUME NEW k \in Keys \cup {NoKey}, Get(k) PROVE M!MapNext
  <2>1. /\ levels = <<t>> /\ request = Free /\ levels' = <<t>> /\ hash' = hash /\ request' = request
        /\ result' = IF k = NoKey THEN NoValue ELSE ValueAt(t, k)
    BY <1>8, CallStep DEF Get
  <2>2. Contents' = Contents /\ (k # NoKey => Contents[k] = ValueAt(t, k))
    BY <2>1, OneContents, OneContentsAfter
  <2>3. M!Get(k)
    BY <2>1, <2>2 DEF M!Get, M!Lookup, M!NoRequest, Free
  <2>4. QED BY <2>3 DEF M!MapNext
<1>9. ASSUME NEW k \in Keys \cup {NoKey}, Remove(k) PROVE M!MapNext
  <2> DEFINE i == CHOOSE i \in Holding(t, k) : \A j \in Holding(t, k) : i <= j
  <2>1. /\ HashOK /\ levels = <<t>> /\ TableTypeOK(t) /\ TableOK(t) /\ Top = t /\ request = Free
        /\ hash' = hash /\ request' = request
    BY <1>9, CallStep DEF Remove
  <2>2. Contents = [l \in Keys |-> ValueAt(t, l)]
    BY <2>1, OneContents
  <2>3. CASE k = NoKey \/ Holding(t, k) = {}
    <3>1. result' = 1 /\ levels' = <<t>>
      BY <1>9, <2>1, <2>3 DEF Remove
    <3>2. Contents' = Contents /\ M!Lookup(k) = NoValue
      BY <2>1, <2>2, <2>3, <3>1, OneContentsAfter DEF ValueAt, M!Lookup
    <3>3. [l \in Keys |-> IF l = k THEN NoValue ELSE Contents[l]] = Contents
      BY <2>2, <3>2, HashmapAssumption DEF M!Lookup
    <3>4. M!Remove(k)
      BY <2>1, <3>1, <3>2, <3>3 DEF M!Remove, M!NoRequest, Free
    <3>5. QED BY <3>4 DEF M!MapNext
  <2>4. CASE k \in Keys /\ Holding(t, k) # {}
    <3>1. result' = 0 /\ levels' = <<Cleared(t, i)>>
      BY <1>9, <2>1, <2>4, HashmapAssumption DEF Remove
    <3>2. i \in Elements(t) /\ t.data[i].key = k /\ ValueAt(t, k) = t.data[i].value
      BY <2>1, <2>4, ChosenHeld
    <3> HIDE DEF i
    <3>3. ValueAt(t, k) # NoValue
      BY <2>1, <3>2, ValueHeld, HashmapAssumption
    <3>4. \A l \in Keys : ValueAt(Cleared(t, i), l) = IF l = k THEN NoValue ELSE ValueAt(t, l)
      BY <2>1, <3>2, ClearedValues
    <3>5. Contents' = [l \in Keys |-> ValueAt(Cleared(t, i), l)]
      BY <2>1, <3>1, OneContentsAfter
    <3> HIDE DEF t
    <3>6. Contents' = [l \in Keys |-> IF l = k THEN NoValue ELSE Contents[l]] /\ M!Lookup(k) # NoValue
      BY <2>2, <2>4, <3>3, <3>4, <3>5, HashmapAssumption DEF M!Lookup
    <3>7. M!Remove(k)
      BY <2>1, <3>1, <3>6 DEF M!Remove, M!NoRequest, Free
    <3>8. QED BY <3>7 DEF M!MapNext
  <2>5. QED BY <2>3, <2>4
<1>10. CASE UNCHANGED vars
  BY <1>10 DEF vars, Contents, Found, ValueAt, Holding, Window, Place
<1>11. QED BY <1>1, <1>2, <1>3, <1>4, <1>5, <1>6, <1>7, <1>8, <1>9, <1>10 DEF Next, Work, Call

(* ImplementsMap: a get answers what was last put, and growing loses and        *)
(* changes nothing, for every sequence of calls and whatever the hashes.       *)
THEOREM HashmapImplementsMap == Spec => ImplementsMap
BY InitMap, NextMap, HashmapInvariant, PTL DEF Spec, ImplementsMap, M!MapSpec
=============================================================================
