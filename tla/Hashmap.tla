------------------------------ MODULE Hashmap -------------------------------
(***************************************************************************)
(* runtime/hashmap.h, in which runtime.c keeps the classes and the methods of  *)
(* a program: open addressing, where a key lies at most ProbeLength slots after *)
(* the place its hash gives it.  A put that finds no slot there moves all       *)
(* elements to a table of twice the capacity, and the puts that do this may      *)
(* find no slot either.  The tables in progress are the levels: the first is the *)
(* map, and cursor is the slot of a table whose element goes to the next one.   *)
(*                                                                           *)
(* hash is any of Hashes, fixed when the program starts.  It has Bits bits, 32   *)
(* in the code, of which the first ones are the place in a table.             *)
(***************************************************************************)
EXTENDS Naturals, Sequences, FiniteSets

CONSTANTS Keys, Values, NoValue, NoKey, Bits, Hashes, ProbeLength, InitialLog

(* 1u << n                                                                  *)
Power2[n \in Nat] == IF n = 0 THEN 1 ELSE 2 * Power2[n - 1]

ASSUME HashmapAssumption ==
  /\ NoKey \notin Keys /\ NoValue \notin Values
  /\ Bits \in Nat /\ Hashes \subseteq [Keys -> 0 .. Power2[Bits] - 1]
  /\ ProbeLength \in Nat \ {0} /\ InitialLog \in Nat \ {0} /\ InitialLog < Bits

VARIABLES
  hash,
  levels,    \* sequence of [log, size, data, cursor]
  request,   \* the element being put into the first level
  result     \* of the last call: a value, or 0 and 1
vars == <<hash, levels, request, result>>

Free == [key |-> NoKey, value |-> NoValue]
Capacity(log) == Power2[log]
Slots(log) == 0 .. Capacity(log) + ProbeLength - 1
Create(log) == [log |-> log, size |-> 0, data |-> [i \in Slots(log) |-> Free], cursor |-> 0]
Idle == request = Free
Deep == Len(levels)
Top == levels[Deep]

Init ==
  /\ hash \in Hashes
  /\ levels = <<Create(InitialLog)>> /\ request = Free /\ result = NoValue
-----------------------------------------------------------------------------
(* hashmap_hash_helper: the slot that holds the key, else the first free one.  *)
Place(k, log) == hash[k] \div Power2[Bits - log]
Window(k, log) == Place(k, log) .. Place(k, log) + ProbeLength - 1
Holding(t, k) == {i \in Window(k, t.log) : t.data[i].key = k}
Unused(t, k) == {i \in Window(k, t.log) : t.data[i] = Free}
(* Mutant: a free slot is taken before the key is looked for behind it.       *)
SlotsForFree(t, k) == IF t.size = Capacity(t.log) THEN {} ELSE IF Unused(t, k) # {} THEN Unused(t, k) ELSE Holding(t, k)
SlotsFor(t, k) == IF t.size = Capacity(t.log) THEN {} ELSE IF Holding(t, k) # {} THEN Holding(t, k) ELSE Unused(t, k)
FindsSlot(t, k) == SlotsFor(t, k) # {}
Slot(t, k) == CHOOSE i \in SlotsFor(t, k) : \A j \in SlotsFor(t, k) : i <= j

Stored(t, e) ==
  [t EXCEPT !.data[Slot(t, e.key)] = e, !.size = IF t.data[Slot(t, e.key)] = Free THEN @ + 1 ELSE @]
Cleared(t, i) == [t EXCEPT !.data[i] = Free, !.size = @ - 1]
Passed(t) == [t EXCEPT !.cursor = @ + 1]

(* The element that is to be put into the last level.                       *)
Above == levels[Deep - 1]
Pending == IF Deep = 1 THEN request ELSE Above.data[Above.cursor]
(* Mutant: the slots past the capacity are not moved.                       *)
MovingCut == Deep > 1 /\ Above.cursor < Capacity(Above.log)
Moving == Deep > 1 /\ Above.cursor \in DOMAIN Above.data
-----------------------------------------------------------------------------
(* Calls.  NoKey stands for a key that is NULL or has no length: each of them  *)
(* refuses it.                                                              *)
Put(k, v) ==
  /\ Idle
  /\ \/ k = NoKey /\ result' = 1 /\ UNCHANGED request
     \/ k # NoKey /\ request' = [key |-> k, value |-> v] /\ UNCHANGED result
  /\ UNCHANGED <<hash, levels>>
ValueAt(t, k) == IF Holding(t, k) = {} THEN NoValue ELSE t.data[CHOOSE i \in Holding(t, k) : \A j \in Holding(t, k) : i <= j].value
Get(k) ==
  /\ Idle /\ result' = IF k = NoKey THEN NoValue ELSE ValueAt(Top, k)
  /\ UNCHANGED <<hash, levels, request>>
Remove(k) ==
  /\ Idle
  /\ IF k = NoKey \/ Holding(Top, k) = {} THEN result' = 1 /\ UNCHANGED levels
     ELSE result' = 0 /\ levels' = <<Cleared(Top, CHOOSE i \in Holding(Top, k) : \A j \in Holding(Top, k) : i <= j)>>
  /\ UNCHANGED <<hash, request>>

(* hashmap_put finds a slot in the map.                                     *)
Store ==
  /\ ~Idle /\ Deep = 1 /\ FindsSlot(Top, request.key)
  /\ levels' = <<Stored(Top, request)>> /\ request' = Free /\ result' = 0
  /\ UNCHANGED hash

(* hashmap_iterate_pairs with hashmap_rehash_iterator: an element is moved.   *)
Skip ==
  /\ Moving /\ Pending = Free
  /\ levels' = [levels EXCEPT ![Deep - 1] = Passed(@)]
  /\ UNCHANGED <<hash, request, result>>
Move ==
  /\ Moving /\ Pending # Free /\ FindsSlot(Top, Pending.key)
  /\ levels' = [levels EXCEPT ![Deep] = Stored(@, Pending), ![Deep - 1] = Passed(Cleared(@, @.cursor))]
  /\ UNCHANGED <<hash, request, result>>

(* hashmap_rehash_helper: another table, which replaces the one before it      *)
(* when everything has been moved.                                          *)
Crowded == ~Idle /\ (Deep > 1 => Moving /\ Pending # Free) /\ ~FindsSlot(Top, Pending.key)
(* Mutant: the new table has the capacity of the old one.                    *)
GrowSame ==
  /\ Crowded /\ Top.log + 1 < Bits
  /\ levels' = Append([levels EXCEPT ![Deep].cursor = 0], Create(Top.log))
  /\ UNCHANGED <<hash, request, result>>
Grow ==
  /\ Crowded /\ Top.log + 1 < Bits
  /\ levels' = Append([levels EXCEPT ![Deep].cursor = 0], Create(Top.log + 1))
  /\ UNCHANGED <<hash, request, result>>
Replace ==
  /\ Deep > 1 /\ ~Moving
  /\ levels' = Append(SubSeq(levels, 1, Deep - 2), Top)
  /\ UNCHANGED <<hash, request, result>>
(* The capacity would be 0: every put that is waiting returns 1.             *)
Exhausted ==
  /\ Crowded /\ Top.log + 1 = Bits
  /\ levels' = <<levels[1]>> /\ request' = Free /\ result' = 1
  /\ UNCHANGED hash

Work == Store \/ Skip \/ Move \/ Grow \/ Replace \/ Exhausted
Call == \E k \in Keys \cup {NoKey} : Get(k) \/ Remove(k) \/ \E v \in Values : Put(k, v)
Next == Work \/ Call
Spec == Init /\ [][Next]_vars
FairSpec == Spec /\ WF_vars(Work)
-----------------------------------------------------------------------------
(* TablesOK: in every table, also those being moved to, a key has at most one   *)
(* element and lies within ProbeLength slots of its place, where get and remove *)
(* look for it, and the size that decides when to grow is the number of         *)
(* elements, whatever was put, overwritten, removed and moved before.           *)
Elements(t) == {i \in DOMAIN t.data : t.data[i] # Free}
TableOK(t) ==
  /\ t.size = Cardinality(Elements(t)) /\ t.size <= Capacity(t.log)
  /\ \A i \in Elements(t) : i \in Window(t.data[i].key, t.log)
  /\ \A i, j \in Elements(t) : t.data[i].key = t.data[j].key => i = j
TablesOK == \A n \in DOMAIN levels : TableOK(levels[n])

(* What holds besides of the tables, for every hash and every ProbeLength.    *)
Element == [key : Keys, value : Values]
TableTypeOK(t) ==
  /\ t \in [log : 1 .. Bits - 1, size : Nat, data : [Slots(t.log) -> Element \cup {Free}], cursor : Nat]
  /\ t.cursor <= Capacity(t.log) + ProbeLength
HashmapTypeOK ==
  /\ hash \in [Keys -> 0 .. Power2[Bits] - 1]
  /\ Deep \in 1 .. 2 /\ levels = [n \in 1 .. Deep |-> levels[n]] /\ \A n \in 1 .. Deep : TableTypeOK(levels[n])
  /\ request \in Element \cup {Free} /\ result \in Values \cup {NoValue, 0, 1}

(* Between two tables: the elements before the cursor have been moved, the    *)
(* others not; a key is in one of the tables; the new table has no gap between *)
(* the place of an element and its slot; and of the elements moved, those that *)
(* come from the place x or behind it are no more than the slots from x to the *)
(* cursor.  The last two are why a slot is found for every element moved.      *)
Behind(t, x, log) == {i \in Elements(t) : Place(t.data[i].key, log) >= x}
GapFree(t) == \A i \in Elements(t) : \A j \in Place(t.data[i].key, t.log) .. i - 1 : j \in Elements(t)
Rehashing(old, new) ==
  /\ new.log = old.log + 1
  /\ \A i \in Elements(old) : i >= old.cursor
  /\ \A i \in Elements(old), j \in Elements(new) : old.data[i].key # new.data[j].key
  /\ old.size + new.size <= Capacity(old.log)
  /\ GapFree(new)
  /\ \A x \in 0 .. old.cursor : Cardinality(Behind(new, x, old.log)) <= old.cursor - x
HashmapInv == HashmapTypeOK /\ TablesOK /\ (Deep = 2 => ~Idle /\ Rehashing(levels[1], levels[2]))

(* MovesFindSlots: growing once is enough for the elements that are there; a   *)
(* table is never outgrown while elements are moved to it, so that none is left *)
(* in a table that a refused put throws away.                                *)
MovesFindSlots == Deep > 1 => ~Crowded

(* ImplementsMap: seen through its calls the table is a map.  A get answers     *)
(* what was last put, growing loses and changes nothing, and a put that is      *)
(* refused leaves the map alone.  While elements are moved each is in one of    *)
(* the tables.                                                              *)
Found(k) == {ValueAt(levels[n], k) : n \in DOMAIN levels} \ {NoValue}
Contents == [k \in Keys |-> IF Found(k) = {} THEN NoValue ELSE CHOOSE v \in Found(k) : TRUE]
M == INSTANCE Map WITH map <- Contents
ImplementsMap == M!MapSpec

(* PutReturns: growing until a slot is found comes to an end.                *)
PutReturns == ~Idle ~> Idle
=============================================================================
