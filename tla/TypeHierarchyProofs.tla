------------------------- MODULE TypeHierarchyProofs -------------------------
(***************************************************************************)
(* Proofs about TypeHierarchy, for every finite set of types, every        *)
(* program over them and every order of the map.                           *)
(***************************************************************************)
EXTENDS TypeHierarchy, HierarchyProofs, FiniteSetTheorems, TLAPS

LEMMA SizeType == Cardinality(Types) \in Nat /\ Cardinality(Types) >= 1
  <1>1. Cardinality(Types) \in Nat
    BY SomeTypes, FS_CardinalityType
  <1>2. Cardinality(Types) # 0
    BY SomeTypes, FS_EmptySet
  <1> QED BY <1>1, <1>2

LEMMA PositionsType == Positions \subseteq Nat /\ 1 \in Positions
  BY SizeType DEF Positions

-----------------------------------------------------------------------------
(* Every variable keeps its type.                                           *)

LEMMA InitTypeOK == Init => TypeOK
  <1> SUFFICES ASSUME Init PROVE TypeOK
    OBVIOUS
  <1>1. rest \subseteq Attributes \cup Methods
    <2>1. Order[1] \in Types
      BY OrderDeclares, PositionsType DEF Enumerations
    <2>2. program.attrs[Order[1]] \subseteq Attributes
      BY <2>1, ProgramsDeclare DEF Init, Declarations
    <2> QED BY <2>2 DEF Init, Declared
  <1>2. parentName \in [Types -> Parents] /\ params \in [Types -> ParamLists]
    BY ProgramsDeclare DEF Init, Declarations
  <1> QED
    BY <1>1, <1>2, SizeType, PositionsType, ProgramsDeclare DEF Init, TypeOK, Phases, Parents

LEMMA OwnerType == TypeOK => Owner \in Types
  BY OrderDeclares DEF TypeOK, Owner, Enumerations

LEMMA MapType == ASSUME TypeOK, pos \in Positions PROVE program.map[pos] \in Types
  BY DEF TypeOK, Declarations, Enumerations

(* A pass stays on the types and on the positions.                          *)
LEMMA MeetType ==
  ASSUME TypeOK, NEW pass \in Phases, NEW after \in Phases, NEW t \in Types,
         Meet(t, pass, after)
  PROVE  phase' \in Phases /\ pos' \in 1..Cardinality(Types) + 1
  BY SizeType DEF Meet, TypeOK, Positions

(* What a record has after the copy is what it or its parent had.           *)
LEMMA InheritType ==
  ASSUME NEW N, NEW own \in [N -> Types \cup {None}], NEW base \in [N -> Types \cup {None}]
  PROVE  Inherit(own, base) \in [N -> Types \cup {None}]
  BY DEF Inherit

LEMMA NextTypeOK == TypeOK /\ [Next]_vars => TypeOK'
  <1> SUFFICES ASSUME TypeOK, [Next]_vars PROVE TypeOK'
    OBVIOUS
  <1> USE DEF vars, search, walk, names, members
  <1>1. ASSUME NEW a \in Attributes, RegisterAttribute(a) PROVE TypeOK'
    BY <1>1, OwnerType DEF RegisterAttribute, TypeOK
  <1>2. ASSUME NEW m \in Methods, BeginMethod(m) PROVE TypeOK'
    BY <1>2, OwnerType DEF BeginMethod, TypeOK
  <1>3. CASE SearchInherited
    BY <1>3 DEF SearchInherited, TypeOK
  <1>4. CASE EmplaceMethod
    <2>1. errors' \subseteq {"signature", "parent", "cycle", "constructor"} \X Types
      BY <1>4, OwnerType DEF EmplaceMethod, TypeOK, Report
    <2>2. task \in Methods
      BY <1>4 DEF EmplaceMethod, TypeOK
    <2>3. methods' \in [Types -> [Methods -> Types \cup {None}]]
      BY <1>4, <2>2, OwnerType DEF EmplaceMethod, TypeOK
    <2> QED BY <1>4, <2>1, <2>3 DEF EmplaceMethod, TypeOK
  <1>5. CASE NextType
    <2>1. Order[at + 1] \in Types
      BY <1>5, OrderDeclares DEF NextType, Enumerations
    <2>2. rest' \subseteq Attributes \cup Methods
      <3>1. program.attrs[Order[at + 1]] \subseteq Attributes
        BY <2>1 DEF TypeOK, Declarations
      <3> QED BY <1>5, <3>1 DEF NextType, Declared
    <2> QED BY <1>5, <2>2 DEF NextType, TypeOK
  <1>6. CASE EndCollection
    BY <1>6 DEF EndCollection, TypeOK, Phases
  <1>7. ASSUME NEW t \in Types, ResolveParent(t) PROVE TypeOK'
    <2>1. phase' \in Phases /\ pos' \in 1..Cardinality(Types) + 1
      BY <1>7, MeetType DEF ResolveParent, Phases
    <2>2. parentName' \in [Types -> Parents]
      BY <1>7 DEF ResolveParent, TypeOK, Parents
    <2>3. nominal' \in [Types -> Types \cup {Object}]
      BY <1>7 DEF ResolveParent, TypeOK, Parents
    <2>4. errors' \subseteq {"signature", "parent", "cycle", "constructor"} \X Types
      BY <1>7 DEF ResolveParent, TypeOK, Report
    <2> QED BY <1>7, <2>1, <2>2, <2>3, <2>4 DEF ResolveParent, TypeOK
  <1>8. ASSUME NEW t \in Types, StartWalk(t) PROVE TypeOK'
    <2>1. pos' \in 1..Cardinality(Types) + 1
      BY <1>8, SizeType DEF StartWalk, Positions
    <2> QED BY <1>8, <2>1 DEF StartWalk, TypeOK, Parents
  <1>9. CASE EnterType
    BY <1>9 DEF EnterType, TypeOK, Parents
  <1>10. CASE CloseCycle
    <2>1. cursor \in Types
      BY <1>10 DEF CloseCycle, TypeOK
    <2>2. parentName' \in [Types -> Parents]
      BY <1>10 DEF CloseCycle, TypeOK, Parents
    <2>3. errors' \subseteq {"signature", "parent", "cycle", "constructor"} \X Types
      BY <1>10, <2>1 DEF CloseCycle, TypeOK, Report
    <2> QED BY <1>10, <2>2, <2>3 DEF CloseCycle, Unwind, TypeOK
  <1>11. CASE EndWalk
    BY <1>11 DEF EndWalk, Unwind, TypeOK
  <1>12. CASE EndCycles
    BY <1>12, SizeType DEF EndCycles, TypeOK, Phases
  <1>13. ASSUME NEW t \in Types, InheritConstructor(t) PROVE TypeOK'
    <2>1. phase' \in Phases /\ pos' \in 1..Cardinality(Types) + 1
      BY <1>13, MeetType DEF InheritConstructor, Phases
    <2>2. params' \in [Types -> ParamLists]
      BY <1>13 DEF InheritConstructor, TypeOK
    <2>3. errors' \subseteq {"signature", "parent", "cycle", "constructor"} \X Types
      BY <1>13 DEF InheritConstructor, TypeOK, Report
    <2> QED BY <1>13, <2>1, <2>2, <2>3 DEF InheritConstructor, TypeOK
  <1>14. ASSUME NEW t \in Types, CopyMembers(t) PROVE TypeOK'
    <2>1. phase' \in Phases /\ pos' \in 1..Cardinality(Types) + 1
      BY <1>14, MeetType DEF CopyMembers, Phases
    <2> DEFINE p == parentName[t]
    <2>2. CASE p \in Types
      <3>1. /\ attributes[t] \in [Attributes -> Types \cup {None}]
            /\ attributes[p] \in [Attributes -> Types \cup {None}]
            /\ methods[t] \in [Methods -> Types \cup {None}]
            /\ methods[p] \in [Methods -> Types \cup {None}]
        BY <2>2 DEF TypeOK
      <3>2. /\ Inherit(attributes[t], attributes[p]) \in [Attributes -> Types \cup {None}]
            /\ Inherit(methods[t], methods[p]) \in [Methods -> Types \cup {None}]
        BY <3>1, InheritType
      <3>3. /\ attributes' = [attributes EXCEPT ![t] = Inherit(attributes[t], attributes[p])]
            /\ methods' = [methods EXCEPT ![t] = Inherit(methods[t], methods[p])]
        BY <1>14, <2>2 DEF CopyMembers
      <3> QED BY <1>14, <2>1, <3>2, <3>3 DEF CopyMembers, TypeOK
    <2>3. CASE p \notin Types
      BY <1>14, <2>1, <2>3 DEF CopyMembers, TypeOK
    <2> QED BY <2>2, <2>3
  <1>15. CASE UNCHANGED vars
    BY <1>15 DEF TypeOK
  <1> QED
    BY <1>1, <1>2, <1>3, <1>4, <1>5, <1>6, <1>7, <1>8, <1>9, <1>10, <1>11,
       <1>12, <1>13, <1>14, <1>15 DEF Next

(* Every variable of the declaration phase keeps its type, whatever the      *)
(* program and the order of the map.                                         *)
THEOREM TypeCorrect == Spec => []TypeOK
  BY InitTypeOK, NextTypeOK, PTL DEF Spec

-----------------------------------------------------------------------------
(* Once the cycle detector has run, all chains end.                         *)
(*                                                                          *)
(* The visited types are closed under parents and hold no cycle.  The types *)
(* on the walk have their parents on the walk, the last one at the cursor,  *)
(* so that a set of them without the cursor's type cannot hold all parents  *)
(* of its members; when the cursor closes a cycle, cutting the parent of    *)
(* the type at the cursor makes that true of every set.                     *)
VisitedClosed == \A t \in visited : parentName[t] \in Types => parentName[t] \in visited
VisitedGrounded ==
  \A S \in SUBSET visited : S # {} => \E t \in S : parentName[t] \notin S
WalkClosed == \A t \in visiting : parentName[t] \in visiting \cup {cursor}
WalkOpen ==
  \A S \in SUBSET visiting :
    S # {} /\ cursor \notin S => \E t \in S : parentName[t] \notin S
StartsCovered ==
  \A i \in Positions : i < pos => program.map[i] \in visited \cup visiting \cup {cursor}

WalkInv ==
  /\ phase \in {"collect", "parents"} => visiting = {} /\ visited = {}
  /\ phase = "cycles" =>
       /\ visiting \cap visited = {}
       /\ cursor = None => visiting = {}
       /\ VisitedClosed /\ VisitedGrounded
       /\ WalkClosed /\ WalkOpen
       /\ StartsCovered
  /\ HierarchyGrounded

LEMMA InitWalkInv == Init => WalkInv
  BY DEF Init, WalkInv, HierarchyGrounded, Resolved

(* A walk that ends, in a cycle or not, leaves the visited types closed and *)
(* without a cycle.                                                         *)
LEMMA CloseCycleGrounds ==
  ASSUME TypeOK, WalkInv, CloseCycle
  PROVE  VisitedClosed' /\ VisitedGrounded'
  <1>1. /\ cursor \in visiting /\ cursor \in Types /\ visited' = visited \cup visiting
        /\ parentName' = [parentName EXCEPT ![cursor] = Object]
        /\ visiting \cap visited = {}
        /\ VisitedClosed /\ VisitedGrounded /\ WalkClosed /\ WalkOpen
        /\ visiting \subseteq Types /\ visited \subseteq Types
        /\ parentName \in [Types -> Parents]
    BY DEF CloseCycle, Unwind, WalkInv, TypeOK
  <1>2. /\ parentName'[cursor] = Object
        /\ \A t \in Types : t # cursor => parentName'[t] = parentName[t]
    BY <1>1
  <1>3. VisitedClosed'
    BY <1>1, <1>2, RootsApart DEF VisitedClosed, WalkClosed
  <1>4. ASSUME NEW S \in SUBSET visited', S # {}
        PROVE  \E t \in S : parentName'[t] \notin S
    <2>1. CASE cursor \in S
      BY <1>1, <1>2, <1>4, <2>1, RootsApart
    <2>2. CASE cursor \notin S /\ S \cap visiting # {}
      <3>1. PICK t \in S \cap visiting : parentName[t] \notin S \cap visiting
        BY <1>1, <2>2 DEF WalkOpen
      <3>2. parentName[t] \in visiting
        BY <1>1, <3>1 DEF WalkClosed
      <3> QED BY <1>1, <1>2, <2>2, <3>1, <3>2
    <2>3. CASE S \cap visiting = {}
      <3>1. S \in SUBSET visited
        BY <1>1, <1>4, <2>3
      <3>2. PICK t \in S : parentName[t] \notin S
        BY <1>1, <1>4, <3>1 DEF VisitedGrounded
      <3> QED BY <1>1, <1>2, <2>3, <3>1, <3>2
    <2> QED BY <2>1, <2>2, <2>3
  <1> QED BY <1>3, <1>4 DEF VisitedGrounded

LEMMA EndWalkGrounds ==
  ASSUME TypeOK, WalkInv, EndWalk
  PROVE  VisitedClosed' /\ VisitedGrounded'
  <1>1. /\ cursor \in visited \cup {Object} /\ visited' = visited \cup visiting
        /\ parentName' = parentName
        /\ visiting \cap visited = {}
        /\ VisitedClosed /\ VisitedGrounded /\ WalkClosed /\ WalkOpen
        /\ visiting \subseteq Types /\ visited \subseteq Types
    BY DEF EndWalk, Unwind, WalkInv, TypeOK, names
  <1>2. cursor \notin visiting
    BY <1>1, RootsApart
  <1>3. VisitedClosed'
    BY <1>1, RootsApart DEF VisitedClosed, WalkClosed
  <1>4. ASSUME NEW S \in SUBSET visited', S # {}
        PROVE  \E t \in S : parentName'[t] \notin S
    <2>1. CASE S \cap visited # {}
      <3>1. PICK t \in S \cap visited : parentName[t] \notin S \cap visited
        BY <1>1, <2>1 DEF VisitedGrounded
      <3>2. parentName[t] \notin visiting
        BY <1>1, <3>1 DEF VisitedClosed
      <3> QED BY <1>1, <1>4, <3>1, <3>2
    <2>2. CASE S \cap visited = {}
      <3>1. S \in SUBSET visiting
        BY <1>1, <1>4, <2>2
      <3>2. PICK t \in S : parentName[t] \notin S
        BY <1>1, <1>2, <1>4, <3>1 DEF WalkOpen
      <3> QED BY <1>1, <3>2
    <2> QED BY <2>1, <2>2
  <1> QED BY <1>3, <1>4 DEF VisitedGrounded

LEMMA NextWalkInv == TypeOK /\ WalkInv /\ [Next]_vars => WalkInv'
  <1> SUFFICES ASSUME TypeOK, WalkInv, [Next]_vars PROVE WalkInv'
    OBVIOUS
  <1> USE DEF vars, search, walk, names, members
  <1>1. ASSUME phase = "collect",
               UNCHANGED <<visiting, visited>>,
               phase' \in {"collect", "parents"}
        PROVE  WalkInv'
    BY <1>1 DEF WalkInv, HierarchyGrounded, Resolved
  <1>2. CASE \/ \E a \in Attributes : RegisterAttribute(a)
             \/ \E m \in Methods : BeginMethod(m)
             \/ SearchInherited \/ EmplaceMethod \/ NextType \/ EndCollection
    BY <1>1, <1>2 DEF RegisterAttribute, BeginMethod, SearchInherited,
                      EmplaceMethod, NextType, EndCollection
  <1>3. ASSUME NEW t \in Types, ResolveParent(t) PROVE WalkInv'
    <2>1. /\ visiting' = {} /\ visited' = {}
          /\ phase' \in {"parents", "cycles"}
          /\ phase' = "cycles" => pos' = 1
      BY <1>3 DEF ResolveParent, Meet, WalkInv
    <2>2. StartsCovered' \/ phase' # "cycles"
      BY <2>1, PositionsType DEF StartsCovered, Positions
    <2> QED
      BY <2>1, <2>2 DEF WalkInv, HierarchyGrounded, Resolved, VisitedClosed,
         VisitedGrounded, WalkClosed, WalkOpen
  <1>4. ASSUME NEW t \in Types, StartWalk(t) PROVE WalkInv'
    <2>1. /\ phase = "cycles" /\ phase' = "cycles" /\ cursor = None /\ visiting = {}
          /\ pos \in Positions /\ t = program.map[pos] /\ pos' = pos + 1
          /\ cursor' = t
          /\ UNCHANGED <<program, visiting, visited, parentName>>
      BY <1>4 DEF StartWalk, WalkInv
    <2>2. StartsCovered'
      <3> SUFFICES ASSUME NEW i \in Positions, i < pos + 1
                   PROVE  program.map[i] \in visited \cup visiting \cup {t}
        BY <2>1 DEF StartsCovered
      <3>1. CASE i < pos
        <4>1. program.map[i] \in visited \cup visiting \cup {None}
          BY <2>1, <3>1 DEF WalkInv, StartsCovered
        <4>2. program.map[i] \in Types
          BY DEF TypeOK, Declarations, Enumerations
        <4> QED BY <4>1, <4>2, RootsApart
      <3>2. CASE i = pos
        BY <2>1, <3>2
      <3> QED BY <2>1, <3>1, <3>2, PositionsType
    <2> QED
      BY <2>1, <2>2, RootsApart DEF WalkInv, HierarchyGrounded, Resolved, VisitedClosed,
         VisitedGrounded, WalkClosed, WalkOpen
  <1>5. CASE EnterType
    <2>1. /\ phase = "cycles" /\ phase' = "cycles"
          /\ cursor \in Types /\ cursor \notin visiting /\ cursor \notin visited
          /\ visiting' = visiting \cup {cursor} /\ cursor' = parentName[cursor]
          /\ UNCHANGED <<program, pos, visited, parentName>>
      BY <1>5 DEF EnterType
    <2>2. cursor' # None
      BY <2>1, RootsApart DEF TypeOK, Parents
    <2>3. WalkClosed'
      BY <2>1 DEF WalkInv, WalkClosed
    <2>4. WalkOpen'
      <3> SUFFICES ASSUME NEW S \in SUBSET (visiting \cup {cursor}), S # {},
                          parentName[cursor] \notin S
                   PROVE  \E t \in S : parentName[t] \notin S
        BY <2>1 DEF WalkOpen
      <3>1. CASE cursor \in S
        BY <3>1
      <3>2. CASE cursor \notin S
        <4>1. S \in SUBSET visiting
          BY <3>2
        <4> QED BY <2>1, <3>2, <4>1 DEF WalkInv, WalkOpen
      <3> QED BY <3>1, <3>2
    <2>5. StartsCovered'
      BY <2>1 DEF WalkInv, StartsCovered
    <2>6. VisitedClosed' /\ VisitedGrounded' /\ visiting' \cap visited' = {}
      BY <2>1 DEF WalkInv, VisitedClosed, VisitedGrounded
    <2> QED
      BY <2>1, <2>2, <2>3, <2>4, <2>5, <2>6 DEF WalkInv, HierarchyGrounded, Resolved
  <1>6. CASE CloseCycle \/ EndWalk
    <2>1. VisitedClosed' /\ VisitedGrounded'
      BY <1>6, CloseCycleGrounds, EndWalkGrounds
    <2>2. /\ phase = "cycles" /\ phase' = "cycles"
          /\ visited' = visited \cup visiting /\ visiting' = {} /\ cursor' = None
          /\ cursor \in visiting \cup visited \cup {Object}
          /\ UNCHANGED <<program, pos>>
      BY <1>6 DEF CloseCycle, EndWalk, Unwind
    <2>3. StartsCovered'
      <3> SUFFICES ASSUME NEW i \in Positions, i < pos
                   PROVE  program.map[i] \in visited \cup visiting
        BY <2>2 DEF StartsCovered
      <3>1. program.map[i] \in visited \cup visiting \cup {cursor}
        BY <2>2 DEF WalkInv, StartsCovered
      <3>2. program.map[i] \in Types
        BY DEF TypeOK, Declarations, Enumerations
      <3> QED BY <2>2, <3>1, <3>2, RootsApart
    <2> QED
      BY <2>1, <2>2, <2>3 DEF WalkInv, HierarchyGrounded, Resolved, WalkClosed, WalkOpen
  <1>7. CASE EndCycles
    <2>1. /\ phase = "cycles" /\ phase' = "ctors"
          /\ cursor = None /\ visiting = {} /\ pos \notin Positions
          /\ UNCHANGED parentName
      BY <1>7 DEF EndCycles, WalkInv
    <2>2. \A i \in Positions : i < pos
      BY <2>1, SizeType DEF TypeOK, Positions
    <2>3. Types \subseteq visited
      <3> SUFFICES ASSUME NEW t \in Types PROVE t \in visited
        OBVIOUS
      <3>1. PICK i \in Positions : program.map[i] = t
        BY DEF TypeOK, Declarations, Enumerations
      <3> QED BY <2>1, <2>2, <3>1, RootsApart DEF WalkInv, StartsCovered
    <2>4. Grounded(parentName)
      <3>1. DOMAIN parentName = Types
        BY DEF TypeOK
      <3> QED BY <2>1, <2>3, <3>1 DEF Grounded, WalkInv, VisitedGrounded
    <2>5. Grounded(parentName)'
      BY <2>1, <2>4 DEF Grounded
    <2> QED BY <2>1, <2>5 DEF WalkInv, HierarchyGrounded
  <1>8. ASSUME phase \in {"ctors", "members"}, phase' \in {"ctors", "members", "done"},
               UNCHANGED parentName
        PROVE  WalkInv'
    <2>1. Grounded(parentName)
      BY <1>8 DEF WalkInv, HierarchyGrounded, Resolved
    <2>2. Grounded(parentName)'
      BY <1>8, <2>1 DEF Grounded
    <2> QED BY <1>8, <2>2 DEF WalkInv, HierarchyGrounded
  <1>9. CASE \/ \E t \in Types : InheritConstructor(t)
             \/ \E t \in Types : CopyMembers(t)
    BY <1>8, <1>9 DEF InheritConstructor, CopyMembers, Meet
  <1>10. CASE UNCHANGED vars
    BY <1>10 DEF WalkInv, HierarchyGrounded, Resolved, Grounded, VisitedClosed,
       VisitedGrounded, WalkClosed, WalkOpen, StartsCovered
  <1> QED
    BY <1>2, <1>3, <1>4, <1>5, <1>6, <1>7, <1>9, <1>10 DEF Next

(* After the cycle detector no set of types holds the parents of all its    *)
(* members: every walk up the hierarchy ends, whatever cycles the source    *)
(* has and wherever the detector starts.                                    *)
THEOREM HierarchyIsGrounded == Spec => []HierarchyGrounded
  <1>1. Init => TypeOK /\ WalkInv
    BY InitTypeOK, InitWalkInv
  <1>2. TypeOK /\ WalkInv /\ [Next]_vars => TypeOK' /\ WalkInv'
    BY NextTypeOK, NextWalkInv
  <1>3. WalkInv => HierarchyGrounded
    BY DEF WalkInv
  <1> QED BY <1>1, <1>2, <1>3, PTL DEF Spec
-----------------------------------------------------------------------------
(* What collection registers and the fourth pass copies.                    *)

(* The types met so far have all their members registered, the type under   *)
(* way those that are no longer in rest.                                    *)
Met(t, n) == (\E i \in Positions : i < at /\ Order[i] = t) \/ (t = Owner /\ n \notin rest)

CollectedInv ==
  /\ phase = "collect" =>
       /\ rest \subseteq Declared(Owner) /\ task \in rest \cup {None}
       /\ \A t \in Types, m \in Methods :
            methods[t][m] = IF t \in DeclaresMethod(m) /\ Met(t, m) THEN t ELSE None
       /\ \A t \in Types, a \in Attributes :
            attributes[t][a] = IF t \in DeclaresAttribute(a) /\ Met(t, a) THEN t ELSE None
  /\ phase \in {"parents", "cycles", "ctors"} =>
       /\ \A t \in Types, m \in Methods :
            methods[t][m] = IF t \in DeclaresMethod(m) THEN t ELSE None
       /\ \A t \in Types, a \in Attributes :
            attributes[t][a] = IF t \in DeclaresAttribute(a) THEN t ELSE None

LEMMA ProgramFixed ==
  ASSUME [Next]_vars
  PROVE  /\ program' = program
         /\ \A n : DeclaresMethod(n)' = DeclaresMethod(n) /\ DeclaresAttribute(n)' = DeclaresAttribute(n)
         /\ \A t : Declared(t)' = Declared(t)
  <1>1. program' = program
    BY DEF vars, Next, RegisterAttribute, BeginMethod, SearchInherited, EmplaceMethod, NextType,
           EndCollection, ResolveParent, StartWalk, EnterType, CloseCycle, EndWalk, EndCycles,
           InheritConstructor, CopyMembers
  <1> QED BY <1>1 DEF DeclaresMethod, DeclaresAttribute, Declared

(* A name that a type declares is declared as what it is.                   *)
LEMMA DeclaredMembers ==
  ASSUME NEW t \in Types
  PROVE  /\ \A m \in Methods : program \in Declarations => (m \in Declared(t) <=> t \in DeclaresMethod(m))
         /\ \A a \in Attributes : a \in Declared(t) <=> t \in DeclaresAttribute(a)
  BY NamesApart DEF Declared, DeclaresMethod, DeclaresAttribute, Declarations

LEMMA InitCollected == Init => CollectedInv
  <1> SUFFICES ASSUME Init PROVE CollectedInv
    OBVIOUS
  <1>1. TypeOK /\ Owner \in Types
    BY InitTypeOK, OwnerType
  <1>2. program \in Declarations /\ rest = Declared(Owner) /\ at = 1
    BY <1>1 DEF Init, TypeOK, Owner
  <1>3. ASSUME NEW t \in Types, NEW n \in Declared(t) PROVE ~Met(t, n)
    <2>1. \A i \in Positions : ~(i < at)
      BY <1>2, SizeType DEF Positions
    <2>2. t = Owner => n \in rest
      BY <1>2
    <2> QED BY <2>1, <2>2 DEF Met
  <1>4. ASSUME NEW t \in Types, NEW m \in Methods PROVE ~(t \in DeclaresMethod(m) /\ Met(t, m))
    BY <1>2, <1>3, DeclaredMembers
  <1>5. ASSUME NEW t \in Types, NEW a \in Attributes PROVE ~(t \in DeclaresAttribute(a) /\ Met(t, a))
    BY <1>3, DeclaredMembers
  <1> QED BY <1>2, <1>4, <1>5 DEF Init, CollectedInv

LEMMA NextCollected == TypeOK /\ CollectedInv /\ [Next]_vars => CollectedInv'
  <1> SUFFICES ASSUME TypeOK, CollectedInv, [Next]_vars PROVE CollectedInv'
    OBVIOUS
  <1> USE DEF search, walk, names, members
  <1>1. /\ Owner \in Types /\ program \in Declarations /\ program' = program
        /\ \A n : DeclaresMethod(n)' = DeclaresMethod(n) /\ DeclaresAttribute(n)' = DeclaresAttribute(n)
        /\ \A t : Declared(t)' = Declared(t)
    BY OwnerType, ProgramFixed DEF TypeOK
  <1>2. ASSUME phase = "collect", phase' = "collect", at' = at, rest' = rest, task' \in rest \cup {None},
               methods' = methods, attributes' = attributes
        PROVE  CollectedInv'
    <2>1. Owner' = Owner /\ \A t, n : Met(t, n)' <=> Met(t, n)
      BY <1>2 DEF Met, Owner
    <2> QED BY <1>1, <1>2, <2>1 DEF CollectedInv
  <1>3. ASSUME phase = "collect", phase' = "collect", at' = at, task' = None,
               NEW n \in rest, rest' = rest \ {n}
        PROVE  /\ Owner' = Owner /\ rest' \subseteq Declared(Owner)' /\ task' \in rest' \cup {None}
               /\ \A t, k : Met(t, k)' <=> Met(t, k) \/ (t = Owner /\ k = n)
    BY <1>1, <1>3 DEF CollectedInv, Met, Owner
  <1>4. ASSUME NEW a \in Attributes, RegisterAttribute(a) PROVE CollectedInv'
    <2>1. /\ phase = "collect" /\ phase' = "collect" /\ at' = at /\ task' = None
          /\ a \in rest /\ rest' = rest \ {a} /\ methods' = methods
          /\ \A t \in Types, b \in Attributes :
               attributes'[t][b] = IF t = Owner /\ b = a THEN t ELSE attributes[t][b]
      BY <1>1, <1>4 DEF RegisterAttribute, TypeOK
    <2>2. Owner \in DeclaresAttribute(a) /\ a \notin Methods
      BY <1>1, <2>1, DeclaredMembers, NamesApart DEF CollectedInv
    <2> QED BY <1>1, <1>3, <2>1, <2>2 DEF CollectedInv
  <1>5. ASSUME NEW m \in Methods, BeginMethod(m) PROVE CollectedInv'
    BY <1>2, <1>5 DEF BeginMethod
  <1>6. CASE SearchInherited
    BY <1>2, <1>6 DEF SearchInherited, CollectedInv
  <1>7. CASE EmplaceMethod
    <2>1. /\ phase = "collect" /\ phase' = "collect" /\ at' = at /\ task' = None
          /\ task \in rest /\ task \in Methods /\ rest' = rest \ {task} /\ attributes' = attributes
          /\ \A t \in Types, m \in Methods :
               methods'[t][m] = IF t = Owner /\ m = task THEN t ELSE methods[t][m]
      BY <1>1, <1>7 DEF EmplaceMethod, TypeOK, CollectedInv
    <2>2. Owner \in DeclaresMethod(task) /\ task \notin Attributes
      BY <1>1, <2>1, DeclaredMembers, NamesApart DEF CollectedInv
    <2> QED BY <1>1, <1>3, <2>1, <2>2 DEF CollectedInv
  <1>8. CASE NextType
    <2>1. /\ phase = "collect" /\ phase' = "collect" /\ rest = {} /\ at + 1 \in Positions /\ at' = at + 1
          /\ rest' = Declared(Order[at + 1]) /\ task' = None
          /\ methods' = methods /\ attributes' = attributes /\ at \in Positions
      BY <1>8 DEF NextType, TypeOK
    <2>2. Owner' = Order[at + 1]
      BY <2>1 DEF Owner
    <2>3. ASSUME NEW t \in Types, NEW n \in Declared(t) PROVE Met(t, n)' <=> Met(t, n)
      <3>1. Met(t, n) <=> \E i \in Positions : (i < at \/ i = at) /\ Order[i] = t
        BY <2>1 DEF Met, Owner
      <3>2. Met(t, n)' <=> \E i \in Positions : i < at + 1 /\ Order[i] = t
        BY <2>1, <2>2 DEF Met
      <3>3. \A i \in Positions : (i < at \/ i = at) <=> i < at + 1
        BY <2>1, PositionsType
      <3> QED BY <3>1, <3>2, <3>3
    <2>4. \A t \in Types, m \in Methods : t \in DeclaresMethod(m) => (Met(t, m)' <=> Met(t, m))
      BY <1>1, <2>3, DeclaredMembers
    <2>5. \A t \in Types, a \in Attributes : t \in DeclaresAttribute(a) => (Met(t, a)' <=> Met(t, a))
      BY <2>3, DeclaredMembers
    <2>6. rest' \subseteq Declared(Owner)'
      BY <1>1, <2>1, <2>2
    <2> QED BY <1>1, <2>1, <2>4, <2>5, <2>6 DEF CollectedInv
  <1>9. CASE EndCollection
    <2>1. /\ phase = "collect" /\ phase' = "parents" /\ rest = {} /\ at + 1 \notin Positions
          /\ methods' = methods /\ attributes' = attributes /\ at \in Positions
      BY <1>9 DEF EndCollection, TypeOK
    <2>2. \A i \in Positions : i < at \/ i = at
      BY <2>1, SizeType DEF Positions
    <2>3. ASSUME NEW t \in Types, NEW n PROVE Met(t, n)
      <3>1. PICK i \in Positions : Order[i] = t
        BY OrderDeclares DEF Enumerations
      <3> QED BY <2>1, <2>2, <3>1 DEF Met, Owner
    <2> QED BY <1>1, <2>1, <2>3 DEF CollectedInv
  <1>10. ASSUME phase # "collect", phase' # "collect", methods' = methods, attributes' = attributes,
                phase' \in {"parents", "cycles", "ctors"} => phase \in {"parents", "cycles", "ctors"}
         PROVE  CollectedInv'
    BY <1>1, <1>10 DEF CollectedInv
  <1>11. CASE \/ (\E t \in Types : ResolveParent(t) \/ StartWalk(t) \/ InheritConstructor(t))
              \/ EnterType \/ CloseCycle \/ EndWalk \/ EndCycles
    BY <1>10, <1>11 DEF ResolveParent, StartWalk, InheritConstructor, EnterType, CloseCycle, EndWalk,
       EndCycles, Meet
  <1>12. CASE \E t \in Types : CopyMembers(t)
    BY <1>12 DEF CopyMembers, Meet, CollectedInv
  <1>13. CASE UNCHANGED vars
    BY <1>2, <1>10, <1>13 DEF vars, CollectedInv
  <1> QED
    BY <1>4, <1>5, <1>6, <1>7, <1>8, <1>9, <1>11, <1>12, <1>13 DEF Next

(* An entry is the nearest declaration, and a declaration is an entry.      *)
Owned(f, entry, D, t) ==
  /\ entry # None => IsNearest(f, D, t, entry)
  /\ t \in D => entry # None

Copied(t) == phase = "done" \/ \E i \in Positions : i < pos /\ program.map[i] = t

MembersInv ==
  phase \in {"members", "done"} =>
    /\ \A t \in Types, m \in Methods : Owned(parentName, methods[t][m], DeclaresMethod(m), t)
    /\ \A t \in Types, a \in Attributes :
         /\ Owned(parentName, attributes[t][a], DeclaresAttribute(a), t)
         /\ Copied(t) /\ parentName[t] \in DeclaresAttribute(a) => attributes[t][a] # None

LEMMA OwnedAtFirst ==
  ASSUME NEW f, NEW D, NEW t \in DOMAIN f, t # None
  PROVE  Owned(f, IF t \in D THEN t ELSE None, D, t)
  BY NearestSelf DEF Owned

LEMMA OwnedInherited ==
  ASSUME NEW f, NEW D, NEW t \in DOMAIN f, NEW own, NEW base,
         Owned(f, own, D, t), Owned(f, base, D, f[t])
  PROVE  /\ Owned(f, IF own = None THEN base ELSE own, D, t)
         /\ f[t] \in D => (IF own = None THEN base ELSE own) # None
  BY NearestAbove DEF Owned

(* A pass that meets t has met the other types before, or is not over.      *)
LEMMA MetBefore ==
  ASSUME TypeOK, NEW pass \in Phases, NEW after \in Phases, NEW t \in Types, Meet(t, pass, after),
         NEW u \in Types, u # t, program' = program,
         phase' # pass \/ \E i \in Positions : i < pos' /\ program'.map[i] = u
  PROVE  \E i \in Positions : i < pos /\ program.map[i] = u
  <1>1. PICK i \in Positions : program.map[i] = u /\ (i < pos' \/ phase' # pass)
    BY DEF TypeOK, Declarations, Enumerations
  <1>2. i # pos
    BY <1>1 DEF Meet
  <1>3. i < pos + 1
    <2>1. pos \in Nat /\ i \in Nat /\ i <= Cardinality(Types) /\ Cardinality(Types) \in Nat
      BY SizeType DEF TypeOK, Positions
    <2>2. CASE pos + 1 \in Positions
      BY <1>1, <2>2 DEF Meet
    <2>3. CASE pos + 1 \notin Positions
      BY <2>1, <2>3 DEF Positions
    <2> QED BY <2>2, <2>3
  <1>4. i < pos
    BY <1>2, <1>3, SizeType DEF TypeOK, Positions
  <1> QED BY <1>1, <1>4

LEMMA InitMembers == Init => MembersInv
  BY DEF Init, MembersInv

LEMMA NextMembers == TypeOK /\ CollectedInv /\ MembersInv /\ [Next]_vars => MembersInv'
  <1> SUFFICES ASSUME TypeOK, CollectedInv, MembersInv, [Next]_vars PROVE MembersInv'
    OBVIOUS
  <1> USE DEF search, walk, names, members
  <1>1. /\ program' = program /\ DOMAIN parentName = Types
        /\ \A n : DeclaresMethod(n)' = DeclaresMethod(n) /\ DeclaresAttribute(n)' = DeclaresAttribute(n)
    BY ProgramFixed DEF TypeOK
  <1>2. ASSUME NEW t \in Types, InheritConstructor(t) PROVE MembersInv'
    <2>1. /\ phase = "ctors" /\ methods' = methods /\ attributes' = attributes /\ parentName' = parentName
          /\ phase' \in {"ctors", "members"} /\ (phase' = "members" => pos' = 1)
      BY <1>2 DEF InheritConstructor, Meet
    <2>2. phase' = "members" => \A u \in Types : ~Copied(u)'
      BY <2>1, SizeType DEF Copied, Positions
    <2>3. \A u \in Types, m \in Methods : Owned(parentName, methods[u][m], DeclaresMethod(m), u)
      BY <1>1, <2>1, OwnedAtFirst, RootsApart DEF CollectedInv
    <2>4. \A u \in Types, a \in Attributes : Owned(parentName, attributes[u][a], DeclaresAttribute(a), u)
      BY <1>1, <2>1, OwnedAtFirst, RootsApart DEF CollectedInv
    <2> QED BY <1>1, <2>1, <2>2, <2>3, <2>4 DEF MembersInv
  <1>3. ASSUME NEW t \in Types, CopyMembers(t) PROVE MembersInv'
    <2> DEFINE p == parentName[t]
    <2>1. /\ Meet(t, "members", "done") /\ phase = "members" /\ phase' \in {"members", "done"}
          /\ parentName' = parentName
      BY <1>3 DEF CopyMembers, Meet
    <2>2. \A u \in Types, m \in Methods : Owned(parentName, methods[u][m], DeclaresMethod(m), u)
      BY <2>1 DEF MembersInv
    <2>3. \A u \in Types, a \in Attributes :
            /\ Owned(parentName, attributes[u][a], DeclaresAttribute(a), u)
            /\ Copied(u) /\ parentName[u] \in DeclaresAttribute(a) => attributes[u][a] # None
      BY <2>1 DEF MembersInv
    <2>4. ASSUME NEW u \in Types, u # t, Copied(u)' PROVE Copied(u)
      <3>1. phase' # "members" \/ \E i \in Positions : i < pos' /\ program'.map[i] = u
        BY <2>1, <2>4 DEF Copied
      <3> QED BY <1>1, <2>1, <2>4, <3>1, MetBefore DEF Copied, Phases
    <2>5. CASE p \in Types
      <3> DEFINE Entry(rec, n) == IF rec[t][n] = None THEN rec[p][n] ELSE rec[t][n]
      <3>1. /\ \A u \in Types, m \in Methods :
                 methods'[u][m] = IF u = t THEN Entry(methods, m) ELSE methods[u][m]
            /\ \A u \in Types, a \in Attributes :
                 attributes'[u][a] = IF u = t THEN Entry(attributes, a) ELSE attributes[u][a]
        <4>1. /\ methods' = [methods EXCEPT ![t] = Inherit(methods[t], methods[p])]
              /\ attributes' = [attributes EXCEPT ![t] = Inherit(attributes[t], attributes[p])]
          BY <1>3, <2>5 DEF CopyMembers
        <4> QED BY <4>1 DEF TypeOK, Inherit
      <3>2. ASSUME NEW m \in Methods PROVE Owned(parentName, Entry(methods, m), DeclaresMethod(m), t)
        BY <1>1, <2>2, <2>5, OwnedInherited
      <3>3. ASSUME NEW a \in Attributes
            PROVE  /\ Owned(parentName, Entry(attributes, a), DeclaresAttribute(a), t)
                   /\ p \in DeclaresAttribute(a) => Entry(attributes, a) # None
        BY <1>1, <2>3, <2>5, OwnedInherited
      <3> HIDE DEF Entry
      <3>4. \A u \in Types, m \in Methods : Owned(parentName, methods'[u][m], DeclaresMethod(m), u)
        BY <2>2, <3>1, <3>2
      <3>5. \A u \in Types, a \in Attributes :
              /\ Owned(parentName, attributes'[u][a], DeclaresAttribute(a), u)
              /\ Copied(u)' /\ parentName[u] \in DeclaresAttribute(a) => attributes'[u][a] # None
        BY <2>3, <2>4, <3>1, <3>3
      <3> QED BY <1>1, <2>1, <3>4, <3>5 DEF MembersInv
    <2>6. CASE p \notin Types
      <3>1. methods' = methods /\ attributes' = attributes
        BY <1>3, <2>6 DEF CopyMembers
      <3>2. \A a \in Attributes : p \notin DeclaresAttribute(a)
        BY <2>6 DEF DeclaresAttribute
      <3> QED BY <1>1, <2>1, <2>2, <2>3, <2>4, <3>1, <3>2 DEF MembersInv
    <2> QED BY <2>5, <2>6
  <1>4. CASE UNCHANGED vars
    <2>1. UNCHANGED <<phase, pos, parentName, methods, attributes>>
      BY <1>4 DEF vars
    <2>2. \A t : Copied(t)' = Copied(t)
      BY <1>1, <2>1 DEF Copied
    <2> QED BY <1>1, <2>1, <2>2 DEF MembersInv
  <1>5. CASE ~(phase' \in {"members", "done"})
    BY <1>5 DEF MembersInv
  <1> QED
    BY <1>2, <1>3, <1>4, <1>5 DEF Next, RegisterAttribute, BeginMethod, SearchInherited, EmplaceMethod,
       NextType, EndCollection, ResolveParent, StartWalk, EnterType, CloseCycle, EndWalk, EndCycles, Meet

(* What FindMethod and the attribute entries answer is what Nearest says.   *)
LEMMA MembersInvariant == Spec => [](TypeOK /\ WalkInv /\ CollectedInv /\ MembersInv)
  <1>1. Init => TypeOK /\ WalkInv /\ CollectedInv /\ MembersInv
    BY InitTypeOK, InitWalkInv, InitCollected, InitMembers
  <1>2. TypeOK /\ WalkInv /\ CollectedInv /\ MembersInv /\ [Next]_vars
          => (TypeOK /\ WalkInv /\ CollectedInv /\ MembersInv)'
    BY NextTypeOK, NextWalkInv, NextCollected, NextMembers
  <1> QED BY <1>1, <1>2, PTL DEF Spec

(* MethodsResolve: from the end of the cycle detector on, before, while and *)
(* after methods are copied down in any order, findMethod returns the       *)
(* declaration nearest to the type it starts at.                            *)
THEOREM MethodsAlwaysResolve == Spec => []MethodsResolve
  <1>1. ASSUME TypeOK, WalkInv, CollectedInv, MembersInv, Resolved, NEW t \in Types, NEW m \in Methods
        PROVE  FindMethod(t, m) = Nearest(parentName, DeclaresMethod(m), t)
    <2> DEFINE f == parentName
               D == DeclaresMethod(m)
               H == {u \in Types : methods[u][m] # None}
               r == Nearest(f, H, t)
    <2>1. DOMAIN f = Types /\ IsFiniteSet(DOMAIN f) /\ Grounded(f) /\ D \in SUBSET Types
      BY <1>1, SomeTypes DEF TypeOK, WalkInv, HierarchyGrounded, DeclaresMethod
    <2>2. \A u \in Types : Owned(f, methods[u][m], D, u)
      <3>1. CASE phase = "ctors"
        BY <1>1, <2>1, <3>1, OwnedAtFirst, RootsApart DEF CollectedInv
      <3>2. CASE phase # "ctors"
        BY <1>1, <3>2 DEF MembersInv, Resolved
      <3> QED BY <3>1, <3>2
    <2>3. D \in SUBSET H /\ H \in SUBSET DOMAIN f /\ None \notin Types
      BY <2>1, <2>2, RootsApart DEF Owned
    <2>4. FindMethod(t, m) = IF r = None THEN None ELSE methods[r][m]
      BY DEF FindMethod
    <2> HIDE DEF f, D, H, r
    <2>5. CASE Reaches(f, t, H)
      <3>1. IsNearest(f, H, t, r)
        BY <2>1, <2>3, <2>5, NearestFound DEF r
      <3>2. r \in H /\ r \in Types /\ r # None
        BY <2>1, <2>3, <3>1 DEF IsNearest
      <3>3. IsNearest(f, D, r, methods[r][m])
        BY <2>2, <3>2 DEF Owned, H
      <3>4. IsNearest(f, D, t, methods[r][m])
        BY <2>3, <3>1, <3>3, NearestOfNearest
      <3>5. Nearest(f, D, t) = methods[r][m]
        BY <2>1, <3>4, NearestIs
      <3> QED BY <2>4, <3>2, <3>5 DEF f, D
    <2>6. CASE ~Reaches(f, t, H)
      <3>1. r = None
        BY <2>1, <2>3, <2>6, NearestFound DEF r
      <3>2. ~Reaches(f, t, D)
        BY <2>3, <2>6 DEF Reaches
      <3>3. Nearest(f, D, t) = None
        BY <2>1, <3>2, NearestFound
      <3> QED BY <2>4, <3>1, <3>3 DEF f, D
    <2> QED BY <2>5, <2>6
  <1>2. TypeOK /\ WalkInv /\ CollectedInv /\ MembersInv => MethodsResolve
    BY <1>1 DEF MethodsResolve
  <1> QED BY <1>2, MembersInvariant, PTL

(* AttributesNearest: at the end an attribute entry is the nearest          *)
(* declaration, whatever the order of the map, and the attributes of a type *)
(* and of its parent have entries.                                          *)
THEOREM AttributesAreNearest == Spec => []AttributesNearest
  <1>1. ASSUME TypeOK, WalkInv, MembersInv, phase = "done", NEW t \in Types, NEW a \in Attributes
        PROVE  /\ attributes[t][a] \in {None, Nearest(parentName, DeclaresAttribute(a), t)}
               /\ attributes[t][a] = None => {t, parentName[t]} \cap DeclaresAttribute(a) = {}
    <2> DEFINE D == DeclaresAttribute(a)
    <2>1. /\ DOMAIN parentName = Types /\ IsFiniteSet(DOMAIN parentName) /\ Grounded(parentName)
          /\ D \in SUBSET DOMAIN parentName
      BY <1>1, SomeTypes DEF TypeOK, WalkInv, HierarchyGrounded, Resolved, DeclaresAttribute
    <2>2. /\ Owned(parentName, attributes[t][a], D, t)
          /\ parentName[t] \in D => attributes[t][a] # None
      BY <1>1 DEF MembersInv, Copied
    <2> HIDE DEF D
    <2>3. attributes[t][a] # None => Nearest(parentName, D, t) = attributes[t][a]
      BY <2>1, <2>2, NearestIs DEF Owned
    <2> QED BY <2>2, <2>3 DEF Owned, D
  <1>2. TypeOK /\ WalkInv /\ MembersInv => AttributesNearest
    BY <1>1 DEF AttributesNearest
  <1> QED BY <1>2, MembersInvariant, PTL
-----------------------------------------------------------------------------
(* Accepted programs.                                                       *)

(* A constructor list that is not the type's own is that of the nearest     *)
(* type with one.                                                           *)
WithParams == {u \in Types : program.params[u] # <<>>}
Taken(f, list, t) ==
  /\ program.params[t] = <<>> /\ list # <<>> /\ ~program.explicit[t]
  /\ \E u \in Types : IsNearest(f, WithParams, t, u) /\ list = program.params[u]
ParamsInv ==
  \A t \in Types : params[t] = program.params[t] \/ (Resolved /\ Taken(parentName, params[t], t))

LEMMA InitParams == Init => ParamsInv
  BY DEF Init, ParamsInv

LEMMA NextParams == TypeOK /\ ParamsInv /\ [Next]_vars => ParamsInv'
  <1> SUFFICES ASSUME TypeOK, ParamsInv, [Next]_vars PROVE ParamsInv'
    OBVIOUS
  <1> USE DEF search, walk, names, members
  <1>1. program' = program
    BY ProgramFixed
  <1>2. \A f, list, t : Taken(f, list, t)' <=> Taken(f, list, t)
    BY <1>1 DEF Taken, WithParams
  <1>3. ASSUME NEW t \in Types, InheritConstructor(t) PROVE ParamsInv'
    <2> DEFINE p == parentName[t]
    <2>1. /\ phase = "ctors" /\ Resolved /\ Resolved' /\ parentName' = parentName
          /\ DOMAIN parentName = Types
      BY <1>3 DEF InheritConstructor, Meet, Resolved, TypeOK
    <2>2. CASE p \in Types /\ ~program.explicit[t] /\ params[t] = <<>>
      <3>1. \A u \in Types : params'[u] = IF u = t THEN params[p] ELSE params[u]
        BY <1>3, <2>2 DEF InheritConstructor, TypeOK
      <3>2. program.params[t] = <<>> /\ t \notin WithParams
        BY <2>2 DEF ParamsInv, Taken, WithParams
      <3>3. params[p] = <<>> \/ Taken(parentName, params[p], t)
        <4>1. SUFFICES ASSUME params[p] # <<>> PROVE Taken(parentName, params[p], t)
          OBVIOUS
        <4>2. \E u \in Types : IsNearest(parentName, WithParams, p, u) /\ params[p] = program.params[u]
          <5>1. CASE params[p] = program.params[p]
            <6>1. p \in WithParams
              BY <2>2, <4>1, <5>1 DEF WithParams
            <6> QED BY <2>1, <2>2, <5>1, <6>1, NearestSelf
          <5>2. CASE Taken(parentName, params[p], p)
            BY <5>2 DEF Taken
          <5> QED BY <2>2, <5>1, <5>2 DEF ParamsInv
        <4>3. PICK u \in Types : IsNearest(parentName, WithParams, p, u) /\ params[p] = program.params[u]
          BY <4>2
        <4>4. IsNearest(parentName, WithParams, t, u)
          BY <2>1, <3>2, <4>3, NearestAbove
        <4> QED BY <2>2, <3>2, <4>1, <4>3, <4>4 DEF Taken
      <3> QED BY <1>1, <1>2, <2>1, <3>1, <3>2, <3>3 DEF ParamsInv
    <2>3. CASE ~(p \in Types /\ ~program.explicit[t] /\ params[t] = <<>>)
      <3>1. params' = params
        BY <1>3, <2>3 DEF InheritConstructor
      <3> QED BY <1>1, <1>2, <2>1, <3>1 DEF ParamsInv
    <2> QED BY <2>2, <2>3
  <1>4. ASSUME params' = params, Resolved => Resolved' /\ parentName' = parentName
        PROVE  ParamsInv'
    BY <1>1, <1>2, <1>4 DEF ParamsInv
  <1>5. CASE UNCHANGED vars
    BY <1>4, <1>5 DEF vars, Resolved
  <1>6. CASE \/ (\E a \in Attributes : RegisterAttribute(a)) \/ (\E m \in Methods : BeginMethod(m))
             \/ SearchInherited \/ EmplaceMethod \/ NextType \/ EndCollection
             \/ (\E t \in Types : ResolveParent(t) \/ StartWalk(t))
             \/ EnterType \/ CloseCycle \/ EndWalk \/ EndCycles
    <2>1. ~Resolved /\ params' = params
      BY <1>6 DEF RegisterAttribute, BeginMethod, SearchInherited, EmplaceMethod, NextType, EndCollection,
         ResolveParent, StartWalk, EnterType, CloseCycle, EndWalk, EndCycles, Meet, Resolved
    <2> QED BY <1>4, <2>1
  <1>7. ASSUME NEW t \in Types, CopyMembers(t) PROVE ParamsInv'
    BY <1>4, <1>7 DEF CopyMembers, Meet, Resolved
  <1> QED BY <1>3, <1>5, <1>6, <1>7 DEF Next

(* Without an error the parents are those of the source.                    *)
ParentsInv ==
  /\ phase = "collect" => pos = 1 /\ parentName = program.parent
  /\ errors = {} =>
       /\ parentName = program.parent
       /\ phase = "parents" => \A i \in Positions : i < pos =>
                                 nominal[program.map[i]] = parentName[program.map[i]]
       /\ phase \notin {"collect", "parents"} => nominal = parentName

LEMMA InitParents == Init => ParentsInv
  BY DEF Init, ParentsInv

LEMMA NextParents == TypeOK /\ ParentsInv /\ [Next]_vars => ParentsInv'
  <1> SUFFICES ASSUME TypeOK, ParentsInv, [Next]_vars PROVE ParentsInv'
    OBVIOUS
  <1> USE DEF search, walk, names, members
  <1>1. program' = program
    BY ProgramFixed
  <1>2. ASSUME errors \subseteq errors', UNCHANGED names,
               \/ phase' = phase /\ pos' = pos
               \/ {phase, phase'} \cap {"collect", "parents"} = {}
        PROVE  ParentsInv'
    BY <1>1, <1>2 DEF ParentsInv
  <1>3. ASSUME NEW t \in Types, ResolveParent(t) PROVE ParentsInv'
    <2>1. /\ Meet(t, "parents", "cycles") /\ phase = "parents" /\ phase' \in {"parents", "cycles"}
          /\ t = program.map[pos]
      BY <1>3 DEF ResolveParent, Meet
    <2>2. SUFFICES ASSUME errors' = {} PROVE ParentsInv'
      BY <2>1 DEF ParentsInv
    <2>3. /\ errors = {} /\ parentName' = parentName /\ parentName[t] # Illegal
          /\ \A u \in Types : nominal'[u] = IF u = t THEN parentName[t] ELSE nominal[u]
      BY <1>3, <2>2 DEF ResolveParent, Report, TypeOK
    <2>4. ASSUME NEW u \in Types, phase' # "parents" \/ \E i \in Positions : i < pos' /\ program.map[i] = u
          PROVE  nominal'[u] = parentName[u]
      <3>1. CASE u = t
        BY <2>3, <3>1
      <3>2. CASE u # t
        <4>1. \E i \in Positions : i < pos /\ program.map[i] = u
          BY <1>1, <2>1, <2>4, <3>2, MetBefore DEF Phases
        <4> QED BY <2>1, <2>3, <3>2, <4>1 DEF ParentsInv
      <3> QED BY <3>1, <3>2
    <2>5. \A i \in Positions : program.map[i] \in Types
      BY DEF TypeOK, Declarations, Enumerations
    <2>6. phase' = "parents" => \A i \in Positions : i < pos' =>
                                  nominal'[program.map[i]] = parentName[program.map[i]]
      BY <2>4, <2>5
    <2>7. phase' = "cycles" => nominal' = parentName'
      <3>1. DOMAIN nominal' = Types /\ DOMAIN parentName' = Types
        BY <1>3, NextTypeOK DEF TypeOK
      <3>2. nominal' = [u \in Types |-> nominal'[u]] /\ parentName' = [u \in Types |-> parentName'[u]]
        BY <1>3, NextTypeOK DEF TypeOK
      <3> QED BY <2>3, <2>4, <3>2
    <2> QED BY <1>1, <2>1, <2>3, <2>6, <2>7 DEF ParentsInv
  <1>4. CASE CloseCycle
    BY <1>4 DEF CloseCycle, Report, ParentsInv
  <1>5. CASE \/ (\E a \in Attributes : RegisterAttribute(a)) \/ (\E m \in Methods : BeginMethod(m))
             \/ SearchInherited \/ EmplaceMethod \/ NextType
    <2>1. phase' = phase /\ pos' = pos /\ UNCHANGED names /\ errors \subseteq errors'
      BY <1>5 DEF RegisterAttribute, BeginMethod, SearchInherited, EmplaceMethod, NextType, Report
    <2> QED BY <1>2, <2>1
  <1>6. CASE \/ (\E t \in Types : StartWalk(t) \/ InheritConstructor(t) \/ CopyMembers(t))
             \/ EnterType \/ EndWalk \/ EndCycles
    <2>1. /\ phase \notin {"collect", "parents"} /\ phase' \notin {"collect", "parents"}
          /\ UNCHANGED names /\ errors \subseteq errors'
      BY <1>6 DEF StartWalk, InheritConstructor, CopyMembers, EnterType, EndWalk, EndCycles, Meet, Report
    <2> QED BY <1>2, <2>1
  <1>7. CASE UNCHANGED vars
    BY <1>2, <1>7 DEF vars
  <1>8. CASE EndCollection
    <2>1. phase = "collect" /\ phase' = "parents" /\ UNCHANGED <<names, errors>> /\ pos' = 1
      BY <1>8 DEF EndCollection, ParentsInv
    <2>2. \A i \in Positions : ~(i < pos')
      BY <2>1, SizeType DEF Positions
    <2> QED BY <1>1, <2>1, <2>2 DEF ParentsInv
  <1> QED BY <1>3, <1>4, <1>5, <1>6, <1>7, <1>8 DEF Next

(* AcceptedIsLegal: when the declarations are analysed without an error the *)
(* hierarchy is that of the source, grounded, the same in the names and in  *)
(* the parent pointers, and constructor lists come from the nearest type    *)
(* that has one.                                                            *)
THEOREM AcceptedProgramsAreLegal == Spec => []AcceptedIsLegal
  <1>1. ASSUME TypeOK, WalkInv, ParamsInv, ParentsInv, phase = "done", errors = {}
        PROVE  /\ Grounded(program.parent)
               /\ parentName = program.parent /\ nominal = program.parent
               /\ \A t \in Types : params[t] # program.params[t] =>
                    /\ program.params[t] = <<>> /\ ~program.explicit[t]
                    /\ params[t] = program.params[
                         Nearest(parentName, {u \in Types : program.params[u] # <<>>}, t)]
    <2>1. parentName = program.parent /\ nominal = program.parent
      BY <1>1 DEF ParentsInv
    <2>2. Grounded(parentName) /\ DOMAIN parentName = Types
      BY <1>1 DEF WalkInv, HierarchyGrounded, Resolved, TypeOK
    <2>3. ASSUME NEW t \in Types, params[t] # program.params[t]
          PROVE  /\ program.params[t] = <<>> /\ ~program.explicit[t]
                 /\ params[t] = program.params[Nearest(parentName, WithParams, t)]
      <3>1. Taken(parentName, params[t], t)
        BY <1>1, <2>3 DEF ParamsInv
      <3>2. PICK u \in Types : IsNearest(parentName, WithParams, t, u) /\ params[t] = program.params[u]
        BY <3>1 DEF Taken
      <3>3. WithParams \in SUBSET DOMAIN parentName /\ IsFiniteSet(DOMAIN parentName)
        BY <2>2, SomeTypes DEF WithParams
      <3>4. Nearest(parentName, WithParams, t) = u
        BY <2>2, <3>2, <3>3, NearestIs
      <3> QED BY <3>1, <3>2, <3>4 DEF Taken
    <2> QED BY <2>1, <2>2, <2>3 DEF WithParams
  <1>2. TypeOK /\ WalkInv /\ ParamsInv /\ ParentsInv => AcceptedIsLegal
    BY <1>1 DEF AcceptedIsLegal
  <1> QED
    BY <1>2, InitTypeOK, NextTypeOK, InitWalkInv, NextWalkInv, InitParams, NextParams,
       InitParents, NextParents, PTL DEF Spec
-----------------------------------------------------------------------------
(* Signatures.                                                              *)

LEMMA OrderInjective == \A i, j \in Positions : Order[i] = Order[j] => i = j
  <1>1. Order \in Surjection(Positions, Types)
    BY OrderDeclares DEF Enumerations, Surjection
  <1>2. IsFiniteSet(Positions) /\ Cardinality(Positions) = Cardinality(Types)
    <2>1. IsFiniteSet(Positions) /\ Cardinality(Positions) = Cardinality(Types) - 1 + 1
      BY SizeType, FS_Interval DEF Positions
    <2> QED BY <2>1, SizeType
  <1>3. Order \in Injection(Positions, Types)
    BY <1>1, <1>2, FS_SurjSameCardinalityImpliesInj
  <1> QED BY <1>3 DEF Injection, IsInjective

LEMMA BeforeTransitive ==
  ASSUME NEW t, NEW u, NEW v, Before(t, u), Before(u, v)
  PROVE  Before(t, v)
  <1>1. PICK i \in Positions, j \in Positions : i < j /\ Order[i] = t /\ Order[j] = u
    BY DEF Before
  <1>2. PICK k \in Positions, l \in Positions : k < l /\ Order[k] = u /\ Order[l] = v
    BY DEF Before
  <1>3. j = k
    BY <1>1, <1>2, OrderInjective
  <1>4. i < l
    BY <1>1, <1>2, <1>3, PositionsType
  <1> QED BY <1>1, <1>2, <1>4 DEF Before

Sequential == \A t \in Types : program.parent[t] \in Types => Before(program.parent[t], t)

(* With parents first, all ancestors are declared before a type.            *)
LEMMA AncestorsBefore ==
  ASSUME program \in Declarations, Sequential, NEW t \in Types, NEW u,
         Subtype(program.parent, program.parent[t], u)
  PROVE  Before(u, t)
  <1> DEFINE P == program.parent
             S == {w \in Types : Before(w, t)}
  <1>1. DOMAIN P = Types
    BY DEF Declarations
  <1>2. P[t] \in S
    BY <1>1, SubtypeType DEF Sequential
  <1>3. UpClosed(P, S)
    BY <1>1, BeforeTransitive DEF UpClosed, Sequential
  <1>4. S \in SUBSET DOMAIN P
    BY <1>1
  <1>5. u \in S
    BY <1>2, <1>3, <1>4 DEF Subtype
  <1> QED BY <1>5

(* A method that is registered agrees with every declaration above it, and  *)
(* the walk of findMethod has passed no declaration.                        *)
Agrees(t, m) ==
  \A u \in DeclaresMethod(m) :
    Subtype(program.parent, program.parent[t], u) => program.sig[t][m] = program.sig[u][m]
SignatureInv ==
  errors = {} /\ Sequential =>
    /\ phase = "collect" =>
         /\ \A t \in Types, m \in Methods : methods[t][m] # None => Agrees(t, m)
         /\ task # None =>
              /\ cursor \in Types => Subtype(program.parent, program.parent[Owner], cursor)
              /\ \A u \in DeclaresMethod(task) :
                   Subtype(program.parent, program.parent[Owner], u) => Subtype(program.parent, cursor, u)
    /\ phase # "collect" => \A m \in Methods : \A t \in DeclaresMethod(m) : Agrees(t, m)

LEMMA InitSignature == Init => SignatureInv
  BY DEF Init, SignatureInv

LEMMA NextSignature == TypeOK /\ CollectedInv /\ ParentsInv /\ SignatureInv /\ [Next]_vars => SignatureInv'
  <1> SUFFICES ASSUME TypeOK, CollectedInv, ParentsInv, SignatureInv, [Next]_vars, errors' = {}, Sequential
               PROVE  SignatureInv'
    BY ProgramFixed DEF SignatureInv, Sequential
  <1> USE DEF search, walk, names, members
  <1> DEFINE P == program.parent
  <1>1. /\ program' = program /\ DOMAIN P = Types /\ program \in Declarations
        /\ \A n : DeclaresMethod(n)' = DeclaresMethod(n)
        /\ \A t, m : Agrees(t, m)' <=> Agrees(t, m)
    BY ProgramFixed DEF TypeOK, Declarations, Agrees
  <1>2. Owner \in Types /\ Owner = Order[at] /\ at \in Positions
    BY OwnerType DEF Owner, TypeOK
  <1>3. ASSUME phase = "collect", errors = {}
        PROVE  /\ parentName = P
               /\ \A t \in Types, m \in Methods : methods[t][m] # None => Agrees(t, m)
               /\ task # None =>
                    /\ cursor \in Types => Subtype(P, P[Owner], cursor)
                    /\ \A u \in DeclaresMethod(task) : Subtype(P, P[Owner], u) => Subtype(P, cursor, u)
    BY <1>3 DEF SignatureInv, ParentsInv
  <1>4. ASSUME phase = "collect", phase' = "collect", errors = {}, methods' = methods, task' = None
        PROVE  SignatureInv'
    BY <1>1, <1>3, <1>4 DEF SignatureInv
  <1>5. ASSUME NEW a \in Attributes, RegisterAttribute(a) PROVE SignatureInv'
    BY <1>4, <1>5 DEF RegisterAttribute
  <1>6. ASSUME NEW m \in Methods, BeginMethod(m) PROVE SignatureInv'
    <2>1. /\ phase = "collect" /\ phase' = "collect" /\ errors = {} /\ methods' = methods
          /\ task' = m /\ at' = at /\ cursor' = parentName[Owner]
      BY <1>6 DEF BeginMethod
    <2>2. parentName = P /\ Owner' = Owner
      BY <1>3, <2>1 DEF Owner
    <2>3. cursor' = P[Owner] /\ (cursor' \in Types => Subtype(P, P[Owner], cursor'))
      BY <1>1, <2>1, <2>2, SubtypeReflexive
    <2> QED BY <1>1, <1>3, <2>1, <2>2, <2>3 DEF SignatureInv
  <1>7. CASE SearchInherited
    <2>1. /\ phase = "collect" /\ phase' = "collect" /\ errors = {} /\ methods' = methods
          /\ task' = task /\ task # None /\ at' = at
          /\ cursor \in Types /\ methods[cursor][task] = None /\ cursor' = parentName[cursor]
      BY <1>7 DEF SearchInherited
    <2>2. parentName = P /\ Owner' = Owner /\ task \in Methods
      BY <1>3, <2>1 DEF Owner, TypeOK
    <2>3. Subtype(P, P[Owner], cursor)
      BY <1>3, <2>1
    <2>4. cursor \notin DeclaresMethod(task)
      <3>1. PICK i \in Positions, j \in Positions : i < j /\ Order[i] = cursor /\ Order[j] = Owner
        BY <1>1, <1>2, <2>3, AncestorsBefore DEF Before
      <3>2. j = at
        BY <1>2, <3>1, OrderInjective
      <3>3. Met(cursor, task)
        BY <3>1, <3>2 DEF Met
      <3> QED BY <2>1, <2>2, <3>3, RootsApart DEF CollectedInv
    <2>5. ASSUME NEW u \in DeclaresMethod(task), Subtype(P, P[Owner], u) PROVE Subtype(P, cursor', u)
      <3>1. Subtype(P, cursor, u) /\ u # cursor
        BY <1>3, <2>1, <2>4, <2>5
      <3> QED BY <2>1, <2>2, <3>1, SubtypeStep
    <2>6. cursor' \in Types => Subtype(P, P[Owner], cursor')
      BY <1>1, <2>1, <2>2, <2>3, SubtypeParent, SubtypeTransitive
    <2> QED BY <1>1, <1>3, <2>1, <2>2, <2>5, <2>6 DEF SignatureInv
  <1>8. CASE EmplaceMethod
    <2>1. /\ phase = "collect" /\ phase' = "collect" /\ task # None /\ task' = None /\ task \in Methods
          /\ \A t \in Types, m \in Methods :
               methods'[t][m] = IF t = Owner /\ m = task THEN Owner ELSE methods[t][m]
      BY <1>2, <1>8 DEF EmplaceMethod, TypeOK
    <2>2. /\ errors = {}
          /\ cursor \in Types => /\ methods[cursor][task] # None
                                 /\ program.sig[cursor][task] = program.sig[Owner][task]
      BY <1>8 DEF EmplaceMethod, Report
    <2>3. Agrees(Owner, task)
      <3> SUFFICES ASSUME NEW u \in DeclaresMethod(task), Subtype(P, P[Owner], u)
                   PROVE  program.sig[Owner][task] = program.sig[u][task]
        BY DEF Agrees
      <3>1. Subtype(P, cursor, u)
        BY <1>3, <2>1, <2>2
      <3>2. cursor \in Types
        BY <1>1, <3>1, SubtypeType
      <3>3. Agrees(cursor, task)
        BY <1>3, <2>1, <2>2, <3>2
      <3>4. CASE u = cursor
        BY <2>2, <3>2, <3>4
      <3>5. CASE u # cursor
        <4>1. Subtype(P, P[cursor], u)
          BY <3>1, <3>5, SubtypeStep
        <4>2. program.sig[cursor][task] = program.sig[u][task]
          BY <3>3, <4>1 DEF Agrees
        <4> QED BY <2>2, <3>2, <4>2
      <3> QED BY <3>4, <3>5
    <2> QED BY <1>1, <1>3, <2>1, <2>2, <2>3 DEF SignatureInv
  <1>9. CASE NextType
    BY <1>4, <1>9 DEF NextType
  <1>10. CASE EndCollection
    <2>1. /\ phase = "collect" /\ phase' = "parents" /\ errors = {} /\ methods' = methods
      BY <1>10 DEF EndCollection
    <2>2. \A m \in Methods : \A t \in DeclaresMethod(m) : methods'[t][m] = t /\ t \in Types
      BY <1>1, <1>10, <2>1, NextCollected DEF CollectedInv, DeclaresMethod
    <2> QED BY <1>1, <1>3, <2>1, <2>2, RootsApart DEF SignatureInv
  <1>11. ASSUME phase # "collect", phase' # "collect", errors \subseteq errors' PROVE SignatureInv'
    BY <1>1, <1>11 DEF SignatureInv
  <1>12. CASE \/ \E t \in Types : \/ ResolveParent(t) \/ StartWalk(t) \/ InheritConstructor(t)
                                  \/ CopyMembers(t)
              \/ EnterType \/ CloseCycle \/ EndWalk \/ EndCycles
    <2>1. phase # "collect" /\ phase' # "collect" /\ errors \subseteq errors'
      BY <1>12 DEF ResolveParent, StartWalk, InheritConstructor, CopyMembers, EnterType, CloseCycle,
         EndWalk, EndCycles, Meet, Report
    <2> QED BY <1>11, <2>1
  <1>13. CASE UNCHANGED vars
    <2>1. UNCHANGED <<phase, errors, methods, task, cursor, at>>
      BY <1>13 DEF vars
    <2>2. Owner' = Owner
      BY <2>1 DEF Owner
    <2> QED BY <1>1, <2>1, <2>2 DEF SignatureInv
  <1> QED
    BY <1>5, <1>6, <1>7, <1>8, <1>9, <1>10, <1>12, <1>13 DEF Next

(* SignaturesKept: when parents are declared before their children and      *)
(* nothing is reported, all declarations of a method along a chain have one *)
(* signature.                                                               *)
THEOREM SignaturesAreKept == Spec => []SignaturesKept
  <1>1. ASSUME TypeOK, ParentsInv, SignatureInv, phase = "done", errors = {}, Sequential,
               NEW t \in Types, NEW m \in Methods, NEW u \in Above(parentName, t),
               {t, u} \subseteq DeclaresMethod(m)
        PROVE  program.sig[t][m] = program.sig[u][m]
    <2>1. parentName = program.parent /\ DOMAIN parentName = Types
      BY <1>1 DEF ParentsInv, TypeOK
    <2>2. Subtype(parentName, parentName[t], u)
      BY <1>1, <2>1, SomeTypes, AboveIsAncestors
    <2>3. Agrees(t, m)
      BY <1>1 DEF SignatureInv
    <2> QED BY <1>1, <2>1, <2>2, <2>3 DEF Agrees
  <1>2. TypeOK /\ ParentsInv /\ SignatureInv => SignaturesKept
    BY <1>1 DEF SignaturesKept, Sequential
  <1> QED
    BY <1>2, InitTypeOK, NextTypeOK, InitCollected, NextCollected, InitParents, NextParents,
       InitSignature, NextSignature, PTL DEF Spec
-----------------------------------------------------------------------------
(* The cycle detector cuts every cycle of the source once.                  *)
(*                                                                          *)
(* The types it cuts lie on cycles, and what is above a cut type has been   *)
(* visited, so that a later walk never comes back to that cycle.  Every     *)
(* other parent is the one written, unless that one is refused.             *)
Cut == {u \in Types : <<"cycle", u>> \in errors}
Kept(t) ==
  \/ parentName[t] = program.parent[t]
  \/ program.parent[t] = Illegal /\ parentName[t] = Object /\ <<"parent", t>> \in errors

CutInv ==
  /\ phase \in {"collect", "parents"} => Cut = {}
  /\ \A t \in Types \ Cut : Kept(t)
  /\ \A u \in Cut : /\ parentName[u] = Object
                    /\ Subtype(program.parent, program.parent[u], u)
                    /\ \A v \in Cut : Subtype(program.parent, u, v) => u = v
  /\ phase = "cycles" =>
       /\ \A u \in Cut, w \in Types : Subtype(program.parent, u, w) => w \in visited
       /\ \A v \in visiting :
            cursor \in Types => Subtype(program.parent, program.parent[v], cursor)

LEMMA InitCut == Init => CutInv
  BY ProgramsDeclare DEF Init, CutInv, Cut, Kept

(* A type that is visited for the first time has its own parent still.      *)
LEMMA FreshKept ==
  ASSUME TypeOK, CutInv, phase = "cycles", NEW t \in Types \ visited
  PROVE  t \notin Cut /\ (parentName[t] \in Types => parentName[t] = program.parent[t])
  <1>1. DOMAIN program.parent = Types
    BY DEF TypeOK, Declarations
  <1>2. t \notin Cut
    BY <1>1, SubtypeReflexive DEF CutInv
  <1> QED BY <1>2, RootsApart DEF CutInv, Kept

(* What is above a type on the walk, as written, is on the walk when the    *)
(* walk closes a cycle.                                                     *)
LEMMA WalkHoldsCycle ==
  ASSUME TypeOK, WalkInv, CutInv, phase = "cycles", cursor \in visiting,
         NEW w, Subtype(program.parent, cursor, w)
  PROVE  w \in visiting
  <1>1. DOMAIN program.parent = Types /\ visiting \subseteq Types
    BY DEF TypeOK, Declarations
  <1>2. ASSUME NEW v \in visiting, program.parent[v] \in Types PROVE program.parent[v] \in visiting
    <2>1. v \in Types \ visited
      BY <1>1 DEF WalkInv
    <2>2. parentName[v] = program.parent[v]
      BY <1>2, <2>1, FreshKept, RootsApart DEF CutInv, Kept
    <2> QED BY <2>2 DEF WalkInv, WalkClosed
  <1>3. UpClosed(program.parent, visiting)
    BY <1>1, <1>2 DEF UpClosed
  <1> QED BY <1>1, <1>3 DEF Subtype

LEMMA NextCut == TypeOK /\ WalkInv /\ CutInv /\ [Next]_vars => CutInv'
  <1> SUFFICES ASSUME TypeOK, WalkInv, CutInv, [Next]_vars PROVE CutInv'
    OBVIOUS
  <1> USE DEF search, walk, names, members
  <1> DEFINE P == program.parent
  <1>1. /\ program' = program /\ DOMAIN P = Types /\ program \in Declarations
        /\ parentName \in [Types -> Parents] /\ visiting \subseteq Types
    BY ProgramFixed DEF TypeOK, Declarations
  <1>2. ASSUME parentName' = parentName, Cut' = Cut, errors \subseteq errors',
               phase' \in {"collect", "parents"} => phase \in {"collect", "parents"},
               phase' = "cycles" => UNCHANGED <<phase, visiting, visited, cursor>>
        PROVE  CutInv'
    BY <1>1, <1>2 DEF CutInv, Kept
  <1>3. ASSUME NEW kind, NEW t, kind # "cycle", errors' \in {errors, errors \cup {<<kind, t>>}}
        PROVE  Cut' = Cut /\ errors \subseteq errors'
    BY <1>3 DEF Cut
  <1>4. CASE \/ \E a \in Attributes : RegisterAttribute(a)
             \/ \E m \in Methods : BeginMethod(m)
             \/ SearchInherited \/ EmplaceMethod \/ NextType \/ EndCollection
    <2>1. /\ phase = "collect" /\ phase' \in {"collect", "parents"} /\ parentName' = parentName
          /\ errors' \in {errors, errors \cup {<<"signature", Owner>>}}
      BY <1>4 DEF RegisterAttribute, BeginMethod, SearchInherited, EmplaceMethod, NextType,
         EndCollection, Report
    <2> QED BY <1>2, <1>3, <2>1
  <1>5. ASSUME NEW t \in Types, ResolveParent(t) PROVE CutInv'
    <2>1. /\ phase = "parents" /\ phase' \in {"parents", "cycles"} /\ Cut = {}
          /\ visiting' = {}
          /\ errors' \in {errors, errors \cup {<<"parent", t>>}}
      BY <1>5 DEF ResolveParent, Meet, Report, CutInv, WalkInv
    <2>2. Cut' = {} /\ errors \subseteq errors'
      BY <1>3, <2>1
    <2>3. ASSUME NEW u \in Types PROVE Kept(u)'
      <3>1. Kept(u)
        BY <2>1 DEF CutInv
      <3>2. CASE u = t /\ parentName[t] = Illegal
        <4>1. parentName'[t] = Object /\ <<"parent", t>> \in errors'
          BY <1>1, <1>5, <3>2 DEF ResolveParent, Report
        <4> QED BY <1>1, <3>1, <3>2, <4>1, RootsApart DEF Kept
      <3>3. CASE ~(u = t /\ parentName[t] = Illegal)
        <4>1. parentName'[u] = parentName[u]
          BY <1>1, <1>5, <3>3 DEF ResolveParent
        <4> QED BY <1>1, <2>2, <3>1, <4>1 DEF Kept
      <3> QED BY <3>2, <3>3
    <2> QED BY <2>1, <2>2, <2>3 DEF CutInv
  <1>6. ASSUME NEW t \in Types, StartWalk(t) PROVE CutInv'
    <2>1. /\ phase = "cycles" /\ visiting = {} /\ visiting' = {}
          /\ UNCHANGED <<phase, visited, parentName, errors>>
      BY <1>6 DEF StartWalk, WalkInv
    <2>2. Cut' = Cut
      BY <2>1 DEF Cut
    <2> QED BY <1>1, <2>1, <2>2 DEF CutInv, Kept
  <1>7. CASE EnterType
    <2>1. /\ phase = "cycles" /\ cursor \in Types /\ cursor \notin visited
          /\ visiting' = visiting \cup {cursor} /\ cursor' = parentName[cursor]
          /\ UNCHANGED <<phase, visited, parentName, errors>>
      BY <1>7 DEF EnterType
    <2>2. ASSUME cursor' \in Types, NEW v \in visiting' PROVE Subtype(P, P[v], cursor')
      <3>1. cursor' = P[cursor]
        BY <2>1, <2>2, FreshKept
      <3>2. CASE v = cursor
        BY <1>1, <2>2, <3>1, <3>2, SubtypeReflexive
      <3>3. CASE v \in visiting
        <4>1. Subtype(P, P[v], cursor)
          BY <2>1, <3>3 DEF CutInv
        <4> QED BY <1>1, <2>1, <2>2, <3>1, <4>1, SubtypeParent, SubtypeTransitive
      <3> QED BY <2>1, <2>2, <3>2, <3>3
    <2>3. Cut' = Cut
      BY <2>1 DEF Cut
    <2> QED BY <1>1, <2>1, <2>2, <2>3 DEF CutInv, Kept
  <1>8. CASE CloseCycle
    <2>1. /\ phase = "cycles" /\ phase' = "cycles" /\ cursor \in visiting /\ cursor \in Types
          /\ parentName' = [parentName EXCEPT ![cursor] = Object]
          /\ errors' = errors \cup {<<"cycle", cursor>>}
          /\ visited' = visited \cup visiting /\ visiting' = {} /\ visiting \cap visited = {}
      BY <1>1, <1>8 DEF CloseCycle, Report, Unwind, WalkInv
    <2>2. Cut' = Cut \cup {cursor}
      BY <2>1 DEF Cut
    <2>3. \A w : Subtype(P, cursor, w) => w \in visiting
      BY <2>1, WalkHoldsCycle
    <2>4. \A u \in Cut : u \in visited /\ \A w \in Types : Subtype(P, u, w) => w \in visited
      BY <1>1, <2>1, SubtypeReflexive DEF CutInv, Cut
    <2>5. ASSUME NEW t \in Types \ Cut' PROVE Kept(t)'
      <3>1. Kept(t) /\ parentName'[t] = parentName[t]
        BY <1>1, <2>1, <2>2, <2>5 DEF CutInv
      <3> QED BY <1>1, <2>1, <3>1 DEF Kept
    <2>6. ASSUME NEW u \in Cut' PROVE parentName'[u] = Object /\ Subtype(P, P[u], u)
      <3>1. u \in Types /\ parentName'[u] = IF u = cursor THEN Object ELSE parentName[u]
        BY <1>1, <2>1, <2>2, <2>6 DEF Cut
      <3>2. CASE u = cursor
        BY <2>1, <3>1, <3>2 DEF CutInv
      <3>3. CASE u # cursor
        BY <2>2, <2>6, <3>1, <3>3 DEF CutInv
      <3> QED BY <3>2, <3>3
    <2>7. ASSUME NEW u \in Cut', NEW v \in Cut', Subtype(P, u, v) PROVE u = v
      <3>1. CASE u \in Cut /\ v \in Cut
        BY <2>7, <3>1 DEF CutInv
      <3>2. CASE u = cursor /\ v \in Cut
        BY <2>1, <2>3, <2>4, <2>7, <3>2
      <3>3. CASE u \in Cut /\ v = cursor
        BY <2>1, <2>4, <2>7, <3>3
      <3> QED BY <2>2, <2>7, <3>1, <3>2, <3>3
    <2>8. ASSUME NEW u \in Cut', NEW w \in Types, Subtype(P, u, w) PROVE w \in visited'
      BY <2>1, <2>2, <2>3, <2>4, <2>8
    <2> QED BY <1>1, <2>1, <2>5, <2>6, <2>7, <2>8 DEF CutInv
  <1>9. CASE EndWalk
    <2>1. /\ phase = "cycles" /\ visiting' = {} /\ visited \subseteq visited'
          /\ UNCHANGED <<phase, parentName, errors>>
      BY <1>9 DEF EndWalk, Unwind
    <2>2. Cut' = Cut
      BY <2>1 DEF Cut
    <2> QED BY <1>1, <2>1, <2>2 DEF CutInv, Kept
  <1>10. CASE EndCycles \/ \E t \in Types : InheritConstructor(t) \/ CopyMembers(t)
    <2>1. /\ parentName' = parentName /\ phase' \in {"ctors", "members", "done"}
          /\ \E t : errors' \in {errors, errors \cup {<<"constructor", t>>}}
      BY <1>10 DEF EndCycles, InheritConstructor, CopyMembers, Meet, Report
    <2> QED BY <1>2, <1>3, <2>1
  <1>11. CASE UNCHANGED vars
    <2>1. UNCHANGED <<phase, parentName, errors, visiting, visited, cursor>>
      BY <1>11 DEF vars
    <2> QED BY <1>2, <2>1 DEF Cut
  <1> QED
    BY <1>4, <1>5, <1>6, <1>7, <1>8, <1>9, <1>10, <1>11 DEF Next

(* In a grounded hierarchy some type of every cycle of the source is cut.   *)
LEMMA CycleIsCut ==
  ASSUME TypeOK, CutInv, Grounded(parentName), NEW t \in Types,
         Subtype(program.parent, program.parent[t], t)
  PROVE  \E w \in Cut : Subtype(program.parent, t, w)
  <1> DEFINE P == program.parent
             S == {w \in Types : Subtype(P, t, w)}
  <1>1. DOMAIN P = Types /\ DOMAIN parentName = Types
    BY DEF TypeOK, Declarations
  <1>2. t \in S
    BY <1>1, SubtypeReflexive
  <1>3. PICK w \in S : parentName[w] \notin S
    BY <1>1, <1>2 DEF Grounded
  <1>4. P[w] \in Types
    <2>1. Subtype(P, w, t)
      BY CycleReturns
    <2> QED BY <1>1, <2>1, SubtypeStep, SubtypeType
  <1>5. P[w] \in S
    BY <1>1, <1>4, SubtypeParent, SubtypeTransitive
  <1>6. ~Kept(w)
    BY <1>3, <1>4, <1>5, RootsApart DEF Kept
  <1> QED BY <1>6 DEF CutInv

(* CyclesCutOnce: each cycle of the source loses exactly one parent and is  *)
(* reported, and every other parent stays as written unless it is refused.  *)
THEOREM CyclesAreCutOnce == Spec => []CyclesCutOnce
  <1> DEFINE P == program.parent
             cut(t) == {u \in Types : /\ u = t \/ u \in Above(P, t)
                                     /\ OnCycle(P, u)
                                     /\ parentName[u] = Object
                                     /\ <<"cycle", u>> \in errors}
  <1>1. ASSUME TypeOK, WalkInv, CutInv, Resolved, NEW t \in Types
        PROVE  /\ OnCycle(P, t) => Cardinality(cut(t)) = 1
               /\ parentName[t] # P[t] =>
                    \/ t \in cut(t)
                    \/ P[t] = Illegal /\ <<"parent", t>> \in errors
    <2>1. DOMAIN P = Types /\ Grounded(parentName)
      BY <1>1 DEF TypeOK, Declarations, WalkInv, HierarchyGrounded
    <2>2. \A u \in Types : \A w : w \in Above(P, u) <=> Subtype(P, P[u], w)
      BY <2>1, SomeTypes, AboveIsAncestors
    <2>3. \A u \in Types : OnCycle(P, u) <=> Subtype(P, P[u], u)
      BY <2>2 DEF OnCycle
    <2>4. \A u \in Types : u \in cut(t) <=> u \in Cut /\ (u = t \/ Subtype(P, P[t], u))
      BY <1>1, <2>2, <2>3 DEF CutInv, Cut
    <2>5. ASSUME OnCycle(P, t) PROVE Cardinality(cut(t)) = 1
      <3>1. Subtype(P, P[t], t)
        BY <2>3, <2>5
      <3>2. PICK w \in Cut : Subtype(P, t, w)
        BY <1>1, <2>1, <3>1, CycleIsCut
      <3>3. w \in cut(t)
        BY <2>4, <3>2, SubtypeStep DEF Cut
      <3>4. ASSUME NEW u \in cut(t) PROVE u = w
        <4>1. u \in Cut /\ Subtype(P, t, u)
          BY <2>1, <2>4, <3>1, <3>4, SubtypeReflexive, SubtypeType, SubtypeParent, SubtypeTransitive
        <4>2. Subtype(P, u, w)
          BY <3>1, <3>2, <4>1, CycleReturns, SubtypeTransitive
        <4> QED BY <1>1, <3>2, <4>1, <4>2 DEF CutInv
      <3>5. cut(t) = {w}
        BY <3>3, <3>4
      <3> QED BY <3>5, FS_Singleton
    <2>6. ASSUME parentName[t] # P[t]
          PROVE  t \in cut(t) \/ (P[t] = Illegal /\ <<"parent", t>> \in errors)
      BY <1>1, <2>4, <2>6 DEF CutInv, Kept
    <2> QED BY <2>5, <2>6
  <1>2. TypeOK /\ WalkInv /\ CutInv => CyclesCutOnce
    BY <1>1 DEF CyclesCutOnce
  <1> QED
    BY <1>2, InitTypeOK, NextTypeOK, InitWalkInv, NextWalkInv, InitCut, NextCut, PTL DEF Spec
=============================================================================
