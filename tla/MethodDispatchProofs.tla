------------------------- MODULE MethodDispatchProofs -------------------------
(***************************************************************************)
(* Proofs about MethodDispatch, for every set of classes and methods, every *)
(* order of registration, every accepted program and all bounds.            *)
(***************************************************************************)
EXTENDS MethodDispatch, HierarchyProofs, SequenceTheorems, TLAPS

-----------------------------------------------------------------------------
(* Every variable keeps its type.  A call is begun only with a frame to     *)
(* spare, which is still there when the lookup ends.                        *)

Room == lookup # None => Len(stack) < MaxDepth

LEMMA ProgramType ==
  ASSUME program \in Accepted
  PROVE  /\ program.parent \in [Classes -> Classes \cup {Object}]
         /\ program.declares \in [Classes -> SUBSET Methods]
         /\ program.base \in [Classes -> SUBSET Methods]
         /\ \A m : Declarers(m) \subseteq Classes
  BY DEF Accepted, Programs, Declarers, DeclarersIn

LEMMA FirstMethodsType ==
  ASSUME program \in Accepted, NEW i PROVE FirstMethods(i) \subseteq Methods
  <1>1. ASSUME i \in 1..Len(Order) PROVE program.declares[Order[i]] \subseteq Methods
    <2>1. Order[i] \in Classes
      BY <1>1, OrderDeclares
    <2> QED BY <2>1, ProgramType
  <1> QED BY <1>1 DEF FirstMethods

LEMMA ClassType == Registering => Class \in Classes
  BY OrderDeclares DEF Registering, Class

LEMMA TopType ==
  ASSUME stack \in Seq(Frames), stack # <<>>
  PROVE  Len(stack) \in 1..Len(stack) /\ Top \in Frames
  BY DEF Top

(* The frame on top has done its base call.                                 *)
LEMMA BaseDone ==
  ASSUME stack \in Seq(Frames), stack # <<>>,
         stack' = [stack EXCEPT ![Len(stack)].todo = "return"]
  PROVE  /\ stack' \in Seq(Frames) /\ Len(stack') = Len(stack)
         /\ \A i \in 1..Len(stack) :
              /\ i # Len(stack) => stack'[i] = stack[i]
              /\ stack'[i].self = stack[i].self
              /\ stack'[i].method = stack[i].method
              /\ stack'[i].owner = stack[i].owner
              /\ stack'[i].kind = stack[i].kind
         /\ stack'[Len(stack)].todo = "return"
  <1> DEFINE n == Len(stack)
             top == [stack[n] EXCEPT !.todo = "return"]
  <1>1. n \in 1..n /\ stack[n] \in Frames
    BY TopType DEF Top
  <1>2. /\ top \in Frames /\ top.todo = "return"
        /\ top.self = stack[n].self /\ top.method = stack[n].method
        /\ top.owner = stack[n].owner /\ top.kind = stack[n].kind
    BY <1>1 DEF Frames
  <1>3. stack' = [stack EXCEPT ![n] = top]
    OBVIOUS
  <1> HIDE DEF top
  <1>4. stack' \in Seq(Frames) /\ Len(stack') = Len(stack)
    BY <1>1, <1>2, <1>3
  <1>5. \A i \in 1..n : stack'[i] = IF i = n THEN top ELSE stack[i]
    BY <1>1, <1>3
  <1> QED BY <1>1, <1>2, <1>4, <1>5

LEMMA InitTypeOK == Init => TypeOK /\ Room
  <1> SUFFICES ASSUME Init PROVE TypeOK /\ Room
    OBVIOUS
  <1>1. rest \subseteq Methods
    BY FirstMethodsType DEF Init
  <1>2. vtable_map \in [Classes -> [Methods -> Classes \cup {None}]]
    BY DEF Init, Methodless
  <1>3. at \in 1..Len(Order) + 1
    BY OrderDeclares DEF Init
  <1>4. stack \in Seq(Frames) /\ Len(stack) = 0
    BY DEF Init
  <1>5. /\ program \in Accepted
        /\ inheritance_map \in [Classes -> Classes \cup {Object, None}]
        /\ lookup \in Lookups \cup {None} /\ Room
        /\ crashed \in BOOLEAN
    BY DEF Init, Room
  <1>6. Len(stack) <= MaxDepth /\ calls \in 0..MaxCalls
    BY <1>4, Bounds DEF Init
  <1> QED BY <1>1, <1>2, <1>3, <1>4, <1>5, <1>6 DEF TypeOK

LEMMA NextTypeOK == TypeOK /\ Room /\ [Next]_vars => TypeOK' /\ Room'
  <1> SUFFICES ASSUME TypeOK, Room, [Next]_vars PROVE TypeOK' /\ Room'
    OBVIOUS
  <1> USE DEF vars, tables
  <1>1. CASE RegisterInheritance
    <2>1. program.parent[Class] \in Classes \cup {Object}
      BY <1>1, ClassType, ProgramType DEF RegisterInheritance, TypeOK
    <2> QED BY <1>1, <2>1 DEF RegisterInheritance, TypeOK, Room
  <1>2. ASSUME NEW m \in Methods, RegisterMethod(m) PROVE TypeOK' /\ Room'
    <2>1. Class \in Classes
      BY <1>2, ClassType DEF RegisterMethod
    <2>2. vtable_map' \in [Classes -> [Methods -> Classes \cup {None}]]
      BY <1>2, <2>1 DEF RegisterMethod, TypeOK
    <2> QED BY <1>2, <2>2 DEF RegisterMethod, TypeOK, Room
  <1>3. CASE NextClass
    <2>1. rest' \subseteq Methods
      BY <1>3, FirstMethodsType DEF NextClass, TypeOK
    <2>2. at' \in 1..Len(Order) + 1
      BY <1>3, OrderDeclares DEF NextClass, Registering
    <2> QED BY <1>3, <2>1, <2>2 DEF NextClass, TypeOK, Room
  <1>4. ASSUME NEW c \in Classes, NEW s \in Classes, NEW m \in Methods, CallMethod(c, s, m)
        PROVE  TypeOK' /\ Room'
    <2>1. lookup' \in Lookups
      BY <1>4 DEF CallMethod, Lookups
    <2>2. calls' \in 0..MaxCalls
      BY <1>4, Bounds DEF CallMethod, TypeOK
    <2> QED BY <1>4, <2>1, <2>2 DEF CallMethod, TypeOK, Room
  <1>5. CASE CallBase
    <2>1. stack \in Seq(Frames) /\ stack # <<>>
      BY <1>5 DEF CallBase, TypeOK
    <2>2. Top.self \in Classes /\ Top.method \in Methods
      BY <2>1, TopType DEF Frames
    <2>3. lookup' \in Lookups
      BY <1>5, <2>2 DEF CallBase, TypeOK, Lookups
    <2>4. stack' \in Seq(Frames) /\ Len(stack') = Len(stack)
      BY <1>5, <2>1, BaseDone DEF CallBase
    <2> QED BY <1>5, <2>3, <2>4 DEF CallBase, TypeOK, Room
  <1>6. CASE EnterFound
    <2>1. lookup \in Lookups
      BY <1>6 DEF EnterFound, TypeOK
    <2>2. Entry \in Classes
      BY <1>6, <2>1 DEF EnterFound, Entry, TypeOK, Lookups
    <2> DEFINE frame == [self |-> lookup.self, method |-> lookup.method, owner |-> Entry,
                         kind |-> lookup.kind,
                         todo |-> IF lookup.method \in program.base[Entry]
                                    THEN "base" ELSE "return"]
    <2>3. frame \in Frames
      BY <2>1, <2>2 DEF Lookups, Frames
    <2>4. stack' = Append(stack, frame)
      BY <1>6 DEF EnterFound
    <2> HIDE DEF frame
    <2>5. stack' \in Seq(Frames) /\ Len(stack') = Len(stack) + 1
      BY <2>3, <2>4 DEF TypeOK
    <2>6. Len(stack') <= MaxDepth
      BY <1>6, <2>5, Bounds DEF EnterFound, Room, TypeOK
    <2> QED BY <1>6, <2>5, <2>6 DEF EnterFound, TypeOK, Room
  <1>7. CASE WalkUp
    <2>1. lookup \in Lookups
      BY <1>7 DEF WalkUp, TypeOK
    <2>2. Link \in Classes \cup {Object, None}
      BY <2>1 DEF Link, TypeOK
    <2>3. lookup' \in Lookups \cup {None}
      BY <1>7, <2>1, <2>2 DEF WalkUp, Lookups
    <2> QED BY <1>7, <2>3 DEF WalkUp, TypeOK, Room
  <1>8. CASE Return
    <2>1. /\ SubSeq(stack, 1, Len(stack) - 1) \in Seq(Frames)
          /\ Len(SubSeq(stack, 1, Len(stack) - 1)) <= Len(stack)
      BY <1>8 DEF Return, TypeOK
    <2> QED BY <1>8, <2>1, Bounds DEF Return, TypeOK, Room
  <1>9. CASE UNCHANGED vars
    BY <1>9 DEF TypeOK, Room
  <1> QED
    BY <1>1, <1>2, <1>3, <1>4, <1>5, <1>6, <1>7, <1>8, <1>9 DEF Next, Startup, Lookup

(* TypeOK is an invariant of the specification.                             *)
THEOREM TypeCorrect == Spec => []TypeOK
  <1>1. Spec => [](TypeOK /\ Room)
    BY InitTypeOK, NextTypeOK, PTL DEF Spec
  <1> QED BY <1>1, PTL

-----------------------------------------------------------------------------
(* The inductive invariant.  Tables hold a part of the program, all of it   *)
(* for the classes $main is done with.                                      *)

TableInv ==
  /\ \A c \in Classes :
       /\ inheritance_map[c] \in {None, program.parent[c]}
       /\ \A m \in Methods :
            \/ vtable_map[c][m] = None
            \/ vtable_map[c][m] = c /\ m \in program.declares[c]
  /\ \A i \in 1..Len(Order) :
       i < at => /\ inheritance_map[Order[i]] # None
                 /\ \A m \in program.declares[Order[i]] : vtable_map[Order[i]][m] # None
  /\ Registering =>
       /\ rest \subseteq program.declares[Class]
       /\ \A m \in program.declares[Class] \ rest : vtable_map[Class][m] # None

(* A lookup has passed no implementation and one lies ahead.                *)
Start(l) == IF l.kind = "virtual" THEN l.self ELSE program.parent[l.self]

Search(l) ==
  /\ IsA(Start(l), l.cursor)
  /\ \A v \in Declarers(l.method) : IsA(Start(l), v) => IsA(l.cursor, v)
  /\ \E v \in Declarers(l.method) : IsA(l.cursor, v)
  /\ IsA(l.self, Start(l))

(* A base lookup is the frame's on top.                                     *)
Asked(l) == l.kind = "base" =>
              stack # <<>> /\ Top.self = l.self /\ Top.method = l.method

LookupInv == lookup # None => ~Registering /\ Search(lookup) /\ Asked(lookup)

FrameOK(fr) ==
  /\ fr.method \in program.declares[fr.owner]
  /\ IsA(fr.self, fr.owner)
  /\ fr.todo = "base" => fr.method \in program.base[fr.owner]
  /\ fr.kind = "virtual" =>
       IsNearest(program.parent, Declarers(fr.method), fr.self, fr.owner)

(* A base call runs the nearest method above the class of the object.       *)
PairOK(low, high) ==
  high.kind = "base" =>
    IsNearest(program.parent, Declarers(low.method), program.parent[low.self], high.owner)

StackInv ==
  /\ \A i \in 1..Len(stack) : FrameOK(stack[i])
  /\ \A i \in 1..Len(stack) - 1 : PairOK(stack[i], stack[i + 1])

DispatchInv == TableInv /\ LookupInv /\ StackInv /\ NoNullCall

LEMMA DomainIsClasses == program \in Accepted => DOMAIN program.parent = Classes
  BY ProgramType

(* When registration is over the tables are the program.                    *)
LEMMA Complete ==
  ASSUME TypeOK, TableInv, ~Registering, NEW c \in Classes
  PROVE  /\ inheritance_map[c] = program.parent[c]
         /\ \A m \in Methods :
              /\ m \in program.declares[c] => vtable_map[c][m] = c
              /\ m \notin program.declares[c] => vtable_map[c][m] = None
  <1>1. PICK i \in 1..Len(Order) : Order[i] = c
    BY OrderDeclares
  <1>2. i < at
    BY <1>1, OrderDeclares DEF TypeOK, Registering
  <1>3. inheritance_map[c] # None /\ \A m \in program.declares[c] : vtable_map[c][m] # None
    BY <1>1, <1>2 DEF TableInv
  <1> QED BY <1>3 DEF TableInv

LEMMA InitDispatch == Init => DispatchInv
  <1> SUFFICES ASSUME Init PROVE DispatchInv
    OBVIOUS
  <1>1. TableInv
    <2>1. \A c \in Classes : \A m \in Methods : vtable_map[c][m] = None
      BY DEF Init, Methodless
    <2>2. \A i \in 1..Len(Order) : ~(i < at)
      BY OrderDeclares DEF Init
    <2>3. Registering => rest = program.declares[Class]
      BY DEF Init, Registering, Class, FirstMethods
    <2> QED BY <2>1, <2>2, <2>3 DEF Init, TableInv
  <1>2. LookupInv /\ StackInv /\ NoNullCall
    BY DEF Init, LookupInv, StackInv, NoNullCall
  <1> QED BY <1>1, <1>2 DEF DispatchInv

-----------------------------------------------------------------------------
(* Registration.                                                            *)

(* While $main registers no method runs.                                    *)
LEMMA StartupDispatch ==
  ASSUME TypeOK, DispatchInv, Registering, TableInv',
         UNCHANGED <<program, lookup, stack, calls, crashed>>
  PROVE  DispatchInv'
  <1>1. lookup = None
    BY DEF DispatchInv, LookupInv
  <1>2. LookupInv'
    BY <1>1 DEF LookupInv
  <1>3. StackInv'
    BY DEF DispatchInv, StackInv, FrameOK, PairOK, IsA, Declarers
  <1> QED BY <1>2, <1>3 DEF DispatchInv, NoNullCall

LEMMA InheritanceRegistered == TypeOK /\ DispatchInv /\ RegisterInheritance => TableInv'
  <1> SUFFICES ASSUME TypeOK, TableInv, RegisterInheritance PROVE TableInv'
    BY DEF DispatchInv
  <1> USE DEF RegisterInheritance
  <1>1. Class \in Classes /\ program.parent[Class] # None
    BY ClassType, ProgramType, RootsApart DEF TypeOK
  <1>2. \A c \in Classes :
          inheritance_map'[c] = IF c = Class THEN program.parent[c] ELSE inheritance_map[c]
    BY <1>1 DEF TypeOK
  <1>3. \A i \in 1..Len(Order) : Order[i] \in Classes
    BY OrderDeclares
  <1>4. /\ \A c \in Classes : inheritance_map'[c] \in {None, program.parent[c]}
        /\ \A c \in Classes : inheritance_map[c] # None => inheritance_map'[c] # None
    BY <1>1, <1>2 DEF TableInv
  <1> QED BY <1>3, <1>4 DEF TableInv, Registering, Class

LEMMA MethodRegistered ==
  ASSUME TypeOK, TableInv, NEW m \in Methods, RegisterMethod(m) PROVE TableInv'
  <1> USE DEF RegisterMethod
  <1>1. Class \in Classes /\ m \in program.declares[Class]
    BY ClassType DEF TableInv
  <1>2. \A c \in Classes, n \in Methods :
          vtable_map'[c][n] = IF c = Class /\ n = m THEN c ELSE vtable_map[c][n]
    BY <1>1 DEF TypeOK
  <1>3. \A i \in 1..Len(Order) : Order[i] \in Classes
    BY OrderDeclares
  <1>4. \A c \in Classes : program.declares[c] \subseteq Methods
    BY ProgramType DEF TypeOK
  <1>5. \A c \in Classes : c # None
    BY RootsApart
  <1>6. /\ \A c \in Classes, n \in Methods :
             \/ vtable_map'[c][n] = None
             \/ vtable_map'[c][n] = c /\ n \in program.declares[c]
        /\ \A c \in Classes, n \in Methods : vtable_map[c][n] # None => vtable_map'[c][n] # None
        /\ vtable_map'[Class][m] # None
    BY <1>1, <1>2, <1>5 DEF TableInv
  <1>7. Class' = Class /\ Registering' = Registering
    BY DEF Class, Registering
  <1>8. \A c \in Classes : inheritance_map'[c] \in {None, program.parent[c]}
    BY DEF TableInv
  <1>9. ASSUME NEW i \in 1..Len(Order), i < at
        PROVE  /\ inheritance_map'[Order[i]] # None
               /\ \A n \in program.declares[Order[i]] : vtable_map'[Order[i]][n] # None
    BY <1>3, <1>4, <1>6, <1>9 DEF TableInv
  <1>10. /\ rest' \subseteq program.declares[Class]
         /\ \A n \in program.declares[Class] \ rest' : vtable_map'[Class][n] # None
    BY <1>1, <1>4, <1>6 DEF TableInv
  <1> QED BY <1>6, <1>7, <1>8, <1>9, <1>10 DEF TableInv

LEMMA ClassRegistered ==
  ASSUME TypeOK, TableInv, NextClass PROVE TableInv'
  <1> USE DEF NextClass
  <1>1. at \in 1..Len(Order) /\ Len(Order) \in Nat
    BY OrderDeclares DEF Registering
  <1>2. /\ inheritance_map[Order[at]] # None
        /\ \A m \in program.declares[Order[at]] : vtable_map[Order[at]][m] # None
    BY DEF TableInv, Class
  <1>3. ASSUME NEW i \in 1..Len(Order), i < at'
        PROVE  /\ inheritance_map[Order[i]] # None
               /\ \A m \in program.declares[Order[i]] : vtable_map[Order[i]][m] # None
    BY <1>1, <1>2, <1>3 DEF TableInv
  <1>4. Registering' => rest' = program.declares[Class']
    BY DEF Registering, Class, FirstMethods
  <1> QED BY <1>3, <1>4 DEF TableInv

-----------------------------------------------------------------------------
(* Calls.                                                                   *)

LEMMA TablesKept ==
  ASSUME TableInv, UNCHANGED <<program, tables>>
  PROVE  TableInv' /\ Registering' = Registering
  BY DEF TableInv, tables, Registering, Class

LEMMA MethodCalled ==
  ASSUME TypeOK, DispatchInv,
         NEW c \in Classes, NEW s \in Classes, NEW m \in Methods, CallMethod(c, s, m)
  PROVE  DispatchInv'
  <1> USE DEF CallMethod
  <1> DEFINE l == [self |-> c, method |-> m, kind |-> "virtual", cursor |-> c]
  <1>1. DOMAIN program.parent = Classes
    BY DomainIsClasses DEF TypeOK
  <1>2. PICK v \in Declarers(m) : IsA(s, v)
    BY DEF HasMethod, Reaches, IsA
  <1>3. IsA(c, v) /\ IsA(c, c)
    BY <1>1, <1>2, SubtypeTransitive, SubtypeReflexive DEF IsA
  <1>4. Search(l) /\ Asked(l)
    BY <1>2, <1>3 DEF Search, Start, Asked
  <1>5. Search(l)' /\ Asked(l)'
    BY <1>4 DEF Search, Start, Asked, IsA, Declarers, Top
  <1>6. LookupInv'
    BY <1>5, TablesKept DEF LookupInv, Running, DispatchInv
  <1>7. StackInv'
    BY DEF DispatchInv, StackInv, FrameOK, PairOK, IsA, Declarers
  <1> QED BY <1>6, <1>7, TablesKept DEF DispatchInv, NoNullCall

(* base() finds a method above the class of the object.                     *)
LEMMA BaseCalled == TypeOK /\ DispatchInv /\ CallBase => DispatchInv'
  <1> SUFFICES ASSUME TypeOK, DispatchInv, CallBase PROVE DispatchInv'
    OBVIOUS
  <1> USE DEF CallBase
  <1> DEFINE c == Top.self
             m == Top.method
             up == program.parent[c]
             l == [self |-> c, method |-> m, kind |-> "base", cursor |-> up]
             n == Len(stack)
  <1>1. DOMAIN program.parent = Classes
    BY DomainIsClasses DEF TypeOK
  <1>2. n \in 1..n /\ Top \in Frames /\ FrameOK(Top)
    BY TopType DEF TypeOK, DispatchInv, StackInv, Top
  <1>3. c \in Classes /\ Top.owner \in Classes /\ m \in Methods
    BY <1>2 DEF Frames
  <1>4. inheritance_map[c] = up
    BY <1>3, Complete DEF Running, DispatchInv
  <1>5. m \in program.base[Top.owner] /\ IsA(c, Top.owner)
    BY <1>2 DEF FrameOK
  <1>6. PICK v \in Declarers(m) : IsA(program.parent[Top.owner], v)
    BY <1>3, <1>5 DEF TypeOK, Accepted, Reaches, IsA, Declarers
  <1>7. up \in Classes /\ IsA(up, v)
    <2>1. CASE c = Top.owner
      BY <1>1, <1>6, <2>1, SubtypeType DEF IsA
    <2>2. CASE c # Top.owner
      <3>1. up \in Classes /\ IsA(up, Top.owner)
        BY <1>1, <1>5, <2>2, SubtypeStep DEF IsA
      <3>2. program.parent[Top.owner] \in Classes
        BY <1>1, <1>6, SubtypeType DEF IsA
      <3>3. IsA(Top.owner, program.parent[Top.owner])
        BY <1>1, <1>3, <3>2, SubtypeParent DEF IsA
      <3> QED BY <1>6, <3>1, <3>3, SubtypeTransitive DEF IsA
    <2> QED BY <2>1, <2>2
  <1>8. IsA(up, up) /\ IsA(c, up)
    BY <1>1, <1>3, <1>7, SubtypeReflexive, SubtypeParent DEF IsA
  <1>9. Search(l)
    BY <1>6, <1>7, <1>8 DEF Search, Start
  <1>11. /\ Len(stack') = n
         /\ \A i \in 1..n :
              /\ i # n => stack'[i] = stack[i]
              /\ stack'[i].self = stack[i].self
              /\ stack'[i].method = stack[i].method
              /\ stack'[i].owner = stack[i].owner
              /\ stack'[i].kind = stack[i].kind
         /\ stack'[n].todo = "return"
    BY BaseDone DEF TypeOK
  <1>12. lookup' = l
    BY <1>4
  <1> HIDE DEF up
  <1>13. Search(lookup)'
    <2>1. /\ lookup'.self = c /\ lookup'.method = m /\ lookup'.kind = "base"
          /\ lookup'.cursor = up /\ program' = program
      BY <1>12
    <2>2. /\ IsA(up, up) /\ IsA(c, up)
          /\ \E w \in Declarers(m) : IsA(up, w)
      BY <1>6, <1>7, <1>8
    <2>3. program'.parent[c] = up
      BY DEF up
    <2> HIDE DEF c, m
    <2> QED BY <2>1, <2>2, <2>3 DEF Search, Start, IsA, Declarers
  <1>14. Asked(lookup)'
    <2>1. /\ Top'.self = Top.self /\ Top'.method = Top.method /\ stack' # <<>>
      BY <1>2, <1>11 DEF Top
    <2> QED BY <1>12, <2>1 DEF Asked
  <1>15. LookupInv'
    BY <1>13, <1>14, TablesKept DEF LookupInv, Running, DispatchInv
  <1>16. ASSUME NEW i \in 1..n PROVE FrameOK(stack[i])'
    <2>1. FrameOK(stack[i])
      BY <1>16 DEF DispatchInv, StackInv
    <2>2. stack'[i].todo = "base" => stack'[i].todo = stack[i].todo
      BY <1>11, <1>16
    <2> QED BY <1>11, <1>16, <2>1, <2>2 DEF FrameOK, IsA, Declarers
  <1>17. ASSUME NEW i \in 1..n - 1 PROVE PairOK(stack[i], stack[i + 1])'
    <2>1. i \in 1..n /\ i + 1 \in 1..n /\ PairOK(stack[i], stack[i + 1])
      BY <1>2, <1>17 DEF DispatchInv, StackInv
    <2> QED BY <1>11, <2>1 DEF PairOK, Declarers
  <1>18. StackInv'
    BY <1>11, <1>16, <1>17 DEF StackInv
  <1> QED BY <1>15, <1>18, TablesKept DEF DispatchInv, NoNullCall

(* The lookup's cursor is at a class, all of whose methods are registered.  *)
LEMMA Looking ==
  ASSUME TypeOK, DispatchInv, lookup # None
  PROVE  /\ lookup \in Lookups /\ lookup.cursor \in Classes
         /\ Link = program.parent[lookup.cursor]
         /\ Entry # None <=> lookup.cursor \in Declarers(lookup.method)
         /\ Entry # None => Entry = lookup.cursor
  <1>1. lookup \in Lookups /\ lookup.method \in Methods
    BY DEF TypeOK, Lookups
  <1>2. lookup.cursor \in Classes
    BY DomainIsClasses, SubtypeType DEF DispatchInv, LookupInv, Search, IsA, TypeOK
  <1>3. /\ inheritance_map[lookup.cursor] = program.parent[lookup.cursor]
        /\ lookup.method \in program.declares[lookup.cursor] =>
             vtable_map[lookup.cursor][lookup.method] = lookup.cursor
        /\ lookup.method \notin program.declares[lookup.cursor] =>
             vtable_map[lookup.cursor][lookup.method] = None
    BY <1>1, <1>2, Complete DEF DispatchInv, LookupInv
  <1>4. lookup.cursor # None
    BY <1>2, RootsApart
  <1> QED
    BY <1>1, <1>2, <1>3, <1>4 DEF Link, Entry, Declarers, DeclarersIn

LEMMA FoundEntered == TypeOK /\ DispatchInv /\ EnterFound => DispatchInv'
  <1> SUFFICES ASSUME TypeOK, DispatchInv, EnterFound PROVE DispatchInv'
    OBVIOUS
  <1> USE DEF EnterFound
  <1> DEFINE u == lookup.cursor
             m == lookup.method
             n == Len(stack)
             frame == [self |-> lookup.self, method |-> m, owner |-> Entry,
                       kind |-> lookup.kind,
                       todo |-> IF m \in program.base[Entry] THEN "base" ELSE "return"]
  <1>1. /\ u \in Classes /\ u \in Declarers(m) /\ Entry = u
        /\ lookup.kind \in {"virtual", "base"} /\ lookup.self \in Classes
    BY Looking DEF Lookups
  <1>2. Search(lookup) /\ Asked(lookup) /\ ~Registering
    BY DEF DispatchInv, LookupInv
  <1>3. IsNearest(program.parent, Declarers(m), Start(lookup), u)
    BY <1>1, <1>2 DEF Search, IsNearest, IsA
  <1>4. IsA(lookup.self, u)
    BY <1>2, SubtypeTransitive DEF Search, IsA
  <1>5. /\ frame.self = lookup.self /\ frame.method = m /\ frame.owner = u
        /\ frame.kind = lookup.kind
        /\ frame.todo = "base" => m \in program.base[u]
    BY <1>1
  <1>6. stack' = Append(stack, frame) /\ stack \in Seq(Frames)
    BY DEF TypeOK
  <1> HIDE DEF frame
  <1>7. FrameOK(frame)
    BY <1>1, <1>3, <1>4, <1>5 DEF FrameOK, Start, Declarers, DeclarersIn
  <1>8. n > 0 => PairOK(stack[n], frame)
    <2>1. ASSUME frame.kind = "base"
          PROVE  stack[n].self = lookup.self /\ stack[n].method = m
      BY <1>2, <1>5, <2>1 DEF Asked, Top
    <2> QED BY <1>3, <1>5, <2>1 DEF PairOK, Start
  <1>9. /\ n \in Nat /\ Len(stack') = n + 1 /\ stack'[n + 1] = frame
        /\ \A i \in 1..n : stack'[i] = stack[i]
    BY <1>6
  <1>10. \A i \in 1..Len(stack') : FrameOK(stack'[i])
    BY <1>7, <1>9 DEF DispatchInv, StackInv
  <1>11. \A i \in 1..Len(stack') - 1 : PairOK(stack'[i], stack'[i + 1])
    <2> SUFFICES ASSUME NEW i \in 1..n PROVE PairOK(stack'[i], stack'[i + 1])
      BY <1>9
    <2>1. CASE i = n
      BY <1>8, <1>9, <2>1
    <2>2. CASE i # n
      <3>1. i \in 1..n - 1 /\ i + 1 \in 1..n
        BY <1>9, <2>2
      <3>2. PairOK(stack[i], stack[i + 1])
        BY <3>1 DEF DispatchInv, StackInv
      <3> QED BY <1>9, <3>1, <3>2
    <2> QED BY <2>1, <2>2
  <1>12. StackInv'
    BY <1>10, <1>11 DEF StackInv, FrameOK, PairOK, IsA, Declarers
  <1> QED BY <1>12, TablesKept DEF DispatchInv, LookupInv, NoNullCall

(* The class at hand does not declare the method, so what lies ahead lies   *)
(* above: there is a parent to go on with.                                  *)
LEMMA WalkedUp == TypeOK /\ DispatchInv /\ WalkUp => DispatchInv'
  <1> SUFFICES ASSUME TypeOK, DispatchInv, WalkUp PROVE DispatchInv'
    OBVIOUS
  <1> USE DEF WalkUp
  <1> DEFINE u == lookup.cursor
             m == lookup.method
  <1>1. lookup \in Lookups /\ u \in Classes /\ u \notin Declarers(m) /\ Link = program.parent[u]
    BY Looking
  <1>2. Search(lookup) /\ Asked(lookup) /\ ~Registering
    BY DEF DispatchInv, LookupInv
  <1>3. DOMAIN program.parent = Classes
    BY DomainIsClasses DEF TypeOK
  <1>4. ASSUME NEW v \in Declarers(m), IsA(u, v)
        PROVE  Link \in Classes /\ IsA(Link, v)
    BY <1>1, <1>3, <1>4, SubtypeStep DEF IsA
  <1>5. Link \in Classes
    BY <1>2, <1>4 DEF Search
  <1>6. lookup' = [lookup EXCEPT !.cursor = Link] /\ crashed' = FALSE
    BY <1>5, RootsApart
  <1>7. /\ lookup'.cursor = Link /\ lookup'.self = lookup.self
        /\ lookup'.method = m /\ lookup'.kind = lookup.kind
    BY <1>1, <1>6 DEF Lookups
  <1>8. IsA(Start(lookup), Link)
    <2>1. IsA(u, Link)
      BY <1>1, <1>3, <1>5, SubtypeParent DEF IsA
    <2> QED BY <1>2, <2>1, SubtypeTransitive DEF Search, IsA
  <1>9. /\ \A v \in Declarers(m) : IsA(Start(lookup), v) => IsA(Link, v)
        /\ \E v \in Declarers(m) : IsA(Link, v)
    BY <1>2, <1>4 DEF Search
  <1>10. Start(lookup)' = Start(lookup)
    BY <1>7 DEF Start
  <1>11. Search(lookup)'
    <2>1. IsA(lookup.self, Start(lookup))
      BY <1>2 DEF Search
    <2> HIDE DEF m
    <2> QED BY <1>7, <1>8, <1>9, <1>10, <2>1 DEF Search, IsA, Declarers
  <1>12. Asked(lookup)'
    BY <1>2, <1>7 DEF Asked, Top
  <1>13. LookupInv'
    BY <1>2, <1>11, <1>12, TablesKept DEF LookupInv, DispatchInv
  <1>14. StackInv'
    BY DEF DispatchInv, StackInv, FrameOK, PairOK, IsA, Declarers
  <1> QED BY <1>6, <1>13, <1>14, TablesKept DEF DispatchInv, NoNullCall

LEMMA Returned == TypeOK /\ DispatchInv /\ Return => DispatchInv'
  <1> SUFFICES ASSUME TypeOK, DispatchInv, Return PROVE DispatchInv'
    OBVIOUS
  <1> USE DEF Return
  <1> DEFINE n == Len(stack)
  <1>1. n \in Nat /\ n > 0
    BY DEF TypeOK
  <1>2. /\ Len(stack') = n - 1
        /\ \A i \in 1..n - 1 : stack'[i] = stack[i]
    <2>1. stack \in Seq(Frames) /\ stack' = SubSeq(stack, 1, n - 1)
      BY DEF TypeOK
    <2>2. \A i \in 1..n - 1 : stack[i] \in Frames
      BY <1>1, <2>1
    <2>3. /\ Len(SubSeq(stack, 1, n - 1)) = n - 1
          /\ \A i \in 1..n - 1 : SubSeq(stack, 1, n - 1)[i] = stack[i]
      <3> HIDE DEF n
      <3>1. n - 1 \in Int /\ (n - 1) - 1 + 1 = n - 1
        BY <1>1
      <3>2. /\ Len(SubSeq(stack, 1, n - 1)) = IF 1 <= n - 1 THEN (n - 1) - 1 + 1 ELSE 0
            /\ \A i \in 1..(n - 1) - 1 + 1 : SubSeq(stack, 1, n - 1)[i] = stack[1 + i - 1]
        BY <2>2, <3>1, SubSeqProperties
      <3> QED BY <1>1, <3>1, <3>2
    <2> QED BY <2>1, <2>3
  <1>3. \A i \in 1..Len(stack') : FrameOK(stack'[i])
    BY <1>1, <1>2 DEF DispatchInv, StackInv
  <1>4. \A i \in 1..Len(stack') - 1 : PairOK(stack'[i], stack'[i + 1])
    <2> SUFFICES ASSUME NEW i \in 1..n - 2 PROVE PairOK(stack'[i], stack'[i + 1])
      BY <1>1, <1>2
    <2>1. i \in 1..n - 1 /\ i + 1 \in 1..n - 1
      BY <1>1
    <2> QED BY <1>2, <2>1 DEF DispatchInv, StackInv
  <1>5. StackInv'
    BY <1>3, <1>4 DEF StackInv, FrameOK, PairOK, IsA, Declarers
  <1>6. LookupInv'
    BY DEF LookupInv
  <1> QED BY <1>5, <1>6, TablesKept DEF DispatchInv, NoNullCall

-----------------------------------------------------------------------------
LEMMA NextDispatch == TypeOK /\ DispatchInv /\ [Next]_vars => DispatchInv'
  <1> SUFFICES ASSUME TypeOK, DispatchInv, [Next]_vars PROVE DispatchInv'
    OBVIOUS
  <1>1. CASE RegisterInheritance
    BY <1>1, InheritanceRegistered, StartupDispatch DEF RegisterInheritance
  <1>2. ASSUME NEW m \in Methods, RegisterMethod(m) PROVE DispatchInv'
    BY <1>2, MethodRegistered, StartupDispatch DEF RegisterMethod, DispatchInv
  <1>3. CASE NextClass
    BY <1>3, ClassRegistered, StartupDispatch DEF NextClass, DispatchInv
  <1>4. CASE UNCHANGED vars
    BY <1>4 DEF vars, tables, DispatchInv, TableInv, LookupInv, StackInv, NoNullCall,
                Registering, Class, Search, Asked, FrameOK, PairOK, IsA, Declarers, Start, Top
  <1> QED
    BY <1>1, <1>2, <1>3, <1>4, MethodCalled, BaseCalled, FoundEntered, WalkedUp, Returned
       DEF Next, Startup, Lookup

LEMMA DispatchIsInvariant == Spec => [](TypeOK /\ DispatchInv)
  <1>1. TypeOK /\ Room /\ DispatchInv /\ [Next]_vars => (TypeOK /\ Room /\ DispatchInv)'
    BY NextTypeOK, NextDispatch
  <1>2. Init => TypeOK /\ Room /\ DispatchInv
    BY InitTypeOK, InitDispatch
  <1> QED BY <1>1, <1>2, PTL DEF Spec

(* NoNullCall: semantic analysis lets no call through for which the tables  *)
(* that $main builds have no function.                                      *)
THEOREM NothingCalledThroughNull == Spec => []NoNullCall
  <1>1. TypeOK /\ DispatchInv => NoNullCall
    BY DEF DispatchInv
  <1> QED BY <1>1, DispatchIsInvariant, PTL

(* VirtualNearest: a virtual call runs the implementation nearest to the    *)
(* class of the object, whatever the order of the registrations.            *)
THEOREM VirtualCallsNearest == Spec => []VirtualNearest
  <1>1. TypeOK /\ DispatchInv => VirtualNearest
    BY DEF DispatchInv, StackInv, FrameOK, VirtualNearest
  <1> QED BY <1>1, DispatchIsInvariant, PTL

(* BaseFromOwnClass: base() in a method of the object's own class runs the  *)
(* nearest method above that class, the one semantic analysis selected.     *)
THEOREM BaseCallsFromOwnClass == Spec => []BaseFromOwnClass
  <1>1. TypeOK /\ DispatchInv => BaseFromOwnClass
    BY DEF DispatchInv, StackInv, PairOK, BaseFromOwnClass
  <1> QED BY <1>1, DispatchIsInvariant, PTL
=============================================================================
