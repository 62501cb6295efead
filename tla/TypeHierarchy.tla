---------------------------- MODULE TypeHierarchy ----------------------------
(***************************************************************************)
(* The declaration phase of the nominal type registry                      *)
(* (semantic/type_registry.hpp, driven by collectDeclarations in           *)
(* semantic/type_inference_visitor.cpp).                                   *)
(*                                                                         *)
(* Members are registered type by type in the order of the source, each    *)
(* method after a walk up the parent names (findMethod).  Afterwards       *)
(* resolveParentsAndConstructors makes four passes over userTypes_, an     *)
(* unordered_map: the order of the passes is the same in all four, and it  *)
(* is any order.                                                           *)
(*                                                                         *)
(* The program under compilation is chosen in Init and never changes.  A   *)
(* signature is a value that is only compared; a parameter list is the     *)
(* sequence of its annotations, Blank where there is none.  Illegal stands *)
(* for every parent name that is refused: undeclared, builtin, protocol.   *)
(***************************************************************************)
EXTENDS Hierarchy, Sequences

CONSTANTS
  Types,        \* the names of the declared types
  Order,        \* the sequence in which the source declares them
  Attributes,   \* attribute names
  Methods,      \* method names, apart from the attribute names
  Signatures,   \* what registerMethod compares of a method
  ParamLists,   \* constructor parameter lists
  Blank,        \* a constructor parameter without annotation
  Object,       \* the builtin root type
  Illegal,      \* a parent name that cannot be inherited from
  Programs      \* the programs considered

ASSUME RootsApart == /\ {Object, Illegal, None} \cap Types = {}
                     /\ Object # Illegal /\ Object # None /\ Illegal # None
ASSUME NamesApart == /\ Attributes \cap Methods = {}
                     /\ None \notin Attributes \cup Methods \cup Signatures
Positions == 1..Cardinality(Types)
Enumerations == {s \in [Positions -> Types] : \A t \in Types : \E i \in Positions : s[i] = t}

ASSUME SomeTypes == IsFiniteSet(Types) /\ Types # {}
ASSUME OrderDeclares == Order \in Enumerations

VARIABLES
  program,     \* the declarations as parsed
  phase,       \* the pass under way
  at,          \* position in Order of the type whose members are collected
  rest,        \* its members not registered yet
  task,        \* the method being registered, None between two members
  cursor,      \* the record a walk up the hierarchy looks at
  pos,         \* position of the pass under way in the order of the map
  visiting,    \* types on the walk of the cycle detector (state 1)
  visited,     \* types the cycle detector is done with (state 2)
  parentName,  \* RegisteredType::parentName
  nominal,     \* NominalType::parent_
  attributes,  \* per type and attribute the owner, None when absent
  methods,     \* per type and method the owner, None when absent
  params,      \* RegisteredType::ctorParamTypeNames
  errors       \* the errors reported, by kind and type

search  == <<at, rest, task>>
walk    == <<pos, visiting, visited>>
names   == <<parentName, nominal>>
members == <<attributes, methods>>
vars    == <<program, phase, search, cursor, walk, names, members, params, errors>>

Phases == {"collect", "parents", "cycles", "ctors", "members", "done"}
Parents == Types \cup {Object, Illegal}

Declarations == [parent   : [Types -> Parents],
                 attrs    : [Types -> SUBSET Attributes],
                 sig      : [Types -> [Methods -> Signatures \cup {None}]],
                 params   : [Types -> ParamLists],
                 explicit : [Types -> BOOLEAN],
                 map      : Enumerations]

ASSUME ProgramsDeclare == Programs \subseteq Declarations

Declared(t) == program.attrs[t] \cup {m \in Methods : program.sig[t][m] # None}

-----------------------------------------------------------------------------
(* The state after registerType has met every declaration.                  *)

Init ==
  /\ program \in Programs
  /\ phase = "collect"
  /\ at = 1
  /\ rest = Declared(Order[1])
  /\ task = None
  /\ cursor = None
  /\ pos = 1
  /\ visiting = {} /\ visited = {}
  /\ parentName = program.parent
  /\ nominal = [t \in Types |-> Object]
  /\ attributes = [t \in Types |-> [a \in Attributes |-> None]]
  /\ methods = [t \in Types |-> [m \in Methods |-> None]]
  /\ params = program.params
  /\ errors = {}

Owner == Order[at]
Report(kind, t) == errors' = errors \cup {<<kind, t>>}

(***************************************************************************)
(* Collection.  registerMethod looks for an inherited method along the     *)
(* parent names as they were written, before any cycle is cut.             *)
(***************************************************************************)

RegisterAttribute(a) ==
  /\ phase = "collect" /\ task = None /\ a \in rest
  /\ attributes' = [attributes EXCEPT ![Owner][a] = Owner]
  /\ rest' = rest \ {a}
  /\ UNCHANGED <<program, phase, at, task, cursor, walk, names, methods, params, errors>>

BeginMethod(m) ==
  /\ phase = "collect" /\ task = None /\ m \in rest
  /\ task' = m
  /\ cursor' = parentName[Owner]
  /\ UNCHANGED <<program, phase, at, rest, walk, names, members, params, errors>>

\* Mutant: Only the parent itself is asked for an inherited method.
SearchInheritedOnce ==
  /\ phase = "collect" /\ task # None
  /\ cursor \in Types
  /\ methods[cursor][task] = None
  /\ cursor' = Object
  /\ UNCHANGED <<program, phase, search, walk, names, members, params, errors>>

\* Mutant: The walk looks at the same record again.
SearchInheritedStuck ==
  /\ phase = "collect" /\ task # None
  /\ cursor \in Types
  /\ methods[cursor][task] = None
  /\ cursor' = cursor
  /\ UNCHANGED <<program, phase, search, walk, names, members, params, errors>>

SearchInherited ==
  /\ phase = "collect" /\ task # None
  /\ cursor \in Types
  /\ methods[cursor][task] = None
  /\ cursor' = parentName[cursor]
  /\ UNCHANGED <<program, phase, search, walk, names, members, params, errors>>

EmplaceMethod ==
  /\ phase = "collect" /\ task # None
  /\ \/ cursor \notin Types
        /\ UNCHANGED errors
     \/ cursor \in Types
        /\ methods[cursor][task] # None
        /\ IF program.sig[cursor][task] = program.sig[Owner][task]
             THEN UNCHANGED errors
             ELSE Report("signature", Owner)
  /\ methods' = [methods EXCEPT ![Owner][task] = Owner]
  /\ rest' = rest \ {task}
  /\ task' = None
  /\ cursor' = None
  /\ UNCHANGED <<program, phase, at, walk, names, attributes, params>>

NextType ==
  /\ phase = "collect" /\ task = None /\ rest = {}
  /\ at + 1 \in Positions
  /\ at' = at + 1
  /\ rest' = Declared(Order[at + 1])
  /\ UNCHANGED <<program, phase, task, cursor, walk, names, members, params, errors>>

EndCollection ==
  /\ phase = "collect" /\ task = None /\ rest = {}
  /\ at + 1 \notin Positions
  /\ phase' = "parents"
  /\ UNCHANGED <<program, search, cursor, walk, names, members, params, errors>>

(* A pass over userTypes_ meets type t; after the last one the next pass    *)
(* begins.                                                                  *)
Meet(t, pass, after) ==
  /\ phase = pass
  /\ t = program.map[pos]
  /\ IF pos + 1 \in Positions THEN pos' = pos + 1 /\ phase' = phase
                             ELSE pos' = 1 /\ phase' = after

(* The first pass.  A parent that cannot be inherited from becomes Object.  *)
ResolveParent(t) ==
  /\ Meet(t, "parents", "cycles")
  /\ IF parentName[t] = Illegal
       THEN /\ parentName' = [parentName EXCEPT ![t] = Object]
            /\ nominal' = [nominal EXCEPT ![t] = Object]
            /\ Report("parent", t)
       ELSE /\ nominal' = [nominal EXCEPT ![t] = parentName[t]]
            /\ UNCHANGED <<parentName, errors>>
  /\ UNCHANGED <<program, search, cursor, visiting, visited, members, params>>

(***************************************************************************)
(* The second pass: detectTypeCycleFrom from every type.  The recursion    *)
(* only follows parents, so its stack is the set visiting, and once it     *)
(* stops all of it unwinds to state 2.  nominal is not touched.            *)
(***************************************************************************)

StartWalk(t) ==
  /\ phase = "cycles" /\ cursor = None
  /\ pos \in Positions /\ t = program.map[pos]
  /\ cursor' = t
  /\ pos' = pos + 1
  /\ UNCHANGED <<program, phase, search, visiting, visited, names, members, params, errors>>

EnterType ==
  /\ phase = "cycles"
  /\ cursor \in Types \ (visiting \cup visited)
  /\ visiting' = visiting \cup {cursor}
  /\ cursor' = parentName[cursor]
  /\ UNCHANGED <<program, phase, search, pos, visited, names, members, params, errors>>

Unwind ==
  /\ visited' = visited \cup visiting
  /\ visiting' = {}
  /\ cursor' = None

\* Mutant: The cycle is reported and left as it is.
CloseCycleUncut ==
  /\ phase = "cycles" /\ cursor \in visiting
  /\ Report("cycle", cursor)
  /\ Unwind
  /\ UNCHANGED <<program, phase, search, pos, names, members, params>>

\* Mutant: Every type on the way to the cycle loses its parent.
CloseCycleCutAll ==
  /\ phase = "cycles" /\ cursor \in visiting
  /\ parentName' = [t \in Types |-> IF t \in visiting THEN Object ELSE parentName[t]]
  /\ Report("cycle", cursor)
  /\ Unwind
  /\ UNCHANGED <<program, phase, search, pos, nominal, members, params>>

\* Mutant: The cycle is cut and not reported.
CloseCycleSilent ==
  /\ phase = "cycles" /\ cursor \in visiting
  /\ parentName' = [parentName EXCEPT ![cursor] = Object]
  /\ Unwind
  /\ UNCHANGED <<program, phase, search, pos, nominal, members, params, errors>>

CloseCycle ==
  /\ phase = "cycles"
  /\ cursor \in visiting
  /\ parentName' = [parentName EXCEPT ![cursor] = Object]
  /\ Report("cycle", cursor)
  /\ Unwind
  /\ UNCHANGED <<program, phase, search, pos, nominal, members, params>>

EndWalk ==
  /\ phase = "cycles"
  /\ cursor \in visited \cup {Object}
  /\ Unwind
  /\ UNCHANGED <<program, phase, search, pos, names, members, params, errors>>

EndCycles ==
  /\ phase = "cycles" /\ cursor = None /\ pos \notin Positions
  /\ phase' = "ctors"
  /\ pos' = 1
  /\ UNCHANGED <<program, search, cursor, visiting, visited, names, members, params, errors>>

(* The third pass: a type without constructor parameters and without        *)
(* parent arguments takes its parent's list as that list is at the moment.  *)
SameParams(p, q) ==
  /\ Len(p) = Len(q)
  /\ \A i \in 1..Len(p) : p[i] = q[i] \/ Blank \in {p[i], q[i]}

InheritConstructor(t) ==
  /\ Meet(t, "ctors", "members")
  /\ LET p == parentName[t]
         implicit == p \in Types /\ ~program.explicit[t]
     IN /\ params' = IF implicit /\ params[t] = <<>>
                       THEN [params EXCEPT ![t] = params[p]]
                       ELSE params
        /\ IF implicit /\ params[t] # <<>> /\ ~SameParams(params[t], params[p])
             THEN Report("constructor", t)
             ELSE UNCHANGED errors
  /\ UNCHANGED <<program, search, cursor, visiting, visited, names, members>>

\* Mutant: The parent's entries replace the type's own.
InheritOver(own, base) == [n \in DOMAIN own |-> IF base[n] = None THEN own[n] ELSE base[n]]

(* The fourth pass: what the parent's record holds at the moment and the    *)
(* type does not declare is copied, with its owner.                         *)
Inherit(own, base) == [n \in DOMAIN own |-> IF own[n] = None THEN base[n] ELSE own[n]]

\* Mutant: The members come from the parent pointer instead of the parent name.
CopyMembersByPointer(t) ==
  /\ Meet(t, "members", "done")
  /\ IF nominal[t] \in Types
       THEN /\ attributes' = [attributes EXCEPT ![t] = Inherit(@, attributes[nominal[t]])]
            /\ methods' = [methods EXCEPT ![t] = Inherit(@, methods[nominal[t]])]
       ELSE UNCHANGED members
  /\ UNCHANGED <<program, search, cursor, visiting, visited, names, params, errors>>

CopyMembers(t) ==
  /\ Meet(t, "members", "done")
  /\ IF parentName[t] \in Types
       THEN /\ attributes' = [attributes EXCEPT ![t] = Inherit(@, attributes[parentName[t]])]
            /\ methods' = [methods EXCEPT ![t] = Inherit(@, methods[parentName[t]])]
       ELSE UNCHANGED members
  /\ UNCHANGED <<program, search, cursor, visiting, visited, names, params, errors>>

Next ==
  \/ \E a \in Attributes : RegisterAttribute(a)
  \/ \E m \in Methods : BeginMethod(m)
  \/ SearchInherited
  \/ EmplaceMethod
  \/ NextType
  \/ EndCollection
  \/ \E t \in Types : ResolveParent(t)
  \/ \E t \in Types : StartWalk(t)
  \/ EnterType
  \/ CloseCycle
  \/ EndWalk
  \/ EndCycles
  \/ \E t \in Types : InheritConstructor(t)
  \/ \E t \in Types : CopyMembers(t)

Spec == Init /\ [][Next]_vars

(* The phase is straight-line code: it goes on while it can.                *)
FairSpec == Spec /\ WF_vars(Next)

-----------------------------------------------------------------------------
(* Vocabulary of the properties.                                            *)

(* findMethod, as the owner of the method it returns.                       *)
FindMethod(t, m) ==
  LET r == Nearest(parentName, {u \in Types : methods[u][m] # None}, t)
  IN IF r = None THEN None ELSE methods[r][m]

DeclaresMethod(m) == {t \in Types : program.sig[t][m] # None}
DeclaresAttribute(a) == {t \in Types : a \in program.attrs[t]}
Resolved == phase \in {"ctors", "members", "done"}
Before(t, u) == \E i, j \in Positions : i < j /\ Order[i] = t /\ Order[j] = u

-----------------------------------------------------------------------------
(* Every variable keeps its type: in particular the walks of findMethod and *)
(* of the cycle detector only ever hold a type, a root or nothing.          *)
TypeOK ==
  /\ program \in Declarations
  /\ phase \in Phases
  /\ at \in Positions
  /\ rest \subseteq Attributes \cup Methods
  /\ task \in Methods \cup {None}
  /\ cursor \in Parents \cup {None}
  /\ pos \in 1..Cardinality(Types) + 1
  /\ visiting \subseteq Types
  /\ visited \subseteq Types
  /\ parentName \in [Types -> Parents]
  /\ nominal \in [Types -> Types \cup {Object}]
  /\ attributes \in [Types -> [Attributes -> Types \cup {None}]]
  /\ methods \in [Types -> [Methods -> Types \cup {None}]]
  /\ params \in [Types -> ParamLists]
  /\ errors \subseteq {"signature", "parent", "cycle", "constructor"} \X Types

(* Once the cycle detector has run, every chain of parent names ends, so    *)
(* that findMethod and the passes after it cannot run in circles, wherever  *)
(* the walks started and whatever cycles the source has.                    *)
HierarchyGrounded == Resolved => Grounded(parentName)

(* The cuts are minimal: each cycle of the source loses exactly one parent  *)
(* and is reported, and every other legal parent stays as written.          *)
CyclesCutOnce ==
  Resolved =>
    \A t \in Types :
      LET cut == {u \in Types : /\ u = t \/ u \in Above(program.parent, t)
                                /\ OnCycle(program.parent, u)
                                /\ parentName[u] = Object
                                /\ <<"cycle", u>> \in errors}
      IN /\ OnCycle(program.parent, t) => Cardinality(cut) = 1
         /\ parentName[t] # program.parent[t] =>
              \/ t \in cut
              \/ program.parent[t] = Illegal /\ <<"parent", t>> \in errors

(* Before, while and after the fourth pass copies methods down, in whatever *)
(* order, a lookup finds the declaration nearest to the type it starts at.  *)
MethodsResolve ==
  Resolved =>
    \A t \in Types, m \in Methods :
      FindMethod(t, m) = Nearest(parentName, DeclaresMethod(m), t)

(* findDeclaredAttribute looks at one record only, so the copies decide     *)
(* what it finds: an attribute that is there is the nearest one, and those  *)
(* of the type and of its parent are there.                                 *)
AttributesNearest ==
  phase = "done" =>
    \A t \in Types, a \in Attributes :
      /\ attributes[t][a] \in {None, Nearest(parentName, DeclaresAttribute(a), t)}
      /\ attributes[t][a] = None =>
           {t, parentName[t]} \cap DeclaresAttribute(a) = {}

(* When each parent is declared before its children and nothing is          *)
(* reported, all declarations of a method along a chain have one signature. *)
SignaturesKept ==
  (/\ phase = "done" /\ errors = {}
   /\ \A t \in Types : program.parent[t] \in Types => Before(program.parent[t], t))
  => \A t \in Types, m \in Methods :
       \A u \in Above(parentName, t) :
         {t, u} \subseteq DeclaresMethod(m) => program.sig[t][m] = program.sig[u][m]

(* A program that is analysed without an error has a legal hierarchy, and a *)
(* constructor list is its own type's or that of the nearest ancestor with  *)
(* one below which no parent arguments are given.                           *)
AcceptedIsLegal ==
  phase = "done" /\ errors = {} =>
    /\ Grounded(program.parent)
    /\ parentName = program.parent /\ nominal = program.parent
    /\ \A t \in Types :
         params[t] # program.params[t] =>
           /\ program.params[t] = <<>> /\ ~program.explicit[t]
           /\ params[t] = program.params[
                Nearest(parentName, {u \in Types : program.params[u] # <<>>}, t)]

(* Compilation gets past the declarations of every program whose hierarchy  *)
(* has no cycle.                                                            *)
Completes == Grounded(program.parent) ~> phase = "done"

=============================================================================
