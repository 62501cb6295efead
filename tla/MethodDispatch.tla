---------------------------- MODULE MethodDispatch ----------------------------
(***************************************************************************)
(* Virtual calls of a compiled program: the registrations that $main makes  *)
(* before the first statement (ir_generator/ir_generator.cpp, ProgramNode), *)
(* the two hash maps and the lookup loop of runtime/runtime.c, and the code *)
(* emitted for `object.method(...)' and `base(...)' (FunctionCallNode).     *)
(*                                                                         *)
(* The program is any one that semantic analysis accepts.  A method body is *)
(* what dispatch sees of it: it calls base once or it does not, and between *)
(* its calls any object's methods may be called.                            *)
(***************************************************************************)
EXTENDS Hierarchy, Sequences

CONSTANTS
  Classes,    \* the declared types
  Order,      \* the sequence in which $main registers them
  Methods,    \* method names
  Object,     \* the builtin root type
  MaxDepth,   \* bound: frames on the stack
  MaxCalls    \* bound: calls `object.method()' in a run

ASSUME RootsApart == Object \notin Classes /\ None \notin Classes /\ Object # None /\ None \notin Methods
ASSUME OrderDeclares == /\ Order \in Seq(Classes)
                        /\ \A c \in Classes : \E i \in 1..Len(Order) : Order[i] = c
ASSUME Bounds == MaxDepth \in Nat /\ MaxCalls \in Nat

VARIABLES
  program,          \* the declarations
  at,               \* position in Order of the class $main registers
  rest,             \* its methods not registered yet
  inheritance_map,  \* class -> parent, None where there is no entry
  vtable_map,       \* class -> method -> class whose function it is
  lookup,           \* the call of _get_virtual_method under way
  stack,            \* the frames of the methods being executed
  calls,            \* number of calls `object.method()' so far
  crashed           \* a null function pointer has been called

vars == <<program, at, rest, inheritance_map, vtable_map, lookup, stack, calls, crashed>>
tables == <<at, rest, inheritance_map, vtable_map>>

-----------------------------------------------------------------------------
(* Accepted programs.                                                       *)

Programs == [parent   : [Classes -> Classes \cup {Object}],
             declares : [Classes -> SUBSET Methods],
             base     : [Classes -> SUBSET Methods]]

DeclarersIn(p, m) == {c \in Classes : m \in p.declares[c]}

(* base() needs a method of the same name in an ancestor (findBaseMethod).  *)
Accepted ==
  {p \in Programs :
     /\ Grounded(p.parent)
     /\ \A c \in Classes :
          /\ p.base[c] \subseteq p.declares[c]
          /\ \A m \in p.base[c] : Reaches(p.parent, p.parent[c], DeclarersIn(p, m))}

Declarers(m) == DeclarersIn(program, m)
IsA(c, d) == Subtype(program.parent, c, d)

(* A receiver of static type s has method m (findMethod).                   *)
HasMethod(s, m) == Reaches(program.parent, s, Declarers(m))

-----------------------------------------------------------------------------
(* A method's frame: the object self, the class the code comes from, how it *)
(* was called and what its body has yet to do.                              *)
Frames == [self : Classes, method : Methods, owner : Classes,
           kind : {"virtual", "base"}, todo : {"base", "return"}]

Lookups == [self : Classes, method : Methods, kind : {"virtual", "base"},
            cursor : Classes \cup {Object, None}]

Methodless == [m \in Methods |-> None]
FirstMethods(i) == IF i \in 1..Len(Order) THEN program.declares[Order[i]] ELSE {}

Init ==
  /\ program \in Accepted
  /\ at = 1
  /\ rest = FirstMethods(1)
  /\ inheritance_map = [c \in Classes |-> None]
  /\ vtable_map = [c \in Classes |-> Methodless]
  /\ lookup = None
  /\ stack = <<>>
  /\ calls = 0
  /\ crashed = FALSE

Registering == at \in 1..Len(Order)
Running == ~Registering /\ ~crashed
Class == Order[at]
Top == stack[Len(stack)]

\* Mutant: only a parent that is registered already is recorded.
RegisterInheritanceLate ==
  /\ Registering /\ inheritance_map[Class] = None
  /\ LET p == program.parent[Class] IN
       inheritance_map' = [inheritance_map EXCEPT ![Class] =
                             IF p \in Classes /\ inheritance_map[p] = None THEN Object ELSE p]
  /\ UNCHANGED <<program, at, rest, vtable_map, lookup, stack, calls, crashed>>

(* call $_register_inheritance(l $Class, l $Parent)                         *)
RegisterInheritance ==
  /\ Registering /\ inheritance_map[Class] = None
  /\ inheritance_map' = [inheritance_map EXCEPT ![Class] = program.parent[Class]]
  /\ UNCHANGED <<program, at, rest, vtable_map, lookup, stack, calls, crashed>>

(* call $_register_method(l $Class, l $method, l $__Class_method)           *)
RegisterMethod(m) ==
  /\ Registering /\ inheritance_map[Class] # None
  /\ m \in rest
  /\ vtable_map' = [vtable_map EXCEPT ![Class][m] = Class]
  /\ rest' = rest \ {m}
  /\ UNCHANGED <<program, at, inheritance_map, lookup, stack, calls, crashed>>

NextClass ==
  /\ Registering /\ inheritance_map[Class] # None /\ rest = {}
  /\ at' = at + 1
  /\ rest' = FirstMethods(at + 1)
  /\ UNCHANGED <<program, inheritance_map, vtable_map, lookup, stack, calls, crashed>>

(* A statement of $main or of the method on top calls a method of an object *)
(* of class c through an expression of static type s.                       *)
CallMethod(c, s, m) ==
  /\ Running /\ lookup = None
  /\ calls < MaxCalls /\ Len(stack) < MaxDepth
  /\ IsA(c, s) /\ HasMethod(s, m)
  /\ lookup' = [self |-> c, method |-> m, kind |-> "virtual", cursor |-> c]
  /\ calls' = calls + 1
  /\ UNCHANGED <<program, tables, stack, crashed>>

\* Mutant: the lookup starts at the object's class.
CallBaseFromSelf ==
  /\ Running /\ lookup = None
  /\ stack # <<>> /\ Top.todo = "base"
  /\ Len(stack) < MaxDepth
  /\ lookup' = [self |-> Top.self, method |-> Top.method, kind |-> "base", cursor |-> Top.self]
  /\ stack' = [stack EXCEPT ![Len(stack)].todo = "return"]
  /\ UNCHANGED <<program, tables, calls, crashed>>

(* base(...) in the method on top.  The class id is loaded from self, so it *)
(* is the class of the object; the lookup starts at its parent.             *)
CallBase ==
  /\ Running /\ lookup = None
  /\ stack # <<>> /\ Top.todo = "base"
  /\ Len(stack) < MaxDepth
  /\ lookup' = [self |-> Top.self, method |-> Top.method, kind |-> "base",
                cursor |-> inheritance_map[Top.self]]
  /\ stack' = [stack EXCEPT ![Len(stack)].todo = "return"]
  /\ UNCHANGED <<program, tables, calls, crashed>>

(* An iteration of _get_virtual_method finds the method and the code calls  *)
(* it, or goes on with the parent, or returns NULL and the code calls that. *)
Entry == IF lookup.cursor \in Classes THEN vtable_map[lookup.cursor][lookup.method] ELSE None
Link  == IF lookup.cursor \in Classes THEN inheritance_map[lookup.cursor] ELSE None

\* Mutant: the parent's entry is preferred.
EnterFoundAbove ==
  /\ lookup # None /\ Entry # None
  /\ LET up == IF Link \in Classes /\ vtable_map[Link][lookup.method] # None
                 THEN vtable_map[Link][lookup.method] ELSE Entry
     IN stack' = Append(stack,
          [self |-> lookup.self, method |-> lookup.method, owner |-> up,
           kind |-> lookup.kind,
           todo |-> IF lookup.method \in program.base[up] THEN "base" ELSE "return"])
  /\ lookup' = None
  /\ UNCHANGED <<program, tables, calls, crashed>>

EnterFound ==
  /\ lookup # None /\ Entry # None
  /\ stack' = Append(stack,
       [self |-> lookup.self, method |-> lookup.method, owner |-> Entry,
        kind |-> lookup.kind,
        todo |-> IF lookup.method \in program.base[Entry] THEN "base" ELSE "return"])
  /\ lookup' = None
  /\ UNCHANGED <<program, tables, calls, crashed>>

\* Mutant: the walk stays where it is.
WalkUpStuck ==
  /\ lookup # None /\ Entry = None
  /\ lookup' = IF Link = None THEN None ELSE lookup
  /\ crashed' = (Link = None)
  /\ UNCHANGED <<program, tables, stack, calls>>

WalkUp ==
  /\ lookup # None /\ Entry = None
  /\ lookup' = IF Link = None THEN None ELSE [lookup EXCEPT !.cursor = Link]
  /\ crashed' = (Link = None)
  /\ UNCHANGED <<program, tables, stack, calls>>

Return ==
  /\ Running /\ lookup = None
  /\ stack # <<>> /\ Top.todo = "return"
  /\ stack' = SubSeq(stack, 1, Len(stack) - 1)
  /\ UNCHANGED <<program, tables, lookup, calls, crashed>>

Startup == RegisterInheritance \/ (\E m \in Methods : RegisterMethod(m)) \/ NextClass
Lookup == EnterFound \/ WalkUp

Next ==
  \/ Startup
  \/ \E c, s \in Classes, m \in Methods : CallMethod(c, s, m)
  \/ CallBase
  \/ Lookup
  \/ Return

Spec == Init /\ [][Next]_vars

(* The runtime's loop goes on while it can.                                 *)
FairSpec == Spec /\ WF_vars(Lookup)

-----------------------------------------------------------------------------
(* Every variable keeps its type.                                           *)
TypeOK ==
  /\ program \in Accepted
  /\ at \in 1..Len(Order) + 1
  /\ rest \subseteq Methods
  /\ inheritance_map \in [Classes -> Classes \cup {Object, None}]
  /\ vtable_map \in [Classes -> [Methods -> Classes \cup {None}]]
  /\ lookup \in Lookups \cup {None}
  /\ stack \in Seq(Frames) /\ Len(stack) <= MaxDepth
  /\ calls \in 0..MaxCalls
  /\ crashed \in BOOLEAN

(* A virtual call runs the implementation nearest to the object's class,    *)
(* in whatever order the classes were registered and through whatever       *)
(* static type the call went.                                               *)
VirtualNearest ==
  \A i \in 1..Len(stack) :
    stack[i].kind = "virtual" =>
      IsNearest(program.parent, Declarers(stack[i].method), stack[i].self, stack[i].owner)

(* What semantic analysis accepts is there at run time: no call, virtual or *)
(* base, goes through a null pointer.                                       *)
NoNullCall == ~crashed

(* A base call from a method of the object's own class runs the method that *)
(* semantic analysis selected: the nearest one above that class.            *)
BaseFromOwnClass ==
  \A i \in 1..Len(stack) - 1 :
    stack[i + 1].kind = "base" /\ stack[i].owner = stack[i].self =>
      IsNearest(program.parent, Declarers(stack[i].method),
                program.parent[stack[i].owner], stack[i + 1].owner)

(* Every lookup ends: the while (1) of _get_virtual_method is left.         *)
LookupEnds == (lookup # None) ~> (lookup = None)

=============================================================================
