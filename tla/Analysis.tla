------------------------------ MODULE Analysis ------------------------------
(***************************************************************************)
(* SemanticAnalyzer::analyze (semantic/analyzer.cpp): declarations are       *)
(* collected, the functions ordered by a depth-first search of the graph of   *)
(* their calls (semantic/dependency_graph.cpp), whose roots come from a hash   *)
(* table, then functions, types and global statements are analysed by         *)
(* Inference.  The hierarchy of the types is legal and one level deep, see    *)
(* TypeHierarchy; protocols are registered, see Protocols.                    *)
(***************************************************************************)
EXTENDS Inference

CONSTANT Programs   \* [functions, types, protocols, globals]

VARIABLES
  program,
  phase,       \* the stage
  at,          \* declaration or statement it is at
  st,          \* state of the visitor
  graph,       \* DependencyGraph: for each node what it depends on, in order
  order,       \* post-order of the search
  cyclic,      \* topologicalSort has met a cycle
  pending,     \* indices of the functions in the order of their analysis
  code         \* the program with the types the visitor left in it
vars == <<program, phase, at, st, graph, order, cyclic, pending, code>>

Builtin(params, result) == Symbol("Function", Function(params, result), 0)
Builtins ==
  [print |-> Builtin(<<AnyType>>, AnyType), sqrt |-> Builtin(<<NumberType>>, NumberType),
   input |-> Builtin(<<>>, StringType), _concat |-> Builtin(<<StringType, StringType>>, StringType)]

(* registerType, then the second half of resolveParentsAndConstructors: a   *)
(* type without parameters or arguments of its own takes those of its parent. *)
(* The name of a declared type is never resolved for such a parameter.        *)
BuiltinType(note) == IF note \in {NumberType, BoolType, StringType, ObjectType} THEN note ELSE NoType
TypeNames(p) == {d.name : d \in ToSet(p.types)}
DeclarationOf(p, n) == CHOOSE d \in ToSet(p.types) : d.name = n
Constructor(p, n) ==
  LET d == DeclarationOf(p, n)
      inherits == d.ctor = <<>> /\ ~d.explicitArgs /\ d.parent # "Object"
      params == IF inherits THEN DeclarationOf(p, d.parent).ctor ELSE d.ctor
  IN  [i \in DOMAIN params |-> [name |-> params[i].name, type |-> BuiltinType(params[i].type), note |-> params[i].type]]
Registry(p) ==
  [parent |-> [n \in TypeNames(p) |-> DeclarationOf(p, n).parent],
   extends |-> [n \in DOMAIN p.protocols |-> ""],
   methods |-> [n \in TypeNames(p) |-> <<>>] @@ p.protocols,
   attributes |-> [n \in TypeNames(p) |-> <<>>],
   ctor |-> [n \in TypeNames(p) |-> Constructor(p, n)]]

Init ==
  /\ program \in Programs
  /\ phase = "functions" /\ at = 1
  /\ st = [scopes |-> <<Builtins>>, signatures |-> <<>>, reg |-> Registry(program),
           owner |-> "", method |-> "", expected |-> <<>>, errors |-> {}]
  /\ graph = <<>> /\ order = <<>> /\ cyclic = FALSE /\ pending = <<>>
  /\ code = program

(* The step of a stage at item at of a list, or the start of the next one.  *)
Stage(name, list, next) ==
  /\ phase = name
  /\ IF at >= Len(list) THEN phase' = next /\ at' = 1 ELSE at' = at + 1 /\ UNCHANGED phase
  /\ UNCHANGED program
-----------------------------------------------------------------------------
(* Collection.                                                              *)
RECURSIVE Calls(_)
Calls(e) ==   \* names called without a receiver, in the order of the walk
  (IF e.op = "call" THEN <<e.name>> ELSE <<>>) \o FlattenSeq([i \in DOMAIN e.kids |-> Calls(e.kids[i])])
DependsOf(g, n) == IF n \in DOMAIN g THEN g[n] ELSE <<>>
(* Mutant: the edge is entered in the other direction.                      *)
AddDependencyBackwards(g, from, to) ==
  LET h == [n \in {from, to} |-> DependsOf(g, n)] @@ g
  IN  [h EXCEPT ![to] = IF from \in ToSet(@) THEN @ ELSE Append(@, from)]
AddDependency(g, from, to) ==
  LET h == [n \in {from, to} |-> DependsOf(g, n)] @@ g
  IN  [h EXCEPT ![from] = IF to \in ToSet(@) THEN @ ELSE Append(@, to)]
AddCalls(g, from, body) == FoldLeft(LAMBDA h, to : AddDependency(h, from, to), g, Calls(body))

(* resolveDeclaredType for parameters and result.                           *)
ResolveSignature(S, d) ==
  LET notes == Append([i \in DOMAIN d.params |-> d.params[i].type], d.note)
      r == FoldLeft(LAMBDA a, t : LET q == Resolved(a.s, t) IN [s |-> q.s, ts |-> Append(a.ts, KnownOr(q.t))],
                    [s |-> S, ts |-> <<>>], notes)
  IN  [s |-> r.s, f |-> Function(Front(r.ts), Last(r.ts))]

CollectFunction ==
  /\ Stage("functions", program.functions, "types")
  /\ IF program.functions = <<>> THEN UNCHANGED <<st, graph>>
     ELSE LET d == program.functions[at]
              r == ResolveSignature(st, d)
              known == d.name \in DOMAIN r.s.scopes[1]
              s == [r.s EXCEPT !.signatures = Append(@, r.f)]
          IN  /\ st' = IF known THEN Error(s, "declared twice")
                       ELSE InsertFunction(s, d.name, at)
              /\ graph' = AddCalls((d.name :> DependsOf(graph, d.name)) @@ graph, d.name, d.body)
  /\ UNCHANGED <<order, cyclic, pending, code>>

(* The methods of a type, and its attributes with the types they declare.   *)
CollectType ==
  /\ Stage("types", program.types, "resolve")
  /\ IF program.types = <<>> THEN UNCHANGED <<st, graph>>
     ELSE LET d == program.types[at]
              note(n) == (CHOOSE a \in ToSet(d.attributes) : a.name = n).note
              r == FoldLeft(LAMBDA s, m : LET q == ResolveSignature(s, m) IN [q.s EXCEPT !.reg.methods[d.name] = Put(@, m.name, q.f)],
                            st, d.methods)
          IN  /\ st' = [r EXCEPT !.reg.attributes[d.name] =
                          [n \in {a.name : a \in ToSet(d.attributes)} |-> [owner |-> d.name, type |-> note(n)]]]
              /\ graph' = FoldLeft(LAMBDA g, m : AddCalls(g, d.name \o "." \o m.name, m.body), graph, d.methods)
  /\ UNCHANGED <<order, cyclic, pending, code>>

(* What resolveParentsAndConstructors does besides: a type with parameters   *)
(* but no arguments for its parent must have those of the parent; attributes *)
(* are copied from the parent as they are at this moment; a method must have  *)
(* the signature of the one it overrides, as far as both are known now.       *)
Parent(n) == st.reg.parent[n]
InheritsUser(n) == Parent(n) \in DOMAIN st.reg.parent
PassesOn(p, n) ==
  LET d == DeclarationOf(p, n)
      above == DeclarationOf(p, d.parent).ctor
  IN  d.explicitArgs \/ d.ctor = <<>>
      \/ /\ Len(d.ctor) = Len(above)
         /\ \A i \in DOMAIN above : NoType \in {d.ctor[i].type, above[i].type} \/ d.ctor[i].type = above[i].type
Resolve ==
  /\ phase = "resolve"
  /\ LET attributes == [n \in DOMAIN st.reg.attributes |->
                          IF InheritsUser(n) THEN st.reg.attributes[n] @@ st.reg.attributes[Parent(n)] ELSE st.reg.attributes[n]]
         own == st.reg.methods
         kept == \A n \in DOMAIN st.reg.parent : InheritsUser(n) =>
                   \A m \in DOMAIN own[n] \cap DOMAIN own[Parent(n)] : own[n][m] = own[Parent(n)][m]
         passed == \A n \in DOMAIN st.reg.parent : InheritsUser(n) => PassesOn(program, n)
     IN  st' = Unless(Unless([st EXCEPT !.reg.attributes = attributes], kept, "signature"), passed, "constructor")
  /\ phase' = "sort"
  /\ UNCHANGED <<program, at, graph, order, cyclic, pending, code>>
-----------------------------------------------------------------------------
(* topologicalSort: one search from every root that is not visited yet.      *)
RECURSIVE Search(_, _)
Search(s, n) ==   \* s = [order, visited, stack, cyclic]
  LET enter == [s EXCEPT !.visited = @ \cup {n}, !.stack = @ \cup {n}]
      below == FoldLeft(LAMBDA a, m : IF m \notin a.visited THEN Search(a, m)
                                      ELSE IF m \in a.stack THEN [a EXCEPT !.cyclic = TRUE] ELSE a,
                        enter, graph[n])
  IN  [below EXCEPT !.stack = @ \ {n}, !.order = Append(@, n)]

SortFrom(n) ==
  /\ phase = "sort" /\ n \notin ToSet(order)
  /\ \E s \in {Search([order |-> order, visited |-> ToSet(order), stack |-> {}, cyclic |-> cyclic], n)} :
       order' = s.order /\ cyclic' = s.cyclic
  /\ UNCHANGED <<program, phase, at, st, graph, pending, code>>

(* buildOrderedFunctionList, or the order of the declarations.  A node has  *)
(* the last declaration of its name; the others come after.                  *)
Indices == [i \in DOMAIN program.functions |-> i]
LastNamed(n) == {i \in DOMAIN Indices : program.functions[i].name = n /\ \A j \in DOMAIN Indices : program.functions[j].name = n => j <= i}
Ordered ==
  LET sorted == FlattenSeq([i \in DOMAIN order |-> SelectSeq(Indices, LAMBDA j : j \in LastNamed(order[i]))])
  IN  sorted \o SelectSeq(Indices, LAMBDA j : j \notin ToSet(sorted))
OrderFunctions ==
  /\ phase = "sort" /\ ToSet(order) = DOMAIN graph
  /\ pending' = IF cyclic THEN Indices ELSE Ordered
  /\ phase' = "bodies"
  /\ UNCHANGED <<program, at, st, graph, order, cyclic, code>>
-----------------------------------------------------------------------------
AnalyzeFunction ==
  /\ Stage("bodies", pending, "declared types")
  /\ IF pending = <<>> THEN UNCHANGED <<st, code>>
     ELSE \E i \in {pending[at]} : \E a \in {AnalyseFunction(st, program.functions[i], i)} :
            st' = a.s /\ code' = [code EXCEPT !.functions[i] = a.d]
  /\ UNCHANGED <<graph, order, cyclic, pending>>

AnalyzeTypes ==
  /\ Stage("declared types", program.types, "globals")
  /\ IF program.types = <<>> THEN UNCHANGED <<st, code>>
     ELSE \E a \in {AnalyseType(st, program.types[at])} :
            st' = a.s /\ code' = [code EXCEPT !.types[at] = a.d]
  /\ UNCHANGED <<graph, order, cyclic, pending>>

AnalyzeGlobals ==
  /\ Stage("globals", program.globals, "analyzed")
  /\ \E v \in {Visit(st, program.globals[at])} :
       st' = v.s /\ code' = [code EXCEPT !.globals[at] = v.e]
  /\ UNCHANGED <<graph, order, cyclic, pending>>

AnalysisNext ==
  \/ CollectFunction \/ CollectType \/ Resolve
  \/ \E n \in DOMAIN graph : SortFrom(n)
  \/ OrderFunctions
  \/ AnalyzeFunction \/ AnalyzeTypes \/ AnalyzeGlobals
-----------------------------------------------------------------------------
Analyzed == phase = "analyzed"
Accepted == Analyzed /\ st.errors = {}
=============================================================================
