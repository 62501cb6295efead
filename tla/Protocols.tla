----------------------------- MODULE Protocols ------------------------------
(***************************************************************************)
(* The declaration of protocols: registerProtocol and registerProtocolMethod *)
(* for the declarations in order, then the second half of                    *)
(* resolveParentsAndConstructors over the hash table of protocols, whose     *)
(* order is any (semantic/type_registry.hpp, type_inference_visitor.cpp).    *)
(* The nominal types are there already and legal, see TypeHierarchy.         *)
(***************************************************************************)
EXTENDS Ast

CONSTANT Sources   \* [types, own, decls]: parents and methods of the declared
                   \* types, and the protocols in order: [name, ext, methods]
Builtins == {"Object", "Number", "String", "Bool", "Boolean"}

VARIABLES
  source,    \* the program
  phase,     \* what the pass is doing
  at,        \* declaration it is at
  extends,   \* parentName of each registered protocol, "" for none
  resolved,  \* those whose parent pointer is set
  table,     \* their methods
  left,      \* entries of the hash table not visited yet
  visited,   \* state 2 of the depth-first search
  errors     \* messages: <<kind, protocol, ...>>
vars == <<source, phase, at, extends, resolved, table, left, visited, errors>>

Registry == [parent |-> source.types, extends |-> extends, methods |-> source.own @@ table]
Named == source.types   \* user types, by name
Protocols == DOMAIN extends
Report(e) == errors' = errors \cup {e}
Declaration == source.decls[at]

Init ==
  /\ source \in Sources
  /\ phase = "register" /\ at = 1
  /\ extends = <<>> /\ table = <<>>
  /\ resolved = {} /\ left = {} /\ visited = {} /\ errors = {}

Advance(next) ==
  IF at = Len(source.decls) THEN at' = 1 /\ phase' = next ELSE at' = at + 1 /\ UNCHANGED phase

RegisterProtocol ==
  /\ phase = "register"
  /\ LET d == Declaration
     IN  IF d.name \in Builtins
         THEN Report(<<"reserved", d.name>>) /\ UNCHANGED <<extends, table>>
         ELSE IF d.name \in Protocols \cup DOMAIN Named
         THEN Report(<<"declared twice", d.name>>) /\ UNCHANGED <<extends, table>>
         ELSE /\ extends' = (d.name :> d.ext) @@ extends
              /\ table' = (d.name :> <<>>) @@ table
              /\ UNCHANGED errors
  /\ Advance("methods")
  /\ UNCHANGED <<source, resolved, left, visited>>

(* findMethod(record.parent, m): nothing while the parent is not resolved.  *)
Inherited(p) == IF p \in resolved THEN ProtocolMethods(Registry, extends[p]) ELSE <<>>
Incompatible(p, m, type) ==
  m \in DOMAIN Inherited(p) /\ ~Satisfies(Registry, type, Inherited(p)[m])

(* visit(ProtocolDeclNode&): a signature as written may lack types and may   *)
(* name none; where it does, it is Unknown.                                  *)
Names(t) == t.class \notin {"Nominal", "Protocol"} \/ t.name \in DOMAIN Named \cup Protocols
Declared(f) == [f EXCEPT !.args = [i \in DOMAIN @ |-> IF @[i] # NoType /\ Names(@[i]) THEN @[i] ELSE UnknownType]]
Complaints(p, m, f) ==
  {<<"not typed", p, m, i>> : i \in {i \in DOMAIN f.args : f.args[i] = NoType}}
  \cup {<<"unknown type", p, m>> : t \in {t \in ToSet(f.args) : ~Names(t)}}

(* The methods of one declaration: the first of each name is kept.  A name  *)
(* that is not that of a protocol is an internal error.                     *)
RegisterMethods ==
  /\ phase = "methods"
  /\ LET d == Declaration
         own == IF d.name \in Protocols THEN table[d.name] ELSE <<>>
         fresh == DOMAIN d.methods \ DOMAIN own
         type == [m \in DOMAIN d.methods |-> Declared(d.methods[m])]
     IN  IF d.name \notin Protocols
         THEN Report(<<"no record", d.name>>) /\ UNCHANGED table
         ELSE /\ table' = [table EXCEPT ![d.name] = own @@ type]
              /\ errors' = errors
                   \cup UNION {Complaints(d.name, m, d.methods[m]) : m \in DOMAIN d.methods}
                   \cup {<<"method twice", d.name, m>> : m \in DOMAIN d.methods \ fresh}
                   \cup {<<"incompatible", d.name, m>> : m \in {m \in fresh : Incompatible(d.name, m, type[m])}}
  /\ Advance(IF Protocols = {} THEN "done" ELSE "resolve")
  /\ left' = IF phase' = "resolve" THEN Protocols ELSE {}
  /\ UNCHANGED <<source, extends, resolved, visited>>

Visit(p, next) ==
  /\ p \in left
  /\ IF left = {p} THEN phase' = next /\ left' = Protocols ELSE left' = left \ {p} /\ UNCHANGED phase

ResolveParent(p) ==
  /\ phase = "resolve"
  /\ LET ext == extends[p]
         kind == CASE ext \in Builtins -> "extends builtin"
                   [] ext \in DOMAIN Named -> "extends type"
                   [] OTHER -> "unknown protocol"
     IN  IF ext = "" THEN UNCHANGED <<extends, resolved, errors>>
         ELSE IF ext \in Protocols THEN resolved' = resolved \cup {p} /\ UNCHANGED <<extends, errors>>
         ELSE /\ Report(<<kind, p>>)
              /\ extends' = [extends EXCEPT ![p] = ""]
              /\ UNCHANGED resolved
  /\ Visit(p, "cycles")
  /\ UNCHANGED <<source, at, table, visited>>

(* detectProtocolCycleFrom: the protocols on the way up; the one met twice  *)
(* on this way extends nothing from then on.                                *)
Way(p) ==
  LET walk[n \in 0..Cardinality(Protocols)] ==
        IF n = 0 THEN <<p>>
        ELSE LET up == extends[Last(walk[n - 1])]
             IN  IF \/ up = "" \/ up \in visited
                    \/ Last(walk[n - 1]) \in ToSet(Front(walk[n - 1])) THEN walk[n - 1]
                 ELSE Append(walk[n - 1], up)
  IN  walk[Cardinality(Protocols)]
MetAgain(way) == Last(way)
DetectCycleFrom(p) ==
  /\ phase = "cycles"
  /\ IF p \in visited THEN UNCHANGED <<extends, resolved, visited, errors>>
     ELSE LET way == Way(p)
              again == MetAgain(way)
          IN  /\ visited' = visited \cup ToSet(way)
              /\ IF Last(way) \in ToSet(Front(way))
                 THEN /\ Report(<<"cycle", again>>)
                      /\ extends' = [extends EXCEPT ![again] = ""]
                      /\ resolved' = resolved \ {again}
                 ELSE UNCHANGED <<extends, resolved, errors>>
  /\ Visit(p, "overrides")
  /\ UNCHANGED <<source, at, table>>

CheckOverrides(p) ==
  /\ phase = "overrides"
  /\ errors' = errors \cup {<<"incompatible", p, m>> : m \in {m \in DOMAIN table[p] : Incompatible(p, m, table[p][m])}}
  /\ Visit(p, "done")
  /\ UNCHANGED <<source, at, extends, resolved, table, visited>>

Next ==
  \/ RegisterProtocol
  \/ RegisterMethods
  \/ \E p \in left : ResolveParent(p) \/ DetectCycleFrom(p) \/ CheckOverrides(p)
Spec == Init /\ [][Next]_vars
-----------------------------------------------------------------------------
Done == phase = "done"
Accepted == Done /\ errors = {}

(* The types a program can mention: those given, those of its signatures,   *)
(* its declared types and protocols.                                        *)
RECURSIVE Subterms(_)
Subterms(t) == {t} \cup UNION {Subterms(t.args[i]) : i \in DOMAIN t.args}
Signatures(R) == UNION {{R.methods[n][m] : m \in DOMAIN R.methods[n]} : n \in DOMAIN R.methods}
Mentioned(R, more) ==
  UNION {Subterms(t) : t \in more \cup Signatures(R)}
  \cup {Nominal(n) : n \in DOMAIN R.parent} \cup {Protocol(p) : p \in DOMAIN R.extends}

(* Conformance as a relation, rule by rule: S is what may be assumed of     *)
(* smaller pairs.                                                           *)
FunctionRule(S, f, g) ==
  LET n == Len(g.args)
  IN  /\ Len(f.args) = n
      /\ \A i \in 1..(n - 1) : <<g.args[i], f.args[i]>> \in S
      /\ <<f.args[n], g.args[n]>> \in S
Rule(R, S, t, u) ==
  \/ t = u
  \/ {t, u} \cap {UnknownType, AnyType} # {}
  \/ u = ObjectType /\ t # VoidType
  \/ t.class = "Number" /\ u = NumberType
  \/ /\ <<t.class, u.class>> \in {<<"Vector", "Vector">>, <<"Vector", "Iterable">>, <<"Iterable", "Iterable">>}
     /\ <<t.args[1], u.args[1]>> \in S
  \/ /\ t.class = "Nominal" /\ u.class = "Iterable"
     /\ {"next", "current"} \subseteq DOMAIN MethodsOf(R, t)
     /\ FunctionRule(S, MethodsOf(R, t)["next"], Function(<<>>, BoolType))
     /\ <<Last(MethodsOf(R, t)["current"].args), u.args[1]>> \in S
  \/ t.class = "Function" /\ u.class = "Function" /\ FunctionRule(S, t, u)
  \/ t.class = "Nominal" /\ u \in ToSet(Chain(R, t.name))
  \/ /\ u.class = "Protocol" /\ t.class # "Function" /\ t # VoidType
     /\ \A m \in DOMAIN MethodsOf(R, u) :
          /\ m \in DOMAIN MethodsOf(R, t)
          /\ FunctionRule(S, MethodsOf(R, t)[m], MethodsOf(R, u)[m])
  \/ /\ u.class = "Protocol" /\ t.class = "Function" /\ DOMAIN MethodsOf(R, u) = {"invoke"}
     /\ FunctionRule(S, t, MethodsOf(R, u)["invoke"])

(* The largest relation in which every pair is there by a rule.             *)
RECURSIVE Largest(_, _)
Largest(R, S) ==
  LET kept == {p \in S : Rule(R, S, p[1], p[2])}
  IN  IF kept = S THEN S ELSE Largest(R, kept)
=============================================================================
