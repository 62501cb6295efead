----------------------------- MODULE TypeSystem -----------------------------
(***************************************************************************)
(* Types, conformance and common ancestors (semantic/type.hpp, and the      *)
(* queries of semantic/type_registry.hpp), over a registry                  *)
(*   parent    a function from the declared types to their parent            *)
(*   extends   a function from the protocols to the one they extend, or ""   *)
(*   methods   for each of both, a function from its own methods to their    *)
(*             function types                                               *)
(* Null pointers do not occur here: the visitor passes Unknown for them.    *)
(***************************************************************************)
EXTENDS Naturals, FiniteSets, SequencesExt, TLC

Type(class, name, args) == [class |-> class, name |-> name, args |-> args]
Basic(name) == Type("Basic", name, <<>>)
ObjectType == Basic("Object")
StringType == Basic("String")
BoolType == Basic("Bool")
VoidType == Basic("Void")
UnknownType == Basic("Unknown")
AnyType == Basic("Any")
Nominal(name) == Type("Nominal", name, <<>>)
Protocol(name) == Type("Protocol", name, <<>>)
Iterable(t) == Type("Iterable", "", <<t>>)
Enumerable(t) == Type("Enumerable", "", <<t>>)
Vector(t) == Type("Vector", "", <<t>>)
Function(params, result) == Type("Function", "", Append(params, result))

(* Number, or Number<kind> for a kind of literal.                           *)
Ranks == [int |-> 0, long |-> 1, float |-> 2, double |-> 3]
Generic == "any"
NumberOf(kind) == Type("Number", kind, <<>>)
NumberType == NumberOf(Generic)
(* Mutant: the kind wins over Number.                                       *)
CommonNumberOfKind(l, r) ==
  IF l = NumberType THEN r
  ELSE IF r = NumberType \/ Ranks[l.name] >= Ranks[r.name] THEN l ELSE r
CommonNumber(l, r) ==
  IF Generic \in {l.name, r.name} THEN NumberType
  ELSE IF Ranks[l.name] >= Ranks[r.name] THEN l ELSE r
CompatibleNumbers(expected, actual) == expected.name \in {Generic, actual.name}

IsObjectLike(t) == t \notin {VoidType, UnknownType, AnyType}

(* toString, by which pairs of types are remembered and types visited.      *)
RECURSIVE Spelling(_)
Spelling(t) ==
  CASE t.class = "Function" ->
         LET n == Len(t.args)
         IN  <<"(">> \o FlattenSeq([i \in 1..(n - 1) |-> Append(Spelling(t.args[i]), ",")])
             \o <<") ->">> \o Spelling(t.args[n])
    [] t.class = "Iterable" -> Append(Spelling(t.args[1]), "*")
    [] t.class = "Vector" -> Append(Spelling(t.args[1]), "[]")
    [] t.class = "Enumerable" -> <<"Enumerable<">> \o Append(Spelling(t.args[1]), ">")
    [] OTHER -> <<t.name>>
-----------------------------------------------------------------------------
(* allProtocolMethods: what a protocol declares hides what it extends.      *)
RECURSIVE ProtocolMethods(_, _)
ProtocolMethods(R, p) ==
  IF p \notin DOMAIN R.extends THEN <<>>
  ELSE R.methods[p] @@ ProtocolMethods(R, R.extends[p])

RECURSIVE InheritedMethods(_, _)
InheritedMethods(R, n) ==
  IF n \notin DOMAIN R.parent THEN <<>>
  ELSE R.methods[n] @@ InheritedMethods(R, R.parent[n])

(* findMethod and lookupMemberMethod find a name in its domain.             *)
MethodsOf(R, t) ==
  CASE t.class = "Protocol" -> ProtocolMethods(R, t.name)
    [] t.class = "Nominal" -> InheritedMethods(R, t.name)
    [] OTHER -> <<>>

(* A type and all above it; the last is Object.                             *)
RECURSIVE Chain(_, _)
Chain(R, n) == IF n \in DOMAIN R.parent THEN <<Nominal(n)>> \o Chain(R, R.parent[n]) ELSE <<ObjectType>>
-----------------------------------------------------------------------------
(* What remains to be shown for a pair of types: that is refused, or it     *)
(* holds once all goals do.                                                 *)
Verdict(b) == [ok |-> b, goals |-> <<>>]
Goals(pairs) == [ok |-> TRUE, goals |-> pairs]
Both(vs) == [ok |-> \A i \in DOMAIN vs : vs[i].ok, goals |-> FlattenSeq([i \in DOMAIN vs |-> vs[i].goals])]

(* Mutant: parameters compared in the direction of results.                 *)
MethodSatisfiesCovariant(implementation, requirement) ==
  IF Len(implementation.args) # Len(requirement.args) THEN Verdict(FALSE)
  ELSE Goals([i \in DOMAIN requirement.args |-> <<implementation.args[i], requirement.args[i]>>])
MethodSatisfiesRequirement(implementation, requirement) ==
  LET n == Len(requirement.args)
  IN  IF Len(implementation.args) # n THEN Verdict(FALSE)
      ELSE Goals([i \in 1..n |-> IF i = n THEN <<implementation.args[n], requirement.args[n]>>
                                 ELSE <<requirement.args[i], implementation.args[i]>>])

InvokeSatisfies(actual, wanted) ==
  IF DOMAIN wanted = {"invoke"} THEN MethodSatisfiesRequirement(actual, wanted["invoke"]) ELSE Verdict(FALSE)
MethodsSatisfy(found, wanted) ==
  LET names == SetToSeq(DOMAIN wanted)
  IN  IF DOMAIN wanted \subseteq DOMAIN found
      THEN Both([i \in DOMAIN names |-> MethodSatisfiesRequirement(found[names[i]], wanted[names[i]])]) ELSE Verdict(FALSE)
ActualConformsToProtocol(R, actual, expected) ==
  IF actual.class = "Function" THEN InvokeSatisfies(actual, MethodsOf(R, expected))
  ELSE IF actual = VoidType THEN Verdict(FALSE)
  ELSE MethodsSatisfy(MethodsOf(R, actual), MethodsOf(R, expected))

(* A declared type is iterable when it has next(): Bool and current.        *)
IterableByMethods(found, element) ==
  IF {"next", "current"} \subseteq DOMAIN found /\ Len(found["next"].args) = 1
  THEN Goals(<<<<found["next"].args[1], BoolType>>, <<Last(found["current"].args), element>>>>)
  ELSE Verdict(FALSE)

(* The tests of conformsImpl in their order.                                *)
ConformsStep(R, actual, expected) ==
  IF {actual, expected} \cap {UnknownType, AnyType} # {} \/ actual = expected THEN Verdict(TRUE)
  ELSE IF expected = ObjectType /\ actual # VoidType THEN Verdict(IsObjectLike(actual))
  ELSE IF expected.class = "Number" /\ actual.class = "Number" THEN Verdict(CompatibleNumbers(expected, actual))
  ELSE IF \/ expected.class = "Iterable" /\ actual.class \in {"Iterable", "Vector"}
          \/ expected.class = "Enumerable" /\ actual.class \in {"Enumerable", "Vector"}
          \/ expected.class = "Vector" /\ actual.class = "Vector"
       THEN Goals(<<<<actual.args[1], expected.args[1]>>>>)
  ELSE IF expected.class = "Iterable" /\ actual.class = "Nominal"
       THEN IterableByMethods(MethodsOf(R, actual), expected.args[1])
  ELSE IF expected.class = "Function"
       THEN IF actual.class = "Function" THEN MethodSatisfiesRequirement(actual, expected) ELSE Verdict(FALSE)
  ELSE IF expected.class = "Protocol" THEN ActualConformsToProtocol(R, actual, expected)
  ELSE Verdict(actual.class = "Nominal" /\ expected \in ToSet(Chain(R, actual.name)))

(* conformsImpl: a pair met before is taken to conform.                     *)
RECURSIVE AllConform(_, _, _)
AfterStep(R, step, goals, seen) == step.ok /\ AllConform(R, step.goals \o goals, seen)
FirstConforms(R, key, goals, seen) ==
  IF key \in seen THEN AllConform(R, Tail(goals), seen)
  ELSE AfterStep(R, ConformsStep(R, goals[1][1], goals[1][2]), Tail(goals), seen \cup {key})
AllConform(R, goals, seen) ==
  IF goals = <<>> THEN TRUE ELSE FirstConforms(R, <<Spelling(goals[1][1]), Spelling(goals[1][2])>>, goals, seen)

Conforms(R, actual, expected) == AllConform(R, <<<<actual, expected>>>>, {})
Satisfies(R, implementation, requirement) == AfterStep(R, MethodSatisfiesRequirement(implementation, requirement), <<>>, {})

RECURSIVE LowestCommonAncestor(_, _, _)
LowestCommonAncestor(R, l, r) ==
  IF l = UnknownType THEN r
  ELSE IF r = UnknownType \/ l = r THEN l
  ELSE IF l.class = "Number" /\ r.class = "Number" THEN CommonNumber(l, r)
  ELSE IF l.class = r.class /\ l.class \in {"Vector", "Iterable"}
       THEN Type(l.class, "", <<LowestCommonAncestor(R, l.args[1], r.args[1])>>)
  ELSE IF Conforms(R, l, r) THEN r
  ELSE IF Conforms(R, r, l) THEN l
  ELSE IF l.class = "Nominal" /\ r.class = "Nominal"
       THEN LET up == Chain(R, r.name)
            IN  up[CHOOSE i \in DOMAIN up : /\ up[i] \in ToSet(Chain(R, l.name))
                                            /\ \A j \in 1..(i - 1) : up[j] \notin ToSet(Chain(R, l.name))]
  ELSE IF IsObjectLike(l) /\ IsObjectLike(r) THEN ObjectType ELSE UnknownType
=============================================================================
