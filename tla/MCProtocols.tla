---------------------------- MODULE MCProtocols -----------------------------
(***************************************************************************)
(* Programs with up to three protocols and two types.  The signatures are    *)
(* chosen so that conformance recurs through protocols, through functions     *)
(* and through iterables.                                                    *)
(***************************************************************************)
EXTENDS Protocols

(* Types the properties speak of besides those of the program.              *)
More == {ObjectType, NumberType, NumberOf("int"), NumberOf("double"), BoolType, VoidType, Vector(NumberType),
         Vector(NumberOf("int")), Iterable(NumberType),
         Function(<<>>, NumberType), Vector(ObjectType)}
Universe == Mentioned(Registry, More)

ToA == Function(<<>>, Nominal("A"))
ToB == Function(<<>>, Nominal("B"))
FromA == Function(<<Nominal("A")>>, NumberType)
FromB == Function(<<Nominal("B")>>, NumberType)
ToP == Function(<<>>, Protocol("P"))
ToQ == Function(<<>>, Protocol("Q"))
ToFunction == Function(<<>>, Function(<<>>, NumberType))
Current == Function(<<>>, NumberType)
Next0 == Function(<<>>, BoolType)

D(name, ext, methods) == [name |-> name, ext |-> ext, methods |-> methods]
S(types, own, decls) == [types |-> types, own |-> own, decls |-> decls]
AB == [A |-> "Object", B |-> "A"]

(* Two protocols that extend one another or not, and a method m in each.    *)
Signs == {ToA, ToB, FromA, FromB, ToP, ToQ, ToFunction}
MethodSets(names) == {<<>>} \cup {n :> f : n \in names, f \in Signs}
Small ==
  {S(AB, [A |-> "m" :> f, B |-> <<>>], <<D("P", e, p), D("Q", d, q)>>) :
     f \in {ToA, ToQ}, e \in {"", "Q"}, d \in {"", "P", "Q"}, p \in MethodSets({"m", "invoke"}), q \in MethodSets({"m"})}

(* Three protocols, chains and cycles, in any order of the hash table.      *)
Chains ==
  {S([A |-> "Object", B |-> "A"], [A |-> [next |-> Next0, current |-> Current], B |-> <<>>],
     <<D("P", e[1], "m" :> ToB), D("Q", e[2], f), D("R", e[3], "m" :> g)>>) :
     e \in {"", "P", "Q", "R"} \X {"", "P", "R"} \X {"", "P", "Q"}, f \in {<<>>, "m" :> FromB}, g \in {ToA, FromA}}

(* Names that are taken, unknown or of another kind.                        *)
Taken ==
  {S(AB, [A |-> <<>>, B |-> <<>>], <<D(n, e, "m" :> ToA), D("P", "", "m" :> f)>>) :
     n \in {"P", "Q", "A", "Number"}, e \in {"", "P", "A", "Object", "Z"}, f \in {ToA, ToB}}

(* Signatures that lack a type, or name none: conformance to what is then    *)
(* Unknown holds for every type, and it still recurs.                       *)
ToNone == Function(<<>>, NoType)
FromNone == Function(<<NoType>>, Nominal("Z"))
Partial ==
  {S(AB, [A |-> "m" :> f, B |-> <<>>], <<D("P", e, "m" :> p), D("Q", "", "m" :> q)>>) :
     f \in {ToA, FromA}, e \in {"", "Q"}, p, q \in {ToNone, FromNone, FromB, ToP}}

MCSources == Small \cup Chains \cup Taken \cup Partial
-----------------------------------------------------------------------------
(* The walk that takes a pair met before for granted decides the largest    *)
(* relation closed under the rules, whatever the order of its tests, if no   *)
(* two types are spelled alike.                                             *)
ConformsIsLargest ==
  Done =>
    LET R == Registry
        U == Universe
        largest == Largest(R, U \X U)
    IN  (\A t, u \in U : Spelling(t) = Spelling(u) => t = u)
          => \A t, u \in U : Conforms(R, t, u) <=> <<t, u>> \in largest

(* The type of a conditional is one that both branches conform to, or, for   *)
(* numbers and the elements of vectors and iterables, one that the promotion  *)
(* of kinds of numbers leads to.                                             *)
RECURSIVE PromotesTo(_, _, _)
PromotesTo(R, t, u) ==
  \/ Conforms(R, t, u)
  \/ t.class = "Number" /\ u.class = "Number" /\ t # NumberType /\ Ranks[t.name] <= Ranks[u.name]
  \/ t.class \in {"Vector", "Iterable"} /\ t.class = u.class /\ PromotesTo(R, t.args[1], u.args[1])
CommonAncestorBounds ==
  Done =>
    LET R == Registry
    IN  \A t, u \in Universe :
          LET top == LowestCommonAncestor(R, t, u) IN PromotesTo(R, t, top) /\ PromotesTo(R, u, top)
=============================================================================
