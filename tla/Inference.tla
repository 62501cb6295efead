----------------------------- MODULE Inference ------------------------------
(***************************************************************************)
(* TypeInferenceVisitor (semantic/type_inference_visitor.cpp) in the mode    *)
(* that analyses.  The visitor's state S is [scopes, signatures, reg, owner,  *)
(* method, expected, errors], with reg the registry of TypeSystem and also    *)
(* the attributes and the parameters of constructors.  Visit returns the new *)
(* state and the node with the types it was given; an expression is visited  *)
(* more than once when its context may have refined the names in it.         *)
(*                                                                           *)
(* A name has one overload: a second declaration is refused.                 *)
(***************************************************************************)
EXTENDS Ast

Put(f, x, y) == (x :> y) @@ f
KnownOr(t) == IF t = NoType THEN UnknownType ELSE t   \* coerceUnknown
Normal(t) == IF t.class = "Number" THEN NumberType ELSE KnownOr(t)
IsNumber(t) == t.class = "Number"
Result(f) == Last(f.args)
Parameters(f) == Front(f.args)
WithResult(f, t) == Function(Parameters(f), t)

Error(S, what) == [S EXCEPT !.errors = @ \cup {what}]
Unless(S, ok, what) == IF ok THEN S ELSE Error(S, what)
Accepts(S, actual, expected) == expected # NoType /\ Conforms(S.reg, actual, expected)

(* checkTypeConformance                                                     *)
Checked(S, actual, expected, what) == Unless(S, Conforms(S.reg, KnownOr(actual), KnownOr(expected)), what)

(* resolveDeclaredType: an annotation that names nothing is Unknown.        *)
Resolved(S, note) ==
  IF note.class \in {"Nominal", "Protocol"} /\ note.name \notin DOMAIN S.reg.parent \cup DOMAIN S.reg.extends
  THEN [s |-> Error(S, "unknown type"), t |-> UnknownType]
  ELSE [s |-> S, t |-> note]
-----------------------------------------------------------------------------
(* The symbol table: scopes, the innermost last.  A function declared by    *)
(* the program is known by the index of its declaration.                     *)
Symbol(kind, type, decl) == [kind |-> kind, type |-> type, decl |-> decl]
EnterScope(S, symbols) == [S EXCEPT !.scopes = Append(@, symbols)]
ExitScope(S) == [S EXCEPT !.scopes = Front(@)]
Where(S, name) ==   \* 0 when it is in no scope
  LET found == {i \in DOMAIN S.scopes : name \in DOMAIN S.scopes[i]}
  IN  IF found = {} THEN 0 ELSE CHOOSE i \in found : \A j \in found : j <= i
Lookup(S, name) == S.scopes[Where(S, name)][name]
TypeOf(S, symbol) == IF symbol.decl > 0 THEN S.signatures[symbol.decl] ELSE symbol.type
InsertFunction(S, name, decl) == [S EXCEPT !.scopes[1] = Put(@, name, Symbol("Function", NoType, decl))]
SetSymbol(S, name, t) == [S EXCEPT !.scopes[Where(S, name)][name].type = t]
Bind(params, kind) ==   \* the first of several of one name stays
  FoldLeft(LAMBDA scope, p : scope @@ (p.name :> Symbol(kind, KnownOr(p.type), 0)), <<>>, params)

(* refineUnknownExpression: what its context says of a name, or of the      *)
(* parameters and the result of a lambda.                                   *)
RefineName(S, e, t) == IF KnownOr(t) = UnknownType THEN S ELSE SetSymbol(S, e.name, Normal(t))
RefineLambda(e, f) ==
  LET params == Parameters(f)
  IN  [e EXCEPT !.params = [i \in DOMAIN @ |->
                  IF i <= Len(params) /\ KnownOr(@[i].type) = UnknownType
                  THEN [@[i] EXCEPT !.type = params[i]] ELSE @[i]],
                !.note = IF KnownOr(@) = UnknownType THEN Result(f) ELSE @]
Refine(S, e, t) ==
  IF e.op = "var" /\ Where(S, e.name) > 0
  THEN IF TypeOf(S, Lookup(S, e.name)) = UnknownType THEN [s |-> RefineName(S, e, t), e |-> e] ELSE [s |-> S, e |-> e]
  ELSE [s |-> S, e |-> IF e.op = "lambda" /\ t.class = "Function" THEN RefineLambda(e, t) ELSE e]

(* mergeInferredType                                                        *)
Merged(S, old, new) ==
  IF new = UnknownType THEN [s |-> S, t |-> old]
  ELSE IF Conforms(S.reg, new, old) THEN [s |-> S, t |-> new]
  ELSE IF Conforms(S.reg, old, new) THEN [s |-> S, t |-> old]
  ELSE [s |-> Error(S, "no unique type"), t |-> UnknownType]
Merge(S, current, candidate) == Merged(S, KnownOr(current), Normal(candidate))

Related(S, t, u) == Conforms(S.reg, t, u) \/ Conforms(S.reg, u, t)

FindAttribute(S, t, name) == t.class = "Nominal" /\ t.name \in DOMAIN S.reg.attributes /\ name \in DOMAIN S.reg.attributes[t.name]
Attribute(S, t, name) == S.reg.attributes[t.name][name]

(* validate_function_like                                                   *)
Arguments(S, es, f) ==
  IF Len(es) # Len(f.args) - 1 THEN Error(S, "arity")
  ELSE Unless(S, \A i \in DOMAIN es : Accepts(S, es[i].type, f.args[i]), "argument")

RECURSIVE ElementType(_, _)
IsIterator(S, found) ==
  /\ {"current", "next"} \subseteq DOMAIN found
  /\ Parameters(found["next"]) = <<>> /\ Conforms(S.reg, Result(found["next"]), BoolType)
ElementByMethods(S, t, found) ==
  IF IsIterator(S, found) THEN [s |-> S, t |-> Result(found["current"])]
  ELSE IF "iter" \in DOMAIN found /\ Parameters(found["iter"]) = <<>> THEN ElementType(S, Result(found["iter"]))
  ELSE [s |-> Unless(S, t \in {UnknownType, VoidType}, "not iterable"), t |-> UnknownType]
ElementType(S, t) ==
  IF t.class \in {"Iterable", "Vector", "Enumerable"} THEN [s |-> S, t |-> t.args[1]] ELSE ElementByMethods(S, t, MethodsOf(S.reg, t))

(* Methods of the compiler's own types.                                     *)
BuiltinMethod(t, name) ==
  CASE t.class = "Vector" /\ name = "size" -> Function(<<>>, NumberType)
    [] t.class \in {"Vector", "Iterable"} /\ name = "current" -> Function(<<>>, t.args[1])
    [] t.class \in {"Vector", "Iterable"} /\ name = "next" -> Function(<<>>, BoolType)
    [] t.class \in {"Vector", "Enumerable"} /\ name = "iter" -> Function(<<>>, Iterable(t.args[1]))
    [] OTHER -> NoType
-----------------------------------------------------------------------------
RECURSIVE Visit(_, _)
RECURSIVE VisitEach(_, _)
VisitEach(v, es) ==   \* the others come after those of v
  LET seen(w) == VisitEach([s |-> w.s, es |-> Append(v.es, w.e)], Tail(es))
  IN  IF es = <<>> THEN v ELSE seen(Visit(v.s, Head(es)))
VisitAll(S, es) == VisitEach([s |-> S, es |-> <<>>], es)

Made(S, e, kids, t) == [s |-> S, e |-> [e EXCEPT !.kids = kids, !.type = t]]
Fail(S, e, kids, what) == Made(Error(S, what), e, kids, UnknownType)

(* Kids as [s, es], of which those with a type are visited in their order:     *)
(* refined all and seen again, as operands are, or one after the other, as       *)
(* arguments are.                                                            *)
Turns(v, types, refining, seeing) ==
  LET kept(w, i, r) == [s |-> r.s, es |-> [w.es EXCEPT ![i] = r.e]]
      seen(r) == IF seeing THEN Visit(r.s, r.e) ELSE r
      turn(S, e, t) == seen(IF refining THEN Refine(S, e, t) ELSE [s |-> S, e |-> e])
  IN  FoldLeft(LAMBDA w, i : kept(w, i, turn(w.s, w.es[i], types[i])), v,
               [i \in 1..(IF Len(types) < Len(v.es) THEN Len(types) ELSE Len(v.es)) |-> i])
RefineAll(v, types) == Turns(v, types, TRUE, FALSE)
SeenAgain(v, types) == Turns(v, types, FALSE, TRUE)
Again(v, types) == SeenAgain(RefineAll(v, types), types)
OneByOne(v, types) == Turns(v, types, TRUE, TRUE)
Operands(S, es, t) == Again(VisitAll(S, es), [i \in DOMAIN es |-> t])
Unclear(es) == \E i \in DOMAIN es : es[i].type = UnknownType

VisitVariable(S, e) ==
  IF Where(S, e.name) = 0 THEN Fail(S, e, <<>>, "undeclared")
  ELSE Made(S, e, <<>>, TypeOf(S, Lookup(S, e.name)))

(* Operators whose operands are numbers, or Booleans.                       *)
VisitArithmetic(S, e) ==
  LET number(es) == IF Len(es) = 1 THEN es[1].type ELSE CommonNumber(es[1].type, es[2].type)
      typed(v) ==
        IF Unclear(v.es) THEN Made(v.s, e, v.es, UnknownType)
        ELSE IF \E i \in DOMAIN v.es : ~IsNumber(v.es[i].type) THEN Made(Error(v.s, "operand"), e, v.es, NumberType)
        ELSE Made(v.s, e, v.es, number(v.es))
  IN  typed(Operands(S, e.kids, NumberType))

VisitRelational(S, e) ==
  LET typed(v) == Made(Unless(v.s, \A i \in 1..2 : IsNumber(v.es[i].type), "operand"), e, v.es, BoolType)
  IN  typed(Operands(S, e.kids, NumberType))

VisitBoolean(S, e) ==
  LET typed(v) ==
        IF Len(v.es) = 1 /\ Unclear(v.es) THEN Made(v.s, e, v.es, UnknownType)
        ELSE Made(Unless(v.s, \A i \in DOMAIN v.es : v.es[i].type = BoolType, "operand"), e, v.es, BoolType)
  IN  typed(Operands(S, e.kids, BoolType))

VisitConcat(S, e) ==
  LET typed(v) ==
        IF Unclear(v.es) THEN Made(v.s, e, v.es, UnknownType)
        ELSE Made(Unless(v.s, \A i \in 1..2 : IsNumber(v.es[i].type) \/ v.es[i].type = StringType, "operand"), e, v.es, StringType)
  IN  typed(Operands(S, e.kids, StringType))

(* One operand of an unknown type takes that of the other.                  *)
Comparable(S, left, right) == (IsNumber(left) /\ IsNumber(right)) \/ Related(S, left, right)
VisitEquality(S, e) ==
  LET put(v, w, i) == [s |-> w.s, es |-> [v.es EXCEPT ![i] = w.e]]
      again(v, r, i) == put(v, Visit(r.s, r.e), i)
      side(unknown) == IF Cardinality(unknown) = 1 THEN CHOOSE i \in unknown : TRUE ELSE 0
      refined(v, i) == IF i = 0 THEN v ELSE again(v, Refine(v.s, v.es[i], v.es[3 - i].type), i)
      both(v) == refined(v, side({i \in 1..2 : KnownOr(v.es[i].type) = UnknownType}))
      typed(v) == Made(Unless(v.s, Comparable(S, KnownOr(v.es[1].type), KnownOr(v.es[2].type)), "operand"), e, v.es, BoolType)
  IN  typed(both(VisitAll(S, e.kids)))

VisitIs(S, e) ==
  LET tested(v, r) == Made(Unless(r.s, v.e.type # VoidType, "operand"), e, <<v.e>>, BoolType)
      seen(v) == tested(v, Resolved(v.s, e.note))
  IN  seen(Visit(S, e.kids[1]))
Cast(S, e, v, r) == Made(Unless(r.s, Related(S, KnownOr(v.e.type), r.t), "downcast"), e, <<v.e>>, r.t)
VisitAs(S, e) ==
  LET seen(v) == Cast(S, e, v, Resolved(v.s, e.note))
  IN  seen(Visit(S, e.kids[1]))

VisitLet(S, e) ==
  LET made(v, body, note) == Made(ExitScope(body.s), [e EXCEPT !.note = note], <<v.e, body.e>>, KnownOr(body.e.type))
      inside(v, s, bound, note) == made(v, Visit(EnterScope(s, e.name :> Symbol("Variable", bound, 0)), e.kids[2]), note)
      initialized(v, init, note) ==
        IF note # NoType THEN inside(v, Checked(v.s, init, note, "let"), note, note)
        ELSE inside(v, Unless(v.s, init # UnknownType, "let not inferred"), init, note)
      seen(v, note) == initialized(v, KnownOr(v.e.type), note)
      typed(r) == seen(Visit(r.s, e.kids[1]), r.t)
  IN  typed(Resolved(S, e.note))

Joined(S, e, t, u, join) == Made(Unless(S, join # UnknownType \/ UnknownType \in {t, u}, "branches"), e, e.kids, join)
Branches(S, e, t, u) == Joined(S, e, t, u, LowestCommonAncestor(S.reg, t, u))
VisitIf(S, e) ==
  LET typed(s, es) ==
        IF Len(e.kids) = 2 THEN Made(s, e, es, VoidType)
        ELSE Branches(s, [e EXCEPT !.kids = es], KnownOr(es[2].type), KnownOr(es[3].type))
      checked(v) == typed(Unless(v.s, KnownOr(v.es[1].type) \in {BoolType, UnknownType}, "condition"), v.es)
      refined(r) == checked(VisitAll(r.s, [e.kids EXCEPT ![1] = r.e]))
  IN  refined(Refine(S, e.kids[1], BoolType))

VisitWhile(S, e) ==
  LET v == VisitAll(S, e.kids)
  IN  Made(Unless(v.s, v.es[1].type \in {BoolType, UnknownType}, "condition"), e, v.es, KnownOr(v.es[2].type))

(* The element of what is iterated over is bound in a scope of its own.      *)
Iterated(S, source, e) ==
  LET made(body) == Made(ExitScope(body.s), e, <<source, body.e>>, KnownOr(body.e.type))
      each(item) == made(Visit(EnterScope(item.s, e.name :> Symbol("Variable", item.t, 0)), e.kids[2]))
  IN  each(ElementType(S, KnownOr(source.type)))

VisitFor(S, e) ==
  LET seen(source) == Iterated(Unless(source.s, source.e.type # VoidType, "not iterable"), source.e, e)
  IN  seen(Visit(S, e.kids[1]))

VisitComprehension(S, e) ==
  LET vector(each) == [each EXCEPT !.e = Having(@, Vector(IF @.type = UnknownType THEN ObjectType ELSE @.type))]
      seen(source) == vector(Iterated(source.s, source.e, e))
  IN  seen(Visit(S, e.kids[1]))

VisitBlock(S, e) ==
  LET v == VisitAll(EnterScope(S, <<>>), e.kids)
  IN  Made(ExitScope(v.s), e, v.es, IF v.es = <<>> THEN VoidType ELSE KnownOr(Last(v.es).type))

VisitReturn(S, e) ==
  LET returned(v, t) ==
        Made(IF S.expected = <<>> THEN Error(v.s, "return outside")
             ELSE Unless(v.s, Conforms(S.reg, t, Last(S.expected)), "return"), e, <<v.e>>, t)
      seen(v) == returned(v, KnownOr(v.e.type))
  IN  seen(Visit(S, e.kids[1]))

CommonType(S, es) ==
  FoldLeft(LAMBDA u, x : IF u = NoType THEN KnownOr(x.type) ELSE LowestCommonAncestor(S.reg, u, KnownOr(x.type)), NoType, es)
VisitVector(S, e) ==
  LET made(v, t) == Made(v.s, e, v.es, Vector(IF KnownOr(t) = UnknownType THEN ObjectType ELSE t))
      seen(v) == made(v, CommonType(S, v.es))
  IN  seen(VisitAll(S, e.kids))

VisitIndex(S, e) ==
  LET checked(v) == Unless(v.s, IsNumber(v.e.type) \/ KnownOr(v.e.type) = UnknownType, "index")
      typed(base, v) ==
        IF base.type.class = "Vector" THEN Made(checked(v), e, <<base, v.e>>, base.type.args[1])
        ELSE Fail(checked(v), e, <<base, v.e>>, "index")
      refined(base, r) == typed(base, Visit(r.s, r.e))
      seen(v) == refined(v.e, Refine(v.s, e.kids[2], NumberType))
  IN  seen(Visit(S, e.kids[1]))

ResolveParameters(S, params) ==
  LET resolve(a, p, q) == [s |-> q.s, ps |-> Append(a.ps, [p EXCEPT !.type = KnownOr(q.t)])]
  IN  FoldLeft(LAMBDA a, p : resolve(a, p, Resolved(a.s, p.type)), [s |-> S, ps |-> <<>>], params)
LambdaTyped(S, e, body, types, t) ==
  IF e.note = NoType THEN Made(S, e, <<body>>, Function(types, t))
  ELSE Made(Checked(S, t, e.note, "lambda"), e, <<body>>, Function(types, e.note))
LambdaCaptured(S, e, body, types) ==
  LambdaTyped(Unless(ExitScope(S), UnknownType \notin ToSet(types), "parameter not inferred"),
              [e EXCEPT !.params = [i \in DOMAIN @ |-> [@[i] EXCEPT !.type = types[i]]]], body, types, KnownOr(body.type))
VisitLambda(S, e) ==
  LET seen(made, body) == LambdaCaptured(body.s, made, body.e, [i \in DOMAIN made.params |-> KnownOr(Lookup(body.s, made.params[i].name).type)])
      inside(s, made) == seen(made, Visit(EnterScope(s, Bind(made.params, "Parameter")), e.kids[1]))
      result(r, q) == inside(q.s, [e EXCEPT !.params = r.ps, !.note = q.t])
      parameters(r) == result(r, Resolved(r.s, e.note))
  IN  parameters(ResolveParameters(S, e.params))

VisitMember(S, e) ==
  LET field(v, attribute) ==
        Made(Unless(v.s, S.method # "" /\ Conforms(S.reg, Nominal(S.owner), Nominal(attribute.owner)), "private"),
             e, <<v.e>>, KnownOr(attribute.type))
      method(v, found) ==
        IF e.name \in DOMAIN found THEN Made(v.s, e, <<v.e>>, found[e.name]) ELSE Fail(v.s, e, <<v.e>>, "no member")
      member(v, t) == IF FindAttribute(S, t, e.name) THEN field(v, Attribute(S, t, e.name)) ELSE method(v, MethodsOf(S.reg, t))
      seen(v) == member(v, KnownOr(v.e.type))
  IN  seen(Visit(S, e.kids[1]))

(* inferAssignmentTargetType                                                *)
Target(S, e) ==
  LET variable(symbol) ==
        Made(Unless(S, symbol.kind \notin {"Function", "Self"}, "target"), e, <<>>, KnownOr(TypeOf(S, symbol)))
      field(v, attribute) ==
        Made(Unless(v.s, S.method # "" /\ S.owner = attribute.owner, "private"), e, <<v.e>>, KnownOr(attribute.type))
      member(v, t) ==
        IF FindAttribute(S, t, e.name) THEN field(v, Attribute(S, t, e.name)) ELSE Fail(v.s, e, <<v.e>>, "target")
      seen(v) == member(v, KnownOr(v.e.type))
  IN  CASE e.op = "var" -> IF Where(S, e.name) = 0 THEN Fail(S, e, <<>>, "undeclared") ELSE variable(Lookup(S, e.name))
        [] e.op = "member" -> seen(Visit(S, e.kids[1]))
        [] OTHER -> Made(Error(S, "target"), e, e.kids, UnknownType)

AssignedType(old, new) ==
  IF IsNumber(old) /\ IsNumber(new) THEN CommonNumber(old, new) ELSE IF old = UnknownType THEN new ELSE old
Assignable(S, old, new) == (IsNumber(old) /\ IsNumber(new)) \/ Conforms(S.reg, new, old)
IsName(S, target) == target.op = "var" /\ Where(S, target.name) > 0
Write(S, target, new) ==
  LET store(s, t) == IF IsName(s, target) /\ t # target.type THEN SetSymbol(s, target.name, t) ELSE s
  IN  store(Unless(S, Assignable(S, target.type, new), "assignment"), AssignedType(target.type, new))
AssignTo(S, e, target, value, new) ==
  Made(IF IsName(S, target) /\ Lookup(S, target.name).kind = "Self" THEN S ELSE Write(S, target, new), e, <<target, value>>, new)
VisitAssignment(S, e) ==
  LET assign(value, target) == AssignTo(target.s, e, target.e, value, KnownOr(value.type))
      seen(v) == assign(v.e, Target(v.s, e.kids[1]))
  IN  seen(Visit(S, e.kids[2]))

VisitNew(S, e) ==
  LET params == IF e.name = "Object" THEN <<>> ELSE S.reg.ctor[e.name]
      types == [i \in DOMAIN params |-> params[i].type]
      made == IF e.name = "Object" THEN ObjectType ELSE Nominal(e.name)
      checked(v) == Made(Arguments(v.s, v.es, Function(types, made)), e, v.es, made)
      seen(v) == IF Len(v.es) # Len(types) THEN Made(Error(v.s, "arity"), e, v.es, made) ELSE checked(OneByOne(v, types))
  IN  IF e.name \notin DOMAIN S.reg.parent \cup {"Object"} THEN Fail(S, e, e.kids, "not instantiable")
      ELSE seen(VisitAll(S, e.kids))

(* What is called is known: arguments are refined and seen again one by one,   *)
(* and must conform.  Those of a method are seen once more after that, when       *)
(* names are refined that stand in several.                                     *)
AppliedTo(v, e, receiver, f) == Made(Arguments(v.s, v.es, f), e, receiver \o v.es, KnownOr(Result(f)))
Applied(v, e, receiver, f) == AppliedTo(OneByOne(v, Parameters(f)), e, receiver, f)
AppliedMethod(v, e, receiver, f) ==
  LET made(w, last) == Made(Arguments(last.s, w.es, f), e, receiver \o last.es, KnownOr(Result(f)))
      seen(w) == made(w, SeenAgain(w, Parameters(f)))
  IN  seen(OneByOne(v, Parameters(f)))

MethodCall(v, e, self, found, builtin) ==
  IF builtin # NoType THEN AppliedTo(v, e, self, builtin)
  ELSE IF e.name \notin DOMAIN found THEN Fail(v.s, e, self \o v.es, "no method")
  ELSE AppliedMethod(v, e, self, found[e.name])
VisitMethodCall(S, e) ==
  LET known(v, self, t) == MethodCall(v, e, <<self>>, MethodsOf(S.reg, t), BuiltinMethod(t, e.name))
      received(v, r) == known([v EXCEPT !.s = r.s], r.e, KnownOr(r.e.type))
      seen(v) == received(v, Visit(v.s, e.kids[1]))
  IN  seen(VisitAll(S, Tail(e.kids)))

(* findBaseMethod finds a name in its domain.                               *)
BaseMethods(R, owner) == InheritedMethods(R, R.parent[owner])
VisitBase(S, e) ==
  LET applied(v, above) ==
        IF S.method \in DOMAIN above THEN AppliedMethod(v, e, <<>>, above[S.method]) ELSE Fail(v.s, e, v.es, "no base")
      seen(v) == applied(v, IF S.method = "" THEN <<>> ELSE BaseMethods(S.reg, S.owner))
  IN  seen(VisitAll(S, e.kids))

(* resolveFunction: what the symbol table says of a call with arguments of   *)
(* these types.  Of the overloads that take them it selects the nearest; a    *)
(* declaration is entered when its name is new, so that there is one.        *)
Overloads(S, symbol) == {TypeOf(S, symbol)}
CompatibilityCost(param, arg) ==   \* of types that conform
  CASE param = arg -> 0 [] param = UnknownType -> 4 [] param = AnyType -> 3 [] OTHER -> 1
Score(f, types) == FoldLeft(LAMBDA n, i : n + CompatibilityCost(f.args[i], types[i]), 0, [i \in DOMAIN types |-> i])
Takes(f, types) == Len(f.args) = Len(types) + 1
Matched(S, fs, types) == {f \in fs : Takes(f, types) /\ \A i \in DOMAIN types : Accepts(S, types[i], f.args[i])}
Nearest(fs, types) == {f \in fs : \A g \in fs : Score(f, types) <= Score(g, types)}
Answer(status) == [status |-> status, selected |-> NoType]
Selected(best) == IF Cardinality(best) = 1 THEN [status |-> "resolved", selected |-> CHOOSE f \in best : TRUE] ELSE Answer("ambiguous")
ResolutionOf(fs, matched, types) ==
  IF matched # {} THEN Selected(Nearest(matched, types))
  ELSE Answer(IF \E f \in fs : Takes(f, types) THEN "type mismatch" ELSE "arity mismatch")
Resolution(S, name, types) ==
  IF Where(S, name) = 0 THEN Answer("symbol not found")
  ELSE IF Lookup(S, name).kind # "Function" THEN Answer("not a function")
  ELSE ResolutionOf(Overloads(S, Lookup(S, name)), Matched(S, Overloads(S, Lookup(S, name)), types), types)

(* A call by name: of the function that resolves it, else of a value that is *)
(* a function or has a method invoke.                                       *)
CallResolved(v, e, again, t) == Made(again.s, e, again.es, IF e.name = "print" THEN v.es[1].type ELSE KnownOr(Result(t)))
CallObject(v, e, found) ==
  IF "invoke" \in DOMAIN found THEN Applied(v, e, <<>>, found["invoke"]) ELSE Fail(v.s, e, v.es, "not a function")
CallValue(v, e, t) ==
  IF t.class = "Function" THEN Applied(v, [e EXCEPT !.note = t], <<>>, t) ELSE CallObject(v, e, MethodsOf(v.s.reg, t))
CallBy(v, e, resolution) ==
  CASE resolution.status = "resolved" -> CallResolved(v, e, Again(v, Parameters(resolution.selected)), resolution.selected)
    [] resolution.status = "not a function" -> CallValue(v, e, TypeOf(v.s, Lookup(v.s, e.name)))
    [] OTHER -> Fail(v.s, e, v.es, resolution.status)
VisitCall(S, e) ==
  LET seen(v) == CallBy(v, e, Resolution(v.s, e.name, [i \in DOMAIN v.es |-> v.es[i].type]))
  IN  seen(VisitAll(S, e.kids))

Visit(S, e) ==
  CASE e.op = "literal" -> Made(S, e, <<>>, e.note)
    [] e.op = "var" -> VisitVariable(S, e)
    [] e.op \in {"+", "-", "*", "^", "%", "negate"} -> VisitArithmetic(S, e)
    [] e.op = "<" -> VisitRelational(S, e)
    [] e.op \in {"==", "!="} -> VisitEquality(S, e)
    [] e.op \in {"&", "!"} -> VisitBoolean(S, e)
    [] e.op \in {"@", "@@"} -> VisitConcat(S, e)
    [] e.op = "is" -> VisitIs(S, e)
    [] e.op = "as" -> VisitAs(S, e)
    [] e.op = "let" -> VisitLet(S, e)
    [] e.op = "if" -> VisitIf(S, e)
    [] e.op = "while" -> VisitWhile(S, e)
    [] e.op = "for" -> VisitFor(S, e)
    [] e.op = "comprehension" -> VisitComprehension(S, e)
    [] e.op = "block" -> VisitBlock(S, e)
    [] e.op = "return" -> VisitReturn(S, e)
    [] e.op = "vector" -> VisitVector(S, e)
    [] e.op = "index" -> VisitIndex(S, e)
    [] e.op = "lambda" -> VisitLambda(S, e)
    [] e.op = "member" -> VisitMember(S, e)
    [] e.op = ":=" -> VisitAssignment(S, e)
    [] e.op = "new" -> VisitNew(S, e)
    [] e.op = "method" -> VisitMethodCall(S, e)
    [] e.op = "base" -> VisitBase(S, e)
    [] e.op = "call" -> VisitCall(S, e)
-----------------------------------------------------------------------------
(* A function or method d = [name, params, note, body, owner], of which the *)
(* signature f is known.  captureFunctionParameterTypes writes its           *)
(* parameters, then its result is inferred or checked.                      *)
Signature(d) == Function([i \in DOMAIN d.params |-> KnownOr(d.params[i].type)], KnownOr(d.note))

CapturedParameters(S, d) == [i \in DOMAIN d.params |-> KnownOr(Lookup(S, d.params[i].name).type)]
(* The result is inferred or checked, and the parameters and the result      *)
(* make the signature.                                                      *)
CheckResult(S, f, t) ==
  IF Result(f) = UnknownType THEN Unless(S, t # UnknownType, "result not inferred") ELSE Checked(S, t, Result(f), "result")
Captured(S, d, f, params, t) ==
  LET ok == \A i \in DOMAIN params : d.params[i].type # NoType \/ params[i] # UnknownType
  IN  [s |-> CheckResult(Unless(S, ok, "parameter not inferred"), f, t),
       f |-> Function(params, IF Result(f) = UnknownType THEN t ELSE Result(f))]
AnalyseBody(S, d, f) ==
  LET self == IF d.owner = "" THEN <<>> ELSE "self" :> Symbol("Self", Nominal(d.owner), 0)
      method == IF d.owner = "" THEN S ELSE [S EXCEPT !.owner = d.owner, !.method = d.name]
      inside == EnterScope(EnterScope([method EXCEPT !.expected = Append(@, Result(f))], self), Bind(d.params, "Parameter"))
      left(s) == [ExitScope(ExitScope(s)) EXCEPT !.owner = S.owner, !.method = S.method, !.expected = S.expected]
      done(body, c) == [s |-> left(c.s), f |-> c.f, d |-> [d EXCEPT !.body = body.e]]
      seen(body) == done(body, Captured(body.s, d, f, CapturedParameters(body.s, d), KnownOr(body.e.type)))
  IN  seen(Visit(inside, d.body))

(* Mutant: only the result is written into the signature.                    *)
AnalyseFunctionResult(S, d, i) ==
  LET written(a) == [s |-> [a.s EXCEPT !.signatures[i] = WithResult(@, Result(a.f))], d |-> a.d]
  IN  written(AnalyseBody(S, d, S.signatures[i]))
AnalyseFunction(S, d, i) ==
  LET written(a) == [s |-> [a.s EXCEPT !.signatures[i] = a.f], d |-> a.d]
  IN  written(AnalyseBody(S, d, S.signatures[i]))
AnalyseMethod(S, d) ==
  LET written(a) == [s |-> [a.s EXCEPT !.reg.methods[d.owner][d.name] = a.f], d |-> a.d]
  IN  written(AnalyseBody(S, d, S.reg.methods[d.owner][d.name]))

(* captureCtorParameterTypes, after an expression in the scope of the        *)
(* constructor of the type n.                                               *)
CaptureConstructor(S, n) ==
  LET merge(a, p, m) == [s |-> m.s, ps |-> Append(a.ps, [p EXCEPT !.type = m.t])]
      known(ps) == \A i \in DOMAIN ps : ps[i].type # UnknownType \/ ps[i].note # NoType
      left(v) == [ExitScope(Unless(v.s, known(v.ps), "parameter not inferred")) EXCEPT !.reg.ctor[n] = v.ps]
  IN  left(FoldLeft(LAMBDA a, p : merge(a, p, Merge(a.s, p.type, Lookup(S, p.name).type)), [s |-> S, ps |-> <<>>], S.reg.ctor[n]))
InConstructor(S, n) == EnterScope(S, Bind(S.reg.ctor[n], "Parameter"))

(* The arguments for the parent's constructor, each refined before it is seen. *)
ParentArguments(S, d, es) == [s |-> CaptureConstructor(S, d.name), d |-> [d EXCEPT !.parentArgs = es]]
AnalyseParentArguments(S, d) ==
  LET expected == IF S.reg.parent[d.name] \in DOMAIN S.reg.parent THEN S.reg.ctor[S.reg.parent[d.name]] ELSE <<>>
      types == [i \in DOMAIN expected |-> expected[i].type]
      checked(v) == ParentArguments(Arguments(v.s, v.es, Function(types, VoidType)), d, v.es)
  IN  IF ~d.explicitArgs THEN [s |-> S, d |-> d]
      ELSE IF Len(types) # Len(d.parentArgs) THEN ParentArguments(Error(InConstructor(S, d.name), "arity"), d, d.parentArgs)
      ELSE checked(OneByOne([s |-> InConstructor(S, d.name), es |-> d.parentArgs], types))

(* a = [name, note, init], v its initializer, r its annotation.             *)
AttributeType(a, t, r) == IF a.note = NoType THEN t ELSE r.t
CheckAttribute(S, a, t, r) ==
  IF a.note = NoType THEN Unless(S, t # UnknownType, "attribute not inferred") ELSE Checked(S, t, r.t, "attribute")
AttributeSeen(n, a, v, r) ==
  LET typed(s, t) == [s EXCEPT !.reg.attributes[n][a.name].type = t]
  IN  [s |-> CaptureConstructor(typed(CheckAttribute(v.s, a, KnownOr(v.e.type), r), AttributeType(a, KnownOr(v.e.type), r)), n),
       a |-> [a EXCEPT !.init = v.e]]
AnalyseAttribute(S, n, a) ==
  LET r == Resolved(InConstructor(S, n), a.note)
  IN  AttributeSeen(n, a, Visit(r.s, a.init), r)

RECURSIVE AnalyseAttributes(_, _)
AnalyseAttributes(v, n) ==   \* v.rest is still to do
  LET next(w) == AnalyseAttributes([s |-> w.s, done |-> Append(v.done, w.a), rest |-> Tail(v.rest)], n)
  IN  IF v.rest = <<>> THEN v ELSE next(AnalyseAttribute(v.s, n, Head(v.rest)))
RECURSIVE AnalyseMethods(_)
AnalyseMethods(v) ==
  LET next(w) == AnalyseMethods([s |-> w.s, done |-> Append(v.done, w.d), rest |-> Tail(v.rest)])
  IN  IF v.rest = <<>> THEN v ELSE next(AnalyseMethod(v.s, Head(v.rest)))

(* visit(TypeDeclNode&): the parent's arguments, the attributes in their    *)
(* order, then the methods.                                                 *)
Todo(S, rest) == [s |-> S, done |-> <<>>, rest |-> rest]
ConstructorKnown(S, d) == d.ctor = <<>> \/ \A p \in ToSet(S.reg.ctor[d.name]) : p.note # NoType \/ KnownOr(p.type) # UnknownType
TypeAnalysed(d, v) == [s |-> v.s, d |-> [d EXCEPT !.methods = v.done]]
MethodsAfter(d, v) ==
  TypeAnalysed([d EXCEPT !.attributes = v.done],
               AnalyseMethods(Todo(Unless(v.s, ConstructorKnown(v.s, d), "parameter not inferred"), d.methods)))
AttributesAfter(v) == MethodsAfter(v.d, AnalyseAttributes(Todo(v.s, v.d.attributes), v.d.name))
AnalyseType(S, d) == AttributesAfter(AnalyseParentArguments(S, d))
=============================================================================
