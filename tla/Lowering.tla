------------------------------ MODULE Lowering ------------------------------
(***************************************************************************)
(* LoweringVisitor (lowering/lowering.cpp) over the expressions of Inference, *)
(* and the two rewrites of ir_generator/lowering.cpp.  The visitor's state L is *)
(*   scopes        the scope table: the variables it knows, with their types    *)
(*   delegates     the types that lambdas have become                          *)
(* Lower returns it with the expression.  The scopes of blocks, branches and    *)
(* loops hold nothing and are left out: the variable of a loop is not entered.  *)
(***************************************************************************)
EXTENDS Inference

(* for (x in e) body is let iterable = e in while (iterable.next())          *)
(* { let x = iterable.current() in body }.  The value of current() has the     *)
(* type of the loop, which is that of the body.                              *)
LowerFor(e, kids) ==
  LET iterable == Having(Variable("iterable"), kids[1].type)
      current == Having(Method(iterable, "current", <<>>), e.type)
      body == Having(Block(<<Having(Let(e.name, NoType, current, kids[2]), e.type)>>), e.type)
      next == Having(Method(iterable, "next", <<>>), BoolType)
  IN  Having(Let("iterable", NoType, kids[1], Having(While(next, body), e.type)), e.type)

(* Mutant: the blank of @@ is lost.                                         *)
LowerBlankLost(e, kids) ==
  IF e.op = "@@" THEN Having(Binary("@", kids[1], kids[2]), StringType) ELSE [e EXCEPT !.kids = kids]
LowerOperator(e, kids) ==
  LET blank == Having(Literal(" ", NoType), StringType)
      concat(left, right) == Having(Binary("@", left, right), StringType)
  IN  CASE e.op = "^" -> Having(Call("pow", kids), NumberType)
        [] e.op = "%" -> Having(Call("mod", kids), NumberType)
        [] e.op = "!=" -> Having(Unary("!", Having(Binary("==", kids[1], kids[2]), BoolType)), BoolType)
        [] e.op = "@@" -> concat(concat(kids[1], blank), kids[2])
        [] OTHER -> [e EXCEPT !.kids = kids]

(* A name that holds a function is called through invoke.                   *)
LowerCall(e, kids) ==
  IF e.note = NoType THEN [e EXCEPT !.kids = kids]
  ELSE Having(Method(Having(Variable(e.name), e.note), "invoke", kids), e.type)

(* Mutant: of each name the outermost variable is taken.                     *)
AllVariablesOutermost(L) ==
  LET names(vs) == {v.name : v \in ToSet(vs)}
      seen(vs, scope) == vs \o [i \in DOMAIN SetToSeq(DOMAIN scope \ names(vs)) |->
                                LET x == SetToSeq(DOMAIN scope \ names(vs))[i] IN Param(x, scope[x])]
  IN  FoldLeft(seen, <<>>, L.scopes)
(* getAllVariables: the innermost scope first, and of each name the innermost *)
(* only.  Within a scope the order is that of a hash table; nothing depends    *)
(* on it, and SetToSeq is one.                                               *)
AllVariables(L) ==
  LET names(vs) == {v.name : v \in ToSet(vs)}
      seen(vs, scope) == vs \o [i \in DOMAIN SetToSeq(DOMAIN scope \ names(vs)) |->
                                LET x == SetToSeq(DOMAIN scope \ names(vs))[i] IN Param(x, scope[x])]
  IN  FoldLeft(seen, <<>>, Reverse(L.scopes))

(* A lambda is an object of a type of its own that keeps a copy of every       *)
(* variable; the body, w, reads them back around its own parameters.          *)
ReadBack(self, x, body) ==
  Having(Let(x.name, NoType, Having(Member(Having(Variable("self"), self), x.name), x.type), body), body.type)
LowerLambda(w, e) ==
  LET name == "Delegate_" \o ToString(Len(w.l.delegates) + 1)
      variables == AllVariables(w.l)
      body == FoldRight(LAMBDA x, inner : ReadBack(Nominal(name), x, inner), variables, w.e)
      values == [i \in DOMAIN variables |-> Having(Variable(variables[i].name), variables[i].type)]
      attributes == [i \in DOMAIN variables |-> AttributeDecl(variables[i].name, variables[i].type, values[i])]
      invoke == FunctionDecl("invoke", e.params, e.note, body, name)
  IN  [l |-> [w.l EXCEPT !.delegates = Append(@, TypeDecl(name, "Object", variables, FALSE, <<>>, attributes, <<invoke>>))],
       e |-> Having(New(name, values), Nominal(name))]

RECURSIVE Lower(_, _)
LowerAll(L, es) ==
  LET next(v, w) == [l |-> w.l, es |-> Append(v.es, w.e)]
  IN  FoldLeft(LAMBDA v, e : next(v, Lower(v.l, e)), [l |-> L, es |-> <<>>], es)
LowerLet(L, e) ==
  LET made(init, body) == [l |-> ExitScope(body.l), e |-> [e EXCEPT !.kids = <<init, body.e>>]]
      bound(init) == made(init.e, Lower(EnterScope(init.l, e.name :> init.e.type), e.kids[2]))
  IN  bound(Lower(L, e.kids[1]))

(* A vector keeps its nodes: lowering suggestions 3 and 4 are not followed.  *)
(* The expression of a comprehension comes before what is iterated over.      *)
LowerVector(L, e) ==
  LET order(es) == IF e.op = "comprehension" THEN Reverse(es) ELSE es
      made(v) == [l |-> v.l, e |-> [e EXCEPT !.kids = order(v.es)]]
  IN  made(LowerAll(L, order(e.kids)))
LowerNode(e, v) ==
  [l |-> v.l, e |-> CASE e.op = "for" -> LowerFor(e, v.es) [] e.op = "call" -> LowerCall(e, v.es) [] OTHER -> LowerOperator(e, v.es)]
Lower(L, e) ==
  CASE e.op = "let" -> LowerLet(L, e)
    [] e.op = "lambda" -> LowerLambda(Lower(L, e.kids[1]), e)
    [] e.op \in {"vector", "comprehension", "index"} -> LowerVector(L, e)
    [] OTHER -> LowerNode(e, LowerAll(L, e.kids))

(* Declarations w = [l, d], with the types the analysis has found.            *)
LowerFunction(L, d, types) ==
  LET variables == FoldLeft(LAMBDA scope, i : Put(scope, d.params[i].name, types[i]), <<>>, [i \in DOMAIN d.params |-> i])
      made(body) == [l |-> ExitScope(body.l), d |-> [d EXCEPT !.body = body.e]]
  IN  made(Lower(EnterScope(L, variables), d.body))
LowerAttribute(w, i) ==
  LET made(init) == [l |-> init.l, d |-> [w.d EXCEPT !.attributes[i].init = init.e]]
  IN  made(Lower(w.l, w.d.attributes[i].init))
LowerMethod(w, i, S) ==
  LET made(m) == [l |-> m.l, d |-> [w.d EXCEPT !.methods[i] = m.d]]
  IN  made(LowerFunction(w.l, w.d.methods[i], Parameters(S.reg.methods[w.d.name][w.d.methods[i].name])))
LowerType(L, d, S) ==
  LET Each(es) == [i \in DOMAIN es |-> i]
      arguments(v) == [l |-> v.l, d |-> [d EXCEPT !.parentArgs = v.es]]
      attributes(w) == FoldLeft(LowerAttribute, w, Each(d.attributes))
      methods(w) == FoldLeft(LAMBDA v, i : LowerMethod(v, i, S), w, Each(d.methods))
  IN  methods(attributes(arguments(LowerAll(L, d.parentArgs))))

(* The delegates come before all other declarations, the last one first.      *)
LowerDeclaration(w, d, S) ==   \* w = [l, p]
  LET type(v) == [l |-> v.l, p |-> [w.p EXCEPT !.types[d.at] = v.d]]
      function(v) == [l |-> v.l, p |-> [w.p EXCEPT !.functions[d.at] = v.d]]
  IN  IF d.kind = "type" THEN type(LowerType(w.l, w.p.types[d.at], S))
      ELSE function(LowerFunction(w.l, w.p.functions[d.at], Parameters(S.signatures[d.at])))
WithDelegates(p, delegates) ==
  [p EXCEPT !.types = @ \o delegates,
            !.decls = Reverse([i \in DOMAIN delegates |-> [kind |-> "type", at |-> Len(p.types) + i]]) \o @]
LowerProgram(p, S) ==
  LET made(p2, v) == WithDelegates([p2 EXCEPT !.globals = v.es], v.l.delegates)
      globals(w) == made(w.p, LowerAll(w.l, w.p.globals))
  IN  globals(FoldLeft(LAMBDA w, d : LowerDeclaration(w, d, S), [l |-> [scopes |-> <<>>, delegates |-> <<>>], p |-> p], p.decls))
-----------------------------------------------------------------------------
(* methodToFunctionLowering: self comes last.  Types of parameters and       *)
(* result are those of the declaration after its analysis.                   *)
MethodToFunction(owner, d, f) ==
  [name |-> "_" \o owner \o "_" \o d.name,
   params |-> Append([i \in DOMAIN d.params |-> [name |-> d.params[i].name, type |-> Parameters(f)[i]]],
                     [name |-> "self", type |-> NoType]),
   result |-> Result(f), body |-> d.body]

(* methodCallToFunctionCallLowering: the receiver also becomes the last      *)
(* argument, and stays the receiver.  The tree is changed, so that a call      *)
(* generated for the second time has two of it: one for each member of params.  *)
MethodCallToFunctionCall(e) == [e EXCEPT !.params = Append(@, "self")]
=============================================================================
