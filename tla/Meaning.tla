------------------------------ MODULE Meaning -------------------------------
(***************************************************************************)
(* What a program of the language prints, by recursion over its expressions:  *)
(* every operand once, from left to right; a new variable for each binding; an *)
(* object with the attributes of its whole chain; the nearest method at or      *)
(* above the class of the receiver; a lambda with the values that the           *)
(* variables around it have when it is made (docs/lambdas.md: a by-value copy), *)
(* hidden by its own parameters.  Nothing else of this is in the source: it is   *)
(* what the compiled programs are compared with.                            *)
(*                                                                           *)
(* M is [store, heap, out]: variables, objects, lines printed.  c is the method *)
(* an expression is in, p the program and S what the analysis knows of it.      *)
(***************************************************************************)
EXTENDS Inference

Thing(tag, n, s) == [tag |-> tag, n |-> n, s |-> s]
Nothing == Thing("nothing", 0, "")
Truth(b) == Thing("truth", IF b THEN 1 ELSE 0, "")
Amount(n) == Thing("amount", n, "")
Words(s) == Thing("words", 0, s)
ReadNumber(s) == CHOOSE n \in 0..2000 : ToString(n) = s
Shown(v) ==
  CASE v.tag = "words" -> v.s
    [] v.tag = "truth" -> IF v.n = 1 THEN "true" ELSE "false"
    [] v.tag = "amount" -> ToString(v.n)
    [] OTHER -> "address"

FunctionOf(p, n) == CHOOSE d \in ToSet(p.functions) : d.name = n
TypeOfName(p, n) == CHOOSE d \in ToSet(p.types) : d.name = n
RECURSIVE MethodFor(_, _, _)
MethodFor(p, n, m) ==
  LET own == {d \in ToSet(TypeOfName(p, n).methods) : d.name = m}
  IN  IF own # {} THEN CHOOSE d \in own : TRUE ELSE MethodFor(p, TypeOfName(p, n).parent, m)
RECURSIVE Raised(_, _)
Raised(b, n) == IF n = 0 THEN 1 ELSE b * Raised(b, n - 1)

OfTwo(op, l, r) ==
  CASE op = "+" -> Amount(l.n + r.n)
    [] op = "-" -> Amount(l.n - r.n)
    [] op = "*" -> Amount(l.n * r.n)
    [] op = "^" -> Amount(Raised(l.n, r.n))
    [] op = "%" -> Amount(l.n % r.n)
    [] op = "<" -> Truth(l.n < r.n)
    [] op = "==" -> Truth(l = r)
    [] op = "!=" -> Truth(l # r)
    [] op = "&" -> Truth(l.n = 1 /\ r.n = 1)
    [] op = "@" -> Words(Shown(l) \o Shown(r))
    [] op = "@@" -> Words(Shown(l) \o " " \o Shown(r))

RECURSIVE Eval(_, _, _, _, _, _)
EvalAll(p, S, c, M, env, es) ==
  FoldLeft(LAMBDA a, e : LET w == Eval(p, S, c, a.m, env, e) IN [m |-> w.m, vs |-> Append(a.vs, w.v)], [m |-> M, vs |-> <<>>], es)
Bound(M, params, vs) ==   \* variables for the parameters
  [m |-> [M EXCEPT !.store = @ \o vs],
   env |-> FoldLeft(LAMBDA env, i : Put(env, params[i].name, Len(M.store) + i), <<>>, [i \in DOMAIN vs |-> i])]
Applies(p, S, M, d, self, vs) ==
  LET b == Bound(M, d.params, vs)
      s == IF d.owner = "" THEN b ELSE [m |-> [b.m EXCEPT !.store = Append(@, self)], env |-> Put(b.env, "self", Len(b.m.store) + 1)]
  IN  Eval(p, S, d, s.m, s.env, d.body)

(* A closure is an object with the variables it has copied.                  *)
EvalLambda(c, M, env, e) ==
  [m |-> [M EXCEPT !.heap = Append(@, [class |-> "lambda", fields |-> [x \in DOMAIN env |-> M.store[env[x]]], lambda |-> e, within |-> c])],
   v |-> Thing("closure", Len(M.heap) + 1, "")]
Invoked(p, S, M, closure, vs) ==
  LET copies == closure.fields
      names == SetToSeq(DOMAIN copies)
      copied == Bound(M, [i \in DOMAIN names |-> Param(names[i], NoType)], [i \in DOMAIN names |-> copies[names[i]]])
      b == Bound(copied.m, closure.lambda.params, vs)
  IN  Eval(p, S, closure.within, b.m, b.env @@ copied.env, closure.lambda.kids[1])

RECURSIVE Construct(_, _, _, _, _, _)
Construct(p, S, M, o, n, vs) ==
  LET d == TypeOfName(p, n)
      b == Bound(M, S.reg.ctor[n], vs)
      Initialized(m, a) == LET w == Eval(p, S, d, m, b.env, a.init)
                           IN  [w.m EXCEPT !.heap[o].fields = Put(@, n \o "." \o a.name, w.v)]
      own == FoldLeft(Initialized, b.m, d.attributes)
      implicit == d.ctor = <<>> /\ ~d.explicitArgs
      args == EvalAll(p, S, d, own, b.env, d.parentArgs)
  IN  IF d.parent = "Object" THEN own
      ELSE IF implicit THEN Construct(p, S, own, o, d.parent, vs) ELSE Construct(p, S, args.m, o, d.parent, args.vs)

RECURSIVE Loop(_, _, _, _, _, _, _)
Loop(p, S, c, M, env, e, v) ==
  LET test == Eval(p, S, c, M, env, e.kids[1])
      turn == Eval(p, S, c, test.m, env, e.kids[2])
  IN  IF test.v.n = 0 THEN [m |-> test.m, v |-> v] ELSE Loop(p, S, c, turn.m, env, e, turn.v)
RECURSIVE Visits(_, _, _, _, _, _, _, _)
Visits(p, S, c, M, env, e, o, v) ==   \* a for loop over the object o
  LET Do(m, name) == Applies(p, S, m, MethodFor(p, m.heap[o.n].class, name), o, <<>>)
      more == Do(M, "next")
      item == Do(more.m, "current")
      turn == Eval(p, S, c, [item.m EXCEPT !.store = Append(@, item.v)], Put(env, e.name, Len(item.m.store) + 1), e.kids[2])
  IN  IF more.v.n = 0 THEN [m |-> more.m, v |-> v] ELSE Visits(p, S, c, turn.m, env, e, o, turn.v)

Field(S, e) == S.reg.attributes[e.kids[1].type.name][e.name].owner \o "." \o e.name
EvalCall(p, S, M, env, e, vs) ==
  IF e.name \in DOMAIN env THEN Invoked(p, S, M, M.heap[M.store[env[e.name]].n], vs)
  ELSE IF e.name = "print" THEN [m |-> [M EXCEPT !.out = Append(@, Shown(vs[1]))], v |-> vs[1]]
  ELSE IF e.name = "sqrt" THEN [m |-> M, v |-> Amount(CHOOSE r \in 0..vs[1].n : r * r <= vs[1].n /\ vs[1].n < (r + 1) * (r + 1))]
  ELSE Applies(p, S, M, FunctionOf(p, e.name), Nothing, vs)
EvalNew(p, S, M, e, vs) ==
  LET o == Len(M.heap) + 1
      made == [M EXCEPT !.heap = Append(@, [class |-> e.name, fields |-> <<>>])]
  IN  [m |-> IF e.name = "Object" THEN made ELSE Construct(p, S, made, o, e.name, vs), v |-> Thing("object", o, "")]
EvalAssignment(p, S, c, M, env, e) ==
  LET v == Eval(p, S, c, M, env, e.kids[2])
      target == e.kids[1]
      o == Eval(p, S, c, v.m, env, target.kids[1])
  IN  [m |-> IF target.op = "var" THEN [v.m EXCEPT !.store[env[target.name]] = v.v]
             ELSE [o.m EXCEPT !.heap[o.v.n].fields = Put(@, Field(S, target), v.v)], v |-> v.v]

Eval(p, S, c, M, env, e) ==
  LET Sub(m, i) == Eval(p, S, c, m, env, e.kids[i])
      first == Sub(M, 1)
      all == EvalAll(p, S, c, M, env, e.kids)
      Is(v) == [m |-> first.m, v |-> v]
  IN  CASE e.op = "literal" -> [m |-> M, v |-> IF e.note = StringType THEN Words(e.name)
                                              ELSE IF e.note = BoolType THEN Truth(e.name = "true") ELSE Amount(ReadNumber(e.name))]
        [] e.op = "var" -> [m |-> M, v |-> M.store[env[e.name]]]
        [] e.op = "negate" -> Is(Amount(0 - first.v.n))
        [] e.op = "!" -> Is(Truth(first.v.n = 0))
        [] e.op = "as" -> first
        [] e.op = "lambda" -> EvalLambda(c, M, env, e)
        [] e.op = "let" -> Eval(p, S, c, [first.m EXCEPT !.store = Append(@, first.v)], Put(env, e.name, Len(first.m.store) + 1), e.kids[2])
        [] e.op = "if" -> IF first.v.n = 1 THEN Sub(first.m, 2) ELSE IF Len(e.kids) = 3 THEN Sub(first.m, 3) ELSE Is(Nothing)
        [] e.op = "while" -> Loop(p, S, c, M, env, e, Nothing)
        [] e.op = "for" -> Visits(p, S, c, first.m, env, e, first.v, Nothing)
        [] e.op = "block" -> [m |-> all.m, v |-> IF all.vs = <<>> THEN Nothing ELSE Last(all.vs)]
        [] e.op = ":=" -> EvalAssignment(p, S, c, M, env, e)
        [] e.op = "member" -> Is(first.m.heap[first.v.n].fields[Field(S, e)])
        [] e.op = "new" -> EvalNew(p, S, all.m, e, all.vs)
        [] e.op = "method" -> Applies(p, S, all.m, MethodFor(p, all.m.heap[all.vs[1].n].class, e.name), all.vs[1], Tail(all.vs))
        [] e.op = "base" -> Applies(p, S, all.m, MethodFor(p, TypeOfName(p, c.owner).parent, c.name), M.store[env["self"]], all.vs)
        [] e.op = "call" -> EvalCall(p, S, all.m, env, e, all.vs)
        [] OTHER -> [m |-> all.m, v |-> OfTwo(e.op, all.vs[1], all.vs[2])]

Printed(p, S) == EvalAll(p, S, [owner |-> "", name |-> ""], [store |-> <<>>, heap |-> <<>>, out |-> <<>>], <<>>, p.globals).m.out
=============================================================================
