----------------------------- MODULE MCAnalysis -----------------------------
(***************************************************************************)
(* Programs of two functions that may call one another, annotated or not,    *)
(* and of two types, one above the other, with functions that use them.      *)
(***************************************************************************)
EXTENDS Analysis

Num(s) == Literal(s, NumberOf("int"))
One == Num("1")
Half == Literal("2", NumberOf("double"))   \* a number of another kind, whatever its value
Text == Literal("s", StringType)
True == Literal("true", BoolType)
V(x) == Variable(x)
Op(op, l, r) == Binary(op, l, r)
Self(a) == Member(V("self"), a)
P(x, t) == Param(x, t)
F(name, params, note, body) == FunctionDecl(name, params, note, body, "")
M(owner, name, params, note, body) == FunctionDecl(name, params, note, body, owner)
T(name, parent, ctor, explicit, args, attributes, methods) == TypeDecl(name, parent, ctor, explicit, args, attributes, methods)
Program(fs, ts, gs) == ProgramOf(fs, ts, <<>>, gs)

(* Bodies over the parameter x of a function, and the function h.           *)
Bodies(x, h) ==
  {One, Text, V(x), Op("+", V(x), One), Op("@", V(x), Text), Op("==", V(x), One),
   Call(h, <<V(x)>>), Op("+", Call(h, <<One>>), Half), Call(h, <<Text>>),
   If(True, V(x), Op("+", V(x), One)), If(V(x), One, Text),
   Let("z", NoType, Call(h, <<V(x)>>), Op("@", V("z"), V(x))),
   Let("z", StringType, V(x), One),
   Block(<<Op(":=", V(x), Half), V(x)>>),
   Block(<<Call(h, <<V(x)>>), Op("<", V(x), One)>>),
   If(Op("<", V(x), One), V(x), Call(h, <<Op("-", V(x), One)>>))}

Pairs ==
  {Program(<<F("f", <<P("x", t)>>, NoType, b), F("g", <<P("y", NoType)>>, u, c)>>, <<>>, <<e>>) :
     t \in {NoType, NumberType}, b \in Bodies("x", "g"), u \in {NoType, StringType, NumberType}, c \in Bodies("y", "f"),
     e \in {Call("print", <<Call("f", <<One>>)>>)}}

(* A chain of three, and a name that is declared twice.                     *)
Chains ==
  {Program(<<F("f", <<P("x", NoType)>>, NoType, Call("g", <<V("x")>>)), F(n, <<P("y", NoType)>>, NoType, Op("+", Call("h", <<V("y")>>), One)),
             F("h", <<P("z", t)>>, NoType, b)>>, <<>>, <<Op("@", Call("f", <<a>>), Text)>>) :
     n \in {"g", "f"}, t \in {NoType, StringType}, b \in Bodies("z", "sqrt"), a \in {One, Text}}

(* Types A and B inherits A.  The function f uses both.                     *)
TypeA(t, u, v, body) ==
  T("A", "Object", <<P("x", t)>>, FALSE, <<>>, <<AttributeDecl("a", NoType, Op("+", V("x"), One))>>,
    <<M("A", "m", <<>>, u, body), M("A", "set", <<P("v", v)>>, NoType, Op(":=", Self("a"), V("v")))>>)
TypeB(ctor, explicit, args, u, body) == T("B", "A", ctor, explicit, args, <<>>, <<M("B", "m", <<>>, u, body)>>)
Hierarchies ==
  {Program(<<F("f", <<P("o", Nominal("A"))>>, r, b), F("k", <<>>, NoType, One)>>,
           <<TypeA(t, u, v, body), TypeB(c[1], c[2], c[3], u, over)>>, <<Call("print", <<e>>)>>) :
     r \in {NoType, NumberType}, v \in {NoType, NumberType},
     b \in {Method(V("o"), "m", <<>>), Op("+", Method(V("o"), "m", <<>>), One), Method(V("o"), "set", <<One>>)},
     t \in {NoType, NumberType}, u \in {NoType, NumberType}, body \in {Self("a"), Call("f", <<V("self")>>)},
     c \in {<<<<>>, FALSE, <<>>>>, <<<<P("x", NoType)>>, TRUE, <<Op("+", V("x"), One)>>>>, <<<<P("w", NoType)>>, TRUE, <<V("w")>>>>,
            <<<<P("x", StringType)>>, FALSE, <<>>>>, <<<<P("w", Nominal("A"))>>, TRUE, <<One>>>>},
     over \in {BaseCall(<<>>), Self("a"), Call("k", <<>>)},
     e \in {Call("f", <<New("B", <<One>>)>>), Method(New("A", <<Text>>), "m", <<>>), Method(New("A", <<One>>), "set", <<Half>>)}}

(* One function over a name of unknown type, with every other expression.   *)
VectorOf(n, k) == VectorLiteral(<<n, k>>)
Shapes ==
  {Program(<<F("f", <<P("x", t)>>, NoType, b)>>, <<>>, <<Call("f", <<a>>)>>) :
     t \in {NoType, NumberType, Vector(NumberType)}, a \in {One, Text, VectorOf(One, Half)},
     b \in {While(V("x"), One), For("i", VectorOf(V("x"), One), Op("+", V("i"), One)),
            For("i", V("x"), Op("+", V("i"), One)), Comprehension("i", VectorOf(One, One), Op("@", V("i"), V("x"))),
            Index(VectorOf(One, V("x")), V("x")), Index(V("x"), One),
            Method(V("x"), "size", <<>>), Unary("!", V("x")), Op("&", V("x"), True), Unary("negate", V("x")),
            OfType("is", V("x"), StringType), OfType("as", V("x"), NumberType),
            Let("k", NoType, Lambda(<<P("y", NoType)>>, NoType, Op("+", V("y"), V("x"))), Call("k", <<V("x")>>)),
            Let("k", Function(<<NumberType>>, StringType),
                Lambda(<<P("y", NumberType)>>, NoType, Op("@", V("y"), Text)), Call("k", <<V("x")>>)),
            Block(<<ReturnExpr(V("x"))>>)}}

MCPrograms == Pairs \cup Chains \cup Hierarchies \cup Shapes
-----------------------------------------------------------------------------
(* What a declaration contains.                                             *)
Expressions ==
  {d.body : d \in ToSet(code.functions)} \cup ToSet(code.globals)
  \cup UNION {{m.body : m \in ToSet(d.methods)} \cup {a.init : a \in ToSet(d.attributes)} \cup ToSet(d.parentArgs) : d \in ToSet(code.types)}
RECURSIVE Nodes(_)
Nodes(e) == {e} \cup UNION {Nodes(e.kids[i]) : i \in DOMAIN e.kids}
AllNodes == UNION {Nodes(e) : e \in Expressions}

(* Every order of the hash table of the graph gives the functions the types  *)
(* that any order with callees first does.                                   *)
FunctionsIn(S, is) == FoldLeft(LAMBDA s, i : AnalyseFunction(s, program.functions[i], i).s, S, is)
CalleesFirst(is) ==
  \A i, j \in DOMAIN is : program.functions[is[j]].name \in ToSet(Calls(program.functions[is[i]].body)) => j < i
Collected == [st EXCEPT !.signatures = [i \in DOMAIN program.functions |-> Signature(program.functions[i])], !.errors = {}]
OrderDoesNotMatter ==
  phase = "declared types" /\ at = 1 /\ DOMAIN st.scopes[1] = DOMAIN Builtins \cup {d.name : d \in ToSet(program.functions)} =>
    \A is \in Permutations(DOMAIN program.functions) :
      LET order1 == [i \in DOMAIN program.functions |-> is[i]]
          s == FunctionsIn(Collected, order1)
      IN  CalleesFirst(order1) => s.signatures = st.signatures /\ s.errors \subseteq st.errors
-----------------------------------------------------------------------------
(* The types of the language without any inference: the type of an           *)
(* expression where the names have the types of env and the declarations      *)
(* those the analysis ends with, nullptr if it has none.                      *)
SelfType(d) == IF d.owner = "" THEN <<>> ELSE "self" :> Nominal(d.owner)
Declared(d, f) == SelfType(d) @@ [x \in {d.params[i].name : i \in DOMAIN d.params} |->
                                    Parameters(f)[CHOOSE i \in DOMAIN d.params : d.params[i].name = x]]
Below(t, u) == t # NoType /\ Conforms(st.reg, Normal(t), Normal(u))
Fits(ts, f) == f # NoType /\ Len(ts) = Len(f.args) - 1 /\ \A i \in DOMAIN ts : Below(ts[i], f.args[i])
If1(ok, t) == IF ok THEN Normal(t) ELSE NoType
MethodOf(t, m) == IF m \in DOMAIN MethodsOf(st.reg, t) THEN MethodsOf(st.reg, t)[m] ELSE BuiltinMethod(t, m)
FunctionNamed(n) ==
  IF n \in DOMAIN Builtins THEN Builtins[n].type ELSE st.signatures[CHOOSE i \in DOMAIN program.functions : program.functions[i].name = n]
RECURSIVE Judge(_, _, _)
Judge(env, d, e) ==
  LET bind == e.op \in {"let", "for", "comprehension", "lambda"}
      first == Judge(env, d, e.kids[1])
      item == IF e.op = "let" /\ e.note # NoType THEN e.note
              ELSE IF e.op = "let" THEN first ELSE IF first.class = "Vector" THEN first.args[1]
              ELSE IF "current" \in DOMAIN MethodsOf(st.reg, first) THEN Result(MethodsOf(st.reg, first)["current"]) ELSE NoType
      own == IF e.op = "lambda" THEN [x \in {e.params[i].name : i \in DOMAIN e.params} |->
                                        e.params[CHOOSE i \in DOMAIN e.params : e.params[i].name = x].type]
             ELSE e.name :> item
      inner == IF bind THEN own @@ env ELSE env
      ts == <<>> \o [i \in DOMAIN e.kids |-> IF i = 1 /\ e.op # "lambda" THEN first
                                          ELSE Judge(IF i = Len(e.kids) THEN inner ELSE env, d, e.kids[i])]
      all(S) == \A i \in DOMAIN ts : Normal(ts[i]) \in S
      join == LowestCommonAncestor(st.reg, ts[2], ts[3])
  IN  CASE e.op = "literal" -> Normal(e.note)
        [] e.op = "var" -> IF e.name \in DOMAIN env THEN Normal(env[e.name]) ELSE NoType
        [] e.op \in {"+", "-", "*", "^", "%", "negate"} -> If1(all({NumberType}), NumberType)
        [] e.op = "<" -> If1(all({NumberType}), BoolType)
        [] e.op \in {"&", "!"} -> If1(all({BoolType}), BoolType)
        [] e.op \in {"@", "@@"} -> If1(all({NumberType, StringType}), StringType)
        [] e.op \in {"==", "!="} -> If1(Below(ts[1], ts[2]) \/ Below(ts[2], ts[1]), BoolType)
        [] e.op = "is" -> If1(first # NoType, BoolType)
        [] e.op = "as" -> If1(Below(first, e.note) \/ Below(e.note, first), e.note)
        [] e.op = "let" -> If1(Below(first, item), ts[2])
        [] e.op = "if" -> If1(ts[1] = BoolType /\ NoType \notin {ts[2], ts[3]}, join)
        [] e.op = "while" -> If1(ts[1] = BoolType, ts[2])
        [] e.op = "for" -> If1(item # NoType, ts[2])
        [] e.op = "comprehension" -> If1(item # NoType /\ ts[2] # NoType, Vector(ts[2]))
        [] e.op = "block" -> If1(\A i \in DOMAIN ts : ts[i] # NoType, Last(ts))
        [] e.op = "return" -> Normal(first)
        [] e.op = "vector" -> If1(\A i \in DOMAIN ts : ts[i] # NoType, Vector(LowestCommonAncestor(st.reg, ts[1], ts[2])))
        [] e.op = "index" -> If1(first.class = "Vector" /\ ts[2] = NumberType, first.args[1])
        [] e.op = "lambda" -> If1(ts[1] # NoType, Function([i \in DOMAIN e.params |-> Normal(e.params[i].type)], ts[1]))
        [] e.op = "member" -> If1(FindAttribute(st, first, e.name), Attribute(st, first, e.name).type)
        [] e.op = ":=" -> If1(Below(ts[2], ts[1]), ts[2])
        [] e.op = "new" -> If1(Fits(ts, Function([i \in DOMAIN st.reg.ctor[e.name] |-> st.reg.ctor[e.name][i].type], AnyType)), Nominal(e.name))
        [] e.op = "method" -> If1(Fits(Tail(ts), MethodOf(first, e.name)), Result(MethodOf(first, e.name)))
        [] e.op = "base" -> LET f == InheritedMethods(st.reg, st.reg.parent[d.owner])[d.name] IN If1(Fits(ts, f), Result(f))
        [] e.op = "call" -> LET f == IF e.name \in DOMAIN env THEN env[e.name] ELSE FunctionNamed(e.name)
                            IN  If1(Fits(ts, f), IF e.name = "print" THEN ts[1] ELSE Result(f))

(* Declarations whose bodies have the types they are given.                  *)
EveryTypeKnown == Accepted /\ \A e \in AllNodes : e.type \notin {UnknownType, AnyType, NoType}
Checks(d, f) == Below(Judge(Declared(d, f), d, d.body), Result(f))
Derivable ==
  /\ \A i \in DOMAIN code.functions : Checks(code.functions[i], st.signatures[i])
  /\ \A t \in ToSet(code.types) : \A m \in ToSet(t.methods) : Checks(m, st.reg.methods[t.name][m.name])
  /\ \A e \in ToSet(code.globals) : Judge(<<>>, F("", <<>>, NoType, e), e) # NoType
=============================================================================
