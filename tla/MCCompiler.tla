----------------------------- MODULE MCCompiler -----------------------------
(***************************************************************************)
(* Small whole programs over builtin.hulk: operators, bindings, branches,      *)
(* loops, functions that print, and types with a type above them.             *)
(***************************************************************************)
EXTENDS MCAnalysis, Compiler, Meaning

Str(s) == Literal(s, StringType)
Yes == Literal("true", BoolType)
No == Literal("false", BoolType)
Show(e) == Call("print", <<e>>)
Becomes(lvalue, e) == Assignment(lvalue, e)

(* builtin.hulk                                                             *)
Range2 ==
  LET own(a, e) == [name |-> a, note |-> NumberType, init |-> e]
      next == Op("<", Op(":=", Self("curr"), Op("+", Self("curr"), Num("1"))), Self("max"))
  IN  T("Range", "Object", <<P("min", NumberType), P("max", NumberType)>>, FALSE, <<>>,
        <<own("min", V("min")), own("max", V("max")), own("curr", Op("-", V("min"), Num("1")))>>,
        <<M("Range", "next", <<>>, BoolType, next), M("Range", "current", <<>>, NumberType, Self("curr"))>>)
RangeFunction ==
  F("range", <<P("min", NumberType), P("max", NumberType)>>, Nominal("Range"), New("Range", <<V("min"), V("max")>>))
Iterables == [Iterable |-> [next |-> Function(<<>>, BoolType), current |-> Function(<<>>, ObjectType)]]
TypeAt(i) == [kind |-> "type", at |-> i]
FunctionAt2(i) == [kind |-> "function", at |-> i]

(* The declarations of a program come after those of builtin.hulk: its types,  *)
(* or its functions, first.                                                 *)
Whole(fs, ts, typesFirst, gs) ==
  LET types == [i \in 1..Len(ts) |-> TypeAt(i + 1)]
      functions == [i \in 1..Len(fs) |-> FunctionAt2(i + 1)]
  IN  [functions |-> <<RangeFunction>> \o fs, types |-> <<Range2>> \o ts, protocols |-> Iterables, globals |-> gs,
       decls |-> <<TypeAt(1), FunctionAt2(1)>> \o (IF typesFirst THEN types \o functions ELSE functions \o types), fault |-> "none"]
Script(gs) == Whole(<<>>, <<>>, TRUE, gs)

Faulty == {[Script(<<Show(Num("1"))>>) EXCEPT !.fault = f] : f \in {"lexical", "syntactic", "builder", "file"}}

(* A function that shows when it is called.                                 *)
Mark == F("mark", <<P("n", NumberType)>>, NumberType, Show(V("n")))
Marked(s) == Call("mark", <<Num(s)>>)
Operators ==
  {Whole(<<Mark>>, <<>>, TRUE, <<Show(Op(o, a, b))>>) :
     o \in {"+", "-", "*", "<", "==", "!=", "@", "@@", "^", "%", "&"},
     a \in {Num("2"), Str("a"), No, Marked("3")}, b \in {Num("2"), Str("b"), Str("a"), Yes, Marked("4")}}


(* Names bound inside one another, the same or not, and assigned.           *)
Inside(y) ==
  {Show(Op("@@", V("a"), V(y))),
   Block(<<Show(Becomes(V(y), Op("+", V(y), Num("7")))), Show(V("a"))>>),
   Show(Op("+", Let("c", NoType, V(y), Becomes(V("c"), Num("8"))), V(y))),
   Block(<<Let(y, NoType, Str("s"), Show(V(y))), Show(V(y))>>)}
Bindings ==
  UNION {{Whole(<<Mark>>, <<>>, TRUE, <<Let("a", NoType, Num("1"), Let(y, NoType, e, body)), Show(Num("9"))>>) : body \in Inside(y)} :
     y \in {"a", "b"}, e \in {Num("2"), Marked("3"), V("a"), Op("+", V("a"), Num("4")), Becomes(V("a"), Num("5"))}}

(* Branches and loops, in a function and at the top level.                  *)
Within(b) == {Whole(<<Mark, F("f", <<P("n", NumberType)>>, NumberType, b)>>, <<>>, TRUE, <<Show(Call("f", <<Num(k)>>))>>) : k \in {"0", "2"}}
Down(b) == While(Op("<", Num("0"), V("n")), Block(<<b, Becomes(V("n"), Op("-", V("n"), Num("1")))>>))
Zero == Op("==", V("n"), Num("0"))
Control ==
  UNION {Within(b) : b \in
    {If(Zero, Marked("1"), Marked("2")), Op("+", If(Zero, Num("1"), Num("2")), V("n")),
     If(If(Zero, Yes, No), Num("1"), If(Op("<", V("n"), Num("1")), Num("2"), Num("3"))),
     If(Zero, Num("1"), Op("*", V("n"), Call("f", <<Op("-", V("n"), Num("1"))>>))),
     Block(<<Down(Show(V("n"))), V("n")>>), Block(<<Down(Down(Show(V("n")))), V("n")>>),
     Block(<<For("i", Call("range", <<Num("0"), V("n")>>), Show(V("i"))), V("n")>>),
     Block(<<For("i", Call("range", <<Num("0"), V("n")>>), For("j", New("Range", <<V("i"), V("n")>>), Show(Op("*", V("i"), V("j"))))), V("n")>>),
     Block(<<For("i", Call("range", <<Num("0"), V("n")>>), Let("a", NoType, V("i"), Becomes(V("n"), Op("+", V("a"), V("n"))))), V("n")>>),
     Let("k", NoType, V("n"), Block(<<Down(Becomes(V("k"), Op("+", V("k"), V("n")))), V("k")>>)),
     Block(<<Down(Let("k", NoType, V("n"), Show(V("k")))), Marked("5")>>), Let("iterable", NoType, Num("7"), For("i", Call("range", <<Num("0"), V("n")>>), Show(V("iterable")))),
     For("i", Call("range", <<Num("0"), V("n")>>), Show(Op("@", Str("a"), V("i"))))}}

(* A type, one below it and one below that.                                 *)
Number1(a, e) == AttributeDecl(a, NumberType, e)
Get(owner, m, e) == M(owner, m, <<>>, NumberType, e)
Super == BaseCall(<<>>)
TypeP(x, y) ==
  T("P", "Object", <<P("x", NumberType)>>, FALSE, <<>>, <<Number1("a", x), Number1("b", y)>>,
    <<Get("P", "get", Self("a")), Get("P", "sum", Op("+", Method(V("self"), "get", <<>>), Self("b"))),
      M("P", "put", <<P("v", NumberType)>>, NumberType, Becomes(Self("b"), V("v")))>>)
Children ==
  {T("C", "P", <<>>, FALSE, <<>>, <<>>, <<Get("C", "get", Op("+", Super, Num("10")))>>),
   T("C", "P", <<P("x", NumberType)>>, TRUE, <<V("x")>>, <<>>, <<Get("C", "get", Op("+", Super, Num("10")))>>),
   T("C", "P", <<P("y", NumberType)>>, TRUE, <<Op("+", V("y"), Num("1"))>>, <<Number1("c", V("y"))>>, <<Get("C", "get", Self("c"))>>),
   T("C", "P", <<P("y", NumberType)>>, TRUE, <<Marked("1")>>, <<Number1("c", Marked("2"))>>, <<Get("C", "more", Op("*", Self("c"), Num("3")))>>),
   T("C", "P", <<P("y", NumberType)>>, TRUE, <<V("y")>>, <<AttributeDecl("d", BoolType, Yes), Number1("c", V("y"))>>,
     <<Get("C", "get", If(Self("d"), Self("c"), Num("0"))), M("C", "put", <<P("v", NumberType)>>, NumberType, Block(<<Becomes(Self("d"), No), V("v")>>))>>),
   T("C", "P", <<P("y", NumberType)>>, TRUE, <<V("y")>>, <<>>, <<Get("C", "get", Self("a"))>>)}
Grandchild == T("D", "C", <<P("z", NumberType)>>, TRUE, <<V("z")>>, <<>>, <<Get("D", "get", Super), Get("D", "sum", Num("0"))>>)
Scripts(t) ==
  {<<Let("o", NoType, New(t, <<Num("4")>>), Block(<<Show(Method(V("o"), "sum", <<>>)), Show(Method(V("o"), "put", <<Num("6")>>)), Show(Method(V("o"), "sum", <<>>))>>))>>,
   <<Let("o", Nominal("P"), New(t, <<Marked("5")>>), Let("q", NoType, New("P", <<Num("7")>>),
       Show(Op("-", Call("ask", <<V("o")>>), Call("ask", <<V("q")>>)))))>>,
   <<Show(Method(New(t, <<Num("1")>>), "get", <<>>)), Show(Method(New(t, <<Marked("8")>>), "get", <<>>))>>}
Objects ==
  UNION {{Whole(<<Mark, F("ask", <<P("p", Nominal("P"))>>, NumberType, Method(V("p"), "sum", <<>>))>>,
                <<TypeP(x, y), c, Grandchild>>, TRUE, gs) : gs \in Scripts(t)} :
           t \in {"P", "C", "D"}, c \in Children, x \in {V("x"), Op("+", V("x"), Num("20"))}, y \in {V("x"), Num("3"), Marked("9")}}


(* Arguments and parameters.                                                *)
Functions ==
  {Whole(<<Mark, F("f", <<P("a", NumberType), P("b", NumberType)>>, NumberType, body)>>, <<>>, TRUE,
         <<Let("a", NoType, Num("3"), Block(<<Show(Call("f", <<e, Marked("2")>>)), Show(V("a"))>>))>>) :
     body \in {Op("-", V("a"), V("b")), Block(<<Becomes(V("a"), V("b")), V("a")>>), Let("b", NoType, V("a"), Op("*", V("b"), V("a"))),
               If(Op("<", V("a"), V("b")), Call("f", <<V("b"), V("a")>>), Op("-", V("a"), V("b")))},
     e \in {V("a"), Marked("1"), Becomes(V("a"), Num("4")), Call("f", <<Num("1"), V("a")>>), Call("range", <<Num("1"), Num("2")>>)}}

(* A function or a method that makes a P, before P and after it.            *)
Make1(owner) == M(owner, "make", <<>>, Nominal("P"), New("P", <<Num("1")>>))
Maker == T("K", "Object", <<>>, FALSE, <<>>, <<>>, <<Make1("K")>>)
FirstP == TypeP(V("x"), V("x"))
Orders ==
  {Whole(<<Make1("")>>, <<FirstP>>, first, <<Let("p", NoType, Call("make", <<>>), Show(Method(V("p"), "sum", <<>>)))>>) : first \in BOOLEAN}
  \cup {Whole(<<>>, ts, TRUE, <<Let("k", NoType, New("K", <<>>), Let("p", NoType, Method(V("k"), "make", <<>>), Show(Method(V("p"), "sum", <<>>))))>>) :
          ts \in {<<FirstP, Maker>>, <<Maker, FirstP>>}}

(* Lambdas: over variables and parameters, one or several of an owner, bound    *)
(* to names, handed on, kept in an object and made in a loop.                 *)
OnNumber == Function(<<NumberType>>, NumberType)
Of(e) == Lambda(<<P("y", NumberType)>>, NumberType, e)
Twice == F("twice", <<P("g", OnNumber), P("n", NumberType)>>, NumberType, Call("g", <<Call("g", <<V("n")>>)>>))
MakeAdder == F("adder", <<P("n", NumberType), P("b", BoolType)>>, OnNumber, Of(If(V("b"), Op("+", V("n"), V("y")), V("n"))))
Using ==
  {Show(Call("f", <<Marked("3")>>)), Block(<<Show(Call("f", <<Num("3")>>)), Becomes(V("a"), Num("7")), Show(Call("f", <<Num("3")>>)), Show(V("a"))>>),
   Show(Call("twice", <<V("f"), Num("4")>>)), Let("a", NoType, Num("8"), Show(Call("f", <<V("a")>>))),
   Let("h", NoType, Of(Op("*", Call("f", <<V("y")>>), V("a"))), Show(Call("h", <<Num("2")>>)))}
Captures(v) ==
  {Of(Op("+", V("y"), V("a"))), Of(Becomes(V("a"), Op("+", V("y"), V("a")))), Of(Block(<<Show(V(v)), Becomes(V("y"), Num("9")), V("y")>>)),
   Of(Let("a", NoType, V("y"), Op("*", V("a"), V("y")))), Lambda(<<P("y", NumberType)>>, NoType, Op("@", V("y"), V(v))),
   Lambda(<<P("y", NoType)>>, NoType, Op("+", V("y"), V("a")))}
Adders ==
  {Block(<<Let("g", NoType, Call("adder", <<Num("1"), b>>), Let("h", NoType, Call("adder", <<Num("10"), Yes>>),
     Show(Op("+", Call("g", <<Num("5")>>), Call("h", <<Call("g", <<Num("2")>>)>>)))))>>) : b \in {Yes, No}}
  \cup {Show(Call("twice", <<Lambda(<<P("y", NoType)>>, NoType, Op("+", V("y"), Num("1"))), Num("4")>>)),
        Let("n", NoType, Num("2"), While(Op("<", Num("0"), V("n")),
          Let("f", NoType, Of(Op("*", V("y"), V("n"))), Block(<<Becomes(V("n"), Op("-", V("n"), Num("1"))), Show(Call("f", <<Num("5")>>))>>))))}
Keeper(x) ==
  T("K", "Object", <<P("n", NumberType)>>, FALSE, <<>>, <<Number1("k", V("n")), AttributeDecl("f", OnNumber, Of(x))>>,
    <<M("K", "use", <<P("m", NumberType)>>, NumberType, Let("g", NoType, Self("f"), Op("+", Call("g", <<V("m")>>), Self("k")))),
      M("K", "make", <<P("m", NumberType)>>, OnNumber, Of(Op("+", V("m"), V("y"))))>>)
Keepers ==
  {Whole(<<Mark>>, <<Keeper(x)>>, TRUE,
         <<Let("o", NoType, New("K", <<Num("4")>>), Block(<<Show(Method(V("o"), "use", <<Num("2")>>)),
             Let("g", NoType, Method(V("o"), "make", <<Num("3")>>), Show(Call("g", <<Num("1")>>)))>>))>>) : x \in {V("y"), Marked("6"), V("n")}}
(* A parameter of a lambda with the name of a variable around the lambda, and   *)
(* a lambda in a lambda.                                                    *)
Hiding ==
  {Script(<<Let(v, NoType, Num("1"), Let("f", NoType, Lambda(<<P("y", NumberType)>>, NumberType, e), Show(Call("f", <<Num("3")>>))))>>) :
     v \in {"a", "y"}, e \in {V("y"), Op("+", V("y"), Num("4"))}}
Nesting ==
  {Script(<<Let("f", NoType, Of(Let("h", NoType, Lambda(<<P("z", NumberType)>>, NumberType, Op("*", V("z"), V("y"))), Call("h", <<e>>))), Show(Call("f", <<Num("3")>>)))>>) :
     e \in {V("y"), Num("4")}}
  \cup {Script(<<Let("f", NoType, Of(V("y")), Let("h", NoType, Of(Call("f", <<V("y")>>)), Show(Call("h", <<Num("3")>>))))>>)}
(* What a lambda cannot do: hold another, make an object, use self, the          *)
(* variable of a loop, or a name that is bound around it as well.             *)
Beyond ==
  {Whole(<<Mark, F("f", <<P("n", NumberType)>>, NumberType, b)>>, <<FirstP>>, TRUE, <<Let("y", NoType, Num("1"), Show(Call("f", <<Num("2")>>)))>>) :
     b \in {Let("g", NoType, Of(Let("h", NoType, Of(V("y")), Call("h", <<V("y")>>))), Call("g", <<V("n")>>)),
            Let("g", NoType, Of(Let("o", NoType, New("P", <<V("y")>>), Method(V("o"), "get", <<>>))), Call("g", <<V("n")>>)),
            For("i", Call("range", <<Num("0"), V("n")>>), Let("g", NoType, Of(Op("+", V("i"), V("y"))), Call("g", <<V("i")>>))),
            For("i", Call("range", <<Num("0"), V("n")>>), Let("g", NoType, Of(Op("*", V("y"), V("n"))), Show(Call("g", <<V("i")>>)))),
            Let("y", NoType, Num("5"), Let("g", NoType, Of(V("y")), Call("g", <<V("n")>>))),
            Let("n", NoType, Num("5"), Let("n", NoType, Of(V("y")), Call("n", <<Num("6")>>)))}}
  \cup {Whole(<<>>, <<T("K", "Object", <<>>, FALSE, <<>>, <<Number1("k", Num("2"))>>, <<Get("K", "use", Let("g", NoType, Of(e), Call("g", <<Num("1")>>)))>>)>>,
              TRUE, <<Let("k", NoType, New("K", <<>>), Show(Method(V("k"), "use", <<>>)))>>) : e \in {Self("k"), Method(V("self"), "use", <<>>)}}
Closures ==
  UNION {{Whole(<<Mark, Twice>>, <<>>, TRUE, <<Let("a", NoType, Num("1"), Let(v, NoType, e, Let("f", NoType, f, u)))>>) : f \in Captures(v)} :
     v \in {"a", "b"}, e \in {Num("2"), Yes, Str("s")}, u \in Using}
  \cup {Whole(<<Mark, Twice, MakeAdder>>, <<>>, TRUE, <<e>>) : e \in Adders} \cup Keepers \cup Beyond \cup Hiding \cup Nesting

(* Names the compiler has taken already.                                    *)
Clashes ==
  {Whole(<<F(n, <<P("a", NumberType), P("b", NumberType)>>, NumberType, Num("1"))>>, <<T("K", "Object", <<>>, FALSE, <<>>, <<>>, <<Get("K", m, Num("2"))>>)>>,
         TRUE, <<Show(Call(n, <<Num("3"), Num("4")>>)), Let("k", NoType, New("K", <<>>), Show(Method(V("k"), m, <<>>)))>>) :
     n \in {"pow", "f"}, m \in {"K", "m"}}

(* The programs of MCAnalysis, their types first and without builtin.hulk.    *)
Alone(p) ==
  [decls |-> [i \in DOMAIN p.types |-> TypeAt(i)] \o [i \in DOMAIN p.functions |-> FunctionAt2(i)], fault |-> "none"] @@ p
MCOrders == Faulty \cup Orders
MCCompiled ==
  {Alone(p) : p \in MCPrograms} \cup Faulty \cup Operators \cup Bindings \cup Control \cup Functions \cup Objects \cup Orders \cup Clashes \cup Closures
-----------------------------------------------------------------------------
(* What the generator is known not to translate.                            *)
Untranslated(e) == e.op \in {"&", "is", "as", "vector", "index", "comprehension", "return"}   \* no case for it, an empty one, or code after it
MixedBranches(e) == e.op = "if" /\ Len(e.kids) = 3 /\ Qbe(e.kids[2].type) # Qbe(e.kids[3].type)   \* a number is not boxed
ReadsItself(e) == e.op = "let" /\ \E n \in Nodes(e.kids[1]) : n.op \in {"var", "call"} /\ n.name = e.name   \* bound before its initializer
CapturesVariable(e) == e.op = "for" /\ \E n \in Nodes(e.kids[2]) : n.op = "var" /\ n.name = "iterable"
ReceiverTwice(e) == e.op = "method" /\ \E n \in Nodes(e.kids[1]) : n.op \in {"call", "method", ":=", "base"}
InheritedField(e) == e.op = "member" /\ st.reg.attributes[e.kids[1].type.name][e.name].owner # e.kids[1].type.name
Makes(d) == {n.name : n \in {m \in Nodes(d.body) : m.op = "new"}}
MakesLater(i, ds) == \E d \in ds : \E n \in Makes(d) : \E j \in DOMAIN code.decls :
  j > i /\ code.decls[j].kind = "type" /\ code.types[code.decls[j].at].name = n
UsesLater(i) ==   \* a type is registered when its declaration is reached
  LET d == code.decls[i]
  IN  MakesLater(i, IF d.kind = "type" THEN ToSet(code.types[d.at].methods) ELSE {code.functions[d.at]})
ImplicitConstructor(t) == t.ctor = <<>> /\ ~t.explicitArgs /\ st.reg.ctor[t.name] # <<>>
CallsBase(m) == \E n \in Nodes(m.body) : n.op = "base"
BaseOfBase(t) == \E m \in ToSet(t.methods) : CallsBase(m) /\ t.parent # "Object" /\ CallsBase(MethodFor(code, t.parent, m.name))
NameTaken == (* a symbol of the runtime, or of a type *)
  \/ \E d \in ToSet(code.functions) : "_" \o d.name \in Runtime
  \/ \E t, u \in ToSet(code.types) : \E m \in ToSet(t.methods) : m.name = u.name
(* Lambdas: one that leaves its result to be inferred returns a word of eight      *)
(* bytes; the delegate of one that makes an object, of a type or of another          *)
(* lambda, is generated before that type; and what is copied into one is every       *)
(* variable of functions and lets: not self, not the variable of a loop or the        *)
(* parameter of a type, and not the value that a name is about to have.             *)
UnnamedResult(e) == e.op = "lambda" /\ e.note = NoType /\ Qbe(e.kids[1].type) # "l"
MakesWithin(e) == e.op = "lambda" /\ \E n \in Nodes(e.kids[1]) : n.op \in {"new", "lambda"}
UsesSelf(e) == e.op = "lambda" /\ \E n \in Nodes(e.kids[1]) : n.op \in {"member", "base"} \/ (n.op = "var" /\ n.name = "self")
Mentioned(e) == {n.name : n \in {m \in Nodes(e) : m.op \in {"var", "call"}}}
Lambdas(e) == {n \in Nodes(e) : n.op = "lambda"}
LoopVariable(e) == e.op = "for" /\ \E n \in Lambdas(e.kids[2]) : e.name \in Mentioned(n)
Parameterized(t) == \E a \in ToSet(t.attributes) : \E n \in Lambdas(a.init) : Mentioned(n) \cap {x.name : x \in ToSet(t.ctor)} # {}
Hidden(names, e) ==   \* by a parameter of a lambda, or by a let whose initializer has one
  \E n \in Nodes(e) : \/ n.op = "lambda" /\ {x.name : x \in ToSet(n.params)} \cap names # {}
                      \/ n.op = "let" /\ n.name \in names /\ Lambdas(n.kids[1]) # {}
HiddenByLet(e) == e.op = "let" /\ Hidden({e.name}, e.kids[2])
HiddenByParameter(d) == Hidden({x.name : x \in ToSet(d.params)}, d.body)
(* A method and a function that call one another never return.              *)
Endless ==
  \E t \in ToSet(code.types), d \in ToSet(code.functions) : \E m \in ToSet(t.methods) :
    /\ \E n \in Nodes(m.body) : n.op = "call" /\ n.name = d.name
    /\ \E n \in Nodes(d.body) : n.op = "method" /\ n.name = m.name
Translated ==
  /\ EveryTypeKnown /\ ~cyclic /\ ~Endless /\ ~NameTaken
  /\ \A i \in DOMAIN code.decls : ~UsesLater(i)
  /\ \A e \in AllNodes : ~(Untranslated(e) \/ ReadsItself(e) \/ CapturesVariable(e) \/ ReceiverTwice(e) \/ InheritedField(e) \/ MixedBranches(e))
  /\ \A e \in AllNodes : ~(UnnamedResult(e) \/ MakesWithin(e) \/ UsesSelf(e) \/ LoopVariable(e) \/ HiddenByLet(e))
  /\ \A d \in ToSet(code.functions) \cup UNION {ToSet(t.methods) : t \in ToSet(code.types)} : ~HiddenByParameter(d)
  /\ \A t \in ToSet(code.types) : ~(ImplicitConstructor(t) \/ BaseOfBase(t) \/ Parameterized(t))

(* PrintsMeaning: an executable prints what its source says.  Every accepted   *)
(* program that uses only what the generator translates (the definitions above  *)
(* name the rest) passes QBE, the assembler and the linker, runs to its end and  *)
(* prints line by line what Meaning derives from the typed tree, whatever       *)
(* registers, scopes, blocks, offsets and method tables lie between.            *)
PrintsMeaning ==
  Accepted /\ Finished /\ Translated => stage = "running" /\ process.status = "done" /\ process.out = Printed(code, st)

(* A program that is accepted, with a type for everything in it, has these    *)
(* types by the rules alone: what was inferred of a declaration and used      *)
(* elsewhere is what its body really has.  Not so when functions call one     *)
(* another in a cycle: a call seen before the parameter was inferred is never  *)
(* checked against it.                                                       *)
InferredIsDerivable == stage = "analysis" /\ EveryTypeKnown /\ ~cyclic => Derivable

(* ObjectsIntact: every store of the generated code into an object lies inside  *)
(* what was allocated for it, and no two attributes share a byte, although      *)
(* sizes, offsets and the class pointer come from three places in the           *)
(* generator.  This is also required of programs that are translated wrongly.   *)
Width(k) == IF k = "w" THEN 4 ELSE 8
ObjectsIntact ==
  \A o \in ToSet(process.heap) : \A a \in DOMAIN o.words :
    /\ 0 <= a /\ a + Width(o.words[a].k) <= o.size
    /\ \A b \in DOMAIN o.words : a < b => a + Width(o.words[a].k) <= b

(* ExecutableIsCurrent: a compilation that fails at any stage leaves no         *)
(* executable behind, least of all that of an earlier one, and one that          *)
(* succeeds leaves its own.                                                 *)
ExecutableIsCurrent ==
  /\ stage = "failed" => executable = "none"
  /\ stage \in {"built", "running"} => executable = "new"

(* DeclaredAnywhere: declarations need no order (REPORT.md:561), so that a       *)
(* program which the analysis accepts does not abort the compiler.              *)
DeclaredAnywhere == Accepted => exit # Aborted
=============================================================================
