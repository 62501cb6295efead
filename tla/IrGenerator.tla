---------------------------- MODULE IrGenerator -----------------------------
(***************************************************************************)
(* IrGenerator (ir_generator/ir_generator.cpp) with its scope table, name     *)
(* generator, string pool and type register.  Its state G is                  *)
(*   scopes, counters, pool   a register for each name; the last number of     *)
(*                 each base of a name; an identifier for each string          *)
(*   name, type    nameForCurrentExpression, typeForCurrentExpression          *)
(*   code          the instructions of the function being written              *)
(*   functions, data          what has been written                            *)
(*   types         the type register: declarations seen so far                 *)
(*   creating      types whose attributes a `new' is initializing              *)
(*   current       currentFunctionDeclaration                                 *)
(*   aborted       an exception left the generator, or its stack overflowed     *)
(* Gen returns it with the expression, which generation changes.              *)
(***************************************************************************)
EXTENDS Lowering

(* Operands, and the instruction `%to = t op k args'.                        *)
Temp(x) == [kind |-> "temp", name |-> x, int |-> 0, k |-> ""]
Const(n) == [kind |-> "int", name |-> "", int |-> n, k |-> ""]
Sym(s) == [kind |-> "symbol", name |-> s, int |-> 0, k |-> ""]
As(k, operand) == [operand EXCEPT !.k = k]
Instruction(op, k, to, t, args) == [op |-> op, k |-> k, to |-> to, t |-> t, args |-> args]

(* TypeUtils, on a machine of 64 bits.                                      *)
Qbe(t) == IF t = BoolType THEN "w" ELSE IF IsNumber(t) THEN "d" ELSE "l"
PointerSize == 8
ByteSize(t) == IF t = BoolType THEN 4 ELSE PointerSize
Flag(t) == IF IsNumber(t) THEN 1 ELSE IF t = BoolType THEN 2 ELSE IF t = StringType THEN 3 ELSE 0
(* typeid: every basic type is a class of its own.                          *)
ClassOf(t) == IF t.class = "Basic" THEN t.name ELSE t.class

Abort(G) == [G EXCEPT !.aborted = TRUE]
Emit(G, op, k, to, t, args) == [G EXCEPT !.code = Append(@, Instruction(op, k, to, t, args))]
Label(G, l) == Emit(G, "label", "", l, "", <<>>)
Jump(G, l) == Emit(G, "jmp", "", l, "", <<>>)
Branch(G, l, m) == Emit(G, "jnz", m, l, "", <<Temp(G.name)>>)

(* generateName                                                             *)
Numbered(G, base) == (IF base \in DOMAIN G.counters THEN G.counters[base] ELSE 0) + 1
Fresh(G, base) == base \o ToString(Numbered(G, base))
Count(G, base) == [G EXCEPT !.counters = Put(@, base, Numbered(G, base))]
(* The value of an instruction becomes that of the current expression.       *)
Compute(G, base, t, op, k, args) ==
  [Emit(Count(G, base), op, k, Fresh(G, base), t, args) EXCEPT !.name = Fresh(G, base), !.type = t]

OpenScope(G) == [G EXCEPT !.scopes = Append(@, <<>>)]
CloseScope(G) == [G EXCEPT !.scopes = Front(@)]
Define(G, x, register) == [G EXCEPT !.scopes[Len(G.scopes)] = Put(@, x, register)]
Resolves(G, x) == \E i \in DOMAIN G.scopes : x \in DOMAIN G.scopes[i]
ResolveVariable(G, x) == LET i == Where(G, x) IN G.scopes[i][x]
-----------------------------------------------------------------------------
(* TypeRegister.  A type is laid out after its parent, and each type knows    *)
(* the offsets of its own attributes only.                                  *)
RECURSIVE Registered(_, _)
Registered(G, n) == n = "Object" \/ (n \in DOMAIN G.types /\ Registered(G, G.types[n].parent))
SumSizes(as) == FoldLeft(LAMBDA n, a : n + ByteSize(a.type), 0, as)
RECURSIVE TotalSize(_, _)
(* Mutant: a type is laid out after Object only.                             *)
LayoutStartAtObject(G, n) == PointerSize
LayoutStart(G, n) == TotalSize(G, G.types[n].parent)
TotalSize(G, n) == IF n = "Object" THEN PointerSize ELSE LayoutStart(G, n) + SumSizes(G.types[n].attributes)

Own(G, n, a) == IF n = "Object" THEN {} ELSE {i \in DOMAIN G.types[n].attributes : G.types[n].attributes[i].name = a}
LastOwn(G, n, a) == CHOOSE i \in Own(G, n, a) : \A j \in Own(G, n, a) : j <= i
Offset(G, n, a) ==
  IF Own(G, n, a) = {} THEN 0 - 1 ELSE LayoutStart(G, n) + SumSizes(SubSeq(G.types[n].attributes, 1, LastOwn(G, n, a) - 1))
WordSize(G, n, a) == IF Own(G, n, a) = {} THEN "" ELSE Qbe(G.types[n].attributes[LastOwn(G, n, a)].type)
NameOfType(t) == IF t = NoType THEN "Object" ELSE t.name
-----------------------------------------------------------------------------
RECURSIVE Gen(_, _)
Made2(G, e, kids) == [g |-> G, e |-> [e EXCEPT !.kids = kids]]
(* Expressions one after the other, with the register and class of each.     *)
RECURSIVE GenEach(_, _)
GenEach(v, es) ==
  LET next(w) == GenEach([g |-> w.g, es |-> Append(v.es, w.e), rs |-> Append(v.rs, As(w.g.type, Temp(w.g.name)))], Tail(es))
  IN  IF es = <<>> THEN v ELSE next(Gen(v.g, Head(es)))
GenAll(G, es) == GenEach([g |-> G, es |-> <<>>, rs |-> <<>>], es)
(* The value of the last expression goes to a register of its own.           *)
CopyResult(G, base, e) == Compute(G, base, Qbe(e.type), "copy", "", <<Temp(G.name)>>)

GenBlock(G, e) ==
  LET v == GenAll(OpenScope(G), e.kids)
  IN  Made2(CloseScope(CopyResult(v.g, "block_result", e)), e, v.es)

(* The name is bound before the initializer is generated.                   *)
GenLet(G, e) ==
  LET base == "_" \o e.name
      Body(init) == Gen(Emit(init.g, "copy", "", Fresh(G, base), init.g.type, <<Temp(init.g.name)>>), e.kids[2])
      Bound(init, body) == Made2(CloseScope(CopyResult(body.g, "let_in_result", e)), e, <<init.e, body.e>>)
      Within(init) == Bound(init, Body(init))
  IN  Within(Gen(Define(Count(OpenScope(G), base), e.name, Fresh(G, base)), e.kids[1]))

GenIf(G, e) ==
  LET result == Fresh(G, "if_result")
      To(g) == Emit(g, "copy", "", result, g.type, <<Temp(g.name)>>)
      AtMerge(g, l, kids) == Made2([Label(g, l["merge"]) EXCEPT !.name = result, !.type = Qbe(e.type)], e, kids)
      TwoBranches(c, then, else, l) == AtMerge(To(else.g), l, <<c.e, then.e, else.e>>)
      Rest(c, then, fork, l) == IF Len(e.kids) = 3 THEN TwoBranches(c, then, Gen(fork, e.kids[3]), l) ELSE AtMerge(fork, l, <<c.e, then.e>>)
      AfterThen(c, then, l) == Rest(c, then, Label(Jump(To(then.g), l["merge"]), l["else"]), l)
      named(g) == Count(Count(Count(g, "then"), "else"), "merge")
      Then(c, l) == AfterThen(c, Gen(Label(Branch(named(c.g), l["then"], l["else"]), l["then"]), e.kids[2]), l)
      Condition(c) == Then(c, [i \in {"then", "else", "merge"} |-> Fresh(c.g, i)])
  IN  Condition(Gen(Count(G, "if_result"), e.kids[1]))

(* The text of a value, as print and @ take it.                             *)
ToText(G, base, operand, t) ==
  Compute(G, base, "l", "call", "", <<Sym("_" \o operand.k \o "_to_string"), operand, As("w", Const(Flag(t)))>>)

GenPrint(G, e) ==
  LET WriteLine(text) == Compute(text, "print_result", "l", "call", "", <<Sym("_print"), As("l", Temp(text.name))>>)
      Restore(v, printed) == IF e.kids[1].type = StringType THEN printed ELSE [printed EXCEPT !.name = v.g.name, !.type = v.g.type]
      Show1(v) == Made2(Restore(v, WriteLine(ToText(v.g, "print_arg_str", As(v.g.type, Temp(v.g.name)), e.kids[1].type))), e, <<v.e>>)
  IN  Show1(Gen(G, e.kids[1]))

Result2(G, e, callee, args) == Compute(G, "call_result", Qbe(e.type), "call", "", <<callee>> \o args)
GenCall(G, e) ==
  LET v == GenAll(G, e.kids)
  IN  Made2(Result2(v.g, e, Sym("_" \o e.name), v.rs), e, v.es)

(* The name of the method is what is left of _Type_method without ^_[^_]*_   *)
AfterType(s) ==
  LET bars == {i \in 2..Len(s) : SubSeq(s, i, i) = "_"}
      cut == CHOOSE i \in bars : \A j \in bars : i <= j
  IN  SubSeq(s, cut + 1, Len(s))
LoadClass(G) == Compute(G, "class_id", "l", "load", "l", <<Temp(G.name)>>)
GetMethod(G, base, m) ==
  Compute(G, base, "l", "call", "", <<Sym("_get_virtual_method"), As("l", Temp(G.name)), As("l", Sym(m))>>)
GenBase(G, e) ==
  LET Above(class) == Compute(class, "parent_id", "l", "call", "", <<Sym("_parent"), As("l", Temp(class.name))>>)
      CallIt(pointer, v) == Made2(Result2(v.g, e, Temp(pointer.name), v.rs), e, v.es)
      PassAll(pointer) == CallIt(pointer, GenAll(pointer, Append(e.kids, Variable("self"))))
  IN  IF ~Resolves(G, "self") THEN [g |-> Abort(G), e |-> e]
      ELSE PassAll(GetMethod(Above(LoadClass([G EXCEPT !.name = ResolveVariable(G, "self")])), "func_ptr", AfterType(G.current)))

(* The receiver is generated for its class, and again as the last argument.  *)
GenMethod(G, e) ==
  LET AddReceiver(a, again) == [g |-> again.g, e |-> again.e, rs |-> Append(a.rs, As(again.g.type, Temp(again.g.name)))]
      Receivers(lowered, receiver, v) ==
        FoldLeft(LAMBDA a, i : AddReceiver(a, Gen(a.g, a.e)), [g |-> v.g, e |-> receiver.e, rs |-> v.rs], lowered.params)
      CallIt(pointer, lowered, v, w) == Made2(Result2(w.g, e, Temp(pointer.name), w.rs), lowered, <<w.e>> \o v.es)
      Rest(pointer, lowered, receiver, v) == CallIt(pointer, lowered, v, Receivers(lowered, receiver, v))
      PassAll(pointer, receiver) == Rest(pointer, MethodCallToFunctionCall(e), receiver, GenAll(pointer, Tail(e.kids)))
      FromTable(receiver) == PassAll(GetMethod(LoadClass(receiver.g), e.name \o "_ptr", e.name), receiver)
  IN  FromTable(Gen(G, e.kids[1]))

GenVariable(G, e) ==
  [g |-> IF Resolves(G, e.name) THEN [G EXCEPT !.name = ResolveVariable(G, e.name), !.type = Qbe(e.type)] ELSE Abort(G), e |-> e]

(* A number is spelled in its node.                                         *)
Spelled(s) == CHOOSE n \in 0..2000 : ToString(n) = s
StringId(G, s) == IF s \in DOMAIN G.pool THEN G.pool[s] ELSE "string_literal_pointer" \o ToString(Cardinality(DOMAIN G.pool))
GenString(G, s) ==
  LET id == StringId(G, s)
      known == IF s \in DOMAIN G.pool THEN G ELSE [G EXCEPT !.pool = Put(@, s, id), !.data = Append(@, [name |-> id, text |-> s, string |-> TRUE])]
  IN  [Emit(known, "copy", "", id, "l", <<Sym(id)>>) EXCEPT !.name = id, !.type = "l"]
GenLiteral(G, e) ==
  [g |-> IF e.type = StringType THEN GenString(G, e.name)
         ELSE IF e.type = BoolType THEN Compute(G, "bool_literal", "w", "copy", "", <<Const(IF e.name = "true" THEN 1 ELSE 0)>>)
         ELSE Compute(G, "num_literal", "d", "copy", "", <<Const(Spelled(e.name))>>),
   e |-> e]

(* Binary operators.  There is no case for & (nor for is and as): the value   *)
(* is that of the operand seen last.                                        *)
Name(op) == CASE op = "+" -> "addition" [] op = "-" -> "subtraction" [] op = "*" -> "multiplication"
Operation(op) == CASE op = "+" -> "add" [] op = "-" -> "sub" [] op = "*" -> "mul"
GenBinary(G, e) ==
  LET l == e.kids[1].type
      r == e.kids[2].type
      equal(v) == IF NoType \notin {l, r} /\ ClassOf(l) # ClassOf(r) THEN Compute(v.g, "equals", "w", "copy", "", <<Const(0)>>)
                  ELSE IF l = StringType THEN Compute(v.g, "equals", "w", "call", "", <<Sym("_string_compair")>> \o v.rs)
                  ELSE Compute(v.g, "equals", "w", "ceq", v.rs[1].k, v.rs)
      Concatenated(left, right) == Compute(right, "concat", "l", "call", "", <<Sym("_string_concat"), As("l", Temp(left.name)), As("l", Temp(right.name))>>)
      concat(left, v) == Concatenated(left, ToText(left, "right_str", v.rs[2], r))
      Value(v) == CASE e.op = "<" -> Compute(v.g, "less_than", "w", "clt", v.rs[1].k, v.rs)
                      [] e.op = "==" -> equal(v)
                      [] e.op = "@" -> concat(ToText(v.g, "left_str", v.rs[1], l), v)
                      [] e.op \in {"+", "-", "*"} -> Compute(v.g, Name(e.op), Qbe(e.type), Operation(e.op), "", v.rs)
                      [] OTHER -> v.g
      Operate(v) == Made2(Value(v), e, v.es)
  IN  Operate(GenAll(G, e.kids))

GenUnary(G, e) ==
  LET v == Gen(G, e.kids[1])
      negative == e.op = "negate"
  IN  Made2(Compute(v.g, IF negative THEN "negation" ELSE "not", Qbe(e.type), IF negative THEN "sub" ELSE "xor", "",
                    <<Const(IF negative THEN 0 ELSE 1), Temp(v.g.name)>>), e, <<v.e>>)
GenReturn(G, e) ==
  LET v == Gen(G, e.kids[1]) IN Made2(Emit(v.g, "ret", "", "", "", <<Temp(v.g.name)>>), e, <<v.e>>)
-----------------------------------------------------------------------------
(* The address of a field; the register is named after that of its base.     *)
FieldAddress(G, k, n, a) == Compute(G, G.name \o "_" \o a, k, "add", "", <<Temp(G.name), Const(Offset(G, n, a))>>)
GenMember(G, e) ==
  LET n == NameOfType(e.kids[1].type)
      Load(address, k) == Compute(address, "field_value", k, "load", k, <<Temp(address.name)>>)
      Read(base) == Made2([Load(FieldAddress(base.g, base.g.type, n, e.name), WordSize(G, n, e.name)) EXCEPT !.type = Qbe(e.type)],
                          e, <<base.e>>)
  IN  IF Registered(G, n) THEN Read(Gen(G, e.kids[1])) ELSE [g |-> Abort(G), e |-> e]

GenAssignment(G, e) ==
  LET target == e.kids[1]
      Valued(g, value) == [g EXCEPT !.name = value.g.name, !.type = Qbe(e.type)]
      ToVariable(value) ==
        Made2(Valued(Emit(value.g, "copy", "", ResolveVariable(G, target.name), Qbe(e.type), <<Temp(value.g.name)>>), value), e, <<target, value.e>>)
      Store(address, n, value) == Emit(address, "store", WordSize(G, n, target.name), "", "", <<Temp(value.g.name), Temp(address.name)>>)
      ToField(value, base, n) ==
        Made2(Valued(Store(FieldAddress(base.g, "l", n, target.name), n, value), value), e, <<[target EXCEPT !.kids = <<base.e>>], value.e>>)
      Stored(value) == IF target.op = "var" THEN ToVariable(value)
                       ELSE ToField(value, Gen(value.g, target.kids[1]), NameOfType(target.kids[1].type))
      known == IF target.op = "var" THEN Resolves(G, target.name) ELSE Registered(G, NameOfType(target.kids[1].type))
  IN  IF known THEN Stored(Gen(G, e.kids[2])) ELSE [g |-> Abort(G), e |-> e]

(* The value of a loop is that of its body.                                 *)
GenWhile(G, e) ==
  LET named == Count(Count(Count(G, "loop_cond"), "loop_body"), "loop_end")
      Looped(condition, body, l) == Made2(Label(CloseScope(Jump(body.g, l["loop_cond"])), l["loop_end"]), e, <<condition.e, body.e>>)
      Body(condition, l) ==
        Looped(condition, Gen(OpenScope(Label(Branch(condition.g, l["loop_body"], l["loop_end"]), l["loop_body"])), e.kids[2]), l)
      Condition(l) == Body(Gen(Label(named, l["loop_cond"]), e.kids[1]), l)
  IN  Condition([i \in {"loop_cond", "loop_body", "loop_end"} |-> Fresh(G, i)])

(* One type of the chain of a `new': its arguments are evaluated, its          *)
(* parameters bound by position, its attributes initialized in place.         *)
InitializeAttribute(G, n, object, i) ==
  LET a == G.types[n].attributes[i]
      field == n \o "_obj_" \o a.name
      Address(g) == Emit(Count(g, field), "add", "", Fresh(g, field), "l", <<Temp(object), Const(Offset(g, n, a.name))>>)
      Known(v) == [v.g EXCEPT !.types[n].attributes[i].init = v.e]
      Stored(v) == IF v.g.aborted THEN v.g
                   ELSE Emit(Known(v), "store", WordSize(G, n, a.name), "", "", <<Temp(v.g.name), Temp(Fresh(G, field))>>)
  IN  IF G.aborted THEN G ELSE Stored(Gen(Address(G), a.init))
InitializeType(G, n, object, args) ==
  LET params == G.types[n].ctor
      bound == FoldLeft(LAMBDA g, i : Define(g, params[i].name, args[i].name), G, [i \in DOMAIN args |-> i])
      Attributes(g) == FoldLeft(LAMBDA h, i : InitializeAttribute(h, n, object, i), g, [i \in DOMAIN g.types[n].attributes |-> i])
  IN  IF Len(args) > Len(params) THEN Abort(G) ELSE Attributes([bound EXCEPT !.creating = @ \cup {n}])

RECURSIVE InitializeChain(_, _, _, _)
InitializeChain(G, n, object, args) ==   \* arguments not evaluated yet
  LET Kept(above) == [above.g EXCEPT !.types[n].parentArgs = above.es, !.creating = G.creating]
      Above(above, v) == [g |-> IF above.g.aborted THEN above.g ELSE CloseScope(Kept(above)), es |-> v.es]
      Parent(g, v) == IF g.aborted THEN [g |-> g, es |-> v.es]
                      ELSE Above(InitializeChain(g, g.types[n].parent, object, g.types[n].parentArgs), v)
      OwnAttributes(v) == IF n \in G.creating \/ v.g.aborted THEN [g |-> Abort(G), es |-> args]
                 ELSE Parent(InitializeType(v.g, n, object, v.rs), v)
  IN  IF n = "Object" \/ G.aborted THEN [g |-> G, es |-> args] ELSE OwnAttributes(GenAll(OpenScope(G), args))

GenNew(G, e) ==
  LET base == e.name \o "_obj"
      size == As("l", Const(TotalSize(G, e.name)))
      Tagged(object) ==
        Emit(Emit(Count(G, base), "call", "", object, "l", <<Sym("_hulk_alloc"), size>>), "store", "l", "", "", <<Sym(e.name), Temp(object)>>)
      Done(chain, object) == Made2([chain.g EXCEPT !.name = object, !.type = "l"], e, chain.es)
      Create(object) == Done(InitializeChain(Tagged(object), e.name, object, e.kids), object)
  IN  IF Registered(G, e.name) THEN Create(Fresh(G, base)) ELSE [g |-> Abort(G), e |-> e]

Gen(G, e) ==
  CASE G.aborted -> [g |-> G, e |-> e]
    [] e.op = "literal" -> GenLiteral(G, e)
    [] e.op = "var" -> GenVariable(G, e)
    [] e.op \in {"<", "==", "@", "+", "-", "*", "&"} -> GenBinary(G, e)
    [] e.op \in {"is", "as"} -> LET v == Gen(G, e.kids[1]) IN Made2(v.g, e, <<v.e>>)
    [] e.op \in {"negate", "!"} -> GenUnary(G, e)
    [] e.op = "block" -> GenBlock(G, e)
    [] e.op = "let" -> GenLet(G, e)
    [] e.op = "if" -> GenIf(G, e)
    [] e.op = "while" -> GenWhile(G, e)
    [] e.op = "return" -> GenReturn(G, e)
    [] e.op = "member" -> GenMember(G, e)
    [] e.op = ":=" -> GenAssignment(G, e)
    [] e.op = "new" -> GenNew(G, e)
    [] e.op = "method" -> GenMethod(G, e)
    [] e.op = "base" -> GenBase(G, e)
    [] e.op = "call" -> IF e.name = "print" THEN GenPrint(G, e) ELSE GenCall(G, e)
    [] OTHER -> [g |-> G, e |-> e]   \* vectors and indices: nothing
-----------------------------------------------------------------------------
(* Declarations, in the order of the source.  What the analysis inferred is    *)
(* in the state S of its visitor.                                           *)
Initial == [scopes |-> <<<<>>>>, counters |-> <<>>, pool |-> <<>>, name |-> "", type |-> "", code |-> <<>>,
            functions |-> <<>>, data |-> <<[name |-> "Object", text |-> "", string |-> FALSE]>>, types |-> <<>>, creating |-> {},
            current |-> "", aborted |-> FALSE]
Datum(G, n) == [G EXCEPT !.data = Append(@, [name |-> n, text |-> "", string |-> FALSE])]

(* d = [name, params, result, body].                                        *)
GenFunction(G, d) ==
  LET In(g, p) == Define(Count(g, "_" \o p.name), p.name, Fresh(g, "_" \o p.name))
      Header(v, p) == [g |-> In(v.g, p), rs |-> Append(v.rs, As(Qbe(p.type), Temp(Fresh(v.g, "_" \o p.name))))]
      Returned(g) == Emit(g, "ret", "", "", "", <<IF d.result = VoidType THEN Const(0) ELSE Temp(g.name)>>)
      Text(head, g) == [name |-> "_" \o d.name, result |-> Qbe(d.result), params |-> head.rs, code |-> g.code]
      Written(head, g) == [CloseScope(g) EXCEPT !.functions = Append(@, Text(head, g))]
      End(head, body) == IF body.aborted THEN body ELSE Written(head, Returned(body))
      BodyAfter(head) == End(head, Gen(head.g, d.body).g)
  IN  BodyAfter(FoldLeft(Header, [g |-> OpenScope([G EXCEPT !.current = d.name, !.code = <<>>]), rs |-> <<>>], d.params))

AnalysedFunction(d, f) ==
  [name |-> d.name, params |-> [i \in DOMAIN d.params |-> [name |-> d.params[i].name, type |-> Parameters(f)[i]]],
   result |-> Result(f), body |-> d.body]
RECURSIVE GenFunctions(_, _)
GenFunctions(G, ds) == IF G.aborted \/ ds = <<>> THEN G ELSE GenFunctions(GenFunction(G, Head(ds)), Tail(ds))
(* What the lowering has added carries its types itself.                    *)
AttributeClass(S, d, a) == IF d.name \in DOMAIN S.reg.attributes THEN S.reg.attributes[d.name][a.name].type ELSE a.note
MethodClass(S, d, m) == IF d.name \in DOMAIN S.reg.methods THEN S.reg.methods[d.name][m.name] ELSE Signature(m)
GenType(G, S, d) ==
  LET typed == [i \in DOMAIN d.attributes |-> [name |-> d.attributes[i].name, init |-> d.attributes[i].init,
                                               type |-> AttributeClass(S, d, d.attributes[i])]]
      declaration == [parent |-> d.parent, ctor |-> d.ctor, parentArgs |-> d.parentArgs, attributes |-> typed]
  IN  GenFunctions(Datum([G EXCEPT !.types = Put(@, d.name, declaration)], d.name),
                   [i \in DOMAIN d.methods |-> MethodToFunction(d.name, d.methods[i], MethodClass(S, d, d.methods[i]))])

(* Registration of the methods, in main.  A name that the name generator       *)
(* knows is taken to have its symbol already.                               *)
RegisterMethod(G, owner, m) ==
  LET known == IF m.name \in DOMAIN G.counters THEN G ELSE Datum([G EXCEPT !.counters = Put(@, m.name, 0)], m.name)
  IN  Emit(known, "call", "", "", "",
           <<Sym("_register_method"), As("l", Sym(owner)), As("l", Sym(m.name)), As("l", Sym("__" \o owner \o "_" \o m.name))>>)
RegisterType(G, d) ==
  LET above == Emit(G, "call", "", "", "", <<Sym("_register_inheritance"), As("l", Sym(d.name)), As("l", Sym(d.parent))>>)
  IN  FoldLeft(LAMBDA g, m : RegisterMethod(g, d.name, m), above, d.methods)

RECURSIVE GenDeclarations(_, _, _, _)
GenDeclarations(G, S, p, ds) ==
  LET next(d) == IF d.kind = "type" THEN GenType(G, S, p.types[d.at])
                 ELSE GenFunction(G, AnalysedFunction(p.functions[d.at], S.signatures[d.at]))
  IN  IF G.aborted \/ ds = <<>> THEN G ELSE GenDeclarations(next(Head(ds)), S, p, Tail(ds))

GenProgram(S, p) ==
  LET Opening(g) == Emit(Emit([g EXCEPT !.code = <<>>], "call", "", "", "", <<Sym("_hulk_gc_init")>>),
                         "call", "", "", "", <<Sym("_initialize_vtables")>>)
      types == SelectSeq(p.decls, LAMBDA d : d.kind = "type")
      Registration(g) == FoldLeft(LAMBDA h, d : RegisterType(h, p.types[d.at]), Opening(g), types)
      Main(g) == [name |-> "main", result |-> "w", params |-> <<>>, code |-> Append(g.code, Instruction("ret", "", "", "", <<Const(0)>>))]
      Written(g) == IF g.aborted THEN g ELSE [g EXCEPT !.functions = Append(@, Main(g))]
      Globals(g) == IF g.aborted THEN g ELSE Written(GenAll(Registration(g), p.globals).g)
  IN  Globals(GenDeclarations(Initial, S, p, p.decls))
=============================================================================
