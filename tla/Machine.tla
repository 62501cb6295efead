------------------------------ MODULE Machine -------------------------------
(***************************************************************************)
(* What main.cpp runs after the generator, as far as the compiler relies on   *)
(* it: QBE's checks of a function, the symbols the assembler and the linker     *)
(* resolve, and the processor that executes the program with runtime/runtime.c. *)
(* An image is [functions, data], data also holding the strings.              *)
(***************************************************************************)
EXTENDS IrGenerator

(* QBE.  An instruction that jumps names its targets in `to' and k.          *)
Jumps == {"jmp", "jnz"}
Writes(i) == i.to # "" /\ i.op \notin Jumps \cup {"label"}
BlockOf(f, n) == Cardinality({i \in 1..n : f.code[i].op = "label"})
Definitions(f, x) ==   \* places where x is written, 0 for a parameter
  {i \in DOMAIN f.code : Writes(f.code[i]) /\ f.code[i].to = x} \cup (IF \E p \in ToSet(f.params) : p.name = x THEN {0} ELSE {})
ClassAt(f, x, i) == IF i = 0 THEN (CHOOSE p \in ToSet(f.params) : p.name = x).k ELSE f.code[i].t
Uses(f, x) == {i \in DOMAIN f.code : \E a \in ToSet(f.code[i].args) : a.kind = "temp" /\ a.name = x}
Used(f) == UNION {{a.name : a \in {b \in ToSet(f.code[i].args) : b.kind = "temp"}} : i \in DOMAIN f.code}

(* The class an instruction wants of its operand at n.                      *)
Wanted(f, i, n) ==
  CASE i.op = "call" -> IF n = 1 THEN "l" ELSE i.args[n].k
    [] i.op = "load" -> "l"
    [] i.op = "store" -> IF n = 1 THEN i.k ELSE "l"
    [] i.op \in {"clt", "ceq"} -> i.k
    [] i.op = "jnz" -> "w"
    [] i.op = "ret" -> f.result
    [] OTHER -> i.t
Fitting(f, x, k) ==
  LET classes == {ClassAt(f, x, i) : i \in Definitions(f, x)}
  IN  classes = {k} \/ (k = "w" /\ classes \subseteq {"w", "l"})
WellFormed(i) ==
  /\ i.op \in {"load", "store"} => i.k # ""
  /\ i.op = "clt" => i.k = "d"
  /\ i.op = "xor" => i.t # "d"
(* Read in the first block before it is written; or, written once and read    *)
(* in that block only, read before that.                                     *)
UsedTooEarly(f, x) ==
  \/ \E u \in Uses(f, x) : BlockOf(f, u) = 0 /\ \A d \in Definitions(f, x) : u <= d
  \/ \E d \in Definitions(f, x) :
       /\ Definitions(f, x) = {d} /\ \A u \in Uses(f, x) : BlockOf(f, u) = BlockOf(f, d)
       /\ \E u \in Uses(f, x) : u <= d
QbeAccepts(f) ==
  /\ \A i \in DOMAIN f.code : WellFormed(f.code[i])
  /\ \A i \in 1..(Len(f.code) - 1) : f.code[i].op \in Jumps \cup {"ret"} => f.code[i + 1].op = "label"
  /\ \A x \in Used(f) : Definitions(f, x) # {} /\ ~UsedTooEarly(f, x)
  /\ \A i \in DOMAIN f.code : \A n \in DOMAIN f.code[i].args :
       LET a == f.code[i].args[n] IN a.kind = "temp" => Fitting(f, a.name, Wanted(f, f.code[i], n))

(* Assembler and linker.                                                    *)
Runtime == {"_hulk_gc_init", "_hulk_alloc", "_initialize_vtables", "_register_inheritance", "_register_method", "_parent",
            "_get_virtual_method", "_string_compair", "_string_concat", "_print", "_d_to_string", "_w_to_string",
            "_l_to_string", "_s_to_string", "_pow", "_mod", "_sqrt", "_sin", "_cos"}
Symbols(image) == [i \in DOMAIN image.functions |-> image.functions[i].name] \o [i \in DOMAIN image.data |-> image.data[i].name]
References(image) == UNION {UNION {{a.name : a \in {b \in ToSet(i.args) : b.kind = "symbol"}} : i \in ToSet(f.code)} : f \in ToSet(image.functions)}
Assembles(image) == IsInjective(Symbols(image))
Links(image) ==
  /\ ToSet(Symbols(image)) \cap Runtime = {}
  /\ References(image) \subseteq ToSet(Symbols(image)) \cup Runtime
-----------------------------------------------------------------------------
(* A process: frames, the last one running; objects, each with its size and  *)
(* the words written at its offsets; what _register_inheritance and           *)
(* _register_method have entered.                                           *)
Value(tag, n, s) == [tag |-> tag, n |-> n, s |-> s, offset |-> 0]
Garbage == Value("garbage", 0, "")
Null == Value("null", 0, "")
Number(n) == Value("number", n, "")
String(s) == Value("string", 0, s)
Start(image) ==
  [frames |-> <<[f |-> Len(image.functions), pc |-> 1, temps |-> <<>>]>>, heap |-> <<>>, parents |-> <<>>, methods |-> <<>>,
   out |-> <<>>, status |-> "running"]
MaxDepth == 40
Crash(P) == [P EXCEPT !.status = "crashed"]

Top(P) == Last(P.frames)
Current(image, P) == image.functions[Top(P).f].code[Top(P).pc]
Read(image, P, a) ==
  CASE a.kind = "int" -> Number(a.int)
    [] a.kind = "temp" -> IF a.name \in DOMAIN Top(P).temps THEN Top(P).temps[a.name] ELSE Garbage
    [] a.kind = "symbol" ->
         IF \E d \in ToSet(image.data) : d.name = a.name /\ d.string
         THEN String((CHOOSE d \in ToSet(image.data) : d.name = a.name).text) ELSE Value("symbol", 0, a.name)
SetTop(P, field, v) == [P EXCEPT !.frames[Len(P.frames)][field] = v]
Advance(P) == SetTop(P, "pc", Top(P).pc + 1)
Assign(P, x, v) == IF x = "" THEN Advance(P) ELSE SetTop(Advance(P), "temps", Put(Top(P).temps, x, v))
Goto(image, P, l) ==
  LET code == image.functions[Top(P).f].code
  IN  SetTop(P, "pc", CHOOSE i \in DOMAIN code : code[i].op = "label" /\ code[i].to = l)

Compared(op, l, r) ==
  IF Garbage \in {l, r} THEN Garbage ELSE Number(IF op = "clt" THEN (IF l.n < r.n THEN 1 ELSE 0) ELSE IF l = r THEN 1 ELSE 0)
Arithmetic(op, l, r) ==
  CASE Garbage \in {l, r} -> Garbage
    [] l.tag = "object" -> [l EXCEPT !.offset = @ + r.n]
    [] op = "add" -> Number(l.n + r.n)
    [] op = "sub" -> Number(l.n - r.n)
    [] op = "mul" -> Number(l.n * r.n)
    [] op = "xor" -> Number(IF l.n = r.n THEN 0 ELSE 1)
-----------------------------------------------------------------------------
(* runtime.c                                                                *)
RECURSIVE Power(_, _)
Power(b, n) == IF n = 0 THEN 1 ELSE b * Power(b, n - 1)
Root(n) == CHOOSE r \in 0..n : r * r <= n /\ n < (r + 1) * (r + 1)   \* of whole numbers
RECURSIVE GetVirtualMethod(_, _, _)
GetVirtualMethod(P, class, m) ==
  IF class \in DOMAIN P.methods /\ m \in DOMAIN P.methods[class] THEN P.methods[class][m]
  ELSE IF class \notin DOMAIN P.parents THEN Null
  ELSE GetVirtualMethod(P, P.parents[class], m)
RegisterMethodAt(P, class, m, f) ==
  [P EXCEPT !.methods = Put(@, class, Put(IF class \in DOMAIN @ THEN @[class] ELSE <<>>, m, f))]
TextOf(v, flag) ==
  CASE v.tag = "string" -> v.s
    [] v.tag = "null" -> "null"
    [] v.tag = "number" -> IF flag = 2 THEN (IF v.n = 1 THEN "true" ELSE "false") ELSE ToString(v.n)
    [] OTHER -> "address"
CallRuntime(P, f, to, v) ==
  LET Returns(x) == Assign(P, to, x)
  IN  CASE f \in {"_hulk_gc_init", "_initialize_vtables"} -> Advance(P)
        [] f = "_hulk_alloc" -> Assign([P EXCEPT !.heap = Append(@, [size |-> v[1].n, words |-> <<>>])], to, Value("object", Len(P.heap) + 1, ""))
        [] f = "_register_inheritance" -> Advance([P EXCEPT !.parents = Put(@, v[1].s, v[2].s)])
        [] f = "_register_method" -> Advance(RegisterMethodAt(P, v[1].s, v[2].s, v[3]))
        [] f = "_parent" -> Returns(IF v[1].s \in DOMAIN P.parents THEN Value("symbol", 0, P.parents[v[1].s]) ELSE Null)
        [] f = "_get_virtual_method" -> Returns(GetVirtualMethod(P, v[1].s, v[2].s))
        [] f \in {"_d_to_string", "_w_to_string", "_l_to_string"} -> IF v[1] = Garbage THEN Crash(P) ELSE Returns(String(TextOf(v[1], v[2].n)))
        [] f = "_print" -> Assign([P EXCEPT !.out = Append(@, v[1].s)], to, v[1])
        [] f = "_string_concat" -> Returns(String(v[1].s \o v[2].s))
        [] f = "_string_compair" -> Returns(Number(IF v[1].s = v[2].s THEN 1 ELSE 0))
        [] f = "_pow" -> Returns(Number(Power(v[1].n, v[2].n)))
        [] f = "_sqrt" -> Returns(Number(Root(v[1].n)))
        [] f = "_mod" -> Returns(Number(v[1].n % v[2].n))

CallFunction(image, P, n, v) ==
  LET f == image.functions[n]
      k == IF Len(v) < Len(f.params) THEN Len(v) ELSE Len(f.params)
      temps == FoldLeft(LAMBDA t, i : Put(t, f.params[i].name, v[i]), <<>>, [i \in 1..k |-> i])
  IN  IF Len(P.frames) = MaxDepth THEN Crash(P) ELSE [P EXCEPT !.frames = Append(@, [f |-> n, pc |-> 1, temps |-> temps])]
FunctionAt(image, s) == {i \in DOMAIN image.functions : image.functions[i].name = s}
Invoke(image, P, i, callee, v) ==
  IF callee.tag # "symbol" THEN Crash(P)
  ELSE IF callee.s \in Runtime THEN CallRuntime(P, callee.s, i.to, v)
  ELSE CallFunction(image, P, CHOOSE n \in FunctionAt(image, callee.s) : TRUE, v)

Return(image, P, v) ==
  LET below == [P EXCEPT !.frames = Front(@)]
  IN  IF Len(P.frames) = 1 THEN [P EXCEPT !.status = "done"] ELSE Assign(below, Current(image, below).to, v)

(* A field never written is zero.                                           *)
LoadField(P, k, a) ==
  LET words == P.heap[a.n].words IN IF a.offset \in DOMAIN words THEN words[a.offset].v ELSE IF k = "l" THEN Null ELSE Number(0)
Step(image, P) ==
  LET i == Current(image, P)
      v == [n \in DOMAIN i.args |-> Read(image, P, i.args[n])]
  IN  CASE i.op = "label" -> Advance(P)
        [] i.op = "jmp" -> Goto(image, P, i.to)
        [] i.op = "jnz" -> IF v[1] = Garbage THEN Crash(P) ELSE Goto(image, P, IF v[1] = Number(0) THEN i.k ELSE i.to)
        [] i.op = "copy" -> Assign(P, i.to, v[1])
        [] i.op \in {"clt", "ceq"} -> Assign(P, i.to, Compared(i.op, v[1], v[2]))
        [] i.op \in {"add", "sub", "mul", "xor"} -> Assign(P, i.to, Arithmetic(i.op, v[1], v[2]))
        [] i.op = "load" -> IF v[1].tag # "object" THEN Crash(P) ELSE Assign(P, i.to, LoadField(P, i.k, v[1]))
        [] i.op = "store" -> IF v[2].tag # "object" THEN Crash(P)
                             ELSE Advance([P EXCEPT !.heap[v[2].n].words = Put(@, v[2].offset, [v |-> v[1], k |-> i.k])])
        [] i.op = "call" -> Invoke(image, P, i, v[1], Tail(v))
        [] i.op = "ret" -> Return(image, P, v[1])
=============================================================================
