----------------------------- MODULE AstBuilder -----------------------------
(***************************************************************************)
(* ASTBuilder::build (parser/AST_Builder/ast_builder.cpp), one call for      *)
(* every reduction of the parser, with the value stack of run_parser.  The   *)
(* builder recognises a production by its symbols: the table below holds the *)
(* patterns it tests.  The productions come from grammar.y; those that no    *)
(* pattern matches are answered with nullptr and a line on stderr.           *)
(*                                                                           *)
(* A text is known by the position of its token.  Spans, numeric kinds and   *)
(* the Type that an annotation denotes are left out.                         *)
(***************************************************************************)
EXTENDS Naturals, FiniteSets, SequencesExt

CONSTANT Tasks   \* [start, rules, fuel]: what to derive, see Expand

(***************************************************************************)
(* The patterns, by the sections of build: <<left side, symbols, what is    *)
(* made, of which symbols>>.  "pass" returns the value of a symbol (or       *)
(* nullptr), "list" a BlockNode with the items of the symbols, "own" has     *)
(* code of its own (see Own); any other word is the kind of a node.          *)
(***************************************************************************)
Paren(x) == <<"L_PAREN", x, "R_PAREN">>
Typed == <<"COLON", "type">>
Curly(x) == <<"L_CURL_BRACK", x, "R_CURL_BRACK">>
Square(x) == <<"L_SQUARE_BRACK">> \o x \o <<"R_SQUARE_BRACK">>
Call == Paren("arg_list_opt")
Name == <<"IDENTIFIER">>
Empty == <<>>

Forward(l, symbols) == {<<l, <<x>>, "pass", <<1>>>> : x \in symbols}
Absent(l) == <<l, Empty, "pass", Empty>>
Repeat(l, x) == {<<l, Empty, "list", Empty>>, <<l, <<l, x>>, "list", <<1, 2>>>>}
Separated(l, x) == {<<l, <<x>>, "list", <<1>>>>, <<l, <<l, "COMMA", x>>, "list", <<1, 3>>>>}

(* A name if there is one, the parameters, the type if there is one, the    *)
(* body.                                                                    *)
Callable(l, front, arrow, end, kind, name) ==
  LET start == front \o Paren("param_list_opt")
      n == Len(start)
      at == name \o <<n - 1>>
  IN  {<<l, start \o <<"block">>, kind, at \o <<n + 1>>>>,
       <<l, start \o Typed \o <<"block">>, kind, at \o <<n + 2, n + 3>>>>,
       <<l, start \o <<arrow, "expr">> \o end, kind, at \o <<n + 2>>>>,
       <<l, start \o Typed \o <<arrow, "expr">> \o end, kind, at \o <<n + 2, n + 4>>>>}

ProgramPatterns ==
  {<<"program", <<"top_level_items">>, "own", Empty>>,
   <<"top_level_items", <<"top_level_item">>, "own", Empty>>,
   <<"top_level_items", <<"top_level_items", "top_level_item">>, "list", <<1, 2>>>>}
  \cup Forward("top_level_item", {"declaration", "statement", "expr"})
  \cup Forward("declaration", {"function_decl", "type_decl", "protocol_decl"})

FunctionPatterns ==
  Callable("function_decl", <<"FUNCTION">> \o Name, "ARROW", <<"SEMICOLON">>, "FunctionDecl", <<2>>)
  \cup Callable("function_expr", <<"FUNCTION">>, "TYPE_ARROW", Empty, "Lambda", Empty)

TypeDeclarationPatterns ==
  {<<"type_decl", <<"TYPE">> \o Name \o <<"ctor_param_clause_opt", "inheritance_clause", "type_body">>,
     "TypeDecl", <<2, 3, 4, 5>>>>,
   <<"protocol_decl", <<"PROTOCOL">> \o Name \o <<"protocol_extension_clause", "protocol_body">>,
     "ProtocolDecl", <<2, 3, 4>>>>}

ClausePatterns ==
  {<<"ctor_param_clause_opt", Empty, "own", Empty>>,
   <<"ctor_param_clause_opt", Paren("param_list_opt"), "pass", <<2>>>>,
   Absent("inheritance_clause"), <<"inheritance_clause", <<"INHERITS">> \o Name, "Type", <<2>>>>,
   <<"inheritance_clause", <<"INHERITS">> \o Name \o Call, "New", <<2, 4>>>>,
   Absent("protocol_extension_clause"), <<"protocol_extension_clause", <<"EXTENDS">> \o Name, "Type", <<2>>>>}

MemberPatterns ==
  {<<"type_body", Curly("type_members"), "list", <<2>>>>,
   <<"protocol_body", Curly("protocol_methods"), "list", <<2>>>>,
   <<"attribute_decl", Name \o <<"opt_type_annotation", "EQUAL", "expr", "SEMICOLON">>, "AttributeDecl", <<1, 2, 4>>>>,
   <<"protocol_method_decl", Name \o Paren("param_list_opt") \o Typed \o <<"SEMICOLON">>, "FunctionDecl", <<1, 3, 6>>>>}
  \cup Repeat("type_members", "type_member") \cup Repeat("protocol_methods", "protocol_method_decl")
  \cup Forward("type_member", {"attribute_decl", "method_decl"})
  \cup Callable("method_decl", Name, "ARROW", <<"SEMICOLON">>, "FunctionDecl", <<1>>)

ParameterPatterns ==
  {<<"param_list_opt", Empty, "own", Empty>>,
   <<"param_list", <<"param_list", "COMMA", "param_decl">>, "own", Empty>>,
   <<"param_decl", Name \o <<"opt_type_annotation">>, "own", Empty>>,
   Absent("opt_type_annotation"), <<"opt_type_annotation", Typed, "pass", <<2>>>>}
  \cup Forward("param_list_opt", {"param_list"}) \cup Forward("param_list", {"param_decl"})

TypePatterns ==
  {<<"type", <<"type", "STAR">>, "Type", <<1>>>>, <<"type", <<"type">> \o Square(Empty), "Type", <<1>>>>,
   <<"type", Paren("type_list_opt") \o <<"TYPE_ARROW", "type">>, "Type", <<2, 5>>>>,
   <<"type_list_opt", Empty, "list", Empty>>}
  \cup {<<"type_atom", <<t>>, "Type", <<1>>>> : t \in {"NUMBER_TYPE", "BOOL_TYPE", "STRING_TYPE", "IDENTIFIER"}}
  \cup Forward("type", {"type_atom"}) \cup Forward("type_list_opt", {"type_list"}) \cup Separated("type_list", "type")

StatementPatterns ==
  {<<"statement", <<x, "SEMICOLON">>, "pass", <<1>>>> : x \in {"while_stmt", "for_stmt", "block"}}
  \cup {<<"statement", <<"expr", "SEMICOLON">>, "ExprStmt", <<1>>>>,
        <<"return_stmt", <<"RETURN", "expr", "SEMICOLON">>, "Return", <<2>>>>,
        <<"block", Curly("statements"), "list", <<2>>>>}
  \cup Forward("statement", {"block", "return_stmt", "if_stmt"}) \cup Repeat("statements", "statement")

(* head is IF or ELIF.                                                      *)
Branch(l, head, body, tail) == <<l, <<head>> \o Paren("expr") \o <<body, tail>>, "If", <<3, 5, 6>>>>
While(l, body) == <<l, <<"WHILE">> \o Paren("expr") \o <<body>>, "While", <<3, 5>>>>
For(l, body) == <<l, <<"FOR", "L_PAREN">> \o Name \o <<"IN", "expr", "R_PAREN", body>>, "For", <<3, 5, 7>>>>

ConditionalPatterns ==
  UNION {{Branch("if_stmt", "IF", body, "conditional_stmt_tail"),
          Branch("conditional_stmt_tail", "ELIF", body, "conditional_stmt_tail"),
          <<"conditional_stmt_tail", <<"ELSE", body>>, "pass", <<2>>>>} :
         body \in {"conditional_stmt_body", "conditional_inline_stmt_body"}}
  \cup {Absent("conditional_stmt_tail")}
  \cup {<<"conditional_stmt_body", <<x, "SEMICOLON">>, "ExprStmt", <<1>>>> : x \in {"assignment", "let_expr"}}
  \cup {<<"conditional_inline_stmt_body", <<x>>, "ExprStmt", <<1>>>> : x \in {"assignment", "let_expr"}}
  \cup Forward("conditional_stmt_body", {"block", "return_stmt", "if_stmt", "while_stmt", "for_stmt"})
  \cup Forward("conditional_inline_stmt_body", {"block", "return_inline", "if_stmt", "while_stmt", "for_stmt"})

LoopPatterns ==
  {While("while_stmt", "loop_stmt_body"), For("for_stmt", "loop_stmt_body")}
  \cup {<<"loop_stmt_body", <<x, "SEMICOLON">>, "pass", <<1>>>> : x \in {"while_stmt", "for_stmt"}}
  \cup {<<"loop_stmt_body", <<x, "SEMICOLON">>, "ExprStmt", <<1>>>> : x \in {"assignment", "let_expr"}}
  \cup Forward("loop_stmt_body", {"block", "return_stmt", "if_stmt"})

(* Binary operators: each level, its operands and operators.                *)
Binary(l, left, operators, right) == {<<l, <<left, op, right>>, "BinaryOp", <<1, 2, 3>>>> : op \in operators}
OperatorPatterns ==
  Binary("logical_or", "logical_or", {"OR"}, "logical_and")
  \cup Binary("logical_and", "logical_and", {"AND"}, "equality")
  \cup Binary("equality", "type_relation", {"EQUALITY", "NOT_EQUAL"}, "type_relation")
  \cup Binary("type_relation", "relational", {"IS", "AS"}, "type")
  \cup Binary("relational", "concatenation",
              {"LESS_THAN", "GREATER_THAN", "LESS_EQUALS", "GREATER_EQUALS"}, "concatenation")
  \cup Binary("concatenation", "concatenation", {"CONCAT", "CONCAT_SPACE"}, "additive")
  \cup Binary("additive", "additive", {"PLUS", "MINUS"}, "multiplicative")
  \cup Binary("multiplicative", "multiplicative", {"STAR", "SLASH", "MODULE"}, "powered")
  \cup Binary("powered", "unary", {"POWER"}, "powered")
  \cup {<<"unary", <<op, "unary">>, "UnaryOp", <<1, 2>>>> : op \in {"MINUS", "PLUS", "NOT"}}

ForwardingPatterns ==
  {<<"assignment", <<"assignable", "COLON", "EQUAL", "expr">>, "Assignment", <<1, 4>>>>,
   <<"assignable", Name, "Variable", <<1>>>>}
  \cup Forward("expr", {"assignment", "let_expr", "if_expr", "while_expr", "for_expr"})
  \cup Forward("assignment", {"logical_or"}) \cup Forward("assignable", {"member_access"})
  \cup Forward("logical_or", {"logical_and"}) \cup Forward("logical_and", {"equality"})
  \cup Forward("equality", {"type_relation"}) \cup Forward("type_relation", {"relational"})
  \cup Forward("relational", {"concatenation"}) \cup Forward("concatenation", {"additive"})
  \cup Forward("additive", {"multiplicative"}) \cup Forward("multiplicative", {"unary", "powered"})
  \cup Forward("powered", {"unary"}) \cup Forward("unary", {"primary"})

PrimaryPatterns ==
  {<<"primary", <<t>>, "Literal", <<1>>>> : t \in {"NUMBER", "STRING", "TRUE", "FALSE"}}
  \cup UNION {{<<l, Name, "Variable", <<1>>>>, <<l, Paren("expr"), "pass", <<2>>>>} : l \in {"primary", "access_base"}}
  \cup Forward("primary", {"global_call", "if_expr", "member_call", "member_access", "index_access", "lambda_expr",
                           "function_expr", "vector_expr", "new_expr"})
  \cup Forward("access_base", {"new_expr"})
  \cup UNION {{<<"member_access", <<base, "DOT">> \o Name, "MemberAccess", <<1, 3>>>>,
               <<"member_call", <<base, "DOT">> \o Name \o Call, "FunctionCall", <<1, 3, 5>>>>} :
              base \in {"access_base", "member_access"}}
  \cup {<<"index_access", <<base>> \o Square(<<"expr">>), "IndexAccess", <<1, 3>>>> :
          base \in {"access_base", "member_access", "global_call"}}
  \cup {<<"global_call", Name \o Call, "FunctionCall", <<1, 3>>>>, <<"new_expr", <<"NEW">> \o Name \o Call, "New", <<2, 4>>>>}

LambdaVectorPatterns ==
  {<<"lambda_expr", Paren("param_list_opt") \o <<"ARROW", "expr">>, "Lambda", <<2, 5>>>>,
   <<"lambda_expr", Paren("param_list_opt") \o Typed \o <<"ARROW", "expr">>, "Lambda", <<2, 5, 7>>>>,
   <<"vector_expr", Square(Empty), "VectorLiteral", Empty>>,
   <<"vector_expr", Square(<<"vector_items">>), "VectorLiteral", <<2>>>>,
   <<"vector_expr", Square(<<"additive", "OR", "IDENTIFIER", "IN", "expr">>), "VectorComprehension", <<2, 4, 6>>>>}
  \cup Separated("vector_items", "expr")

LetPatterns ==
  {<<"let_expr", <<"LET", "let_bindings", "IN", "loop_expr_body">>, "own", Empty>>,
   <<"let_bindings", <<"let_binding">>, "own", Empty>>,
   <<"let_bindings", <<"let_bindings", "COMMA", "let_binding">>, "own", Empty>>,
   <<"let_binding", Name \o <<"opt_type_annotation", "EQUAL", "expr">>, "LetBinding", <<1, 2, 4>>>>}

ExpressionPatterns ==
  {Branch("if_expr", "IF", "conditional_expr_body", "conditional_expr_tail"),
   Branch("conditional_expr_tail", "ELIF", "conditional_expr_body", "conditional_expr_tail"),
   <<"conditional_expr_tail", <<"ELSE", "conditional_expr_body">>, "pass", <<2>>>>, Absent("conditional_expr_tail"),
   While("while_expr", "loop_expr_body"), For("for_expr", "loop_expr_body"), <<"arg_list_opt", Empty, "list", Empty>>}
  \cup Forward("conditional_expr_body", {"block", "expr"}) \cup Forward("loop_expr_body", {"block", "expr"})
  \cup Forward("arg_list_opt", {"arg_list"}) \cup Separated("arg_list", "expr")

Patterns ==
  ProgramPatterns \cup FunctionPatterns \cup TypeDeclarationPatterns \cup ClausePatterns \cup MemberPatterns
  \cup ParameterPatterns \cup TypePatterns \cup StatementPatterns \cup ConditionalPatterns \cup LoopPatterns
  \cup OperatorPatterns \cup ForwardingPatterns \cup PrimaryPatterns \cup LambdaVectorPatterns \cup LetPatterns
  \cup ExpressionPatterns
Key(pattern) == <<pattern[1], pattern[2]>>
PatternOf == [k \in {Key(r) : r \in Patterns} |-> CHOOSE r \in Patterns : Key(r) = k]

(***************************************************************************)
(* grammar.y, by its difference to the patterns.  Three of its productions   *)
(* have none: the patterns of lambda_expr spell the arrow ARROW, and the one  *)
(* of an inline return names return_inline.                                  *)
(***************************************************************************)
Unmatched ==
  {<<"lambda_expr", Paren("param_list_opt") \o <<"TYPE_ARROW", "expr">>>>,
   <<"lambda_expr", Paren("param_list_opt") \o Typed \o <<"TYPE_ARROW", "expr">>>>,
   <<"conditional_inline_stmt_body", <<"return_stmt">>>>}
NeverMet ==
  {<<"lambda_expr", Paren("param_list_opt") \o <<"ARROW", "expr">>>>,
   <<"lambda_expr", Paren("param_list_opt") \o Typed \o <<"ARROW", "expr">>>>,
   <<"conditional_inline_stmt_body", <<"return_inline">>>>, <<"multiplicative", <<"unary">>>>}
Productions == (DOMAIN PatternOf \ NeverMet) \cup Unmatched
ProductionsOf == [l \in {p[1] : p \in Productions} |-> {p \in Productions : p[1] = l}]
Nonterminals == DOMAIN ProductionsOf
-----------------------------------------------------------------------------
(* A value of the stack: a token, a node or nullptr.                        *)
Make(kind, at, parts) == [kind |-> kind, at |-> at, parts |-> parts]
Null == Make("null", 0, <<>>)
Node(kind, parts) == Make(kind, 0, parts)
Block(items) == Node("Block", items)

(* take_block_items, BUILD_BLOCK and BUILD_ARG_LIST: the statements of a    *)
(* block stand for the block, and nothing for nullptr.                      *)
Items(v) == CASE v.kind = "Block" -> v.parts [] v.kind = "null" -> <<>> [] OTHER -> <<v>>
ItemsOf(vs) == FlattenSeq([i \in DOMAIN vs |-> Items(vs[i])])
Spliced == {"arg_list_opt", "type_list_opt", "vector_items", "type_body", "protocol_body"}

(* A ParamListNode holds the names and their annotations in two vectors.    *)
Params(names, types) == Node("Params", <<Node("Names", names), Node("Types", types)>>)
NamesOf(params) == params.parts[1].parts
TypesOf(params) == params.parts[2].parts

(* Mutant: the bindings nested from the first to the last.                  *)
NestedLetForward(bindings, body) ==
  FoldLeft(LAMBDA inner, b : Node("Let", b.parts \o <<inner>>), body, bindings)
(* build_nested_let, from the last binding to the first.                    *)
NestedLet(bindings, body) ==
  FoldRight(LAMBDA b, inner : Node("Let", b.parts \o <<inner>>), bindings, body)

IsDeclaration(v) == v.kind \in {"FunctionDecl", "TypeDecl", "ProtocolDecl"}
SplitItems(items) ==
  Node("Program", <<Node("Declarations", SelectSeq(items, IsDeclaration)),
                    Node("Statements", SelectSeq(items, LAMBDA v : ~IsDeclaration(v)))>>)

ParamsOf(p, v) ==
  CASE p[1] = "param_decl" -> Params(<<v[1]>>, <<v[2]>>)
    [] p[1] = "param_list" -> Params(NamesOf(v[1]) \o NamesOf(v[3]), TypesOf(v[1]) \o TypesOf(v[3]))
    [] OTHER -> Params(Empty, Empty)
BindingsOf(p, v) == Node("LetBindings", IF Len(v) = 1 THEN v ELSE Append(v[1].parts, v[3]))

Own(p, v) ==
  CASE p[1] = "program" -> SplitItems(v[1].parts)
    [] p[1] = "top_level_items" -> Block(v)
    [] p[1] = "let_bindings" -> BindingsOf(p, v)
    [] p[1] = "let_expr" -> NestedLet(v[2].parts, v[4])
    [] OTHER -> ParamsOf(p, v)

(* The parts of a node: the lists among its symbols are taken item by item. *)
Parts(rhs, at, v) ==
  FlattenSeq([i \in DOMAIN at |-> IF rhs[at[i]] \in Spliced THEN Items(v[at[i]]) ELSE <<v[at[i]]>>])

Build(p, v) ==
  IF p \notin DOMAIN PatternOf THEN Null
  ELSE LET make == PatternOf[p][3]
           at == PatternOf[p][4]
       IN  CASE make = "pass" -> IF at = Empty THEN Null ELSE v[at[1]]
             [] make = "list" -> Block(ItemsOf([i \in DOMAIN at |-> v[at[i]]]))
             [] make = "own" -> Own(p, v)
             [] OTHER -> Node(make, Parts(p[2], at, v))
-----------------------------------------------------------------------------
VARIABLES
  task,       \* what is derived
  todo,       \* what remains of it: <<"derive", lhs, symbol>> or <<"reduce", production>>
  position,   \* number of tokens shifted
  source,     \* the tokens the tree must keep, in order
  values,     \* value_stack
  fuel,       \* choices left to the derivation
  unhandled   \* productions answered with "unhandled production"
vars == <<task, todo, position, source, values, fuel, unhandled>>

Significant == {"IDENTIFIER", "NUMBER", "STRING", "TRUE", "FALSE", "NUMBER_TYPE", "BOOL_TYPE", "STRING_TYPE",
                "NOT"} \cup {r[2][2] : r \in {r \in OperatorPatterns : r[3] = "BinaryOp"}}
(* STAR of a type and OR of a comprehension are not operators.              *)
Kept(lhs, x) == x \in Significant /\ ~(lhs = "type" /\ x = "STAR") /\ ~(lhs = "vector_expr" /\ x = "OR")

(* A production of least height for every nonterminal: the derivation falls *)
(* back to it, so it always ends.                                           *)
Derivable(known) == {p \in Productions : \A i \in DOMAIN p[2] : p[2][i] \in Nonterminals => p[2][i] \in DOMAIN known}
Grow(known) ==
  LET found == Derivable(known)
  IN  [l \in {p[1] : p \in found} |->
         IF l \in DOMAIN known THEN known[l] ELSE CHOOSE p \in found : p[1] = l]
Default == FoldLeft(LAMBDA known, i : Grow(known), [l \in {} |-> <<>>], [i \in 1..30 |-> i])

Init ==
  /\ task \in Tasks
  /\ todo = <<<<"derive", "", task.start>>>>
  /\ position = 0 /\ source = <<>> /\ values = <<>> /\ fuel = task.fuel /\ unhandled = {}

Due(what) == todo # <<>> /\ todo[1][1] = what
(* The token stream is chosen as it is read, one that the grammar derives.  *)
(* Every choice but the fallback spends fuel.                               *)
Expand ==
  /\ Due("derive") /\ todo[1][3] \in Nonterminals
  /\ \E p \in ProductionsOf[todo[1][3]] :
       LET default == p = Default[p[1]]
       IN  /\ default \/ (fuel > 0 /\ p[1] \in task.rules)
           /\ fuel' = IF default THEN fuel ELSE fuel - 1
           /\ todo' = [i \in DOMAIN p[2] |-> <<"derive", p[1], p[2][i]>>] \o <<<<"reduce", p>>>> \o Tail(todo)
  /\ UNCHANGED <<task, position, source, values, unhandled>>

Shift ==
  /\ Due("derive") /\ todo[1][3] \notin Nonterminals
  /\ position' = position + 1
  /\ source' = IF Kept(todo[1][2], todo[1][3]) THEN Append(source, position') ELSE source
  /\ values' = Append(values, Make("token", position', <<>>))
  /\ todo' = Tail(todo)
  /\ UNCHANGED <<task, fuel, unhandled>>

Reduce ==
  /\ Due("reduce")
  /\ LET p == todo[1][2]
         n == Len(values) - Len(p[2])
     IN  /\ values' = Append(SubSeq(values, 1, n), Build(p, SubSeq(values, n + 1, Len(values))))
         /\ unhandled' = IF p \in Unmatched THEN unhandled \cup {p} ELSE unhandled
  /\ todo' = Tail(todo)
  /\ UNCHANGED <<task, position, source, fuel>>

Next == Expand \/ Shift \/ Reduce
Spec == Init /\ [][Next]_vars
-----------------------------------------------------------------------------
Done == todo = <<>>

(* The tokens of a tree, read in the order of its parts; a parameter next   *)
(* to its own annotation.                                                   *)
RECURSIVE Yield(_)
Yield(v) ==
  IF v.kind = "token" THEN <<v.at>>
  ELSE FlattenSeq(
         IF v.kind = "Params"
         THEN [i \in DOMAIN NamesOf(v) |-> Yield(NamesOf(v)[i]) \o Yield(TypesOf(v)[i])]
         ELSE [i \in DOMAIN v.parts |-> Yield(v.parts[i])])
Ascending(s) == \A i \in 1..(Len(s) - 1) : s[i] < s[i + 1]

(* The tree of a program holds every name, literal, operator and type of    *)
(* its source once and in the order of the source, each parameter with its  *)
(* own annotation and each binding around the rest of its let; only         *)
(* declarations are set apart from statements.                              *)
NothingLost ==
  Done /\ unhandled = {} =>
    /\ Len(values) = 1
    /\ LET tree == values[1]
           parts == IF tree.kind = "Program" THEN tree.parts ELSE <<tree>>
       IN  /\ \A i \in DOMAIN parts : Ascending(Yield(parts[i]))
           /\ ToSet(Yield(tree)) = ToSet(source) /\ Len(Yield(tree)) = Len(source)

=============================================================================
