---------------------------- MODULE MCAstBuilder ----------------------------
(***************************************************************************)
(* What is derived: programs in which any two choices depart from the       *)
(* cheapest ones, and parts of a program in which more of them do.           *)
(***************************************************************************)
EXTENDS AstBuilder

Task(s, r, n) == [start |-> s, rules |-> r, fuel |-> n]
MCTasks == {
  Task("program", Nonterminals, 2),
  Task("expr", Nonterminals, 2),
  Task("program", {"top_level_items", "top_level_item", "declaration"}, 6),
  Task("block", {"statements", "statement", "block", "return_stmt"}, 5),
  Task("type", {"type", "type_list_opt", "type_list", "type_atom"}, 5),
  Task("function_decl", {"function_decl", "param_list_opt", "param_list", "opt_type_annotation"}, 5),
  Task("type_decl", {"ctor_param_clause_opt", "inheritance_clause", "type_members", "type_member", "method_decl",
                     "arg_list_opt", "arg_list", "param_list_opt"}, 4),
  Task("protocol_decl", {"protocol_extension_clause", "protocol_methods", "param_list_opt", "param_list"}, 5),
  Task("function_expr", {"function_expr", "param_list_opt", "param_list", "opt_type_annotation", "block", "statements"}, 4),
  Task("let_expr", {"let_bindings", "opt_type_annotation", "loop_expr_body", "expr"}, 4),
  Task("logical_or", {"logical_or", "logical_and", "equality", "type_relation", "relational", "concatenation",
                      "additive", "multiplicative", "powered", "unary"}, 3),
  Task("primary", {"primary", "access_base", "member_access", "member_call", "index_access", "new_expr",
                   "arg_list_opt", "arg_list", "vector_expr", "vector_items"}, 4),
  Task("if_stmt", {"if_stmt", "conditional_stmt_body", "conditional_inline_stmt_body", "conditional_stmt_tail",
                   "loop_stmt_body", "while_stmt", "for_stmt"}, 3),
  Task("if_expr", {"conditional_expr_body", "conditional_expr_tail", "expr", "block"}, 4)}
=============================================================================
