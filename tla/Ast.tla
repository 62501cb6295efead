-------------------------------- MODULE Ast ---------------------------------
(***************************************************************************)
(* The nodes of the tree that the passes share (parser/AST_Builder/          *)
(* ast_node.hpp).  A node is [op, name, note, params, kids, type]: note is    *)
(* the type it was annotated with, params those of a lambda, type what the    *)
(* inference leaves in it.  Whether something was annotated is note # NoType. *)
(* Spans, and the statement nodes that hold one expression, are left out.    *)
(***************************************************************************)
EXTENDS TypeSystem

NoType == Basic("nullptr")
Typed(op, name, note, params, kids) ==
  [op |-> op, name |-> name, note |-> note, params |-> params, kids |-> kids, type |-> NoType]
Untyped(op, name, kids) == Typed(op, name, NoType, <<>>, kids)
Having(node, t) == [node EXCEPT !.type = t]

(* Values and names.  A literal is annotated with its own type.             *)
Literal(value, t) == Typed("literal", value, t, <<>>, <<>>)
Variable(name) == Untyped("var", name, <<>>)
Binary(op, left, right) == Untyped(op, "", <<left, right>>)
Unary(op, operand) == Untyped(op, "", <<operand>>)
OfType(op, operand, t) == Typed(op, "", t, <<>>, <<operand>>)   \* is, as

(* Bindings and control.                                                    *)
Let(name, note, init, body) == Typed("let", name, note, <<>>, <<init, body>>)
Block(stmts) == Untyped("block", "", stmts)
If(condition, then, else) == Untyped("if", "", <<condition, then, else>>)
While(condition, body) == Untyped("while", "", <<condition, body>>)
For(iterator, iterable, body) == Untyped("for", iterator, <<iterable, body>>)
ReturnExpr(expr) == Untyped("return", "", <<expr>>)
Assignment(target, value) == Untyped(":=", "", <<target, value>>)

(* Calls: of a function, of a method of an object, of the method that the    *)
(* one under way overrides, of a constructor, of nothing yet.                *)
Call(name, args) == Untyped("call", name, args)
Method(receiver, name, args) == Untyped("method", name, <<receiver>> \o args)
BaseCall(args) == Untyped("base", "base", args)
New(typeName, args) == Untyped("new", typeName, args)
Lambda(params, note, body) == Typed("lambda", "", note, params, <<body>>)

(* Members and vectors.                                                     *)
Member(base, member) == Untyped("member", member, <<base>>)
VectorLiteral(elements) == Untyped("vector", "", elements)
Comprehension(iterator, iterable, expression) == Untyped("comprehension", iterator, <<iterable, expression>>)
Index(base, index) == Untyped("index", "", <<base, index>>)

(* Declarations.  A method has the type that owns it, a function "".        *)
Param(name, type) == [name |-> name, type |-> type]
FunctionDecl(name, params, note, body, owner) ==
  [name |-> name, params |-> params, note |-> note, body |-> body, owner |-> owner]
AttributeDecl(name, note, init) == [name |-> name, note |-> note, init |-> init]
TypeDecl(name, parent, ctor, explicit, args, attributes, methods) ==
  [name |-> name, parent |-> parent, ctor |-> ctor, explicitArgs |-> explicit, parentArgs |-> args,
   attributes |-> attributes, methods |-> methods]

(* A program: its declarations by kind, the protocols as a table of their     *)
(* methods, and what runs.                                                  *)
ProgramOf(functions, types, protocols, globals) ==
  [functions |-> functions, types |-> types, protocols |-> protocols, globals |-> globals]
=============================================================================
