-------------------------- MODULE MCMethodDispatch --------------------------
(* Three classes in a fixed order of registration: the hierarchies and       *)
(* members chosen in Init range over all cases.                              *)
EXTENDS MethodDispatch

CONSTANTS d1, d2, d3

MCOrder == <<d1, d2, d3>>
=============================================================================
