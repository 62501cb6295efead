----------------------------- MODULE Derivation -----------------------------
(***************************************************************************)
(* What LALRParser::run_parser promises to the builder of a tree: the calls  *)
(* it makes are those of a rightmost derivation, from its end.  The forest   *)
(* holds the trees so far; a token becomes a leaf, the trees of a right side *)
(* become one tree of the left side, and an input is accepted as one tree of *)
(* the start symbol when all of it has been read.  Nothing else happens, and *)
(* nothing but a wrong token can stop it.                                   *)
(***************************************************************************)
EXTENDS Integers, SequencesExt

CONSTANT Dollar

VARIABLES
  productions,  \* the grammar; the last one is that of the augmented start symbol
  builder,      \* is there anyone who wants a tree
  input,
  at,           \* the next token
  forest,
  order,        \* the productions used so far
  outcome       \* "none" until the input is there, "parse", then how it ended

vars == <<productions, builder, input, at, forest, order, outcome>>
grammar == <<productions, builder, input>>

Init == outcome = "none" /\ at = 1 /\ forest = <<>> /\ order = <<>>

Prepare ==
  /\ outcome = "none" /\ outcome' \in {"none", "parse"}
  /\ UNCHANGED <<at, forest, order>>

Derives == outcome = "parse" /\ builder /\ UNCHANGED grammar
AtEnd == at <= Len(input) => input[at] = Dollar

Read ==
  /\ Derives /\ ~AtEnd
  /\ at' = at + 1
  /\ forest' = Append(forest, [symbol |-> input[at], prod |-> 0, kids |-> <<>>])
  /\ UNCHANGED <<order, outcome>>

(* The n last trees are those of the right side of a production.            *)
Build(p) ==
  LET rule == productions[p]
      n == Len(forest) - Len(rule.rhs)
  IN  /\ n >= 0
      /\ \A j \in 1..Len(rule.rhs) : forest[n + j].symbol = rule.rhs[j]
      /\ forest' = Append(SubSeq(forest, 1, n),
                          [symbol |-> rule.lhs, prod |-> p, kids |-> SubSeq(forest, n + 1, Len(forest))])
      /\ order' = Append(order, p)

Reduce ==
  /\ Derives
  /\ \E p \in 1..(Len(productions) - 1) : Build(p)
  /\ UNCHANGED <<at, outcome>>

Accept ==
  /\ Derives /\ AtEnd
  /\ Len(forest) = 1 /\ forest[1].symbol = productions[Len(productions)].rhs[1]
  /\ outcome' = "accepted"
  /\ UNCHANGED <<at, forest, order>>

Refuse ==
  /\ Derives
  /\ outcome' = "syntax_error"
  /\ UNCHANGED <<at, forest, order>>

(* Nothing is promised to someone who wants no tree.                        *)
Blind == outcome = "parse" /\ ~builder /\ UNCHANGED grammar

Next == Prepare \/ Read \/ Reduce \/ Accept \/ Refuse \/ Blind
Spec == Init /\ [][Next]_vars
=============================================================================
