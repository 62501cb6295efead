------------------------------- MODULE Parser -------------------------------
(***************************************************************************)
(* LALRParser::run_parser (parser/Parser_Generator/parser_runtime.cpp), the  *)
(* shift/reduce loop over the tables of the generator.  A value is a node of *)
(* the tree that the builder makes; copies of a parser have no builder.      *)
(***************************************************************************)
EXTENDS ParserGenerator

CONSTANTS
  Inputs(_),      \* the token sequences to parse, for a grammar
  MaxReductions   \* bound: reductions of one run

VARIABLES
  builder,             \* is there one
  input,               \* the tokens
  token_idx,           \* the next one
  state_stack,
  value_stack,
  reduction_sequence

runtime == <<builder, input, token_idx, state_stack, value_stack, reduction_sequence>>
vars == <<generator, runtime>>

Init ==
  /\ GeneratorInit
  /\ builder = FALSE /\ input = <<>> /\ token_idx = 1
  /\ state_stack = <<1>> /\ value_stack = <<>> /\ reduction_sequence = <<>>

Generate == GeneratorNext /\ UNCHANGED runtime

Begin ==
  /\ stage = "built"
  /\ builder' \in BOOLEAN /\ input' \in Inputs(grammar)
  /\ stage' = "parse"
  /\ UNCHANGED <<file, grammar, sweep, collection, expansion, lalr, filling,
                 token_idx, state_stack, value_stack, reduction_sequence>>

End(how) == stage' = how /\ UNCHANGED <<file, grammar, sweep, collection, expansion, lalr, filling, runtime>>

Token == IF token_idx <= Len(input) THEN input[token_idx] ELSE Dollar
Cell == <<Last(state_stack), Token>>
Action == tables.action[Cell]

Leaf(a) == [symbol |-> a, prod |-> 0, kids |-> <<>>]

\* Mutant: the values stay in the order they are popped in.
NodeReversed(p, kids) == [symbol |-> Productions[p].lhs, prod |-> p, kids |-> Reverse(kids)]

Node(p, kids) == [symbol |-> Productions[p].lhs, prod |-> p, kids |-> kids]

SyntaxError ==
  /\ stage = "parse" /\ Cell \notin DOMAIN tables.action
  /\ End("syntax_error")

(* Values are kept for a builder only.                                      *)
Pushed(s, v) == IF builder THEN Append(s, v) ELSE s

ShiftToken ==
  /\ stage = "parse" /\ Cell \in DOMAIN tables.action /\ Action.kind = "Shift"
  /\ state_stack' = Append(state_stack, Action.value)
  /\ value_stack' = Pushed(value_stack, Leaf(Token))
  /\ token_idx' = token_idx + 1
  /\ UNCHANGED <<generator, builder, input, reduction_sequence>>

\* Mutant: an empty right side pops an entry, too.
PoppedAlways(s, n) == SubSeq(s, 1, Max({1, Len(s) - Max({1, n})}))

(* The stack after n pops that leave its first entry alone.                 *)
Popped(s, n) == SubSeq(s, 1, Max({1, Len(s) - n}))

(* The value stack is too short, or GOTO has no entry; the parser gives up, *)
(* what its stacks are then is left out.                                    *)
Stuck(p) ==
  \/ Len(value_stack) < Len(Rhs(p))
  \/ <<Last(Popped(state_stack, Len(Rhs(p)))), Productions[p].lhs>> \notin DOMAIN tables.goto

InternalError ==
  /\ stage = "parse" /\ Cell \in DOMAIN tables.action /\ Action.kind = "Reduce"
  /\ Stuck(Action.value)
  /\ End("internal_error")

ReduceProduction ==
  /\ stage = "parse" /\ Cell \in DOMAIN tables.action /\ Action.kind = "Reduce"
  /\ Len(reduction_sequence) < MaxReductions
  /\ ~Stuck(Action.value)
  /\ LET p == Action.value
         n == Len(value_stack) - Len(Rhs(p))
         popped == Popped(state_stack, Len(Rhs(p)))
     IN /\ state_stack' = Append(popped, tables.goto[<<Last(popped), Productions[p].lhs>>])
        /\ value_stack' = Pushed(SubSeq(value_stack, 1, n),
                                 Node(p, SubSeq(value_stack, n + 1, Len(value_stack))))
        /\ reduction_sequence' = Append(reduction_sequence, p)
  /\ UNCHANGED <<generator, builder, input, token_idx>>

AcceptInput ==
  /\ stage = "parse" /\ Cell \in DOMAIN tables.action /\ Action.kind = "Accept"
  /\ End("accepted")

Next == Generate \/ Begin \/ SyntaxError \/ ShiftToken \/ ReduceProduction \/ InternalError \/ AcceptInput

Spec == Init /\ [][Next]_vars
FairSpec == Spec /\ WF_vars(Next)
-----------------------------------------------------------------------------
Ended == {"accepted", "syntax_error", "internal_error"}

(* With a builder the stacks go together, even if the tables have           *)
(* conflicts: the state stack is the path of the automaton that the values  *)
(* spell, and the values below a state end with what each of its items has  *)
(* read, so that a reduction finds its right side on the stack.             *)
StackSpellsPath ==
  builder /\ stage \in {"parse"} \cup Ended =>
    /\ Len(state_stack) = Len(value_stack) + 1 /\ state_stack[1] = 1
    /\ \A i \in DOMAIN value_stack :
         LET e == <<state_stack[i], value_stack[i].symbol>> IN
           e \in DOMAIN lalr.trans /\ lalr.trans[e] = state_stack[i + 1]
    /\ \A i \in DOMAIN state_stack : \A c \in Cores(lalr.items[state_stack[i]]) :
         /\ c.dot < i
         /\ \A j \in 1..c.dot : value_stack[i - 1 - c.dot + j].symbol = Rhs(c.prod)[j]

(* With a builder run_parser implements Derivation: every tree is made from *)
(* neighbours that spell the right side of its production, the tokens enter *)
(* once and in order, an accepted input leaves one tree of the start symbol, *)
(* and the two internal errors, a value stack that is too short and "GOTO    *)
(* table inconsistent", never happen.                                       *)
Abstract == INSTANCE Derivation
  WITH productions <- Productions, at <- token_idx, forest <- value_stack, order <- reduction_sequence,
       outcome <- IF stage \in {"parse"} \cup Ended THEN stage ELSE "none"
ImplementsDerivation == Abstract!Spec
=============================================================================
