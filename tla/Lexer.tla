-------------------------------- MODULE Lexer --------------------------------
(***************************************************************************)
(* Lexer::tokenize (lexer/lexer.cpp) over the automaton that the generator  *)
(* built.  A step is one turn of the inner loop, or the end of a lexeme.    *)
(***************************************************************************)
EXTENDS Integers, LexerGenerator

CONSTANT Inputs(_)   \* the texts to tokenize, for a list of specifications

ASSUME TextsOfChars == \A l \in SpecLists : Inputs(l) \subseteq Seq(Chars)

VARIABLES
  input,   \* the text
  pos,     \* where the lexeme under way begins
  run,     \* the automaton's run from there: its state, the position i, the
           \* last accepting state (no state: {}) and the position after it
  line, column,
  tokens   \* the tokens emitted

scanner == <<input, pos, run, line, column, tokens>>
vars == <<generator, scanner>>

RunFrom(p) == [state |-> dfa.start, i |-> p, accepted |-> {}, upto |-> p]

Init ==
  /\ GeneratorInit
  /\ input = <<>> /\ pos = 1 /\ line = 1 /\ column = 1 /\ tokens = <<>>
  /\ run = RunFrom(1)

Generate == GeneratorNext /\ UNCHANGED scanner

Start ==
  /\ stage = "built"
  /\ input' \in Inputs(specs)
  /\ run' = RunFrom(1)
  /\ stage' = "scan"
  /\ UNCHANGED <<specs, k, reading, postfixes, thompson, automata, pos, line, column, tokens>>

(* The automaton can go on.                                                 *)
Continues == run.i <= Len(input) /\ input[run.i] \in DOMAIN dfa.trans[run.state]

\* Mutant: the last accepting state is forgotten at a state that is not one.
AdvanceForgetful ==
  /\ stage = "scan" /\ pos <= Len(input) /\ Continues
  /\ LET q == dfa.trans[run.state][input[run.i]] IN
       run' = IF q \in DOMAIN dfa.accept
              THEN [state |-> q, i |-> run.i + 1, accepted |-> q, upto |-> run.i + 1]
              ELSE [state |-> q, i |-> run.i + 1, accepted |-> {}, upto |-> pos]
  /\ UNCHANGED <<generator, input, pos, line, column, tokens>>

Advance ==
  /\ stage = "scan" /\ pos <= Len(input) /\ Continues
  /\ LET q == dfa.trans[run.state][input[run.i]] IN
       run' = IF q \in DOMAIN dfa.accept
              THEN [state |-> q, i |-> run.i + 1, accepted |-> q, upto |-> run.i + 1]
              ELSE [run EXCEPT !.state = q, !.i = @ + 1]
  /\ UNCHANGED <<generator, input, pos, line, column, tokens>>

(* skip_table: the last specification of a token decides.                   *)
Skipped(id) == specs[Max({j \in DOMAIN specs : specs[j].id = id})].skip

(* The line breaks of the lexeme.                                           *)
Breaks == {j \in pos..(run.upto - 1) : input[j] = "\n"}

\* Mutant: a line break is no new beginning.
ColumnAfterRunning == column + (run.upto - pos)

ColumnAfter == IF Breaks = {} THEN column + (run.upto - pos) ELSE run.upto - Max(Breaks)

(* The end of a lexeme: the longest one found.                              *)
Emit ==
  /\ stage = "scan" /\ pos <= Len(input) /\ ~Continues /\ run.accepted # {}
  /\ line' = line + Cardinality(Breaks)
  /\ column' = ColumnAfter
  /\ LET id == dfa.accept[run.accepted] IN
       tokens' = IF Skipped(id) THEN tokens
                 ELSE Append(tokens, [id |-> id, lexeme |-> SubSeq(input, pos, run.upto - 1),
                                      line |-> line, column |-> column,
                                      end_line |-> line', end_column |-> column'])
  /\ pos' = run.upto
  /\ run' = RunFrom(run.upto)
  /\ UNCHANGED <<generator, input>>

(* "Lexical error at line ..., column ..."                                  *)
Reject ==
  /\ stage = "scan" /\ pos <= Len(input) /\ ~Continues /\ run.accepted = {}
  /\ stage' = "lexical_error"
  /\ UNCHANGED <<specs, k, reading, postfixes, thompson, automata, scanner>>

Finish ==
  /\ stage = "scan" /\ pos > Len(input)
  /\ stage' = "done"
  /\ UNCHANGED <<specs, k, reading, postfixes, thompson, automata, scanner>>

Next == Generate \/ Start \/ Advance \/ Emit \/ Reject \/ Finish

Spec == Init /\ [][Next]_vars
FairSpec == Spec /\ WF_vars(Next)
-----------------------------------------------------------------------------
(* tokenize, with the deterministic automaton and its way back to the last  *)
(* accepting state, implements MaximalMunch on the automaton that was made  *)
(* deterministic: it cuts the text into the longest lexemes, gives each the *)
(* lowest of its tokens, and the lines and columns of a token are those of  *)
(* the text, whatever has been skipped before it.                           *)
Abstract == INSTANCE MaximalMunch
  WITH at <- pos, outcome <- IF stage \in {"scan", "lexical_error", "done"} THEN stage ELSE "none"
ImplementsMaximalMunch == Abstract!Spec
=============================================================================
