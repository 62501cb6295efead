---------------------------- MODULE MaximalMunch ----------------------------
(***************************************************************************)
(* What Lexer::tokenize promises, a step per lexeme: the text is cut, from   *)
(* its beginning and without gaps, into the longest lexemes that the         *)
(* nondeterministic automaton accepts, each with the lowest token of those   *)
(* it belongs to and with the lines and columns where it begins and ends;    *)
(* the text is refused where no lexeme begins.  There is no deterministic    *)
(* automaton here, and no way back.                                          *)
(***************************************************************************)
EXTENDS Integers, Automata

VARIABLES
  nfa,      \* the automaton of all specifications
  specs,    \* these
  input,
  at,       \* where the next lexeme begins
  tokens,
  outcome   \* "none" until the text is there, "scan", then how it ended

automaton == <<nfa, specs, input>>
vars == <<automaton, at, tokens, outcome>>

(* The states that the automaton can be in before each character from p on. *)
Reached(p) ==
  LET after[q \in p..(Len(input) + 1)] ==
        IF q = p THEN Closure(nfa, {nfa.start})
        ELSE LET Q == Move(nfa, after[q - 1], input[q - 1]) IN IF Q = {} THEN {} ELSE Closure(nfa, Q)
  IN  after

(* The places right after the lexemes that begin at p.                      *)
Ends(p) ==
  LET reached == Reached(p) IN {q \in (p + 1)..(Len(input) + 1) : TokensOf(nfa, reached[q]) # {}}

Newlines(p) == {j \in 1..(p - 1) : input[j] = "\n"}
Line(p) == 1 + Cardinality(Newlines(p))
Column(p) == p - Max({0} \cup Newlines(p))

TokenBetween(p, q) ==
  [id |-> Min(TokensOf(nfa, Reached(p)[q])), lexeme |-> SubSeq(input, p, q - 1),
   line |-> Line(p), column |-> Column(p), end_line |-> Line(q), end_column |-> Column(q)]

(* The last specification of a token says whether it is left out.           *)
LeftOut(t) == specs[Max({j \in DOMAIN specs : specs[j].id = t.id})].skip

Init == outcome = "none" /\ at = 1 /\ tokens = <<>>

Prepare == outcome = "none" /\ outcome' \in {"none", "scan"} /\ UNCHANGED <<at, tokens>>

Cut ==
  /\ outcome = "scan" /\ Ends(at) # {}
  /\ at' = Max(Ends(at))
  /\ LET t == TokenBetween(at, at') IN tokens' = IF LeftOut(t) THEN tokens ELSE Append(tokens, t)
  /\ UNCHANGED <<automaton, outcome>>

Refuse ==
  /\ outcome = "scan" /\ at <= Len(input) /\ Ends(at) = {}
  /\ outcome' = "lexical_error"
  /\ UNCHANGED <<automaton, at, tokens>>

Finish ==
  /\ outcome = "scan" /\ at = Len(input) + 1
  /\ outcome' = "done"
  /\ UNCHANGED <<automaton, at, tokens>>

Next == Prepare \/ Cut \/ Refuse \/ Finish
Spec == Init /\ [][Next]_vars
=============================================================================
