------------------------------ MODULE Automata ------------------------------
(***************************************************************************)
(* What the lexer's generator and its promise share: an automaton n with     *)
(* its start state, its edges and the tokens of its accepting states, run    *)
(* on sets of states (lexer/Lexer_Generator/dfa.cpp).                       *)
(***************************************************************************)
EXTENDS Naturals, SequencesExt

Epsilon == ""   \* what an empty transition is on

(* Q and what it reaches along empty transitions (epsilon_closure).         *)
Closure(n, Q) ==
  LET after(S) == S \cup {e.to : e \in {x \in n.edges : x.from \in S /\ x.on = Epsilon}}
      close[S \in SUBSET (Q \cup {e.to : e \in n.edges})] == IF after(S) = S THEN S ELSE close[after(S)]
  IN close[Q]

Move(n, Q, c) == {e.to : e \in {x \in n.edges : x.from \in Q /\ x.on = c}}

TokensOf(n, Q) == {n.accept[q] : q \in Q \cap DOMAIN n.accept}
=============================================================================
