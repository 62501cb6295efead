--------------------------- MODULE LexerGenerator ---------------------------
(***************************************************************************)
(* From token specifications to the lexer's automaton, as the constructor   *)
(* Lexer(specs) runs it: the reader of regular expressions and the          *)
(* shunting yard (lexer/Lexer_Generator/preprocessor.cpp), Thompson's       *)
(* construction and the union of the automata (nfa.cpp), the subset         *)
(* construction (dfa.cpp).                                                  *)
(*                                                                         *)
(* A step is one turn of the loop under way.  A state of the DFA is the set *)
(* of NFA states it stands for; the code numbers these sets.                *)
(***************************************************************************)
EXTENDS Automata

CONSTANTS
  Alphabet,   \* the characters, a sequence in the order of their codes
  SpecLists   \* the lists of token specifications the lexer is built from

Chars == ToSet(Alphabet)
Specs == [id : Nat, regex : Seq(Chars), skip : BOOLEAN]

ASSUME AlphabetOrdered == Alphabet \in Seq(STRING) /\ IsInjective(Alphabet)
ASSUME SpecListsTyped == \A l \in SpecLists : l \in Seq(Specs) /\ l # <<>>

(* chars.back() on an empty vector: a range right after `[^'.               *)
ASSUME NoLeadingRange ==
  \A l \in SpecLists : \A i \in DOMAIN l : LET r == l[i].regex IN
    \A j \in 1..(Len(r) - 3) : SubSeq(r, j, j + 2) = <<"[", "^", "-">> => r[j + 3] = "]"

VARIABLES
  stage,      \* the loop under way, or how construction ended
  specs,      \* the list given to the constructor
  k,          \* the specification the loop is at
  at,         \* the position in its regular expression, infix or postfix form
  class,      \* the character class being read
  infix,      \* its RegexTokens
  yard,       \* operator stack and output of to_postfix
  postfixes,  \* the postfix forms of the specifications done
  frags,      \* the stack of fragments
  edges,      \* transitions of the automaton being built
  counter,    \* state_counter
  nfas,       \* the automata of the specifications done
  nfa,        \* their union
  dfa,        \* the subsets met, the transitions and the tokens of accepting states
  worklist    \* subsets whose transitions are to be computed

reading   == <<at, class, infix, yard>>
thompson  == <<frags, edges, counter, nfas>>
automata  == <<nfa, dfa, worklist>>
generator == <<stage, specs, k, reading, postfixes, thompson, automata>>

-----------------------------------------------------------------------------
(* Reading a regular expression.                                            *)

Literal(c) == [type |-> "Literal", value |-> c]
Op(type)   == [type |-> type, value |-> ""]
Unary      == {"Star", "Plus", "Optional"}
Operators  == Unary \cup {"Union", "Concat", "LParen", "RParen"}
RegexTokens == [type : {"Literal"}, value : Chars] \cup [type : Operators, value : {""}]

Metachars == [c \in {"|", "*", "+", "?", "(", ")"} |->
                CASE c = "|" -> "Union" [] c = "*" -> "Star" [] c = "+" -> "Plus"
                  [] c = "?" -> "Optional" [] c = "(" -> "LParen" [] OTHER -> "RParen"]
Blank == {" ", "\n", "\t", "\r"}
Escaped(c) == CASE c = "n" -> "\n" [] c = "r" -> "\r" [] c = "t" -> "\t" [] OTHER -> c

Regex == specs[k].regex
Here == Regex[at]
NoClass == [negated |-> FALSE, chars |-> <<>>]
NoDFA == [states |-> {}, start |-> {}, trans |-> <<>>, accept |-> <<>>]

GeneratorInit ==
  /\ specs \in SpecLists
  /\ stage = "read" /\ k = 1 /\ at = 1
  /\ class = NoClass /\ infix = <<>>
  /\ yard = [stack |-> <<>>, output |-> <<>>]
  /\ postfixes = <<>>
  /\ frags = <<>> /\ edges = {} /\ counter = 0 /\ nfas = <<>>
  /\ nfa = [start |-> 0, edges |-> {}, accept |-> <<>>]
  /\ dfa = NoDFA /\ worklist = {}

(* A std::runtime_error out of the constructor.                             *)
Fail == stage' = "failed" /\ UNCHANGED <<specs, k, reading, postfixes, thompson, automata>>

(* regex_to_RegexTokens outside character classes.  `.' is a literal.       *)
ReadChar ==
  /\ stage = "read" /\ at <= Len(Regex) /\ Here # "["
  /\ IF Here = "\\" /\ at = Len(Regex) THEN Fail
     ELSE /\ infix' = CASE Here \in Blank -> infix
                        [] Here = "\\" -> Append(infix, Literal(Escaped(Regex[at + 1])))
                        [] Here \in DOMAIN Metachars -> Append(infix, Op(Metachars[Here]))
                        [] OTHER -> Append(infix, Literal(Here))
          /\ at' = IF Here = "\\" THEN at + 2 ELSE at + 1
          /\ UNCHANGED <<stage, specs, k, class, yard, postfixes, thompson, automata>>

(* parse_char_class up to its loop.                                         *)
OpenClass ==
  /\ stage = "read" /\ at <= Len(Regex) /\ Here = "["
  /\ LET negated == at < Len(Regex) /\ Regex[at + 1] = "^" IN
       /\ class' = [negated |-> negated, chars |-> <<>>]
       /\ at' = IF negated THEN at + 2 ELSE at + 1
  /\ stage' = "class"
  /\ UNCHANGED <<specs, k, infix, yard, postfixes, thompson, automata>>

Code(c) == CHOOSE i \in DOMAIN Alphabet : Alphabet[i] = c
IsRange == Here = "-" /\ Regex[at - 1] # "[" /\ at < Len(Regex) /\ Regex[at + 1] # "]"

(* One turn of its loop: an escape, a range, or a character.                *)
ReadClassChar ==
  /\ stage = "class" /\ at <= Len(Regex) /\ Here # "]"
  /\ IF \/ Here = "\\" /\ at = Len(Regex)
        \/ IsRange /\ Code(Last(class.chars)) > Code(Regex[at + 1])
     THEN Fail
     ELSE /\ class' = [class EXCEPT !.chars =
               CASE Here = "\\" -> Append(@, Escaped(Regex[at + 1]))
                 [] IsRange -> Front(@) \o SubSeq(Alphabet, Code(Last(@)), Code(Regex[at + 1]))
                 [] OTHER -> Append(@, Here)]
          /\ at' = IF Here = "\\" \/ IsRange THEN at + 2 ELSE at + 1
          /\ UNCHANGED <<stage, specs, k, infix, yard, postfixes, thompson, automata>>

(* ( c1 | c2 | ... )                                                        *)
Alternatives(s) ==
  <<Op("LParen")>> \o Tail(FlattenSeq([i \in DOMAIN s |-> <<Op("Union"), Literal(s[i])>>]))
                   \o <<Op("RParen")>>

(* What follows the loop.                                                   *)
CloseClass ==
  /\ stage = "class" /\ (at <= Len(Regex) => Here = "]")
  /\ LET chars == IF class.negated THEN SelectSeq(Alphabet, LAMBDA c : ~Contains(class.chars, c))
                                   ELSE class.chars
     IN IF at > Len(Regex) \/ chars = <<>> THEN Fail
        ELSE /\ infix' = infix \o Alternatives(chars)
             /\ stage' = "read"
             /\ at' = at + 1
             /\ UNCHANGED <<specs, k, class, yard, postfixes, thompson, automata>>

-----------------------------------------------------------------------------
(* Infix to postfix.                                                        *)

CanEnd(t)   == t.type \in {"Literal", "RParen"} \cup Unary
CanStart(t) == t.type \in {"Literal", "LParen"}

InsertConcat(s) ==
  FlattenSeq([i \in DOMAIN s |->
    IF i > 1 /\ CanEnd(s[i - 1]) /\ CanStart(s[i]) THEN <<Op("Concat"), s[i]>> ELSE <<s[i]>>])

Precedence(t) ==
  CASE t.type \in Unary -> 3 [] t.type = "Concat" -> 2 [] t.type = "Union" -> 1 [] OTHER -> 0

(* The end of the text: regex_to_RegexTokens returns, insert_concat runs.   *)
EndRegex ==
  /\ stage = "read" /\ at > Len(Regex)
  /\ infix' = InsertConcat(infix)
  /\ stage' = "shunt"
  /\ at' = 1
  /\ UNCHANGED <<specs, k, class, yard, postfixes, thompson, automata>>

(* The stack from its n-th entry up, moved to the output.                   *)
PoppedDownTo(n) ==
  [stack |-> SubSeq(yard.stack, 1, n),
   output |-> yard.output \o Reverse(SubSeq(yard.stack, n + 1, Len(yard.stack)))]
Pushed(y, t) == [y EXCEPT !.stack = Append(@, t)]

(* to_postfix, one token.                                                   *)
Shunt ==
  /\ stage = "shunt" /\ at <= Len(infix)
  /\ LET t == infix[at]
         open == SelectLastInSeq(yard.stack, LAMBDA u : u.type = "LParen")
         kept == SelectLastInSeq(yard.stack, LAMBDA u : Precedence(u) < Precedence(t))
     IN IF t.type = "RParen" /\ open = 0 THEN Fail
        ELSE /\ yard' = CASE t.type = "Literal" -> [yard EXCEPT !.output = Append(@, t)]
                          [] t.type = "LParen"  -> Pushed(yard, t)
                          [] t.type = "RParen"  -> [PoppedDownTo(open) EXCEPT !.stack = Front(@)]
                          [] OTHER              -> Pushed(PoppedDownTo(kept), t)
             /\ at' = at + 1
             /\ UNCHANGED <<stage, specs, k, class, infix, postfixes, thompson, automata>>

\* Mutant: a parenthesis that is still open is dropped.
EndShuntLenient ==
  /\ stage = "shunt" /\ at > Len(infix)
  /\ postfixes' = Append(postfixes, SelectSeq(PoppedDownTo(0).output, LAMBDA t : t.type # "LParen"))
  /\ infix' = <<>> /\ class' = NoClass /\ at' = 1
  /\ yard' = [stack |-> <<>>, output |-> <<>>]
  /\ IF k < Len(specs) THEN stage' = "read" /\ k' = k + 1
                       ELSE stage' = "thompson" /\ k' = 1
  /\ UNCHANGED <<specs, thompson, automata>>

(* Its end: the next specification, or Thompson's construction of the first *)
(* one.                                                                     *)
EndShunt ==
  /\ stage = "shunt" /\ at > Len(infix)
  /\ IF \E i \in DOMAIN yard.stack : yard.stack[i].type = "LParen" THEN Fail
     ELSE /\ postfixes' = Append(postfixes, PoppedDownTo(0).output)
          /\ infix' = <<>> /\ class' = NoClass /\ at' = 1
          /\ yard' = [stack |-> <<>>, output |-> <<>>]
          /\ IF k < Len(specs) THEN stage' = "read" /\ k' = k + 1
                               ELSE stage' = "thompson" /\ k' = 1
          /\ UNCHANGED <<specs, thompson, automata>>

-----------------------------------------------------------------------------
(* Thompson's construction.                                                 *)

Edge(p, c, q) == [from |-> p, on |-> c, to |-> q]
Postfix == postfixes[k]
Top == Last(frags)
Below == frags[Len(frags) - 1]

AddLiteral ==
  /\ stage = "thompson" /\ at <= Len(Postfix) /\ Postfix[at].type = "Literal"
  /\ edges' = edges \cup {Edge(counter, Postfix[at].value, counter + 1)}
  /\ frags' = Append(frags, [start |-> counter, accept |-> counter + 1])
  /\ counter' = counter + 2
  /\ at' = at + 1
  /\ UNCHANGED <<stage, specs, k, class, infix, yard, postfixes, nfas, automata>>

AddConcat ==
  /\ stage = "thompson" /\ at <= Len(Postfix) /\ Postfix[at].type = "Concat"
  /\ IF Len(frags) < 2 THEN Fail
     ELSE /\ edges' = edges \cup {Edge(Below.accept, Epsilon, Top.start)}
          /\ frags' = Append(Front(Front(frags)), [start |-> Below.start, accept |-> Top.accept])
          /\ at' = at + 1
          /\ UNCHANGED <<stage, specs, k, class, infix, yard, postfixes, counter, nfas, automata>>

AddUnion ==
  /\ stage = "thompson" /\ at <= Len(Postfix) /\ Postfix[at].type = "Union"
  /\ IF Len(frags) < 2 THEN Fail
     ELSE /\ edges' = edges \cup
                        UNION {{Edge(counter, Epsilon, f.start), Edge(f.accept, Epsilon, counter + 1)} :
                               f \in {Below, Top}}
          /\ frags' = Append(Front(Front(frags)), [start |-> counter, accept |-> counter + 1])
          /\ counter' = counter + 2
          /\ at' = at + 1
          /\ UNCHANGED <<stage, specs, k, class, infix, yard, postfixes, nfas, automata>>

\* Mutant: the loop of a star is made of the fragment's own states.
AddUnaryInPlace ==
  /\ stage = "thompson" /\ at <= Len(Postfix) /\ Postfix[at].type \in Unary
  /\ IF frags = <<>> THEN Fail
     ELSE LET type == Postfix[at].type IN
          /\ edges' = edges
               \cup (IF type \in {"Star", "Optional"} THEN {Edge(Top.start, Epsilon, Top.accept)} ELSE {})
               \cup (IF type \in {"Star", "Plus"} THEN {Edge(Top.accept, Epsilon, Top.start)} ELSE {})
          /\ at' = at + 1
          /\ UNCHANGED <<stage, specs, k, class, infix, yard, postfixes, frags, counter, nfas, automata>>

(* Star, Plus, Optional: a fragment of two new states around the old one.   *)
AddUnary ==
  /\ stage = "thompson" /\ at <= Len(Postfix) /\ Postfix[at].type \in Unary
  /\ IF frags = <<>> THEN Fail
     ELSE LET type == Postfix[at].type IN
          /\ edges' = edges
               \cup {Edge(counter, Epsilon, Top.start), Edge(Top.accept, Epsilon, counter + 1)}
               \cup (IF type \in {"Star", "Optional"} THEN {Edge(counter, Epsilon, counter + 1)} ELSE {})
               \cup (IF type \in {"Star", "Plus"} THEN {Edge(Top.accept, Epsilon, Top.start)} ELSE {})
          /\ frags' = Append(Front(frags), [start |-> counter, accept |-> counter + 1])
          /\ counter' = counter + 2
          /\ at' = at + 1
          /\ UNCHANGED <<stage, specs, k, class, infix, yard, postfixes, nfas, automata>>

\* Mutant: every automaton numbers its states from 0.
EndPostfixRestart ==
  /\ stage = "thompson" /\ at > Len(Postfix)
  /\ IF Len(frags) # 1 THEN Fail
     ELSE /\ nfas' = Append(nfas, [start |-> Top.start, accept |-> Top.accept, edges |-> edges])
          /\ frags' = <<>> /\ edges' = {} /\ at' = 1
          /\ IF k < Len(specs) THEN k' = k + 1 /\ counter' = 0 /\ UNCHANGED stage
                               ELSE stage' = "unite" /\ UNCHANGED <<k, counter>>
          /\ UNCHANGED <<specs, class, infix, yard, postfixes, automata>>

(* The end of the postfix form: one fragment is left, the automaton.        *)
EndPostfix ==
  /\ stage = "thompson" /\ at > Len(Postfix)
  /\ IF Len(frags) # 1 THEN Fail
     ELSE /\ nfas' = Append(nfas, [start |-> Top.start, accept |-> Top.accept, edges |-> edges])
          /\ frags' = <<>> /\ edges' = {} /\ at' = 1
          /\ IF k < Len(specs) THEN k' = k + 1 /\ UNCHANGED stage
                               ELSE stage' = "unite" /\ UNCHANGED k
          /\ UNCHANGED <<specs, class, infix, yard, postfixes, counter, automata>>

-----------------------------------------------------------------------------
(* One automaton for all specifications, and its determinisation.           *)

(* The states of the i-th automaton, moved by its offset.                   *)
Copied(i, q) == q + counter + i

(* unite_nfas and the start of nfa_to_dfa.                                  *)
Unite ==
  /\ stage = "unite"
  /\ nfa' = [start |-> counter,
             edges |-> {Edge(counter, Epsilon, Copied(i, nfas[i].start)) : i \in DOMAIN nfas} \cup
                       UNION {{Edge(Copied(i, e.from), e.on, Copied(i, e.to)) : e \in nfas[i].edges} :
                              i \in DOMAIN nfas},
             accept |-> [q \in {Copied(i, nfas[i].accept) : i \in DOMAIN nfas} |->
                           specs[CHOOSE i \in DOMAIN nfas : q = Copied(i, nfas[i].accept)].id]]
  /\ LET start == Closure(nfa', {counter}) IN
       /\ dfa' = [states |-> {start}, start |-> start, trans |-> <<>>, accept |-> <<>>]
       /\ worklist' = {start}
  /\ counter' = counter + 1 + Len(nfas)
  /\ stage' = "subset"
  /\ UNCHANGED <<specs, k, reading, postfixes, frags, edges, nfas>>

Outgoing(Q) ==
  [c \in {c \in Chars : Move(nfa, Q, c) # {}} |-> Closure(nfa, Move(nfa, Q, c))]

(* f with the value v at x.                                                 *)
With(f, x, v) == [y \in DOMAIN f \cup {x} |-> IF y = x THEN v ELSE f[y]]

(* Q, taken from the worklist, with what leads out of it.                   *)
Explored(Q) ==
  [dfa EXCEPT !.states = @ \cup Range(Outgoing(Q)),
              !.trans = With(@, Q, Outgoing(Q)),
              !.accept = IF TokensOf(nfa, Q) = {} THEN @ ELSE With(@, Q, Min(TokensOf(nfa, Q)))]

\* Mutant: only the subsets still queued count as met.
SubsetForgets ==
  /\ stage = "subset" /\ worklist # {}
  /\ LET Q == CHOOSE x \in worklist : TRUE
     IN worklist' = (worklist \ {Q}) \cup Range(Outgoing(Q)) /\ dfa' = Explored(Q)
  /\ UNCHANGED <<stage, specs, k, reading, postfixes, thompson, nfa>>

(* One subset taken from the worklist of nfa_to_dfa; their order makes a    *)
(* difference to their numbers only.                                        *)
Subset ==
  /\ stage = "subset" /\ worklist # {}
  /\ LET Q == CHOOSE x \in worklist : TRUE
     IN worklist' = (worklist \ {Q}) \cup (Range(Outgoing(Q)) \ dfa.states) /\ dfa' = Explored(Q)
  /\ UNCHANGED <<stage, specs, k, reading, postfixes, thompson, nfa>>

EndSubset ==
  /\ stage = "subset" /\ worklist = {}
  /\ stage' = "built"
  /\ UNCHANGED <<specs, k, reading, postfixes, thompson, automata>>

GeneratorNext ==
  \/ ReadChar \/ OpenClass \/ ReadClassChar \/ CloseClass \/ EndRegex
  \/ Shunt \/ EndShunt
  \/ AddLiteral \/ AddConcat \/ AddUnion \/ AddUnary \/ EndPostfix
  \/ Unite \/ Subset \/ EndSubset
-----------------------------------------------------------------------------
(* Thompson's construction composes automata by their ends only: the        *)
(* fragments on the stack share no state, nothing enters a start and        *)
(* nothing leaves an accepting state.                                       *)
FragmentsSealed ==
  stage = "thompson" =>
    /\ \A i, j \in DOMAIN frags :
         i # j => {frags[i].start, frags[i].accept} \cap {frags[j].start, frags[j].accept} = {}
    /\ \A i \in DOMAIN frags : \A e \in edges : e.to # frags[i].start /\ e.from # frags[i].accept
=============================================================================
