------------------------------- MODULE MCLexer -------------------------------
(***************************************************************************)
(* The lexer and its generator, compared with what a regular expression     *)
(* means: the language its grammar gives it, cut off at words of MaxWord    *)
(* characters.                                                              *)
(***************************************************************************)
EXTENDS Lexer

CONSTANTS
  MaxSymbols,  \* bound: length of the expressions over a, b and operators
  MaxWord,     \* bound: length of the words languages are compared on
  MaxInput     \* bound: length of the texts

MCAlphabet == <<"\n", " ", "\"", "(", ")", "*", "+", "-", ".", "0", "1", "<", "=", "?",
                "[", "\\", "]", "^", "a", "b", "f", "i", "n", "|">>

Spec1(id, regex) == [id |-> id, regex |-> regex, skip |-> FALSE]
Blanks(id) == [id |-> id, regex |-> <<"[", " ", "\\", "n", "]", "+">>, skip |-> TRUE]

(* Every short expression, well formed or not, and groups under operators,  *)
(* next to the expression `ab'.                                             *)
Expressions == BoundedSeq({"a", "b", "|", "*", "(", ")"}, MaxSymbols)
                 \cup BoundedSeq({"a", "+", "?", "(", "|"}, MaxSymbols - 1)
Inner == {<<"a", "|", "b">>, <<"a", "b">>, <<"a", "*", "|", "b">>, <<"a", "|", "b", "*">>,
          <<"a", "*", "b", "*">>, <<"a", "b", "+">>, <<"a", "?", "b">>}
After == {<<"*">>, <<"+">>, <<"?">>, <<"*", "a">>, <<"+", "b">>, <<"?", "a", "*">>, <<"|", "b", "a">>}
Nested == {<<"(">> \o x \o <<")">> \o y : x \in Inner, y \in After}
ExpressionLists == {<<Spec1(2, r), Spec1(1, <<"a", "b">>)>> : r \in Expressions \cup Nested}

(* Token specifications of lexer/tokens.hpp, over fewer letters, with every *)
(* full stop escaped: tokens.hpp has it plain in the token `.' and after the *)
(* backslash of the string pattern, once for itself and once for any         *)
(* character, which is a class here.                                       *)
Keywords == <<Spec1(7, <<"i", "f">>), Spec1(9, <<"[", "f", "-", "n", "]", "[", "f", "-", "n", "0", "]", "*">>),
              Blanks(10)>>
Numbers == <<Spec1(4, <<"[", "0", "-", "1", "]", "+", "|", "[", "0", "-", "1", "]", "+", "\\", ".",
                        "[", "0", "-", "1", "]", "+">>),
             Spec1(9, <<"\\", ".">>), Blanks(10)>>
Symbols == <<Spec1(5, <<"<", "=">>), Spec1(6, <<"=", "=">>), Spec1(7, <<"<">>), Spec1(8, <<"=">>),
             Spec1(9, <<"\\", "|">>)>>
String == <<Spec1(3, <<"\"", "(", "[", "^", "\"", "\\", "\\", "]", "|", "\\", "\\", "[", "^", "\\", "n", "]", ")", "*", "\"">>),
            Spec1(9, <<"[", "a", "-", "b", "]", "+">>)>>
Malformed == {<<Spec1(1, r)>> : r \in {<<"[", "b", "-", "a", "]">>, <<"[", "]">>, <<"[", "a">>, <<"\\">>,
                                       <<"[", "a", "\\">>, <<"[", "^", "a">>}}
Tokens == {Keywords, Numbers, Symbols, String} \cup Malformed

MCSpecLists == ExpressionLists \cup Tokens

Letters(l) == CASE l = Keywords -> {"i", "f", "0", " ", "\n"}
                [] l = Numbers -> {"0", "1", ".", "\n"}
                [] l = Symbols -> {"<", "=", "|", "a"}
                [] l = String -> {"\"", "\\", "a", "."}
                [] OTHER -> {"a", "b"}
MCInputs(l) == BoundedSeq(Letters(l), IF l \in ExpressionLists THEN 3 ELSE MaxInput)

-----------------------------------------------------------------------------
(* The meaning of a regular expression.                                     *)

(* Its items: a set of characters (empty where the text is malformed; all of *)
(* them for a full stop, REPORT.md:289), or an operator.                     *)
RECURSIVE Members(_, _)
Members(r, i) ==   \* the characters listed from i up to the end of a class
  IF i > Len(r) THEN {}
  ELSE IF r[i] = "]" THEN {}
  ELSE IF r[i] = "\\" /\ i < Len(r) THEN {Escaped(r[i + 1])} \cup Members(r, i + 2)
  ELSE IF i + 2 <= Len(r) /\ r[i + 1] = "-" /\ r[i + 2] # "]"
       THEN {c \in Chars : Code(r[i]) <= Code(c) /\ Code(c) <= Code(r[i + 2])} \cup Members(r, i + 3)
  ELSE {r[i]} \cup Members(r, i + 1)

(* The end of the class, 0 where there is none.                             *)
RECURSIVE ClassEnd(_, _)
ClassEnd(r, i) ==
  IF i > Len(r) THEN 0 ELSE IF r[i] = "]" THEN i ELSE ClassEnd(r, IF r[i] = "\\" THEN i + 2 ELSE i + 1)

Item(set, op) == [set |-> set, op |-> op]

RECURSIVE Items(_, _)
Items(r, i) ==
  IF i > Len(r) THEN <<>>
  ELSE CASE r[i] \in Blank -> Items(r, i + 1)
         [] r[i] = "\\" -> <<Item(IF i < Len(r) THEN {Escaped(r[i + 1])} ELSE {}, "set")>> \o Items(r, i + 2)
         [] r[i] = "[" ->
              LET negated == i < Len(r) /\ r[i + 1] = "^"
                  first == IF negated THEN i + 2 ELSE i + 1
                  end == ClassEnd(r, first)
                  listed == Members(r, first)
              IN IF end = 0 THEN <<Item({}, "set")>>
                 ELSE <<Item(IF negated THEN Chars \ listed ELSE listed, "set")>> \o Items(r, end + 1)
         [] r[i] \in DOMAIN Metachars -> <<Item({}, r[i])>> \o Items(r, i + 1)
         [] r[i] = "." -> <<Item(Chars, "set")>> \o Items(r, i + 1)
         [] OTHER -> <<Item({r[i]}, "set")>> \o Items(r, i + 1)

Short(W) == {w \in W : Len(w) <= MaxWord}
Joined(A, B) == Short({v \o w : v \in A, w \in B})
Repeated(A) ==
  LET times[n \in 0..MaxWord] ==   \* at most n times
        IF n = 0 THEN {<<>>} ELSE LET W == times[n - 1] IN W \cup Joined(W, A)
  IN times[MaxWord]

(* The languages of the items i..j, over the letters Z: one for each way to *)
(* derive them from                                                         *)
(*   union -> union | chain ;  chain -> chain factor ;                      *)
(*   factor -> set, ( union ), factor *, factor +, factor ?                 *)
RECURSIVE Union(_, _, _, _), Chain(_, _, _, _), Factor(_, _, _, _)
Union(Z, x, i, j) ==
  Chain(Z, x, i, j) \cup
    UNION {UNION {{A \cup B : A \in Union(Z, x, i, m - 1)} : B \in Chain(Z, x, m + 1, j)} :
           m \in {m \in i..j : x[m].op = "|"}}
Chain(Z, x, i, j) ==
  Factor(Z, x, i, j) \cup
    UNION {UNION {{Joined(A, B) : A \in Chain(Z, x, i, m)} : B \in Factor(Z, x, m + 1, j)} : m \in i..(j - 1)}
Factor(Z, x, i, j) ==
  IF i > j THEN {}
  ELSE CASE i = j /\ x[i].op = "set" /\ x[i].set # {} -> {{<<c>> : c \in x[i].set \cap Z}}
         [] i < j /\ x[i].op = "(" /\ x[j].op = ")" -> Union(Z, x, i + 1, j - 1)
         [] i < j /\ x[j].op = "*" -> {Repeated(A) : A \in Factor(Z, x, i, j - 1)}
         [] i < j /\ x[j].op = "+" -> {Joined(A, Repeated(A)) : A \in Factor(Z, x, i, j - 1)}
         [] i < j /\ x[j].op = "?" -> {A \cup {<<>>} : A \in Factor(Z, x, i, j - 1)}
         [] OTHER -> {}

Languages(Z, r) == LET x == Items(r, 1) IN Union(Z, x, 1, Len(x))

(* The languages of every specification of every list.                      *)
Meaning == [l \in SpecLists |-> [i \in DOMAIN l |-> Languages(Letters(l), l[i].regex)]]

(* The specifications that w is a word of.                                  *)
Matching(l, w) == {i \in DOMAIN l : \E A \in Meaning[l][i] : w \in A}

-----------------------------------------------------------------------------
(* Properties.                                                              *)

(* The constructor throws exactly when some specification's text is not a   *)
(* regular expression.                                                      *)
RejectsMalformed ==
  /\ stage = "failed" => \E i \in DOMAIN specs : Meaning[specs][i] = {}
  /\ stage = "built"  => \A i \in DOMAIN specs : Cardinality(Meaning[specs][i]) = 1

(* The subset reached on a word, {} where there is no transition.           *)
Reached(w) ==
  FoldLeft(LAMBDA Q, c : IF Q # {} /\ c \in DOMAIN dfa.trans[Q] THEN dfa.trans[Q][c] ELSE {}, dfa.start, w)

(* The automaton built accepts the words of the specifications and no       *)
(* other, with the lowest token id of those a word belongs to.              *)
AcceptsSpecified ==
  stage = "built" =>
    \A w \in BoundedSeq(Letters(specs), MaxWord) :
      LET ids == {specs[i].id : i \in Matching(specs, w)}
          q == Reached(w)
      IN IF ids = {} THEN q \notin DOMAIN dfa.accept
                     ELSE q \in DOMAIN dfa.accept /\ dfa.accept[q] = Min(ids)

(* Construction and scanning end, on any text.                              *)
Terminates == <>(stage \in {"failed", "done", "lexical_error"})
=============================================================================
