------------------------------ MODULE MCParser ------------------------------
(***************************************************************************)
(* The parser and its generator, compared with what the grammars derive,    *)
(* cut off at words of MaxWord tokens.                                      *)
(***************************************************************************)
EXTENDS Parser

CONSTANT MaxWord   \* bound: length of the inputs, and of the words compared

P(l, r) == [lhs |-> l, rhs |-> r]
G(N, T, s, ps) == [nonterminals |-> N, terminals |-> T, start |-> s, prods |-> ps]

(* Grammars of one or two productions for each of two nonterminals:         *)
(* recursion left, right and in the middle, empty productions, unit         *)
(* productions, ambiguity and cycles.                                       *)
StartRules == <<<<"A">>, <<"A", "A">>, <<"a", "S">>, <<"S", "b">>, <<"a", "A", "b">>, <<"A", "b">>, <<>>>>
OtherRules == <<<<>>, <<"a">>, <<"A", "b">>, <<"a", "A">>, <<"b", "A", "a">>, <<"S">>>>
Rules(X, R) == {<<P(X, R[i])>> : i \in DOMAIN R}
                 \cup UNION {{<<P(X, R[i]), P(X, R[j])>> : j \in 1..(i - 1)} : i \in DOMAIN R}
Pairs == {G({"S", "A"}, {"a", "b"}, "S", u \o v) : u \in Rules("S", StartRules), v \in Rules("A", OtherRules)}

(* LR(1) and not LALR(1); LALR(1) and not SLR(1); precedence by levels;     *)
(* the dangling else; a list in brackets that may be missing; options.      *)
Merged == G({"S", "A", "B"}, {"a", "b", "c", "d", "e"}, "S",
  <<P("S", <<"a", "A", "d">>), P("S", <<"b", "B", "d">>), P("S", <<"a", "B", "e">>),
    P("S", <<"b", "A", "e">>), P("A", <<"c">>), P("B", <<"c">>)>>)
Pointers == G({"S", "L", "R"}, {"=", "*", "i"}, "S",
  <<P("S", <<"L", "=", "R">>), P("S", <<"R">>), P("L", <<"*", "R">>), P("L", <<"i">>), P("R", <<"L">>)>>)
Sums == G({"E", "T", "F"}, {"+", "*", "(", ")", "n"}, "E",
  <<P("E", <<"E", "+", "T">>), P("E", <<"T">>), P("T", <<"T", "*", "F">>), P("T", <<"F">>),
    P("F", <<"(", "E", ")">>), P("F", <<"n">>)>>)
Dangling == G({"S"}, {"i", "e", "x"}, "S",
  <<P("S", <<"i", "S">>), P("S", <<"i", "S", "e", "S">>), P("S", <<"x">>)>>)
Lists == G({"S", "L", "O"}, {"(", ")", ",", "n"}, "S",
  <<P("S", <<"n", "O">>), P("O", <<>>), P("O", <<"(", "L", ")">>), P("L", <<"S">>),
    P("L", <<"L", ",", "S">>)>>)
Options == G({"S", "T", "O", "C"}, {"t", "o", "c", ";"}, "S",
  <<P("S", <<"T", "O", "C", ";">>), P("T", <<"t">>), P("O", <<>>), P("O", <<"o">>), P("C", <<>>), P("C", <<"c">>)>>)
Examples == {Merged, Pointers, Sums, Dangling, Lists, Options}

Productive(g) ==
  \A Q \in SUBSET g.nonterminals :
    (\A i \in DOMAIN g.prods : Range(g.prods[i].rhs) \subseteq Q \cup g.terminals => g.prods[i].lhs \in Q)
      => Q = g.nonterminals
Reachable(g) == \E i \in DOMAIN g.prods : g.prods[i].lhs = "S" /\ "A" \in Range(g.prods[i].rhs)

MCGrammars == {g \in Pairs : Productive(g) /\ Reachable(g)} \cup Examples

(* Ways to write a grammar down: a line for each alternative, with ends of   *)
(* rules and comments; a line for each rule, with actions and without        *)
(* %start; with user code, blank lines and lines that mean nothing.          *)
Words(T) == SetToSeq(T)
LeftSides(g) == SelectSeq([i \in DOMAIN g.prods |-> IF i > 1 /\ g.prods[i - 1].lhs = g.prods[i].lhs THEN "" ELSE g.prods[i].lhs],
                          LAMBDA X : X # "")
RightSides(g, X) ==
  LET of == SelectSeq(g.prods, LAMBDA p : p.lhs = X) IN [i \in DOMAIN of |-> of[i].rhs]
OnLines(g, end) ==
  FlattenSeq([i \in DOMAIN g.prods |->
    LET p == g.prods[i]
        goesOn == i > 1 /\ g.prods[i - 1].lhs = p.lhs
        last == i = Len(g.prods) \/ g.prods[i + 1].lhs # p.lhs
        rhs == IF p.rhs = <<>> THEN <<"/*", "empty", "*/">> ELSE p.rhs
    IN  <<(IF goesOn THEN <<"|">> ELSE <<p.lhs, ":">>) \o rhs>> \o (IF last THEN end ELSE <<>>)])
OnOneLine(g) ==
  [i \in DOMAIN LeftSides(g) |->
    LET X == LeftSides(g)[i]
        of == RightSides(g, X)
    IN  <<X, ":">> \o FlattenSeq([k \in DOMAIN of |-> (IF k = 1 THEN <<>> ELSE <<"|">>) \o of[k] \o <<"{", "x", "|", "{", "}", "y", "}">>])]
Section(rules) == <<<<"%%">>>> \o rules \o <<<<"%%">>>>
Layouts(g) ==
  <<<<<<"%token">> \o Words(g.terminals), <<"%start", g.start>>>> \o Section(OnLines(g, <<<<";">>>>)),
    [i \in 1..Cardinality(g.terminals) |-> <<"%token", Words(g.terminals)[i]>>] \o Section(OnOneLine(g)),
    <<<<"%{">>, <<"%token", "z">>, <<"%%">>, <<"%}">>, <<>>, <<"%start", "/*", "it", "*/", g.start>>, <<"%left", "z">>,
      <<"%token">> \o Words(g.terminals)>> \o Section(OnLines(g, <<<<";">>, <<>>, <<"|", "z">>>>)) \o <<<<g.start, ":", "z">>>>>>

Written(g, l) == [grammar |-> g, text |-> Layouts(g)[l]]
Blank == [grammar |-> G({"S"}, {"a"}, "S", <<>>), text |-> <<<<"%token", "a">>>>]
Sources == {Written(g, 1 + (Len(g.prods) % 3)) : g \in MCGrammars} \cup {Blank}
MCFiles == {s.text : s \in Sources}

(* What is written in a file.                                               *)
Intended == [t \in MCFiles |-> (CHOOSE s \in Sources : s.text = t).grammar]

MCInputs(g) == BoundedSeq(g.terminals, MaxWord)

-----------------------------------------------------------------------------
(* What a grammar derives.                                                  *)

Short(W) == {w \in W : Len(w) <= MaxWord}
Joined(A, B) == Short({v \o w : v \in A, w \in B})

(* The words of a string, and their beginnings, when the nonterminals have  *)
(* the words L and the beginnings B.                                        *)
RECURSIVE Strings(_, _), Openings(_, _, _)
Strings(L, s) == IF s = <<>> THEN {<<>>} ELSE Joined(L[Head(s)], Strings(L, Tail(s)))
Openings(L, B, s) ==
  IF s = <<>> THEN {<<>>} ELSE B[Head(s)] \cup Joined(L[Head(s)], Openings(L, B, Tail(s)))

Bodies(g, X) == {g.prods[i].rhs : i \in {j \in DOMAIN g.prods : g.prods[j].lhs = X}}

RECURSIVE Derive(_, _)
Derive(g, L) ==
  LET M == [X \in Symbols(g) |-> IF X \in g.terminals THEN {<<X>>}
                                 ELSE UNION {Strings(L, r) : r \in Bodies(g, X)}]
  IN IF M = L THEN L ELSE Derive(g, M)

RECURSIVE Opened(_, _, _)
Opened(g, L, B) ==
  LET C == [X \in Symbols(g) |-> IF X \in g.terminals THEN {<<>>, <<X>>}
                                 ELSE UNION {Openings(L, B, r) : r \in Bodies(g, X)}]
  IN IF C = B THEN B ELSE Opened(g, L, C)

Meaning ==
  [t \in MCFiles |->
     LET g == Intended[t]
         none == [X \in Symbols(g) |-> {}]
         L == Derive(g, none)
     IN [sentences |-> L[g.start], openings |-> Opened(g, L, none)[g.start]]]

Tokens == grammar.terminals \cup {Dollar}

(* What the automaton wants to do on a: complete productions, 0 for a shift. *)
Claims(n, a) ==
  {c.prod : c \in {x \in Cores(lalr.items[n]) : Complete(x) /\ a \in Lookaheads(lalr.items[n], x)}}
    \cup {0 : e \in {<<n, a>>} \cap DOMAIN lalr.trans}

Contention == {e \in (DOMAIN lalr.items) \X Tokens : Cardinality(Claims(e[1], e[2])) > 1}
Contended == Contention # {}

-----------------------------------------------------------------------------
(* Properties.                                                              *)

Consumed == SubSeq(input, 1, token_idx - 1)

(* Without contention the parser accepts sentences of the grammar only and, *)
(* with a builder, all of them.                                             *)
AcceptsLanguage ==
  /\ stage = "accepted" => input \in Meaning[text].sentences \/ Contended
  /\ stage = "syntax_error" /\ builder => input \notin Meaning[text].sentences \/ Contended

(* The token of a syntax error is the first one after which no sentence can *)
(* follow: merged lookaheads delay the error by reductions, by no token.    *)
(* Tables with conflicts still consume nothing else than a sentence's       *)
(* beginning.                                                               *)
ErrorAtFirstBadToken ==
  stage = "syntax_error" =>
    /\ Consumed \in Meaning[text].openings
    /\ Token # Dollar => Append(Consumed, Token) \notin Meaning[text].openings \/ Contended
    /\ Token = Dollar => Consumed \notin Meaning[text].sentences \/ Contended

(* The three fixpoints of the generator are reached and, without            *)
(* contention, the parser ends every input within MaxReductions reductions. *)
ParsingEnds == <>(stage \in Ended \cup {"no_grammar"} \/ (stage = "built" /\ Contended))
=============================================================================
