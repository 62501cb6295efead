---------------------------- MODULE GrammarReader ----------------------------
(***************************************************************************)
(* Reading grammar.y (parser/Parser_Generator/genparser.hpp), a step to get *)
(* a line and one to handle it.  A line is a sequence of words and of the    *)
(* marks that the reader looks for; blanks are gone.  Lines it has no use    *)
(* for are passed over, also those that go on with an alternative of the     *)
(* line before.                                                             *)
(***************************************************************************)
EXTENDS Integers, SequencesExt

CONSTANTS
  Files,      \* the grammar files considered
  Augmented   \* the left side of the production added for the start symbol

VARIABLES
  stage,           \* "read" until the grammar is built
  text,            \* the lines of the file
  at,              \* the next one
  line,            \* the one under way, <<>> between two
  in_productions,  \* between the lines %%
  in_user_code,
  current_lhs,     \* the rule under way, "" when there is none
  grammar          \* what has been read; then the grammar

file == <<text, line, in_productions, in_user_code, current_lhs>>

Symbols(g) == g.terminals \cup g.nonterminals

Ascending(S, n) ==
  LET up[i \in 0..n] == IF i = 0 THEN <<>> ELSE IF i \in S THEN Append(up[i - 1], i) ELSE up[i - 1]
  IN  up[n]

(* remove_c_comments: a comment ends with its line at the latest.           *)
Uncommented(words) ==
  LET inside[i \in 0..Len(words)] == i > 0 /\ IF inside[i - 1] THEN words[i] # "*/" ELSE words[i] = "/*"
      kept == Ascending({i \in DOMAIN words : ~inside[i - 1] /\ words[i] # "/*"}, Len(words))
  IN  [i \in DOMAIN kept |-> words[kept[i]]]

(* The alternatives of a line after a place in it: bars part them, except    *)
(* within actions, and what follows a brace is dropped.  A bar at the end of  *)
(* the line has no alternative after it; no words at all are the empty one.   *)
Alternatives(from) ==
  LET count(w, i) == Cardinality({j \in (from + 1)..i : line[j] = w})
      bars == {i \in (from + 1)..Len(line) : line[i] = "|" /\ count("{", i) = count("}", i)}
      braces == {i \in (from + 1)..Len(line) : line[i] = "{"}
      alternative[i \in DOMAIN line] ==
        SubSeq(line, i + 1, Min({j \in bars \cup braces : j > i} \cup {Len(line) + 1}) - 1)
      starts == Ascending({from} \cup (bars \ {Len(line)}), Len(line))
  IN  [k \in DOMAIN starts |-> alternative[starts[k]]]

(* parse_production_line: symbols that are no tokens are nonterminals.      *)
AddRules(lhs, alts) ==
  grammar' = [grammar EXCEPT
                !.prods = @ \o [i \in DOMAIN alts |-> [lhs |-> lhs, rhs |-> alts[i]]],
                !.nonterminals = @ \cup {lhs} \cup (UNION {ToSet(alts[i]) : i \in DOMAIN alts} \ grammar.terminals)]
-----------------------------------------------------------------------------
ReaderInit ==
  /\ stage = "read" /\ text \in Files /\ at = 1 /\ line = <<>>
  /\ in_productions = FALSE /\ in_user_code = FALSE /\ current_lhs = ""
  /\ grammar = [terminals |-> {}, nonterminals |-> {}, start |-> "", prods |-> <<>>]

Place(mark) == SelectInSeq(line, LAMBDA w : w = mark)   \* 0 when it is not there
Has(mark) == Place(mark) > 0
After(mark) == SubSeq(line, Place(mark) + 1, Len(line))

(* Blank lines and comments are passed over here.                           *)
GetLine ==
  /\ stage = "read" /\ line = <<>> /\ at <= Len(text)
  /\ line' = Uncommented(text[at])
  /\ at' = at + 1
  /\ UNCHANGED <<stage, text, in_productions, in_user_code, current_lhs, grammar>>

Handle == stage = "read" /\ line # <<>> /\ line' = <<>> /\ UNCHANGED <<stage, text, at>>
InGrammar == Handle /\ ~in_user_code /\ ~Has("%{") /\ ~Has("%}")
InRules == InGrammar /\ in_productions /\ line # <<"%%">>

UserCode ==
  /\ Handle /\ (in_user_code \/ Has("%{") \/ Has("%}"))
  /\ in_user_code' = (Has("%{") \/ (in_user_code /\ ~Has("%}")))
  /\ UNCHANGED <<in_productions, current_lhs, grammar>>

Separator ==
  /\ InGrammar /\ line = <<"%%">>
  /\ in_productions' = ~in_productions
  /\ UNCHANGED <<in_user_code, current_lhs, grammar>>

Declaration ==
  /\ InGrammar /\ line # <<"%%">> /\ ~in_productions
  /\ grammar' = [grammar EXCEPT !.terminals = IF Has("%token") THEN @ \cup ToSet(After("%token")) ELSE @,
                                !.start = IF Has("%start") /\ After("%start") # <<>> THEN Head(After("%start")) ELSE @]
  /\ UNCHANGED <<in_productions, in_user_code, current_lhs>>

Rule ==
  /\ InRules /\ Has(":")
  /\ current_lhs' = line[1]
  /\ AddRules(line[1], Alternatives(Place(":")))
  /\ UNCHANGED <<in_productions, in_user_code>>

Alternative ==
  /\ InRules /\ ~Has(":") /\ current_lhs # "" /\ line[1] = "|"
  /\ AddRules(current_lhs, Alternatives(1))
  /\ UNCHANGED <<in_productions, in_user_code, current_lhs>>

EndRule ==
  /\ InRules /\ line = <<";">>
  /\ current_lhs' = ""
  /\ UNCHANGED <<in_productions, in_user_code, grammar>>

(* A line of the rules that is none of the above.                           *)
PassOver ==
  /\ InRules /\ line # <<";">> /\ ~Has(":") /\ (current_lhs = "" \/ line[1] # "|")
  /\ UNCHANGED <<in_productions, in_user_code, current_lhs, grammar>>

(* build_grammar_from_spec: without %start, the first rule's left side.      *)
BuildGrammar ==
  /\ stage = "read" /\ line = <<>> /\ at > Len(text)
  /\ IF grammar.start = "" /\ grammar.prods = <<>>
     THEN stage' = "no_grammar" /\ UNCHANGED grammar
     ELSE LET start == IF grammar.start = "" THEN grammar.prods[1].lhs ELSE grammar.start
          IN  /\ grammar' = [grammar EXCEPT !.start = start, !.nonterminals = @ \cup ({start} \ grammar.terminals)]
              /\ stage' = "first"
  /\ at' = 1
  /\ UNCHANGED file

ReaderNext ==
  \/ GetLine \/ UserCode \/ Separator \/ Declaration \/ Rule \/ Alternative \/ EndRule \/ PassOver \/ BuildGrammar
=============================================================================
