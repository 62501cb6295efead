--------------------------- MODULE ParserGenerator ---------------------------
(***************************************************************************)
(* From a grammar to LALR(1) tables, as LALRBuilder::build runs it: nullable *)
(* and FIRST (parser/utils/First_Comp/first.cpp), the canonical collection   *)
(* and its merge (parser/Parser_Generator/lalr_algorithms.cpp), the tables   *)
(* and their conflicts (parser_builder.cpp).                                 *)
(*                                                                         *)
(* A step is one turn of the loop under way; at is the production that the  *)
(* sweep is at.  Every nonterminal has to derive a word.  An item is a       *)
(* production, a dot and one lookahead; a state is a set of items, numbered  *)
(* as it is found.  The order in which symbols and items wait makes no difference    *)
(* and is left out, except where it decides between reductions: there it is *)
(* that of an unordered_map, any order.                                     *)
(***************************************************************************)
EXTENDS GrammarReader

CONSTANT Dollar   \* the end of the input

(* A file is a sequence of lines of words.  The two symbols that            *)
(* build_grammar_from_spec adds are none of them: S' always gets an          *)
(* identifier of its own, and no grammar has a token $.                     *)
WordsOf(t) == UNION {ToSet(t[i]) : i \in DOMAIN t}

ASSUME FilesOfWords ==
  \A t \in Files : t \in Seq(Seq(WordsOf(t))) /\ Augmented \notin WordsOf(t) /\ Dollar \notin WordsOf(t)

(* build_grammar_from_spec adds the last production.                        *)
ProductionsOf(g) == Append(g.prods, [lhs |-> Augmented, rhs |-> <<g.start>>])

VARIABLES
  changed,    \* the sweep has added something
  nullable,   \* nonterminals found nullable
  first,      \* FIRST of the nonterminals
  states,     \* the states of the canonical collection, a sequence
  trans,      \* its transitions: [state, symbol] -> state
  current,    \* the state under expansion; those after it wait
  symbols,    \* the symbols after a dot in it, still to be followed
  next,       \* the state being closed
  queue,      \* items of it to be closed, without lookahead
  lalr,       \* the merged automaton: the items of its states, transitions
  tables,     \* ACTION and GOTO
  pending,    \* complete items not entered in ACTION yet
  conflicts   \* the cells of the recorded conflicts

sweep      == <<at, changed, nullable, first>>
collection == <<states, trans>>
expansion  == <<current, symbols, next, queue>>
filling    == <<tables, pending, conflicts>>
generator  == <<stage, file, grammar, sweep, collection, expansion, lalr, filling>>

-----------------------------------------------------------------------------
Productions == ProductionsOf(grammar)
Rhs(p) == Productions[p].rhs
Nonterminals == grammar.nonterminals \cup {Augmented}
Start == Len(Productions)

GeneratorInit ==
  /\ ReaderInit
  /\ changed = FALSE /\ nullable = {} /\ first = <<>>
  /\ states = <<>> /\ trans = <<>>
  /\ current = 0 /\ symbols = {} /\ next = {} /\ queue = {}
  /\ lalr = [items |-> <<>>, trans |-> <<>>]
  /\ tables = [action |-> <<>>, goto |-> <<>>]
  /\ pending = {} /\ conflicts = {}

(* The reader; the sets are empty when the grammar has been built.          *)
ReadFile ==
  /\ ReaderNext
  /\ first' = IF stage' = "first" THEN [X \in grammar'.nonterminals \cup {Augmented} |-> {}] ELSE first
  /\ UNCHANGED <<changed, nullable, collection, expansion, lalr, filling>>

(* FIRST of a string, from what is known: the symbols up to the first that  *)
(* cannot vanish.                                                           *)
AllNullable(N, s) == \A i \in DOMAIN s : s[i] \in N
OfSymbol(F, X) == IF X \in DOMAIN F THEN F[X] ELSE {X}

\* Mutant: never looks past the first symbol, though it may vanish.
FirstOfHead(N, F, s) == IF s = <<>> THEN {} ELSE OfSymbol(F, s[1])

FirstOf(N, F, s) ==
  UNION {OfSymbol(F, s[i]) : i \in {j \in DOMAIN s : AllNullable(N, SubSeq(s, 1, j - 1))}}

(* compute_nullable_first: one production of a sweep.                       *)
SweepProduction ==
  /\ stage = "first" /\ at <= Len(Productions)
  /\ LET p == Productions[at] IN
       /\ nullable' = IF AllNullable(nullable, p.rhs) THEN nullable \cup {p.lhs} ELSE nullable
       /\ first' = [first EXCEPT ![p.lhs] = @ \cup FirstOf(nullable', first, p.rhs)]
  /\ changed' = (changed \/ nullable' # nullable \/ first' # first)
  /\ at' = at + 1
  /\ UNCHANGED <<stage, file, grammar, collection, expansion, lalr, filling>>

\* Mutant: `changed' is not cleared.
EndSweepNoReset ==
  /\ stage = "first" /\ at > Len(Productions) /\ changed
  /\ at' = 1
  /\ UNCHANGED <<stage, file, grammar, changed, nullable, first, collection, expansion, lalr, filling>>

EndSweep ==
  /\ stage = "first" /\ at > Len(Productions)
  /\ at' = 1 /\ changed' = FALSE
  /\ IF changed THEN UNCHANGED <<stage, next, queue>>
     ELSE /\ stage' = "close"
          /\ next' = {[prod |-> Start, dot |-> 0, la |-> Dollar]}
          /\ queue' = {[prod |-> Start, dot |-> 0]}
  /\ UNCHANGED <<file, grammar, nullable, first, collection, current, symbols, lalr, filling>>

-----------------------------------------------------------------------------
(* The canonical collection.                                                *)

ItemCore(it) == [prod |-> it.prod, dot |-> it.dot]
Cores(I) == {ItemCore(it) : it \in I}
Complete(c) == c.dot = Len(Rhs(c.prod))
NextSymbol(c) == Rhs(c.prod)[c.dot + 1]
Lookaheads(I, c) == {it.la : it \in {x \in I : ItemCore(x) = c}}

(* What may follow the nonterminal after the dot of c: FIRST(beta a).       *)
Beta(c) == SubSeq(Rhs(c.prod), c.dot + 2, Len(Rhs(c.prod)))

\* Mutant: the item's lookahead counts only when nothing at all is left.
FollowersIfLast(c) ==
  FirstOf(nullable, first, Beta(c)) \cup (IF Beta(c) = <<>> THEN Lookaheads(next, c) ELSE {})

Followers(c) ==
  FirstOf(nullable, first, Beta(c))
    \cup (IF AllNullable(nullable, Beta(c)) THEN Lookaheads(next, c) ELSE {})

(* closure_lr1: one item from the queue.                                    *)
CloseItem ==
  /\ stage = "close" /\ queue # {}
  /\ LET c == CHOOSE x \in queue : TRUE
         prods == IF Complete(c) THEN {} ELSE {p \in DOMAIN Productions : Productions[p].lhs = NextSymbol(c)}
         las == IF prods = {} THEN {} ELSE Followers(c)
         grown == {p \in prods : ~ las \subseteq Lookaheads(next, [prod |-> p, dot |-> 0])}
     IN /\ next' = next \cup [prod : prods, dot : {0}, la : las]
        /\ queue' = (queue \ {c}) \cup [prod : grown, dot : {0}]
  /\ UNCHANGED <<stage, file, grammar, sweep, collection, current, symbols, lalr, filling>>

(* f with the value v at x.                                                 *)
With(f, x, v) == [y \in DOMAIN f \cup {x} |-> IF y = x THEN v ELSE f[y]]

Followed == CHOOSE X \in symbols : TRUE

(* The state is closed: it is a new one, or known by its items.             *)
CloseDone ==
  /\ stage = "close" /\ queue = {}
  /\ LET known == {n \in DOMAIN states : states[n] = next}
         n == IF known = {} THEN Len(states) + 1 ELSE Min(known)
     IN /\ states' = IF known = {} THEN Append(states, next) ELSE states
        /\ trans' = IF symbols = {} THEN trans ELSE With(trans, <<current, Followed>>, n)
  /\ symbols' = IF symbols = {} THEN {} ELSE symbols \ {Followed}
  /\ next' = {}
  /\ stage' = "expand"
  /\ UNCHANGED <<file, grammar, sweep, current, queue, lalr, filling>>

(* goto_lr1 up to its closure.                                              *)
FollowSymbol ==
  /\ stage = "expand" /\ symbols # {}
  /\ next' = {[it EXCEPT !.dot = @ + 1] :
               it \in {x \in states[current] : ~Complete(x) /\ NextSymbol(x) = Followed}}
  /\ queue' = Cores(next')
  /\ stage' = "close"
  /\ UNCHANGED <<file, grammar, sweep, collection, current, symbols, lalr, filling>>

(* build_canonical_lr1_impl takes a state from its queue.                   *)
ExpandState ==
  /\ stage = "expand" /\ symbols = {} /\ current < Len(states)
  /\ current' = current + 1
  /\ symbols' = {NextSymbol(it) : it \in {x \in states[current'] : ~Complete(x)}}
  /\ UNCHANGED <<stage, file, grammar, sweep, collection, next, queue, lalr, filling>>

-----------------------------------------------------------------------------
(* Merging, and the tables.                                                 *)

\* Mutant: dots are left out of the key of a group.
AlikeByProduction(I, J) == {it.prod : it \in I} = {it.prod : it \in J}

Alike(I, J) == Cores(I) = Cores(J)

Group(n) == {m \in DOMAIN states : Alike(states[m], states[n])}
Name(n) == Min(Group(n))

Target(d) == Name(trans[d])

(* merge_to_lalr_impl: states with equal cores become one, called by the    *)
(* first of them.                                                           *)
Merge ==
  /\ stage = "expand" /\ symbols = {} /\ current = Len(states)
  /\ LET from(e) == {d \in DOMAIN trans : <<Name(d[1]), d[2]>> = e} IN
     lalr' = [items |-> [n \in {Name(m) : m \in DOMAIN states} |-> UNION {states[m] : m \in Group(n)}],
              trans |-> [e \in {<<Name(d[1]), d[2]>> : d \in DOMAIN trans} |->
                           Target(CHOOSE d \in from(e) : TRUE)]]
  /\ stage' = "shifts"
  /\ UNCHANGED <<file, grammar, sweep, collection, expansion, filling>>

Shift(n)  == [kind |-> "Shift", value |-> n]
Reduce(p) == [kind |-> "Reduce", value |-> p]
Accept    == [kind |-> "Accept", value |-> 0]

(* The first loop of build_tables.  The canonical collection is gone.       *)
EnterShifts ==
  /\ stage = "shifts"
  /\ LET on(Z) == {e \in DOMAIN lalr.trans : e[2] \in Z} IN
       tables' = [action |-> [e \in on(grammar.terminals) |-> Shift(lalr.trans[e])],
                  goto |-> [e \in on(Nonterminals) |-> lalr.trans[e]]]
  /\ pending' = UNION {{<<n, c>> : c \in {x \in Cores(lalr.items[n]) : Complete(x)}} :
                       n \in DOMAIN lalr.items}
  /\ states' = <<>> /\ trans' = <<>> /\ current' = 0
  /\ stage' = "reductions"
  /\ UNCHANGED <<file, grammar, sweep, symbols, next, queue, lalr, conflicts>>

\* Mutant: the item is compared with the grammar's own start symbol.
WantedUnaugmented(n, c) ==
  IF Productions[c.prod].lhs = grammar.start THEN [e \in {<<n, Dollar>>} |-> Accept]
  ELSE [e \in {n} \X Lookaheads(lalr.items[n], c) |-> Reduce(c.prod)]

(* The cells that the complete item c of state n wants, and what for.       *)
Wanted(n, c) ==
  IF Productions[c.prod].lhs = Augmented THEN [e \in {<<n, Dollar>>} |-> Accept]
  ELSE [e \in {n} \X Lookaheads(lalr.items[n], c) |-> Reduce(c.prod)]

(* Two reductions, or a shift and a reduction, are a conflict.              *)
Clash(old, new) == {old.kind, new.kind} \subseteq {"Shift", "Reduce"}

(* set_action: an entry that is there stays.                                *)
SetActions(action, wanted) ==
  [e \in DOMAIN action \cup DOMAIN wanted |-> IF e \in DOMAIN action THEN action[e] ELSE wanted[e]]

(* The second loop: one complete item of the state under way.               *)
EnterReductions ==
  /\ stage = "reductions"
  /\ LET n == Min({x[1] : x \in pending}) IN
     \E x \in {y \in pending : y[1] = n} :
       LET wanted == Wanted(n, x[2])
           taken == DOMAIN wanted \cap DOMAIN tables.action
       IN /\ tables' = [tables EXCEPT !.action = SetActions(@, wanted)]
          /\ conflicts' = conflicts \cup {e \in taken : Clash(tables.action[e], wanted[e])}
          /\ pending' = pending \ {x}
  /\ stage' = IF pending' = {} THEN "built" ELSE stage
  /\ UNCHANGED <<file, grammar, sweep, collection, expansion, lalr>>

GeneratorNext ==
  \/ ReadFile
  \/ SweepProduction \/ EndSweep
  \/ ExpandState \/ FollowSymbol \/ CloseItem \/ CloseDone
  \/ Merge \/ EnterShifts \/ EnterReductions
-----------------------------------------------------------------------------
(* The symbols on which the items I both shift and reduce.                  *)
ShiftReduce(I) ==
  {it.la : it \in {x \in I : Complete(x)}} \cap {NextSymbol(it) : it \in {x \in I : ~Complete(x)}}

(* Merging the states of equal cores (merge_to_lalr_impl) may bring two     *)
(* reductions together, never a shift and a reduction that no state of the  *)
(* canonical collection had.                                                *)
MergeOnlyReduceReduce ==
  stage = "shifts" =>
    \A n \in DOMAIN lalr.items :
      ShiftReduce(lalr.items[n]) \subseteq
        UNION {ShiftReduce(states[m]) : m \in {k \in DOMAIN states : states[k] \subseteq lalr.items[n]}}
=============================================================================
