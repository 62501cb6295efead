---------------------------- MODULE ParserProofs ----------------------------
(***************************************************************************)
(* Proofs about the parser generator and the parser, for every grammar file, *)
(* whatever conflicts its tables have, and for every input.                 *)
(***************************************************************************)
EXTENDS Parser, WellFoundedInduction, TLAPS

-----------------------------------------------------------------------------
(* Sequences of anything, and least numbers.                                *)

IsSeq(s) == \E S : s \in Seq(S)

LEMMA SeqDomain ==
  ASSUME NEW s, IsSeq(s)
  PROVE  Len(s) \in Nat /\ DOMAIN s = 1..Len(s)
  BY DEF IsSeq

LEMMA SeqEmpty == IsSeq(<<>>) /\ Len(<<>>) = 0
  BY DEF IsSeq

LEMMA SeqSingle == ASSUME NEW x PROVE IsSeq(<<x>>) /\ Len(<<x>>) = 1 /\ <<x>>[1] = x
  <1>1. <<x>> \in Seq({x})
    OBVIOUS
  <1> QED BY <1>1 DEF IsSeq

LEMMA SeqAppend ==
  ASSUME NEW s, IsSeq(s), NEW x
  PROVE  /\ IsSeq(Append(s, x))
         /\ Len(Append(s, x)) = Len(s) + 1
         /\ Append(s, x)[Len(s) + 1] = x
         /\ \A i \in 1..Len(s) : Append(s, x)[i] = s[i]
  <1>1. PICK S : s \in Seq(S)
    BY DEF IsSeq
  <1>2. s \in Seq(S \cup {x})
    BY <1>1
  <1>3. Append(s, x) \in Seq(S \cup {x})
    BY <1>2
  <1> QED BY <1>2, <1>3 DEF IsSeq

LEMMA SeqPrefix ==
  ASSUME NEW s, IsSeq(s), NEW n \in 0..Len(s)
  PROVE  /\ IsSeq(SubSeq(s, 1, n))
         /\ Len(SubSeq(s, 1, n)) = n
         /\ \A i \in 1..n : SubSeq(s, 1, n)[i] = s[i]
  <1>1. PICK S : s \in Seq(S)
    BY DEF IsSeq
  <1>2. SubSeq(s, 1, n) \in Seq(S)
    BY <1>1
  <1> QED BY <1>1, <1>2 DEF IsSeq

LEMMA SeqJoin ==
  ASSUME NEW S, NEW s \in Seq(S), NEW t \in Seq(S)
  PROVE  /\ s \o t \in Seq(S)
         /\ \A i \in DOMAIN (s \o t) : \/ i \in DOMAIN s /\ (s \o t)[i] = s[i]
                                     \/ \E k \in DOMAIN t : (s \o t)[i] = t[k]
  <1>1. s \o t \in Seq(S) /\ DOMAIN (s \o t) = 1..(Len(s) + Len(t))
    OBVIOUS
  <1>2. ASSUME NEW i \in DOMAIN (s \o t), i \notin DOMAIN s
        PROVE  i - Len(s) \in DOMAIN t /\ (s \o t)[i] = t[i - Len(s)]
    BY <1>1, <1>2
  <1>3. ASSUME NEW i \in DOMAIN (s \o t), i \in DOMAIN s PROVE (s \o t)[i] = s[i]
    BY <1>1, <1>3
  <1> QED BY <1>1, <1>2, <1>3

LEMMA MinIsLeast ==
  ASSUME NEW T \in SUBSET Nat, T # {}
  PROVE  Min(T) \in T /\ \A y \in T : Min(T) <= y
  <1> DEFINE R == {ss \in Nat \X Nat : ss[1] < ss[2]}
  <1>1. IsWellFoundedOn(R, Nat)
    BY NatLessThanWellFounded DEF OpToRel
  <1> HIDE DEF R
  <1>2. PICK x \in T : \A y \in T : ~(<<y, x>> \in R)
    BY <1>1, WFMin
  <1>3. ASSUME NEW y \in T PROVE x <= y
    <2>1. x \in Nat /\ y \in Nat /\ ~(<<y, x>> \in R)
      BY <1>2
    <2> QED BY <2>1 DEF R
  <1> QED BY <1>3 DEF Min

LEMMA MaxOfTwo ==
  ASSUME NEW n \in Nat, n >= 1
  PROVE  Max({1, n}) = n
  BY DEF Max

-----------------------------------------------------------------------------
(* Items and automata.                                                      *)

Back(c) == [prod |-> c.prod, dot |-> c.dot - 1]
IsItem(it) == it = [prod |-> it.prod, dot |-> it.dot, la |-> it.la] /\ it.dot \in Nat
AtStart(J) == \A c \in Cores(J) : c.dot = 0

(* J can be what follows I on X: an item of J that has read something has   *)
(* read X last, and before that it was in I.                                *)
Leads(I, X, J) ==
  \A c \in Cores(J) : c.dot > 0 => Rhs(c.prod)[c.dot] = X /\ Back(c) \in Cores(I)

Automaton(items, moves) ==
  /\ 1 \in DOMAIN items /\ AtStart(items[1])
  /\ \A n \in DOMAIN items : \A it \in items[n] : IsItem(it)
  /\ \A e \in DOMAIN moves :
       /\ e = <<e[1], e[2]>> /\ e[1] \in DOMAIN items /\ moves[e] \in DOMAIN items
       /\ Leads(items[e[1]], e[2], items[moves[e]])

LEMMA CoreType ==
  ASSUME NEW I, \A it \in I : IsItem(it), NEW c \in Cores(I)
  PROVE  c = [prod |-> c.prod, dot |-> c.dot] /\ c.dot \in Nat
  BY DEF Cores, ItemCore, IsItem

LEMMA CoreOf == ASSUME NEW I, NEW it \in I PROVE ItemCore(it) \in Cores(I)
  BY DEF Cores
-----------------------------------------------------------------------------
(* The canonical collection.                                                *)
(*                                                                          *)
(* While a state is closed, its items that have read something come from    *)
(* the state under expansion by the symbol that is followed: the closure    *)
(* only adds items at the start of their production.                        *)
Before == {"read", "no_grammar", "first"}

Collected == IsSeq(states) /\ Automaton(states, trans)

CollectionInv ==
  /\ stage \in Before => states = <<>> /\ trans = <<>> /\ symbols = {} /\ current = 0
  /\ stage \in {"close", "expand"} => current \in Nat /\ (symbols # {} => current \in DOMAIN states)
  /\ stage = "close" =>
       /\ \A it \in next : IsItem(it)
       /\ IF symbols = {} THEN states = <<>> /\ trans = <<>> /\ AtStart(next)
          ELSE Collected /\ Leads(states[current], Followed, next)
  /\ stage = "expand" => Collected

LEMMA InitCollection == Init => CollectionInv
  BY DEF Init, GeneratorInit, ReaderInit, CollectionInv, Before

(* An automaton with one more state at its end, or with one more move.      *)
LEMMA AutomatonState ==
  ASSUME NEW items, NEW moves, IsSeq(items), Automaton(items, moves),
         NEW I, \A it \in I : IsItem(it)
  PROVE  Automaton(Append(items, I), moves)
  <1> DEFINE more == Append(items, I)
             n == Len(items)
  <1>1. /\ n \in Nat /\ DOMAIN items = 1..n /\ DOMAIN more = 1..(n + 1)
        /\ more[n + 1] = I /\ \A i \in 1..n : more[i] = items[i]
    BY SeqDomain, SeqAppend
  <1>2. 1 \in DOMAIN more /\ more[1] = items[1]
    BY <1>1 DEF Automaton
  <1>3. ASSUME NEW m \in DOMAIN more PROVE \A it \in more[m] : IsItem(it)
    <2>1. m = n + 1 \/ m \in 1..n
      BY <1>1
    <2> QED BY <1>1, <2>1 DEF Automaton
  <1>4. ASSUME NEW e \in DOMAIN moves
        PROVE  /\ e = <<e[1], e[2]>> /\ e[1] \in DOMAIN more /\ moves[e] \in DOMAIN more
               /\ Leads(more[e[1]], e[2], more[moves[e]])
    <2>1. /\ e = <<e[1], e[2]>> /\ e[1] \in 1..n /\ moves[e] \in 1..n
          /\ Leads(items[e[1]], e[2], items[moves[e]])
      BY <1>1 DEF Automaton
    <2>2. more[e[1]] = items[e[1]] /\ more[moves[e]] = items[moves[e]]
      BY <1>1, <2>1
    <2>3. e[1] \in 1..(n + 1) /\ moves[e] \in 1..(n + 1)
      BY <1>1, <2>1
    <2> QED BY <1>1, <2>1, <2>2, <2>3
  <1> QED BY <1>2, <1>3, <1>4 DEF Automaton

LEMMA AutomatonMove ==
  ASSUME NEW items, NEW moves, Automaton(items, moves),
         NEW n \in DOMAIN items, NEW X, NEW m \in DOMAIN items, Leads(items[n], X, items[m])
  PROVE  Automaton(items, With(moves, <<n, X>>, m))
  <1> DEFINE d == <<n, X>>
             more == With(moves, d, m)
  <1>1. DOMAIN more = DOMAIN moves \cup {d} /\ d[1] = n /\ d[2] = X
    BY DEF With
  <1>2. \A e \in DOMAIN more : more[e] = IF e = d THEN m ELSE moves[e]
    BY DEF With
  <1>3. ASSUME NEW e \in DOMAIN more
        PROVE  /\ e = <<e[1], e[2]>> /\ e[1] \in DOMAIN items /\ more[e] \in DOMAIN items
               /\ Leads(items[e[1]], e[2], items[more[e]])
    <2>1. CASE e = d
      BY <1>1, <1>2, <2>1
    <2>2. CASE e # d
      BY <1>1, <1>2, <2>2 DEF Automaton
    <2> QED BY <2>1, <2>2
  <1> QED BY <1>3 DEF Automaton

(* goto_lr1: the kernel of the state to come.                               *)
LEMMA KernelLeads ==
  ASSUME CollectionInv, FollowSymbol
  PROVE  (\A it \in next' : IsItem(it)) /\ Leads(states[current], Followed, next')
  <1>1. /\ Collected /\ current \in DOMAIN states
        /\ next' = {[it EXCEPT !.dot = @ + 1] :
                      it \in {x \in states[current] : ~Complete(x) /\ NextSymbol(x) = Followed}}
    BY DEF FollowSymbol, CollectionInv
  <1>2. \A it \in states[current] : IsItem(it)
    BY <1>1 DEF Collected, Automaton
  <1>3. ASSUME NEW j \in next'
        PROVE  \E it \in states[current] : /\ NextSymbol(it) = Followed
                                          /\ j = [prod |-> it.prod, dot |-> it.dot + 1, la |-> it.la]
    BY <1>1, <1>2 DEF IsItem
  <1>4. ASSUME NEW j \in next' PROVE IsItem(j)
    BY <1>2, <1>3 DEF IsItem
  <1>5. ASSUME NEW c \in Cores(next'), c.dot > 0
        PROVE  Rhs(c.prod)[c.dot] = Followed /\ Back(c) \in Cores(states[current])
    <2>1. PICK j \in next' : c = ItemCore(j)
      BY DEF Cores
    <2>2. PICK it \in states[current] : /\ NextSymbol(it) = Followed
                                        /\ j = [prod |-> it.prod, dot |-> it.dot + 1, la |-> it.la]
      BY <1>3
    <2>3. c = [prod |-> it.prod, dot |-> it.dot + 1] /\ it.dot \in Nat
      BY <1>2, <2>1, <2>2 DEF ItemCore, IsItem
    <2>4. Back(c) = ItemCore(it)
      BY <2>3 DEF Back, ItemCore
    <2>5. Rhs(c.prod)[c.dot] = Followed
      BY <2>2, <2>3 DEF NextSymbol
    <2> QED BY <2>4, <2>5, CoreOf
  <1> QED BY <1>4, <1>5 DEF Leads

(* closure_lr1: what is added is at the start of its production.            *)
LEMMA ClosureAdds ==
  ASSUME CloseItem, \A it \in next : IsItem(it)
  PROVE  /\ \A it \in next' : IsItem(it)
         /\ \A c \in Cores(next') : c \in Cores(next) \/ c.dot = 0
  <1>1. PICK A, B : next' = next \cup [prod : A, dot : {0}, la : B]
    BY DEF CloseItem
  <1>2. ASSUME NEW j \in [prod : A, dot : {0}, la : B] PROVE IsItem(j) /\ ItemCore(j).dot = 0
    BY <1>2 DEF IsItem, ItemCore
  <1> QED BY <1>1, <1>2 DEF Cores

(* Right sides, and what is said of them, only depend on the grammar.       *)
LEMMA SameGrammar ==
  ASSUME grammar' = grammar
  PROVE  /\ \A p : Rhs(p)' = Rhs(p)
         /\ \A I, X, J : Leads(I, X, J)' <=> Leads(I, X, J)
         /\ \A items, moves : Automaton(items, moves)' <=> Automaton(items, moves)
  <1>1. \A p : Rhs(p)' = Rhs(p)
    BY DEF Rhs, Productions, ProductionsOf
  <1>2. \A I, X, J : Leads(I, X, J)' <=> Leads(I, X, J)
    BY <1>1 DEF Leads, Cores, ItemCore, Back
  <1>3. \A items, moves : Automaton(items, moves)' <=> Automaton(items, moves)
    BY <1>2 DEF Automaton, AtStart, Cores, ItemCore, IsItem
  <1> QED BY <1>1, <1>2, <1>3

(* The number of the state that has been closed.                            *)
LEMMA StateFound ==
  ASSUME IsSeq(states), CloseDone
  PROVE  LET known == {n \in DOMAIN states : states[n] = next}
             m == IF known = {} THEN Len(states) + 1 ELSE Min(known)
         IN  /\ states' = (IF known = {} THEN Append(states, next) ELSE states)
             /\ trans' = (IF symbols = {} THEN trans ELSE With(trans, <<current, Followed>>, m))
             /\ IsSeq(states') /\ DOMAIN states \subseteq DOMAIN states'
             /\ \A n \in DOMAIN states : states'[n] = states[n]
             /\ \A n \in DOMAIN states' : n \in DOMAIN states \/ (n = Len(states) + 1 /\ states'[n] = next)
             /\ m \in DOMAIN states' /\ states'[m] = next
  <1> DEFINE known == {n \in DOMAIN states : states[n] = next}
             m == IF known = {} THEN Len(states) + 1 ELSE Min(known)
  <1>1. /\ states' = (IF known = {} THEN Append(states, next) ELSE states)
        /\ trans' = (IF symbols = {} THEN trans ELSE With(trans, <<current, Followed>>, m))
    BY DEF CloseDone
  <1>2. /\ IsSeq(states') /\ DOMAIN states \subseteq DOMAIN states'
        /\ \A n \in DOMAIN states : states'[n] = states[n]
        /\ \A n \in DOMAIN states' : n \in DOMAIN states \/ (n = Len(states) + 1 /\ states'[n] = next)
        /\ m \in DOMAIN states' /\ states'[m] = next
    <2>1. CASE known = {}
      <3>1. states' = Append(states, next) /\ m = Len(states) + 1
        BY <1>1, <2>1
      <3>2. /\ IsSeq(states') /\ DOMAIN states = 1..Len(states) /\ DOMAIN states' = 1..(Len(states) + 1)
            /\ Len(states) \in Nat
            /\ states'[m] = next /\ \A n \in 1..Len(states) : states'[n] = states[n]
        BY <3>1, SeqAppend, SeqDomain
      <3> HIDE DEF known, m
      <3>3. \A n \in DOMAIN states' : n \in DOMAIN states \/ n = m
        BY <3>1, <3>2
      <3>4. m \in DOMAIN states' /\ DOMAIN states \subseteq DOMAIN states'
        BY <3>1, <3>2
      <3> QED BY <3>1, <3>2, <3>3, <3>4
    <2>2. CASE known # {}
      <3>1. known \in SUBSET Nat
        BY SeqDomain
      <3>2. m \in known
        BY <2>2, <3>1, MinIsLeast
      <3>3. states' = states /\ m \in DOMAIN states /\ states[m] = next
        BY <1>1, <2>2, <3>2
      <3> HIDE DEF known, m
      <3> QED BY <3>3
    <2> QED BY <2>1, <2>2
  <1> QED BY <1>1, <1>2, Zenon

LEMMA CloseDoneCollects ==
  ASSUME CollectionInv, CloseDone
  PROVE  Collected' /\ current \in Nat /\ (symbols' # {} => current \in DOMAIN states')
  <1> DEFINE known == {n \in DOMAIN states : states[n] = next}
             m == IF known = {} THEN Len(states) + 1 ELSE Min(known)
  <1>1. /\ stage = "close" /\ current \in Nat /\ \A it \in next : IsItem(it)
        /\ symbols # {} => /\ Collected /\ current \in DOMAIN states
                           /\ Leads(states[current], Followed, next)
        /\ symbols = {} => states = <<>> /\ trans = <<>> /\ AtStart(next)
    BY DEF CloseDone, CollectionInv
  <1>2. /\ states' = IF known = {} THEN Append(states, next) ELSE states
        /\ trans' = IF symbols = {} THEN trans ELSE With(trans, <<current, Followed>>, m)
        /\ symbols' \subseteq symbols /\ grammar' = grammar
    BY DEF CloseDone
  <1>3. IsSeq(states)
    BY <1>1, SeqEmpty DEF Collected
  <1>4. /\ IsSeq(states') /\ DOMAIN states \subseteq DOMAIN states'
        /\ \A n \in DOMAIN states : states'[n] = states[n]
        /\ m \in DOMAIN states' /\ states'[m] = next
    BY <1>3, StateFound
  <1>5. Automaton(states', trans')
    <2>1. CASE symbols = {}
      <3>1. states = <<>> /\ trans = <<>> /\ known = {}
        BY <1>1, <2>1
      <3>2. states' = Append(<<>>, next) /\ trans' = <<>>
        BY <1>2, <2>1, <3>1
      <3>3. DOMAIN states' = {1} /\ states'[1] = next
        BY <3>2
      <3> QED BY <1>1, <2>1, <3>2, <3>3 DEF Automaton
    <2>2. CASE symbols # {}
      <3>1. Automaton(states, trans) /\ Leads(states[current], Followed, next) /\ current \in DOMAIN states
        BY <1>1, <2>2 DEF Collected
      <3>2. Automaton(states', trans)
        BY <1>1, <1>2, <1>3, <3>1, AutomatonState
      <3>3. current \in DOMAIN states' /\ Leads(states'[current], Followed, states'[m])
        BY <1>4, <3>1
      <3>4. trans' = With(trans, <<current, Followed>>, m)
        BY <1>2, <2>2
      <3> HIDE DEF m
      <3> QED BY <1>4, <3>2, <3>3, <3>4, AutomatonMove
    <2> QED BY <2>1, <2>2
  <1>6. symbols' # {} => current \in DOMAIN states'
    BY <1>1, <1>2, <1>4
  <1>7. Automaton(states, trans)'
    BY <1>2, <1>5, SameGrammar
  <1> QED BY <1>1, <1>4, <1>6, <1>7 DEF Collected, IsSeq

LEMMA NextCollection == CollectionInv /\ [Next]_vars => CollectionInv'
  <1> SUFFICES ASSUME CollectionInv, [Next]_vars PROVE CollectionInv'
    OBVIOUS
  <1> USE DEF file, sweep, collection, expansion, filling
  <1>1. ASSUME stage' \in Before, stage \in Before, UNCHANGED <<states, trans, symbols, current>>
        PROVE  CollectionInv'
    BY <1>1 DEF CollectionInv, Before
  <1>2. ASSUME stage' \notin Before \cup {"close", "expand"} PROVE CollectionInv'
    BY <1>2 DEF CollectionInv
  <1>3. ASSUME ReadFile PROVE CollectionInv'
    <2>1. stage = "read" /\ stage' \in Before
      BY <1>3 DEF ReadFile, ReaderNext, GetLine, Handle, InGrammar, InRules, UserCode, Separator,
         Declaration, Rule, Alternative, EndRule, PassOver, BuildGrammar, Before
    <2>2. UNCHANGED <<states, trans, symbols, current>>
      BY <1>3 DEF ReadFile
    <2> QED BY <1>1, <2>1, <2>2 DEF Before
  <1>4. ASSUME SweepProduction PROVE CollectionInv'
    BY <1>1, <1>4 DEF SweepProduction, Before
  <1>5. ASSUME EndSweep PROVE CollectionInv'
    <2>1. /\ stage = "first" /\ UNCHANGED <<states, trans, symbols, current>>
          /\ states = <<>> /\ trans = <<>> /\ symbols = {} /\ current = 0
      BY <1>5 DEF EndSweep, CollectionInv, Before
    <2>2. CASE stage' = stage
      BY <1>1, <2>1, <2>2 DEF Before
    <2>3. CASE stage' # stage
      <3>1. stage' = "close" /\ next' = {[prod |-> Start, dot |-> 0, la |-> Dollar]}
        BY <1>5, <2>3 DEF EndSweep
      <3>2. ASSUME NEW it \in next' PROVE IsItem(it) /\ ItemCore(it).dot = 0
        BY <3>1, <3>2 DEF IsItem, ItemCore
      <3>3. AtStart(next') /\ \A it \in next' : IsItem(it)
        BY <3>2 DEF AtStart, Cores
      <3>4. AtStart(next)' /\ \A it \in next' : IsItem(it)'
        BY <3>3 DEF AtStart, Cores, ItemCore, IsItem
      <3> QED BY <2>1, <3>1, <3>4 DEF CollectionInv, Before
    <2> QED BY <2>2, <2>3
  <1>6. ASSUME ExpandState PROVE CollectionInv'
    <2>1. /\ stage = "expand" /\ stage' = "expand" /\ current < Len(states) /\ current' = current + 1
          /\ Collected /\ current \in Nat /\ UNCHANGED <<states, trans, grammar>>
      BY <1>6 DEF ExpandState, CollectionInv
    <2>2. current' \in DOMAIN states'
      BY <2>1, SeqDomain DEF Collected
    <2>3. Collected'
      BY <2>1, SameGrammar DEF Collected, IsSeq
    <2> QED BY <2>1, <2>2, <2>3 DEF CollectionInv, Before
  <1>7. ASSUME FollowSymbol PROVE CollectionInv'
    <2>1. /\ stage = "expand" /\ stage' = "close" /\ symbols # {} /\ Collected
          /\ current \in Nat /\ current \in DOMAIN states
          /\ UNCHANGED <<states, trans, grammar, symbols, current>>
      BY <1>7 DEF FollowSymbol, CollectionInv
    <2>2. (\A it \in next' : IsItem(it)) /\ Leads(states[current], Followed, next')
      BY <1>7, KernelLeads
    <2>3. Collected' /\ Followed' = Followed
      BY <2>1, SameGrammar DEF Collected, IsSeq, Followed
    <2>4. Leads(states[current], Followed, next)' /\ \A it \in next' : IsItem(it)'
      BY <2>1, <2>2, <2>3, SameGrammar DEF IsItem
    <2> QED BY <2>1, <2>3, <2>4 DEF CollectionInv, Before
  <1>8. ASSUME CloseItem PROVE CollectionInv'
    <2>1. /\ stage = "close" /\ stage' = "close" /\ current \in Nat
          /\ UNCHANGED <<states, trans, grammar, symbols, current>>
          /\ symbols # {} => /\ Collected /\ current \in DOMAIN states
                             /\ Leads(states[current], Followed, next)
          /\ symbols = {} => states = <<>> /\ trans = <<>> /\ AtStart(next)
      BY <1>8 DEF CloseItem, CollectionInv
    <2>2. /\ \A it \in next' : IsItem(it)
          /\ \A c \in Cores(next') : c \in Cores(next) \/ c.dot = 0
      BY <1>8, <2>1, ClosureAdds DEF CollectionInv
    <2>3. symbols # {} => Collected' /\ Followed' = Followed
      BY <2>1, SameGrammar DEF Collected, IsSeq, Followed
    <2>4. symbols # {} => Leads(states[current], Followed, next')
      BY <2>1, <2>2 DEF Leads
    <2>5. symbols # {} => Leads(states[current], Followed, next)'
      BY <2>1, <2>3, <2>4, SameGrammar
    <2>6. symbols = {} => AtStart(next)'
      <3>1. symbols = {} => AtStart(next')
        BY <2>1, <2>2 DEF AtStart
      <3> QED BY <3>1 DEF AtStart, Cores, ItemCore
    <2>7. \A it \in next' : IsItem(it)'
      BY <2>2 DEF IsItem
    <2> QED BY <2>1, <2>3, <2>5, <2>6, <2>7 DEF CollectionInv, Before
  <1>9. ASSUME CloseDone PROVE CollectionInv'
    <2>1. stage' = "expand" /\ current' = current
      BY <1>9 DEF CloseDone
    <2> QED BY <1>9, <2>1, CloseDoneCollects DEF CollectionInv, Before
  <1>10. ASSUME \/ Merge \/ EnterShifts \/ EnterReductions \/ Begin
                \/ SyntaxError \/ ShiftToken \/ InternalError \/ ReduceProduction \/ AcceptInput
         PROVE  CollectionInv'
    <2>1. stage' \notin Before \cup {"close", "expand"}
      BY <1>10 DEF Merge, EnterShifts, EnterReductions, Begin, SyntaxError, ShiftToken, InternalError,
         ReduceProduction, AcceptInput, End, generator, Before
    <2> QED BY <1>2, <2>1
  <1>11. CASE UNCHANGED vars
    <2>1. UNCHANGED <<stage, states, trans, symbols, current, grammar, next>>
      BY <1>11 DEF vars, generator
    <2>2. Followed' = Followed /\ (Collected' <=> Collected)
      BY <2>1, SameGrammar DEF Followed, Collected, IsSeq
    <2>3. Leads(states[current], Followed, next)' <=> Leads(states[current], Followed, next)
      BY <2>1, <2>2, SameGrammar
    <2>4. (AtStart(next)' <=> AtStart(next)) /\ ((\A it \in next : IsItem(it))' <=> \A it \in next : IsItem(it))
      BY <2>1 DEF AtStart, Cores, ItemCore, IsItem
    <2> QED BY <2>1, <2>2, <2>3, <2>4 DEF CollectionInv
  <1> QED
    BY <1>3, <1>4, <1>5, <1>6, <1>7, <1>8, <1>9, <1>10, <1>11 DEF Next, Generate, GeneratorNext
-----------------------------------------------------------------------------
(* The merged automaton.                                                    *)
Merged == {"shifts", "reductions", "built", "parse"} \cup Ended

MergeInv ==
  /\ stage \in Merged => Automaton(lalr.items, lalr.trans)
  /\ stage = "shifts" =>
       \A n \in DOMAIN lalr.items :
         n \in DOMAIN states /\ lalr.items[n] = UNION {states[m] : m \in Group(n)}

LEMMA InitMerge == Init => MergeInv
  BY DEF Init, GeneratorInit, ReaderInit, MergeInv, Merged, Ended

(* The name of a group is that of one of its states.                        *)
LEMMA NameInGroup ==
  ASSUME IsSeq(states), NEW n \in DOMAIN states
  PROVE  /\ Name(n) \in DOMAIN states /\ Cores(states[Name(n)]) = Cores(states[n])
         /\ \A k \in Group(n) : Name(n) <= k
  <1>1. Group(n) \in SUBSET Nat /\ n \in Group(n)
    BY SeqDomain DEF Group, Alike
  <1>2. Name(n) \in Group(n) /\ \A k \in Group(n) : Name(n) <= k
    BY <1>1, MinIsLeast DEF Name
  <1> QED BY <1>2 DEF Group, Alike

(* A merged state has the items of its group, whose cores are those of the  *)
(* state that gives it its name; a move of it is one of a member.           *)
LEMMA MergeGroups ==
  ASSUME IsSeq(states), Automaton(states, trans), Merge
  PROVE  LET items == lalr'.items
             moves == lalr'.trans
         IN  /\ DOMAIN items = {Name(m) : m \in DOMAIN states}
             /\ \A n \in DOMAIN items :
                  /\ n \in DOMAIN states /\ Name(n) = n
                  /\ items[n] = UNION {states[m] : m \in Group(n)}
                  /\ Cores(items[n]) = Cores(states[n])
             /\ DOMAIN moves = {<<Name(d[1]), d[2]>> : d \in DOMAIN trans}
             /\ \A e \in DOMAIN moves :
                  \E d \in DOMAIN trans : e = <<Name(d[1]), d[2]>> /\ moves[e] = Name(trans[d])
  <1> DEFINE from(e) == {d \in DOMAIN trans : <<Name(d[1]), d[2]>> = e}
             items == lalr'.items
             moves == lalr'.trans
  <1>1. lalr' = [items |-> [n \in {Name(m) : m \in DOMAIN states} |-> UNION {states[m] : m \in Group(n)}],
                 trans |-> [e \in {<<Name(d[1]), d[2]>> : d \in DOMAIN trans} |->
                              Target(CHOOSE d \in from(e) : TRUE)]]
    BY DEF Merge
  <1>2. /\ DOMAIN items = {Name(m) : m \in DOMAIN states}
        /\ \A n \in DOMAIN items : items[n] = UNION {states[m] : m \in Group(n)}
        /\ DOMAIN moves = {<<Name(d[1]), d[2]>> : d \in DOMAIN trans}
        /\ \A e \in DOMAIN moves : moves[e] = Target(CHOOSE d \in from(e) : TRUE)
    BY <1>1
  <1>3. ASSUME NEW n \in DOMAIN items
        PROVE  /\ n \in DOMAIN states /\ Name(n) = n
               /\ Cores(items[n]) = Cores(states[n])
    <2>1. PICK m \in DOMAIN states : n = Name(m)
      BY <1>2
    <2>2. n \in DOMAIN states /\ Cores(states[n]) = Cores(states[m])
      BY <2>1, NameInGroup
    <2>3. Group(n) = Group(m)
      BY <2>2 DEF Group, Alike
    <2>4. Name(n) = n
      BY <2>1, <2>3 DEF Name
    <2>5. n \in Group(n) /\ \A k \in Group(n) : Cores(states[k]) = Cores(states[n])
      BY <2>2 DEF Group, Alike
    <2>6. Cores(items[n]) = UNION {Cores(states[k]) : k \in Group(n)}
      BY <1>2 DEF Cores
    <2>7. Cores(items[n]) = Cores(states[n])
      BY <2>2, <2>5, <2>6
    <2> QED BY <2>2, <2>4, <2>7
  <1>4. ASSUME NEW e \in DOMAIN moves
        PROVE  \E d \in DOMAIN trans : e = <<Name(d[1]), d[2]>> /\ moves[e] = Name(trans[d])
    <2> DEFINE d == CHOOSE d \in from(e) : TRUE
    <2>1. d \in from(e)
      BY <1>2, <1>4
    <2>2. moves[e] = Name(trans[d])
      BY <1>2, <1>4 DEF Target
    <2> HIDE DEF d
    <2> QED BY <2>1, <2>2
  <1> QED BY <1>2, <1>3, <1>4

LEMMA NextMerge == CollectionInv /\ MergeInv /\ [Next]_vars => MergeInv'
  <1> SUFFICES ASSUME CollectionInv, MergeInv, [Next]_vars PROVE MergeInv'
    OBVIOUS
  <1> USE DEF file, sweep, collection, expansion, filling
  <1>1. ASSUME stage' \notin Merged PROVE MergeInv'
    BY <1>1 DEF MergeInv, Merged
  <1>2. ASSUME stage \in Merged, stage' # "shifts", UNCHANGED <<grammar, lalr>> PROVE MergeInv'
    BY <1>2, SameGrammar DEF MergeInv
  <1>3. ASSUME ReadFile \/ SweepProduction \/ EndSweep \/ ExpandState \/ FollowSymbol \/ CloseItem \/ CloseDone
        PROVE  MergeInv'
    <2>1. ReadFile => stage' \in {"read", "no_grammar", "first"}
      BY DEF ReadFile, ReaderNext, GetLine, Handle, InGrammar, InRules, UserCode, Separator,
         Declaration, Rule, Alternative, EndRule, PassOver, BuildGrammar
    <2>2. stage' \notin Merged
      BY <1>3, <2>1 DEF SweepProduction, EndSweep, ExpandState, FollowSymbol, CloseItem, CloseDone, Merged, Ended
    <2> QED BY <1>1, <2>2
  <1>4. ASSUME Merge PROVE MergeInv'
    <2> DEFINE items == lalr'.items
               moves == lalr'.trans
    <2>1. stage' = "shifts" /\ Collected /\ UNCHANGED <<grammar, states>>
      BY <1>4 DEF Merge, CollectionInv
    <2>2. /\ DOMAIN items = {Name(m) : m \in DOMAIN states}
          /\ \A n \in DOMAIN items : items[n] = UNION {states[m] : m \in Group(n)}
          /\ \A e \in DOMAIN moves :
               \E d \in DOMAIN trans : e = <<Name(d[1]), d[2]>> /\ moves[e] = Name(trans[d])
      BY <1>4, <2>1, MergeGroups DEF Collected
    <2>3. \A n \in DOMAIN states : /\ Name(n) \in DOMAIN states /\ Cores(states[Name(n)]) = Cores(states[n])
                                   /\ \A k \in Group(n) : Name(n) <= k
      BY <2>1, NameInGroup DEF Collected
    <2>4. \A n \in DOMAIN items : n \in DOMAIN states /\ Cores(items[n]) = Cores(states[n])
      BY <1>4, <2>1, MergeGroups DEF Collected
    <2> HIDE DEF items, moves
    <2>5. 1 \in DOMAIN items
      <3>1. 1 \in DOMAIN states /\ DOMAIN states \in SUBSET Nat /\ DOMAIN states = 1..Len(states)
        BY <2>1, SeqDomain DEF Collected, Automaton
      <3>2. Name(1) \in DOMAIN states /\ Name(1) <= 1
        BY <2>3, <3>1 DEF Group, Alike
      <3>3. Name(1) = 1
        BY <3>1, <3>2
      <3> QED BY <2>2, <3>1, <3>3
    <2>6. AtStart(items[1])
      BY <2>1, <2>4, <2>5 DEF AtStart, Collected, Automaton
    <2>7. ASSUME NEW n \in DOMAIN items, NEW it \in items[n] PROVE IsItem(it)
      <3>1. PICK m \in DOMAIN states : it \in states[m]
        BY <2>2, <2>7 DEF Group
      <3> QED BY <2>1, <3>1 DEF Collected, Automaton
    <2>8. ASSUME NEW e \in DOMAIN moves
          PROVE  /\ e = <<e[1], e[2]>> /\ e[1] \in DOMAIN items /\ moves[e] \in DOMAIN items
                 /\ Leads(items[e[1]], e[2], items[moves[e]])
      <3>2. PICK d \in DOMAIN trans : e = <<Name(d[1]), d[2]>> /\ moves[e] = Name(trans[d])
        BY <2>2
      <3>3. /\ d[1] \in DOMAIN states /\ trans[d] \in DOMAIN states
            /\ Leads(states[d[1]], d[2], states[trans[d]])
        BY <2>1, <3>2 DEF Collected, Automaton
      <3>4. moves[e] = Name(trans[d])
        BY <3>2
      <3>5. e[1] \in DOMAIN items /\ moves[e] \in DOMAIN items
        BY <2>2, <3>2, <3>3, <3>4
      <3>6. /\ Cores(items[e[1]]) = Cores(states[d[1]])
            /\ Cores(items[moves[e]]) = Cores(states[trans[d]])
        BY <2>3, <2>4, <3>2, <3>3, <3>4, <3>5
      <3>7. Leads(items[e[1]], e[2], items[moves[e]])
        BY <3>2, <3>3, <3>6 DEF Leads
      <3> QED BY <3>2, <3>5, <3>7
    <2>9. Automaton(items, moves)
      BY <2>5, <2>6, <2>7, <2>8 DEF Automaton
    <2>10. Automaton(lalr.items, lalr.trans)'
      BY <2>1, <2>9, SameGrammar DEF items, moves
    <2>11. ASSUME NEW n \in DOMAIN items
           PROVE  n \in DOMAIN states' /\ items[n] = UNION {states'[m] : m \in Group(n)'}
      <3>1. Group(n)' = Group(n)
        BY <2>1 DEF Group, Alike, Cores, ItemCore
      <3>2. states' = states /\ n \in DOMAIN states
        BY <2>1, <2>4
      <3>3. items[n] = UNION {states[m] : m \in Group(n)}
        BY <2>2
      <3> QED BY <3>1, <3>2, <3>3, Zenon
    <2> QED BY <2>1, <2>10, <2>11 DEF MergeInv, items
  <1>5. ASSUME \/ EnterShifts \/ EnterReductions \/ Begin
               \/ SyntaxError \/ ShiftToken \/ InternalError \/ ReduceProduction \/ AcceptInput
        PROVE  MergeInv'
    <2>1. stage \in Merged /\ stage' # "shifts" /\ UNCHANGED <<grammar, lalr>>
      BY <1>5 DEF EnterShifts, EnterReductions, Begin, SyntaxError, ShiftToken, InternalError,
         ReduceProduction, AcceptInput, End, generator, Merged
    <2> QED BY <1>2, <2>1
  <1>6. CASE UNCHANGED vars
    <2>1. UNCHANGED <<stage, states, grammar, lalr>>
      BY <1>6 DEF vars, generator
    <2>2. \A n : Group(n)' = Group(n)
      BY <2>1 DEF Group, Alike, Cores, ItemCore
    <2> QED BY <2>1, <2>2, SameGrammar DEF MergeInv
  <1> QED
    BY <1>3, <1>4, <1>5, <1>6 DEF Next, Generate, GeneratorNext

(* MergeOnlyReduceReduce: a symbol on which a merged state both shifts and  *)
(* reduces is one on which a state of the canonical collection does, since  *)
(* what a state shifts on depends on its cores alone.                       *)
THEOREM MergingAddsNoShiftConflict == Spec => []MergeOnlyReduceReduce
  <1>1. ASSUME MergeInv, stage = "shifts", NEW n \in DOMAIN lalr.items, NEW a \in ShiftReduce(lalr.items[n])
        PROVE  \E m \in DOMAIN states : states[m] \subseteq lalr.items[n] /\ a \in ShiftReduce(states[m])
    <2>1. lalr.items[n] = UNION {states[m] : m \in Group(n)}
      BY <1>1 DEF MergeInv
    <2>2. PICK r \in lalr.items[n], w \in lalr.items[n] :
            Complete(r) /\ a = r.la /\ ~Complete(w) /\ a = NextSymbol(w)
      BY <1>1 DEF ShiftReduce
    <2>3. PICK m \in Group(n), k \in Group(n) : r \in states[m] /\ w \in states[k]
      BY <2>1, <2>2
    <2>4. Cores(states[m]) = Cores(states[k])
      BY <2>3 DEF Group, Alike
    <2>5. PICK v \in states[m] : ItemCore(v) = ItemCore(w)
      BY <2>3, <2>4 DEF Cores
    <2>6. v.prod = w.prod /\ v.dot = w.dot
      BY <2>5 DEF ItemCore
    <2>7. ~Complete(v) /\ a = NextSymbol(v)
      BY <2>2, <2>6 DEF Complete, NextSymbol
    <2>8. a \in ShiftReduce(states[m])
      BY <2>2, <2>3, <2>7 DEF ShiftReduce
    <2> QED BY <2>1, <2>3, <2>8 DEF Group
  <1>2. MergeInv => MergeOnlyReduceReduce
    BY <1>1 DEF MergeOnlyReduceReduce
  <1> QED
    BY <1>2, InitCollection, NextCollection, InitMerge, NextMerge, PTL DEF Spec
-----------------------------------------------------------------------------
(* The tables say what the automaton does.                                  *)
Filled == {"reductions", "built", "parse"} \cup Ended

(* The entry a of the cell e.                                               *)
Right(e, a) ==
  /\ a.kind = "Shift" => e \in DOMAIN lalr.trans /\ a.value = lalr.trans[e]
  /\ a.kind = "Reduce" =>
       \E c \in Cores(lalr.items[e[1]]) : Complete(c) /\ c.prod = a.value

TablesInv ==
  /\ stage \in Filled =>
       /\ \A e \in DOMAIN tables.action : Right(e, tables.action[e])
       /\ \A e \in DOMAIN tables.goto : e \in DOMAIN lalr.trans /\ tables.goto[e] = lalr.trans[e]
       /\ tables = [action |-> tables.action, goto |-> tables.goto]
  /\ stage = "reductions" =>
       \A x \in pending : x = <<x[1], x[2]>> /\ x[2] \in Cores(lalr.items[x[1]]) /\ Complete(x[2])

LEMMA InitTables == Init => TablesInv
  BY DEF Init, GeneratorInit, ReaderInit, TablesInv, Filled, Ended

LEMMA SameAutomaton ==
  ASSUME UNCHANGED <<grammar, lalr>>
  PROVE  /\ \A c : Complete(c)' <=> Complete(c)
         /\ \A I : Cores(I)' = Cores(I)
         /\ \A e, a : Right(e, a)' <=> Right(e, a)
  <1>1. \A c : Complete(c)' <=> Complete(c)
    BY SameGrammar DEF Complete
  <1>2. \A I : Cores(I)' = Cores(I)
    BY DEF Cores, ItemCore
  <1>3. \A e, a : Right(e, a)' <=> Right(e, a)
    BY <1>1, <1>2 DEF Right
  <1> QED BY <1>1, <1>2, <1>3

LEMMA WantedRight ==
  ASSUME NEW n, NEW c \in Cores(lalr.items[n]), Complete(c), NEW e \in DOMAIN Wanted(n, c)
  PROVE  Right(e, Wanted(n, c)[e])
  <1>1. CASE Productions[c.prod].lhs = Augmented
    <2>1. Wanted(n, c)[e].kind = "Accept"
      BY <1>1 DEF Wanted, Accept
    <2> QED BY <2>1 DEF Right
  <1>2. CASE Productions[c.prod].lhs # Augmented
    <2>1. Wanted(n, c) = [d \in {n} \X Lookaheads(lalr.items[n], c) |-> Reduce(c.prod)]
      BY <1>2 DEF Wanted
    <2>2. e[1] = n /\ Wanted(n, c)[e] = [kind |-> "Reduce", value |-> c.prod]
      BY <2>1 DEF Reduce
    <2> QED BY <2>2 DEF Right
  <1> QED BY <1>1, <1>2

LEMMA NextTables == TablesInv /\ [Next]_vars => TablesInv'
  <1> SUFFICES ASSUME TablesInv, [Next]_vars PROVE TablesInv'
    OBVIOUS
  <1> USE DEF file, sweep, collection, expansion, filling
  <1>1. ASSUME stage' \notin Filled PROVE TablesInv'
    BY <1>1 DEF TablesInv, Filled
  <1>2. ASSUME stage \in Filled, stage' = "reductions" => stage = "reductions",
               UNCHANGED <<grammar, lalr, tables, pending>>
        PROVE  TablesInv'
    BY <1>2, SameAutomaton DEF TablesInv
  <1>3. ASSUME \/ ReadFile \/ SweepProduction \/ EndSweep \/ ExpandState \/ FollowSymbol
               \/ CloseItem \/ CloseDone \/ Merge
        PROVE  TablesInv'
    <2>1. ReadFile => stage' \in {"read", "no_grammar", "first"}
      BY DEF ReadFile, ReaderNext, GetLine, Handle, InGrammar, InRules, UserCode, Separator,
         Declaration, Rule, Alternative, EndRule, PassOver, BuildGrammar
    <2>2. stage' \notin Filled
      BY <1>3, <2>1 DEF SweepProduction, EndSweep, ExpandState, FollowSymbol, CloseItem, CloseDone,
         Merge, Filled, Ended
    <2> QED BY <1>1, <2>2
  <1>4. ASSUME EnterShifts PROVE TablesInv'
    <2> DEFINE on(Z) == {e \in DOMAIN lalr.trans : e[2] \in Z}
    <2>1. /\ stage' = "reductions" /\ UNCHANGED <<grammar, lalr>>
          /\ tables' = [action |-> [e \in on(grammar.terminals) |-> Shift(lalr.trans[e])],
                        goto |-> [e \in on(Nonterminals) |-> lalr.trans[e]]]
          /\ pending' = UNION {{<<n, c>> : c \in {x \in Cores(lalr.items[n]) : Complete(x)}} :
                               n \in DOMAIN lalr.items}
      BY <1>4 DEF EnterShifts
    <2>2. ASSUME NEW e \in DOMAIN tables'.action PROVE Right(e, tables'.action[e])
      <3>1. e \in DOMAIN lalr.trans /\ tables'.action[e] = [kind |-> "Shift", value |-> lalr.trans[e]]
        BY <2>1, <2>2 DEF Shift
      <3> QED BY <3>1 DEF Right
    <2>3. ASSUME NEW e \in DOMAIN tables'.goto PROVE e \in DOMAIN lalr.trans /\ tables'.goto[e] = lalr.trans[e]
      BY <2>1
    <2>4. ASSUME NEW x \in pending'
          PROVE  x = <<x[1], x[2]>> /\ x[2] \in Cores(lalr.items[x[1]]) /\ Complete(x[2])
      BY <2>1, <2>4
    <2>5. tables' = [action |-> tables'.action, goto |-> tables'.goto]
      BY <2>1
    <2> QED BY <2>1, <2>2, <2>3, <2>4, <2>5, SameAutomaton DEF TablesInv
  <1>5. ASSUME EnterReductions PROVE TablesInv'
    <2>1. PICK x \in pending :
            /\ tables' = [tables EXCEPT !.action = SetActions(@, Wanted(x[1], x[2]))]
            /\ pending' = pending \ {x}
      BY <1>5 DEF EnterReductions
    <2>2. /\ stage = "reductions" /\ stage' \in {"reductions", "built"} /\ UNCHANGED <<grammar, lalr>>
      BY <1>5 DEF EnterReductions
    <2>3. /\ \A e \in DOMAIN tables.action : Right(e, tables.action[e])
          /\ \A e \in DOMAIN tables.goto : e \in DOMAIN lalr.trans /\ tables.goto[e] = lalr.trans[e]
          /\ tables = [action |-> tables.action, goto |-> tables.goto]
          /\ \A y \in pending : y = <<y[1], y[2]>> /\ y[2] \in Cores(lalr.items[y[1]]) /\ Complete(y[2])
      BY <2>2 DEF TablesInv, Filled
    <2> DEFINE wanted == Wanted(x[1], x[2])
    <2>4. /\ tables'.goto = tables.goto /\ tables'.action = SetActions(tables.action, wanted)
          /\ tables' = [action |-> tables'.action, goto |-> tables'.goto]
      BY <2>1, <2>3
    <2>5. \A e \in DOMAIN wanted : Right(e, wanted[e])
      BY <2>3, WantedRight
    <2>6. ASSUME NEW e \in DOMAIN tables'.action PROVE Right(e, tables'.action[e])
      <3> HIDE DEF wanted
      <3>1. \/ e \in DOMAIN tables.action /\ tables'.action[e] = tables.action[e]
            \/ e \in DOMAIN wanted /\ tables'.action[e] = wanted[e]
        BY <2>4, <2>6 DEF SetActions
      <3> QED BY <2>3, <2>5, <3>1
    <2>7. \A e \in DOMAIN tables'.goto : e \in DOMAIN lalr.trans /\ tables'.goto[e] = lalr.trans[e]
      BY <2>3, <2>4
    <2> QED BY <2>1, <2>2, <2>3, <2>4, <2>6, <2>7, SameAutomaton DEF TablesInv
  <1>6. ASSUME Begin \/ SyntaxError \/ ShiftToken \/ InternalError \/ ReduceProduction \/ AcceptInput
        PROVE  TablesInv'
    <2>1. stage \in Filled /\ stage' # "reductions" /\ UNCHANGED <<grammar, lalr, tables, pending>>
      BY <1>6 DEF Begin, SyntaxError, ShiftToken, InternalError, ReduceProduction, AcceptInput, End,
         generator, Filled
    <2> QED BY <1>2, <2>1
  <1>7. CASE UNCHANGED vars
    <2>1. UNCHANGED <<stage, grammar, lalr, tables, pending>>
      BY <1>7 DEF vars, generator
    <2> QED BY <2>1, SameAutomaton DEF TablesInv
  <1> QED
    BY <1>3, <1>4, <1>5, <1>6, <1>7 DEF Next, Generate, GeneratorNext
-----------------------------------------------------------------------------
(* The two stacks of a parser with a builder.                               *)
Running == {"parse"} \cup Ended

(* The first k values end with what the items of J have read.               *)
HasRead(vs, k, J) ==
  \A c \in Cores(J) : c.dot <= k /\ \A j \in 1..c.dot : vs[k - c.dot + j].symbol = Rhs(c.prod)[j]

Stacks(ss, vs) ==
  /\ IsSeq(ss) /\ IsSeq(vs) /\ Len(ss) = Len(vs) + 1 /\ ss[1] = 1
  /\ \A i \in 1..Len(ss) : ss[i] \in DOMAIN lalr.items /\ HasRead(vs, i - 1, lalr.items[ss[i]])
  /\ \A i \in 1..Len(vs) :
       /\ <<ss[i], vs[i].symbol>> \in DOMAIN lalr.trans
       /\ lalr.trans[<<ss[i], vs[i].symbol>>] = ss[i + 1]

StackInv ==
  /\ stage \notin Running => state_stack = <<1>> /\ value_stack = <<>>
  /\ stage \in Running /\ builder => Stacks(state_stack, value_stack)

LEMMA InitStack == Init => StackInv
  BY DEF Init, GeneratorInit, ReaderInit, StackInv, Running, Ended

LEMMA StacksAtFirst ==
  ASSUME Automaton(lalr.items, lalr.trans)
  PROVE  Stacks(<<1>>, <<>>)
  <1>1. /\ IsSeq(<<1>>) /\ Len(<<1>>) = 1 /\ <<1>>[1] = 1
        /\ IsSeq(<<>>) /\ Len(<<>>) = 0
    BY SeqEmpty, SeqSingle
  <1>2. 1 \in DOMAIN lalr.items /\ \A c \in Cores(lalr.items[1]) : c.dot = 0
    BY DEF Automaton, AtStart
  <1>3. HasRead(<<>>, 0, lalr.items[1])
    BY <1>2 DEF HasRead
  <1> QED BY <1>1, <1>2, <1>3 DEF Stacks

(* A value and the state it leads to go on the stacks.                      *)
LEMMA StacksPush ==
  ASSUME Automaton(lalr.items, lalr.trans), NEW ss, NEW vs, Stacks(ss, vs), NEW v,
         <<ss[Len(ss)], v.symbol>> \in DOMAIN lalr.trans
  PROVE  Stacks(Append(ss, lalr.trans[<<ss[Len(ss)], v.symbol>>]), Append(vs, v))
  <1> DEFINE n == Len(vs)
             e == <<ss[n + 1], v.symbol>>
             m == lalr.trans[e]
             ss2 == Append(ss, m)
             vs2 == Append(vs, v)
  <1>1. IsSeq(ss) /\ IsSeq(vs) /\ Len(ss) = n + 1 /\ n \in Nat /\ ss[1] = 1
    BY SeqDomain DEF Stacks
  <1>2. /\ IsSeq(ss2) /\ Len(ss2) = n + 2 /\ ss2[n + 2] = m /\ \A i \in 1..(n + 1) : ss2[i] = ss[i]
        /\ IsSeq(vs2) /\ Len(vs2) = n + 1 /\ vs2[n + 1] = v /\ \A i \in 1..n : vs2[i] = vs[i]
    BY <1>1, SeqAppend
  <1>3. e \in DOMAIN lalr.trans /\ e[1] = ss[n + 1] /\ e[2] = v.symbol
    BY <1>1
  <1>4. m \in DOMAIN lalr.items /\ Leads(lalr.items[ss[n + 1]], v.symbol, lalr.items[m])
    BY <1>3 DEF Automaton
  <1>5. ss[n + 1] \in DOMAIN lalr.items /\ HasRead(vs, n, lalr.items[ss[n + 1]])
    BY <1>1 DEF Stacks
  <1>6. HasRead(vs2, n + 1, lalr.items[m])
    <2> SUFFICES ASSUME NEW c \in Cores(lalr.items[m])
                 PROVE  /\ c.dot <= n + 1
                        /\ \A j \in 1..c.dot : vs2[(n + 1) - c.dot + j].symbol = Rhs(c.prod)[j]
      BY DEF HasRead
    <2>1. c.dot \in Nat
      BY <1>4, CoreType DEF Automaton
    <2>2. CASE c.dot = 0
      BY <1>1, <2>2
    <2>3. CASE c.dot > 0
      <3>1. Rhs(c.prod)[c.dot] = v.symbol /\ Back(c) \in Cores(lalr.items[ss[n + 1]])
        BY <1>4, <2>3 DEF Leads
      <3>2. Back(c).prod = c.prod /\ Back(c).dot = c.dot - 1
        BY DEF Back
      <3>3. \A b \in Cores(lalr.items[ss[n + 1]]) :
              b.dot <= n /\ \A j \in 1..b.dot : vs[n - b.dot + j].symbol = Rhs(b.prod)[j]
        BY <1>5 DEF HasRead
      <3>4. PICK b \in Cores(lalr.items[ss[n + 1]]) : b.prod = c.prod /\ b.dot = c.dot - 1
        BY <3>1, <3>2
      <3>5. b.dot <= n /\ \A j \in 1..b.dot : vs[n - b.dot + j].symbol = Rhs(c.prod)[j]
        BY <3>3, <3>4
      <3>6. ASSUME NEW j \in 1..c.dot PROVE vs2[(n + 1) - c.dot + j].symbol = Rhs(c.prod)[j]
        <4>1. CASE j = c.dot
          <5>1. (n + 1) - c.dot + j = n + 1
            BY <1>1, <2>1, <4>1
          <5> QED BY <1>2, <3>1, <4>1, <5>1
        <4>2. CASE j # c.dot
          <5>1. j \in 1..b.dot /\ (n + 1) - c.dot + j \in 1..n
            BY <1>1, <2>1, <3>4, <3>5, <4>2
          <5>2. n - b.dot + j = (n + 1) - c.dot + j
            BY <1>1, <2>1, <3>4
          <5>3. vs[n - b.dot + j].symbol = Rhs(c.prod)[j]
            BY <3>5, <5>1
          <5> QED BY <1>2, <5>1, <5>2, <5>3
        <4> QED BY <4>1, <4>2
      <3>7. c.dot <= n + 1
        BY <1>1, <2>1, <3>4, <3>5
      <3> QED BY <3>6, <3>7
    <2> QED BY <2>1, <2>2, <2>3
  <1>7. ASSUME NEW i \in 1..(n + 2)
        PROVE  ss2[i] \in DOMAIN lalr.items /\ HasRead(vs2, i - 1, lalr.items[ss2[i]])
    <2>1. CASE i = n + 2
      BY <1>2, <1>4, <1>6, <2>1
    <2>2. CASE i # n + 2
      <3>1. i \in 1..(n + 1) /\ ss2[i] = ss[i]
        BY <1>1, <1>2, <2>2
      <3>2. ss[i] \in DOMAIN lalr.items /\ HasRead(vs, i - 1, lalr.items[ss[i]])
        BY <1>1, <3>1 DEF Stacks
      <3>3. \A c \in Cores(lalr.items[ss[i]]) : c.dot \in Nat
        BY <3>2, CoreType DEF Automaton
      <3>4. ASSUME NEW c \in Cores(lalr.items[ss[i]]), NEW j \in 1..c.dot
            PROVE  vs2[i - 1 - c.dot + j] = vs[i - 1 - c.dot + j]
        <4>1. c.dot \in Nat /\ c.dot < i
          BY <3>2, <3>3 DEF HasRead
        <4>2. i - 1 - c.dot + j \in 1..n
          BY <1>1, <3>1, <4>1
        <4> QED BY <1>2, <4>2
      <3> QED BY <3>1, <3>2, <3>4 DEF HasRead
    <2> QED BY <2>1, <2>2
  <1>8. ASSUME NEW i \in 1..(n + 1)
        PROVE  /\ <<ss2[i], vs2[i].symbol>> \in DOMAIN lalr.trans
               /\ lalr.trans[<<ss2[i], vs2[i].symbol>>] = ss2[i + 1]
    <2>1. CASE i = n + 1
      BY <1>1, <1>2, <1>3, <2>1
    <2>2. CASE i # n + 1
      <3>1. i \in 1..n /\ i + 1 \in 1..(n + 1)
        BY <1>1, <2>2
      <3> QED BY <1>1, <1>2, <3>1 DEF Stacks
    <2> QED BY <2>1, <2>2
  <1>9. ss2[1] = 1
    BY <1>1, <1>2
  <1>10. Stacks(ss2, vs2)
    BY <1>1, <1>2, <1>7, <1>8, <1>9 DEF Stacks
  <1> QED BY <1>1, <1>10

(* Values and the states they led to leave the stacks.                      *)
LEMMA StacksPop ==
  ASSUME Automaton(lalr.items, lalr.trans), NEW ss, NEW vs, Stacks(ss, vs), NEW n \in 0..Len(vs)
  PROVE  Stacks(SubSeq(ss, 1, n + 1), SubSeq(vs, 1, n))
  <1> DEFINE ss2 == SubSeq(ss, 1, n + 1)
             vs2 == SubSeq(vs, 1, n)
  <1>1. IsSeq(ss) /\ IsSeq(vs) /\ Len(ss) = Len(vs) + 1 /\ Len(vs) \in Nat /\ ss[1] = 1
    BY SeqDomain DEF Stacks
  <1>2. n + 1 \in 0..Len(ss)
    BY <1>1
  <1>3. /\ IsSeq(ss2) /\ Len(ss2) = n + 1 /\ \A i \in 1..(n + 1) : ss2[i] = ss[i]
        /\ IsSeq(vs2) /\ Len(vs2) = n /\ \A i \in 1..n : vs2[i] = vs[i]
    BY <1>1, <1>2, SeqPrefix
  <1>4. ASSUME NEW i \in 1..(n + 1)
        PROVE  ss2[i] \in DOMAIN lalr.items /\ HasRead(vs2, i - 1, lalr.items[ss2[i]])
    <2>1. i \in 1..Len(ss) /\ ss2[i] = ss[i]
      BY <1>1, <1>3
    <2>2. ss[i] \in DOMAIN lalr.items /\ HasRead(vs, i - 1, lalr.items[ss[i]])
      BY <2>1 DEF Stacks
    <2>3. \A c \in Cores(lalr.items[ss[i]]) : c.dot \in Nat
      BY <2>2, CoreType DEF Automaton
    <2>4. ASSUME NEW c \in Cores(lalr.items[ss[i]]), NEW j \in 1..c.dot
          PROVE  vs2[i - 1 - c.dot + j] = vs[i - 1 - c.dot + j]
      <3>1. c.dot \in Nat /\ c.dot < i
        BY <2>2, <2>3 DEF HasRead
      <3>2. i - 1 - c.dot + j \in 1..n
        BY <1>1, <3>1
      <3> QED BY <1>3, <3>2
    <2> QED BY <2>1, <2>2, <2>4 DEF HasRead
  <1>5. ASSUME NEW i \in 1..n
        PROVE  /\ <<ss2[i], vs2[i].symbol>> \in DOMAIN lalr.trans
               /\ lalr.trans[<<ss2[i], vs2[i].symbol>>] = ss2[i + 1]
    <2>1. i \in 1..Len(vs) /\ i \in 1..(n + 1) /\ i + 1 \in 1..(n + 1)
      BY <1>1
    <2> QED BY <1>3, <2>1 DEF Stacks
  <1>6. ss2[1] = 1
    BY <1>1, <1>3
  <1> QED BY <1>3, <1>4, <1>5, <1>6 DEF Stacks
LEMMA SameStacks ==
  ASSUME UNCHANGED <<grammar, lalr>>, NEW ss, NEW vs
  PROVE  Stacks(ss, vs)' <=> Stacks(ss, vs)
  <1>1. \A I, k : HasRead(vs, k, I)' <=> HasRead(vs, k, I)
    BY SameGrammar DEF HasRead, Cores, ItemCore
  <1> QED BY <1>1 DEF Stacks, IsSeq

(* What a step of the runtime can rely on when there is a builder.          *)
LEMMA AtTheTop ==
  ASSUME CollectionInv, MergeInv, TablesInv, StackInv, stage = "parse", builder
  PROVE  /\ Automaton(lalr.items, lalr.trans)
         /\ Stacks(state_stack, value_stack)
         /\ Cell = <<state_stack[Len(state_stack)], Token>>
         /\ Cell \in DOMAIN tables.action => Right(Cell, Action)
  <1>1. Automaton(lalr.items, lalr.trans)
    BY DEF MergeInv, Merged, Ended
  <1>2. Stacks(state_stack, value_stack)
    BY DEF StackInv, Running
  <1>3. Cell = <<state_stack[Len(state_stack)], Token>>
    BY DEF Cell, Last
  <1>4. Cell \in DOMAIN tables.action => Right(Cell, Action)
    BY DEF TablesInv, Filled, Action
  <1> QED BY <1>1, <1>2, <1>3, <1>4

LEMMA ShiftKeepsStacks ==
  ASSUME CollectionInv, MergeInv, TablesInv, StackInv, builder, ShiftToken
  PROVE  Stacks(state_stack', value_stack')
  <1>1. /\ stage = "parse" /\ Cell \in DOMAIN tables.action /\ Action.kind = "Shift"
        /\ state_stack' = Append(state_stack, Action.value)
        /\ value_stack' = Append(value_stack, Leaf(Token))
    BY DEF ShiftToken, Pushed
  <1>2. Leaf(Token).symbol = Token
    BY DEF Leaf
  <1>3. Cell \in DOMAIN lalr.trans /\ Action.value = lalr.trans[Cell]
    BY <1>1, AtTheTop DEF Right
  <1> DEFINE e == <<state_stack[Len(state_stack)], Leaf(Token).symbol>>
  <1>4. e = Cell
    BY <1>1, <1>2, AtTheTop
  <1>5. Stacks(Append(state_stack, lalr.trans[e]), Append(value_stack, Leaf(Token)))
    BY <1>1, <1>3, <1>4, AtTheTop, StacksPush
  <1> QED BY <1>1, <1>3, <1>4, <1>5

(* The item whose reduction the table has found is complete in the state at *)
(* the top, so that as many values as its production is long are there.     *)
LEMMA ReductionFits ==
  ASSUME CollectionInv, MergeInv, TablesInv, StackInv, builder, stage = "parse",
         Cell \in DOMAIN tables.action, Action.kind = "Reduce"
  PROVE  /\ Len(Rhs(Action.value)) \in 0..Len(value_stack)
         /\ \A j \in 1..Len(Rhs(Action.value)) :
              value_stack[Len(value_stack) - Len(Rhs(Action.value)) + j].symbol = Rhs(Action.value)[j]
  <1> DEFINE ss == state_stack
             vs == value_stack
             J == lalr.items[ss[Len(ss)]]
  <1>1. Automaton(lalr.items, lalr.trans) /\ Stacks(ss, vs) /\ Cell[1] = ss[Len(ss)] /\ Right(Cell, Action)
    BY AtTheTop
  <1>2. PICK c \in Cores(J) : Complete(c) /\ c.prod = Action.value
    BY <1>1 DEF Right
  <1>3. Len(ss) \in 1..Len(ss) /\ Len(vs) \in Nat /\ Len(ss) - 1 = Len(vs)
    BY <1>1, SeqDomain DEF Stacks
  <1>4. ss[Len(ss)] \in DOMAIN lalr.items /\ HasRead(vs, Len(ss) - 1, J)
    BY <1>1, <1>3 DEF Stacks
  <1>5. HasRead(vs, Len(vs), J)
    BY <1>3, <1>4
  <1>6. c.dot <= Len(vs) /\ \A j \in 1..c.dot : vs[Len(vs) - c.dot + j].symbol = Rhs(c.prod)[j]
    BY <1>5 DEF HasRead
  <1>7. c.dot \in Nat
    BY <1>1, <1>4, CoreType DEF Automaton
  <1>8. Len(Rhs(Action.value)) = c.dot
    BY <1>2 DEF Complete
  <1> QED BY <1>2, <1>3, <1>6, <1>7, <1>8

LEMMA ReduceKeepsStacks ==
  ASSUME CollectionInv, MergeInv, TablesInv, StackInv, builder, ReduceProduction
  PROVE  Stacks(state_stack', value_stack')
  <1> DEFINE p == Action.value
             k == Len(Rhs(p))
             n == Len(value_stack) - k
             popped == Popped(state_stack, k)
             rest == SubSeq(value_stack, 1, n)
             v == Node(p, SubSeq(value_stack, n + 1, Len(value_stack)))
             e == <<Last(popped), Productions[p].lhs>>
  <1>1. /\ stage = "parse" /\ Cell \in DOMAIN tables.action /\ Action.kind = "Reduce" /\ ~Stuck(p)
        /\ state_stack' = Append(popped, tables.goto[e])
        /\ value_stack' = Append(rest, v)
    BY DEF ReduceProduction, Pushed
  <1>2. v.symbol = Productions[p].lhs
    BY DEF Node
  <1>3. e \in DOMAIN lalr.trans /\ tables.goto[e] = lalr.trans[e]
    BY <1>1 DEF Stuck, TablesInv, Filled
  <1>4. Automaton(lalr.items, lalr.trans) /\ Stacks(state_stack, value_stack)
    BY <1>1, AtTheTop
  <1>5. k \in 0..Len(value_stack)
    BY <1>1, ReductionFits
  <1>6. Len(state_stack) = Len(value_stack) + 1 /\ Len(value_stack) \in Nat /\ IsSeq(state_stack)
    BY <1>4, SeqDomain DEF Stacks
  <1>7. n \in 0..Len(value_stack) /\ n + 1 \in 0..Len(state_stack) /\ Len(state_stack) - k = n + 1 /\ n + 1 >= 1
    BY <1>5, <1>6
  <1> HIDE DEF n, k, p
  <1>8. popped = SubSeq(state_stack, 1, n + 1)
    BY <1>7, MaxOfTwo DEF Popped
  <1>9. Stacks(popped, rest)
    BY <1>4, <1>7, <1>8, StacksPop
  <1>10. Last(popped) = popped[Len(popped)]
    BY DEF Last
  <1> HIDE DEF popped, rest, v
  <1>11. Stacks(Append(popped, lalr.trans[<<popped[Len(popped)], v.symbol>>]), Append(rest, v))
    BY <1>2, <1>3, <1>4, <1>9, <1>10, StacksPush
  <1> QED BY <1>1, <1>2, <1>3, <1>10, <1>11

LEMMA NextStack ==
  CollectionInv /\ MergeInv /\ TablesInv /\ StackInv /\ [Next]_vars => StackInv'
  <1> SUFFICES ASSUME CollectionInv, MergeInv, TablesInv, StackInv, [Next]_vars PROVE StackInv'
    OBVIOUS
  <1>1. ASSUME Generate PROVE StackInv'
    <2>1. UNCHANGED <<state_stack, value_stack, builder>>
      BY <1>1 DEF Generate, runtime
    <2>2. ReadFile => stage \notin Running /\ stage' \notin Running
      BY DEF ReadFile, ReaderNext, GetLine, Handle, InGrammar, InRules, UserCode, Separator,
         Declaration, Rule, Alternative, EndRule, PassOver, BuildGrammar, Running, Ended
    <2>3. stage \notin Running /\ stage' \notin Running
      BY <1>1, <2>2 DEF Generate, GeneratorNext, SweepProduction, EndSweep, ExpandState, FollowSymbol,
         CloseItem, CloseDone, Merge, EnterShifts, EnterReductions, Running, Ended
    <2> QED BY <2>1, <2>3 DEF StackInv
  <1>2. ASSUME Begin PROVE StackInv'
    <2>1. /\ stage = "built" /\ stage' = "parse" /\ UNCHANGED <<grammar, lalr, state_stack, value_stack>>
      BY <1>2 DEF Begin
    <2>2. Automaton(lalr.items, lalr.trans)
      BY <2>1 DEF MergeInv, Merged, Ended
    <2>3. state_stack = <<1>> /\ value_stack = <<>>
      BY <2>1 DEF StackInv, Running, Ended
    <2>4. Stacks(state_stack, value_stack)'
      BY <2>1, <2>2, <2>3, StacksAtFirst, SameStacks
    <2> QED BY <2>1, <2>4 DEF StackInv, Running
  <1>3. ASSUME stage = "parse", stage' \in Running, UNCHANGED <<grammar, lalr, builder>>,
               builder => Stacks(state_stack', value_stack')
        PROVE  StackInv'
    <2>1. Stacks(state_stack, value_stack)' <=> Stacks(state_stack', value_stack')
      <3>1. \A k, I : HasRead(value_stack, k, I)' <=> HasRead(value_stack', k, I)
        BY <1>3, SameGrammar DEF HasRead, Cores, ItemCore
      <3> QED BY <1>3, <3>1 DEF Stacks, IsSeq
    <2> QED BY <1>3, <2>1 DEF StackInv
  <1>4. ASSUME SyntaxError \/ InternalError \/ AcceptInput PROVE StackInv'
    <2>1. /\ stage = "parse" /\ stage' \in Running
          /\ UNCHANGED <<grammar, lalr, builder, state_stack, value_stack>>
      BY <1>4 DEF SyntaxError, InternalError, AcceptInput, End, runtime, Running, Ended
    <2>2. builder => Stacks(state_stack', value_stack')
      BY <2>1 DEF StackInv, Running
    <2> QED BY <1>3, <2>1, <2>2
  <1>5. ASSUME ShiftToken PROVE StackInv'
    <2>1. stage = "parse" /\ stage' \in Running /\ UNCHANGED <<grammar, lalr, builder>>
      BY <1>5 DEF ShiftToken, generator, Running
    <2> QED BY <1>3, <1>5, <2>1, ShiftKeepsStacks
  <1>6. ASSUME ReduceProduction PROVE StackInv'
    <2>1. stage = "parse" /\ stage' \in Running /\ UNCHANGED <<grammar, lalr, builder>>
      BY <1>6 DEF ReduceProduction, generator, Running
    <2> QED BY <1>3, <1>6, <2>1, ReduceKeepsStacks
  <1>7. CASE UNCHANGED vars
    <2>1. UNCHANGED <<stage, grammar, lalr, builder, state_stack, value_stack>>
      BY <1>7 DEF vars, generator, runtime
    <2>2. Stacks(state_stack, value_stack)' <=> Stacks(state_stack, value_stack)
      BY <2>1, SameStacks
    <2> QED BY <2>1, <2>2 DEF StackInv
  <1> QED BY <1>1, <1>2, <1>4, <1>5, <1>6, <1>7 DEF Next

(* With a builder, the state stack is at every moment the path of the       *)
(* automaton that the symbols of the values spell, and the values below     *)
(* each state end with what its items have read: run_parser never pops into *)
(* the values of another construct, whatever entries set_action has dropped *)
(* for being second in a conflicting cell.                                  *)
THEOREM StacksStayAligned == Spec => []StackSpellsPath
  <1>1. ASSUME MergeInv, StackInv, builder, stage \in Running
        PROVE  StackSpellsPath
    <2>1. Stacks(state_stack, value_stack)
      BY <1>1 DEF StackInv
    <2>2. DOMAIN state_stack = 1..Len(state_stack) /\ DOMAIN value_stack = 1..Len(value_stack)
      BY <2>1, SeqDomain DEF Stacks
    <2>3. ASSUME NEW i \in DOMAIN state_stack, NEW c \in Cores(lalr.items[state_stack[i]])
          PROVE  c.dot < i /\ \A j \in 1..c.dot : value_stack[i - 1 - c.dot + j].symbol = Rhs(c.prod)[j]
      <3>1. i \in Nat /\ HasRead(value_stack, i - 1, lalr.items[state_stack[i]])
        BY <2>1, <2>2, SeqDomain DEF Stacks
      <3>2. c.dot \in Nat
        BY <1>1, <2>1, <2>2, CoreType DEF Stacks, MergeInv, Automaton, Merged, Running
      <3>3. c.dot <= i - 1 /\ \A j \in 1..c.dot : value_stack[i - 1 - c.dot + j].symbol = Rhs(c.prod)[j]
        BY <3>1 DEF HasRead
      <3> QED BY <3>1, <3>2, <3>3
    <2> QED BY <2>1, <2>2, <2>3 DEF Stacks, StackSpellsPath
  <1>2. MergeInv /\ StackInv => StackSpellsPath
    BY <1>1 DEF StackSpellsPath, Running
  <1> QED
    BY <1>2, InitCollection, NextCollection, InitMerge, NextMerge, InitTables, NextTables,
       InitStack, NextStack, PTL DEF Spec
-----------------------------------------------------------------------------
(* What is read from the file.                                              *)
Text == WordsOf(text)
Shape(V) ==
  [terminals : SUBSET V, nonterminals : SUBSET V, start : V \cup {""}, prods : Seq([lhs : V, rhs : Seq(V)])]

TextInv ==
  /\ text \in Files
  /\ stage = "read" => at \in Nat \ {0}
  /\ line \in Seq(Text) /\ current_lhs \in Text \cup {""}
  /\ grammar \in Shape(Text)
  /\ \A i \in DOMAIN grammar.prods : grammar.prods[i].lhs \in grammar.nonterminals
  /\ stage \notin {"read", "no_grammar"} => grammar.start \in Text

(* What this means for the grammar: only its last production is that of the *)
(* augmented start symbol, which no right side has.                         *)
WellRuled ==
  /\ IsSeq(Productions)
  /\ \A p \in DOMAIN Productions :
       /\ Len(Rhs(p)) \in Nat /\ \A j \in 1..Len(Rhs(p)) : Rhs(p)[j] # Augmented
       /\ Productions[p].lhs \in Nonterminals
       /\ Productions[p].lhs = Augmented <=> p = Start
  /\ Start \in DOMAIN Productions /\ Len(Rhs(Start)) = 1 /\ Rhs(Start)[1] = grammar.start
  /\ Dollar \notin grammar.terminals

(* Ascending is the numbers of S up to n, whatever S is: the function it is  *)
(* defined by exists, and never has anything else.                          *)
Upto(S, f, m) ==
  f = [i \in 0..m |-> IF i = 0 THEN <<>> ELSE IF i \in S THEN Append(f[i - 1], i) ELSE f[i - 1]]

LEMMA AscendingWithin ==
  ASSUME NEW S, NEW n \in Nat
  PROVE  Ascending(S, n) \in Seq(S \cap 1..n)
  <1> DEFINE Bad == {m \in Nat : ~ \E f : Upto(S, f, m)}
  <1>1. Bad = {}
    <2>1. SUFFICES ASSUME Bad # {} PROVE FALSE
      OBVIOUS
    <2>2. PICK m \in Bad : \A y \in Bad : m <= y
      BY <2>1, MinIsLeast
    <2>3. CASE m = 0
      <3>1. Upto(S, [i \in 0..0 |-> <<>>], 0)
        BY DEF Upto
      <3> QED BY <2>2, <2>3, <3>1
    <2>4. CASE m # 0
      <3>1. m - 1 \in Nat /\ m - 1 \notin Bad
        BY <2>2, <2>4
      <3>2. PICK f : Upto(S, f, m - 1)
        BY <3>1
      <3> DEFINE g == [i \in 0..m |-> IF i = m THEN (IF m \in S THEN Append(f[m - 1], m) ELSE f[m - 1]) ELSE f[i]]
      <3>3. \A i \in 0..(m-1) : f[i] = IF i = 0 THEN <<>> ELSE IF i \in S THEN Append(f[i - 1], i) ELSE f[i - 1]
        BY <3>2 DEF Upto
      <3>4. ASSUME NEW i \in 0..m PROVE g[i] = IF i = 0 THEN <<>> ELSE IF i \in S THEN Append(g[i - 1], i) ELSE g[i - 1]
        <4>1. i # 0 => i - 1 \in 0..(m - 1) /\ i - 1 # m
          BY <2>2
        <4>2. i # m => i \in 0..(m - 1)
          BY <2>2
        <4>3. CASE i = m
          BY <2>4, <4>1, <4>3
        <4>4. CASE i # m
          BY <4>1, <4>2, <4>4, <3>3
        <4> QED BY <4>3, <4>4
      <3>5. Upto(S, g, m)
        BY <3>4 DEF Upto
      <3> QED BY <2>2, <3>5
    <2> QED BY <2>3, <2>4
  <1> DEFINE up == CHOOSE f : Upto(S, f, n)
  <1>2. Upto(S, up, n)
    BY <1>1
  <1>3. Ascending(S, n) = up[n]
    BY DEF Ascending, Upto
  <1> HIDE DEF up
  <1> DEFINE Wrong == {i \in 0..n : up[i] \notin Seq(S \cap 1..n)}
  <1>4. Wrong = {}
    <2>1. SUFFICES ASSUME Wrong # {} PROVE FALSE
      OBVIOUS
    <2>2. PICK m \in Wrong : \A y \in Wrong : m <= y
      <3>1. Wrong \in SUBSET Nat
        OBVIOUS
      <3> QED BY <2>1, <3>1, MinIsLeast
    <2>3. up[m] = IF m = 0 THEN <<>> ELSE IF m \in S THEN Append(up[m - 1], m) ELSE up[m - 1]
      BY <1>2, <2>2 DEF Upto
    <2>4. m # 0 => m - 1 \in 0..n /\ m - 1 \notin Wrong
      BY <2>2
    <2>5. m # 0 /\ m \in S => m \in S \cap 1..n
      BY <2>2
    <2>6. m # 0 => up[m - 1] \in Seq(S \cap 1..n)
      BY <2>4
    <2>7. up[m] \in Seq(S \cap 1..n)
      BY <2>3, <2>5, <2>6
    <2> QED BY <2>2, <2>7
  <1> QED BY <1>3, <1>4

(* The places of a mark and of what follows it in the line.                 *)
LEMMA PlaceInLine ==
  ASSUME NEW V, line \in Seq(V), NEW mark
  PROVE  /\ Place(mark) \in 0..Len(line)
         /\ After(mark) \in Seq(V)
         /\ After(mark) # <<>> => Head(After(mark)) \in V
         /\ Has(mark) => line # <<>> /\ line[1] \in V
  <1> DEFINE I == {i \in 1..Len(line) : line[i] = mark}
  <1>1. Place(mark) = IF I # {} THEN Min(I) ELSE 0
    BY DEF Place, SelectInSeq
  <1>2. I # {} => Min(I) \in I
    BY MinIsLeast
  <1>3. Place(mark) \in 0..Len(line)
    BY <1>1, <1>2
  <1>4. After(mark) \in Seq(V)
    BY <1>3 DEF After
  <1> QED BY <1>3, <1>4 DEF Has

LEMMA UncommentedWords ==
  ASSUME NEW V, NEW words \in Seq(V)
  PROVE  Uncommented(words) \in Seq(V)
  <1>1. PICK S : /\ S \subseteq DOMAIN words
                 /\ Uncommented(words) = [i \in DOMAIN Ascending(S, Len(words)) |-> words[Ascending(S, Len(words))[i]]]
    BY DEF Uncommented
  <1> DEFINE kept == Ascending(S, Len(words))
  <1>2. kept \in Seq(1..Len(words))
    <2>1. kept \in Seq(S \cap 1..Len(words))
      BY AscendingWithin
    <2> QED BY <2>1
  <1> HIDE DEF kept
  <1>3. [i \in DOMAIN kept |-> words[kept[i]]] \in Seq(V)
    BY <1>2
  <1> QED BY <1>1, <1>3 DEF kept

LEMMA AlternativesOfWords ==
  ASSUME NEW V, line \in Seq(V), NEW from \in 1..Len(line)
  PROVE  Alternatives(from) \in Seq(Seq(V))
  <1> DEFINE count(w, i) == Cardinality({j \in (from + 1)..i : line[j] = w})
             bars == {i \in (from + 1)..Len(line) : line[i] = "|" /\ count("{", i) = count("}", i)}
             braces == {i \in (from + 1)..Len(line) : line[i] = "{"}
             end(i) == Min({j \in bars \cup braces : j > i} \cup {Len(line) + 1})
             alternative == [i \in DOMAIN line |-> SubSeq(line, i + 1, end(i) - 1)]
             starts == Ascending({from} \cup (bars \ {Len(line)}), Len(line))
  <1>1. Alternatives(from) = [k \in DOMAIN starts |-> alternative[starts[k]]]
    BY DEF Alternatives
  <1>2. Len(line) \in Nat /\ DOMAIN line = 1..Len(line)
    OBVIOUS
  <1> HIDE DEF count
  <1>7. bars \subseteq 1..Len(line) /\ braces \subseteq 1..Len(line)
    <2>1. bars \subseteq (from + 1)..Len(line) /\ braces \subseteq (from + 1)..Len(line)
      OBVIOUS
    <2>2. (from + 1)..Len(line) \subseteq 1..Len(line)
      BY <1>2
    <2> HIDE DEF bars, braces
    <2> QED BY <2>1, <2>2
  <1> HIDE DEF bars, braces
  <1>3. ASSUME NEW i \in DOMAIN line PROVE end(i) \in 1..(Len(line) + 1)
    <2> DEFINE T == {j \in bars \cup braces : j > i} \cup {Len(line) + 1}
    <2>1. T \subseteq 1..(Len(line) + 1) /\ Len(line) + 1 \in T
      <3>1. ASSUME NEW j \in T PROVE j \in 1..(Len(line) + 1)
        <4>1. j \in 1..Len(line) \/ j = Len(line) + 1
          BY <1>7
        <4> QED BY <1>2, <4>1
      <3> QED BY <3>1
    <2>3. T # {} /\ T \in SUBSET Nat
      <3> HIDE DEF T
      <3> QED BY <2>1
    <2> HIDE DEF T
    <2>2. Min(T) \in T
      BY <2>3, MinIsLeast
    <2> QED BY <2>1, <2>2 DEF T
  <1> HIDE DEF end
  <1>4. \A i \in DOMAIN line : alternative[i] \in Seq(V)
    BY <1>2, <1>3
  <1>5. starts \in Seq(1..Len(line))
    <2>1. starts \in Seq(({from} \cup (bars \ {Len(line)})) \cap 1..Len(line))
      BY <1>2, AscendingWithin
    <2> QED BY <2>1
  <1> HIDE DEF starts, alternative
  <1>6. [k \in DOMAIN starts |-> alternative[starts[k]]] \in Seq(Seq(V))
    <2> DEFINE W == Seq(V)
    <2>1. ASSUME NEW k \in DOMAIN starts PROVE alternative[starts[k]] \in W
      <3>1. starts[k] \in DOMAIN line
        BY <1>2, <1>5
      <3> QED BY <1>4, <3>1
    <2> HIDE DEF W
    <2>2. [k \in DOMAIN starts |-> alternative[starts[k]]] \in Seq(W)
      BY <1>5, <2>1
    <2> QED BY <2>2 DEF W
  <1> QED BY <1>1, <1>6

LEMMA InitText == Init => TextInv
  <1> SUFFICES ASSUME Init PROVE TextInv
    OBVIOUS
  <1>1. /\ stage = "read" /\ text \in Files /\ at = 1 /\ line = <<>> /\ current_lhs = ""
        /\ grammar = [terminals |-> {}, nonterminals |-> {}, start |-> "", prods |-> <<>>]
    BY DEF Init, GeneratorInit, ReaderInit
  <1>2. <<>> \in Seq(Text) /\ <<>> \in Seq([lhs : Text, rhs : Seq(Text)]) /\ DOMAIN <<>> = {}
    OBVIOUS
  <1>3. grammar \in Shape(Text)
    BY <1>1, <1>2 DEF Shape
  <1>4. at \in Nat \ {0}
    <2>1. at = 1
      BY DEF Init, GeneratorInit, ReaderInit
    <2> QED BY <2>1
  <1> QED BY <1>1, <1>2, <1>3, <1>4, Zenon DEF TextInv

(* Rules enter the grammar.                                                 *)
LEMMA RulesEnter ==
  ASSUME NEW V, grammar \in Shape(V), NEW X \in V, NEW alts \in Seq(Seq(V)), AddRules(X, alts),
         \A i \in DOMAIN grammar.prods : grammar.prods[i].lhs \in grammar.nonterminals
  PROVE  /\ grammar' \in Shape(V)
         /\ \A i \in DOMAIN grammar'.prods : grammar'.prods[i].lhs \in grammar'.nonterminals
  <1> DEFINE R == [lhs : V, rhs : Seq(V)]
             more == [i \in DOMAIN alts |-> [lhs |-> X, rhs |-> alts[i]]]
             found == {X} \cup (UNION {ToSet(alts[i]) : i \in DOMAIN alts} \ grammar.terminals)
  <1>1. /\ grammar.terminals \in SUBSET V /\ grammar.nonterminals \in SUBSET V
        /\ grammar.start \in V \cup {""} /\ grammar.prods \in Seq(R)
    BY DEF Shape
  <1>2. grammar' = [grammar EXCEPT !.prods = @ \o more, !.nonterminals = @ \cup found]
    BY DEF AddRules
  <1>3. /\ grammar'.terminals = grammar.terminals /\ grammar'.start = grammar.start
        /\ grammar'.nonterminals = grammar.nonterminals \cup found
        /\ grammar'.prods = grammar.prods \o more
        /\ grammar' = [terminals |-> grammar'.terminals, nonterminals |-> grammar'.nonterminals,
                       start |-> grammar'.start, prods |-> grammar'.prods]
    BY <1>2 DEF Shape
  <1>4. more \in Seq(R) /\ \A i \in DOMAIN more : more[i].lhs = X
    <2>1. \A i \in DOMAIN alts : more[i] \in R
      OBVIOUS
    <2>2. \A i \in DOMAIN more : more[i].lhs = X
      OBVIOUS
    <2> HIDE DEF R
    <2> QED BY <2>1, <2>2
  <1>5. found \subseteq V
    BY DEF ToSet
  <1> HIDE DEF R, more, found
  <1>6. grammar'.prods \in Seq(R)
    BY <1>1, <1>3, <1>4, SeqJoin
  <1>7. ASSUME NEW i \in DOMAIN grammar'.prods PROVE grammar'.prods[i].lhs \in grammar'.nonterminals
    <2>1. \/ i \in DOMAIN grammar.prods /\ (grammar.prods \o more)[i] = grammar.prods[i]
          \/ \E k \in DOMAIN more : (grammar.prods \o more)[i] = more[k]
      <3>1. grammar.prods \in Seq(R) /\ more \in Seq(R) /\ i \in DOMAIN (grammar.prods \o more)
        BY <1>1, <1>3, <1>4, <1>7
      <3>2. \A j \in DOMAIN (grammar.prods \o more) :
              \/ j \in DOMAIN grammar.prods /\ (grammar.prods \o more)[j] = grammar.prods[j]
              \/ \E k \in DOMAIN more : (grammar.prods \o more)[j] = more[k]
        <4> DEFINE old == grammar.prods
        <4>1. old \in Seq(R) /\ more \in Seq(R)
          BY <3>1
        <4> HIDE DEF old
        <4>2. \A j \in DOMAIN (old \o more) : \/ j \in DOMAIN old /\ (old \o more)[j] = old[j]
                                             \/ \E k \in DOMAIN more : (old \o more)[j] = more[k]
          BY <4>1, SeqJoin
        <4> QED BY <4>2 DEF old
      <3> QED BY <3>1, <3>2, Zenon
    <2>2. X \in found
      BY DEF found
    <2> QED BY <1>3, <1>4, <2>1, <2>2
  <1>8. grammar' \in Shape(V)
    BY <1>1, <1>3, <1>5, <1>6 DEF Shape, R
  <1> QED BY <1>7, <1>8

(* Reading keeps to the words of the file.                                  *)
LEMMA ReaderKeepsWords ==
  ASSUME TextInv, ReaderNext
  PROVE  /\ text' = text /\ (stage' = "read" => at' \in Nat \ {0})
         /\ line' \in Seq(Text) /\ current_lhs' \in Text \cup {""}
         /\ grammar' \in Shape(Text)
         /\ \A i \in DOMAIN grammar'.prods : grammar'.prods[i].lhs \in grammar'.nonterminals
         /\ stage' \notin {"read", "no_grammar"} => grammar'.start \in Text
  <1> DEFINE V == Text
             Goal == /\ text' = text /\ (stage' = "read" => at' \in Nat \ {0})
                     /\ line' \in Seq(V) /\ current_lhs' \in V \cup {""}
                     /\ grammar' \in Shape(V)
                     /\ \A i \in DOMAIN grammar'.prods : grammar'.prods[i].lhs \in grammar'.nonterminals
                     /\ stage' \notin {"read", "no_grammar"} => grammar'.start \in V
  <1>1. /\ line \in Seq(V) /\ current_lhs \in V \cup {""}
        /\ grammar \in Shape(V) /\ <<>> \in Seq(V)
        /\ \A i \in DOMAIN grammar.prods : grammar.prods[i].lhs \in grammar.nonterminals
        /\ stage = "read" => at \in Nat \ {0}
    <2>1. <<>> \in Seq(V)
      OBVIOUS
    <2> QED BY <2>1 DEF TextInv
  <1>0. text \in Seq(Seq(V))
    <2>1. text \in Files
      BY DEF TextInv
    <2> QED BY <2>1, FilesOfWords DEF Text
  <1>11. Len(line) \in Nat /\ (line # <<>> => Len(line) # 0)
    <2>1. line \in Seq(V)
      BY DEF TextInv
    <2> HIDE DEF V
    <2> QED BY <2>1
  <1>12. stage = "read" => at \in Nat \ {0}
    BY DEF TextInv
  <1> HIDE DEF V
  <1>2. ASSUME Handle, UNCHANGED grammar, current_lhs' \in {current_lhs, ""} PROVE Goal
    BY <1>1, <1>2 DEF Handle
  <1>3. ASSUME GetLine PROVE Goal
    <2>1. /\ stage = "read" /\ at <= Len(text) /\ line' = Uncommented(text[at]) /\ at' = at + 1
          /\ UNCHANGED <<stage, text, current_lhs, grammar>>
      BY <1>3 DEF GetLine
    <2>2. text[at] \in Seq(V)
      <3> DEFINE W == Seq(V)
      <3> HIDE DEF W
      <3>1. text \in Seq(W)
        BY <1>0 DEF W
      <3>2. at \in 1..Len(text)
        <4>1. Len(text) \in Nat
          BY <3>1
        <4> QED BY <1>12, <2>1, <4>1
      <3> QED BY <3>1, <3>2 DEF W
    <2>3. line' \in Seq(V)
      BY <2>1, <2>2, UncommentedWords
    <2>4. at' \in Nat \ {0}
      BY <1>12, <2>1
    <2> QED BY <1>1, <2>1, <2>3, <2>4
  <1>4. ASSUME UserCode \/ Separator \/ EndRule \/ PassOver PROVE Goal
    BY <1>2, <1>4 DEF UserCode, Separator, EndRule, PassOver, InGrammar, InRules
  <1>5. ASSUME Declaration PROVE Goal
    <2>1. /\ stage = "read" /\ line' = <<>> /\ UNCHANGED <<stage, text, at, current_lhs>>
          /\ grammar' = [grammar EXCEPT
               !.terminals = IF Has("%token") THEN @ \cup ToSet(After("%token")) ELSE @,
               !.start = IF Has("%start") /\ After("%start") # <<>> THEN Head(After("%start")) ELSE @]
      BY <1>5 DEF Declaration, InGrammar, Handle
    <2>2. ToSet(After("%token")) \subseteq V
      <3>1. After("%token") \in Seq(V)
        BY <1>1, PlaceInLine
      <3> QED BY <3>1 DEF ToSet
    <2>3. After("%start") # <<>> => Head(After("%start")) \in V
      BY <1>1, PlaceInLine
    <2>4. grammar' \in Shape(V) /\ grammar'.prods = grammar.prods /\ grammar'.nonterminals = grammar.nonterminals
      BY <1>1, <2>1, <2>2, <2>3 DEF Shape
    <2> QED BY <1>1, <2>1, <2>4
  <1>6. ASSUME Handle, NEW X \in V, NEW alts \in Seq(Seq(V)), AddRules(X, alts), current_lhs' \in {X, current_lhs}
        PROVE  Goal
    <2>1. /\ grammar' \in Shape(V)
          /\ \A i \in DOMAIN grammar'.prods : grammar'.prods[i].lhs \in grammar'.nonterminals
      BY <1>1, <1>6, RulesEnter
    <2> QED BY <1>1, <1>6, <2>1 DEF Handle
  <1>7. ASSUME Rule PROVE Goal
    <2>1. Handle /\ Has(":") /\ current_lhs' = line[1] /\ AddRules(line[1], Alternatives(Place(":")))
      BY <1>7 DEF Rule, InRules, InGrammar
    <2>2. line[1] \in V /\ Place(":") \in 1..Len(line)
      <3>1. line[1] \in V /\ Place(":") \in 0..Len(line) /\ Place(":") > 0
        BY <1>1, <2>1, PlaceInLine DEF Has
      <3> QED BY <1>11, <3>1
    <2>3. Alternatives(Place(":")) \in Seq(Seq(V))
      BY <1>1, <2>2, AlternativesOfWords
    <2> HIDE DEF Goal
    <2> QED BY <1>6, <2>1, <2>2, <2>3
  <1>8. ASSUME Alternative PROVE Goal
    <2>1. Handle /\ line # <<>> /\ current_lhs # "" /\ UNCHANGED current_lhs /\ AddRules(current_lhs, Alternatives(1))
      BY <1>8 DEF Alternative, InRules, InGrammar, Handle
    <2>2. current_lhs \in V /\ 1 \in 1..Len(line)
      <3>1. line # <<>>
        BY <2>1
      <3>2. 1 \in 1..Len(line)
        BY <1>11, <3>1
      <3> QED BY <1>1, <2>1, <3>2
    <2>3. Alternatives(1) \in Seq(Seq(V))
      BY <1>1, <2>2, AlternativesOfWords
    <2> HIDE DEF Goal
    <2> QED BY <1>6, <2>1, <2>2, <2>3
  <1>9. ASSUME BuildGrammar PROVE Goal
    <2>1. UNCHANGED <<text, line, current_lhs>> /\ stage' \in {"first", "no_grammar"}
      BY <1>9 DEF BuildGrammar, file
    <2>2. CASE grammar.start = "" /\ grammar.prods = <<>>
      <3>1. UNCHANGED grammar /\ stage' = "no_grammar"
        BY <1>9, <2>2 DEF BuildGrammar
      <3> QED BY <1>1, <2>1, <3>1
    <2>3. CASE ~(grammar.start = "" /\ grammar.prods = <<>>)
      <3> DEFINE start == IF grammar.start = "" THEN grammar.prods[1].lhs ELSE grammar.start
      <3>1. start \in V
        <4>1. grammar.prods \in Seq([lhs : V, rhs : Seq(V)]) /\ grammar.start \in V \cup {""}
          BY <1>1 DEF Shape
        <4>2. grammar.start = "" => grammar.prods[1] \in [lhs : V, rhs : Seq(V)]
          <5> DEFINE R == [lhs : V, rhs : Seq(V)]
          <5> HIDE DEF R
          <5>1. grammar.prods \in Seq(R) /\ grammar.prods # <<>> => grammar.prods[1] \in R
            OBVIOUS
          <5> QED BY <2>3, <4>1, <5>1 DEF R
        <4> QED BY <4>1, <4>2
      <3>2. grammar' = [grammar EXCEPT !.start = start, !.nonterminals = @ \cup ({start} \ grammar.terminals)]
        BY <1>9, <2>3 DEF BuildGrammar
      <3> HIDE DEF start
      <3>3. /\ grammar' \in Shape(V) /\ grammar'.start = start /\ grammar'.prods = grammar.prods
            /\ grammar.nonterminals \subseteq grammar'.nonterminals
        BY <1>1, <3>1, <3>2 DEF Shape
      <3> QED BY <1>1, <2>1, <3>1, <3>3
    <2> QED BY <2>2, <2>3
  <1>10. Goal
    BY <1>3, <1>4, <1>5, <1>7, <1>8, <1>9 DEF ReaderNext
  <1> QED BY <1>10 DEF V

LEMMA NextText == TextInv /\ [Next]_vars => TextInv'
  <1> SUFFICES ASSUME TextInv, [Next]_vars PROVE TextInv'
    OBVIOUS
  <1> USE DEF file, sweep, collection, expansion, filling
  <1>1. ASSUME ReadFile PROVE TextInv'
    <2>1. ReaderNext
      BY <1>1 DEF ReadFile
    <2>2. text' = text /\ Text' = Text
      BY <2>1, ReaderKeepsWords DEF Text
    <2>3. Shape(Text)' = Shape(Text)
      BY <2>2 DEF Shape
    <2> QED BY <2>1, <2>2, <2>3, ReaderKeepsWords DEF TextInv
  <1>2. ASSUME UNCHANGED <<text, line, current_lhs, grammar>>, stage' = "read" => stage = "read" /\ at' = at,
               stage \in {"read", "no_grammar"} => stage' = stage
        PROVE  TextInv'
    <2>1. Text' = Text /\ Shape(Text)' = Shape(Text)
      BY <1>2 DEF Text, Shape
    <2> QED BY <1>2, <2>1 DEF TextInv
  <1>3. ASSUME Next, ~ReadFile PROVE TextInv'
    <2>1. UNCHANGED <<text, line, current_lhs, grammar>>
      BY <1>3 DEF Next, Generate, GeneratorNext, SweepProduction, EndSweep, ExpandState, FollowSymbol,
         CloseItem, CloseDone, Merge, EnterShifts, EnterReductions, Begin, SyntaxError, ShiftToken,
         InternalError, ReduceProduction, AcceptInput, End, generator
    <2>2. stage \notin {"read", "no_grammar"} /\ stage' # "read"
      BY <1>3 DEF Next, Generate, GeneratorNext, SweepProduction, EndSweep, ExpandState, FollowSymbol,
         CloseItem, CloseDone, Merge, EnterShifts, EnterReductions, Begin, SyntaxError, ShiftToken,
         InternalError, ReduceProduction, AcceptInput, End, generator
    <2> QED BY <1>2, <2>1, <2>2
  <1>4. CASE UNCHANGED vars
    BY <1>2, <1>4 DEF vars, generator
  <1> QED BY <1>1, <1>3, <1>4

LEMMA RulesOfFile ==
  ASSUME TextInv, stage \notin {"read", "no_grammar"}
  PROVE  WellRuled
  <1> DEFINE V == Text
             R == [lhs : V, rhs : Seq(V)]
             new == [lhs |-> Augmented, rhs |-> <<grammar.start>>]
  <1>1. /\ grammar.prods \in Seq(R) /\ grammar.start \in V /\ grammar.terminals \subseteq V
        /\ \A i \in DOMAIN grammar.prods : grammar.prods[i].lhs \in grammar.nonterminals
        /\ Augmented \notin V /\ Dollar \notin V
    BY FilesOfWords DEF TextInv, Shape, Text
  <1> HIDE DEF V
  <1>2. Productions = Append(grammar.prods, new) /\ Start = Len(Productions)
    BY DEF Productions, ProductionsOf, Start
  <1>3. /\ Len(grammar.prods) \in Nat /\ DOMAIN grammar.prods = 1..Len(grammar.prods)
        /\ IsSeq(grammar.prods) /\ \A i \in 1..Len(grammar.prods) : grammar.prods[i] \in R
    <2> HIDE DEF R
    <2> QED BY <1>1 DEF IsSeq
  <1> HIDE DEF new
  <1>4. /\ IsSeq(Productions) /\ Start = Len(grammar.prods) + 1 /\ DOMAIN Productions = 1..Start
        /\ Productions[Start] = new /\ \A i \in 1..Len(grammar.prods) : Productions[i] = grammar.prods[i]
    BY <1>2, <1>3, SeqAppend, SeqDomain
  <1>5. Len(Rhs(Start)) = 1 /\ Rhs(Start)[1] = grammar.start /\ Productions[Start].lhs = Augmented
    BY <1>4 DEF Rhs, new
  <1>6. ASSUME NEW p \in DOMAIN Productions
        PROVE  /\ Len(Rhs(p)) \in Nat /\ \A j \in 1..Len(Rhs(p)) : Rhs(p)[j] # Augmented
               /\ Productions[p].lhs \in Nonterminals
               /\ Productions[p].lhs = Augmented <=> p = Start
    <2>1. CASE p = Start
      <3>1. Len(Rhs(p)) = 1 /\ Rhs(p)[1] \in V /\ Productions[p].lhs = Augmented
        BY <1>1, <1>5, <2>1
      <3>2. \A j \in 1..Len(Rhs(p)) : j = 1
        BY <3>1
      <3> QED BY <1>1, <2>1, <3>1, <3>2 DEF Nonterminals
    <2>2. CASE p # Start
      <3>1. p \in 1..Len(grammar.prods) /\ Productions[p] = grammar.prods[p]
        BY <1>3, <1>4, <2>2
      <3>2. Rhs(p) \in Seq(V) /\ Productions[p].lhs \in V /\ Productions[p].lhs \in grammar.nonterminals
        BY <1>1, <1>3, <3>1 DEF Rhs
      <3> QED BY <1>1, <2>2, <3>2 DEF Nonterminals
    <2> QED BY <2>1, <2>2
  <1>7. Start \in DOMAIN Productions
    BY <1>3, <1>4
  <1> QED BY <1>1, <1>4, <1>5, <1>6, <1>7 DEF WellRuled

-----------------------------------------------------------------------------
(* Why a reduction finds its way on: an item at the start of its production *)
(* is in a state because another item there waits for its left side.        *)
WellFormed(I) == \A c \in Cores(I) : c.prod \in DOMAIN Productions /\ c.dot \in 0..Len(Rhs(c.prod))

Awaited(c, I) == \E d \in Cores(I) : ~Complete(d) /\ NextSymbol(d) = Productions[c.prod].lhs
Justified(I) == \A c \in Cores(I) : c.dot = 0 => c.prod = Start \/ Awaited(c, I)
StartsOver(I) == \E c \in Cores(I) : c.prod = Start /\ c.dot = 0

Sound(items, moves) ==
  /\ \A n \in DOMAIN items : WellFormed(items[n]) /\ Justified(items[n])
  /\ \A e \in DOMAIN moves : ~StartsOver(items[moves[e]])

Total(items, moves) ==
  \A n \in DOMAIN items : \A c \in Cores(items[n]) : ~Complete(c) => <<n, NextSymbol(c)>> \in DOMAIN moves

(* States before the current one are done with; in that one, the symbols    *)
(* that are left still have to be followed.                                 *)
Explored ==
  \A n \in DOMAIN states : \A c \in Cores(states[n]) :
    ~Complete(c) /\ n <= current =>
      <<n, NextSymbol(c)>> \in DOMAIN trans \/ (n = current /\ NextSymbol(c) \in symbols)

SoundInv ==
  /\ stage \in {"close", "expand"} => Sound(states, trans) /\ Explored
  /\ stage = "close" =>
       /\ WellFormed(next) /\ Justified(next)
       /\ queue \subseteq Cores(next)
       /\ IF symbols = {} THEN current = 0 ELSE ~StartsOver(next)
  /\ stage \in Merged => Sound(lalr.items, lalr.trans) /\ Total(lalr.items, lalr.trans)

LEMMA InitSound == Init => SoundInv
  BY DEF Init, GeneratorInit, ReaderInit, SoundInv, Merged, Ended

LEMMA SameSound ==
  ASSUME grammar' = grammar
  PROVE  /\ \A I : /\ WellFormed(I)' <=> WellFormed(I)
                   /\ Justified(I)' <=> Justified(I)
                   /\ StartsOver(I)' <=> StartsOver(I)
                   /\ Cores(I)' = Cores(I)
         /\ \A c : (Complete(c)' <=> Complete(c)) /\ NextSymbol(c)' = NextSymbol(c)
         /\ \A items, moves : /\ Sound(items, moves)' <=> Sound(items, moves)
                              /\ Total(items, moves)' <=> Total(items, moves)
         /\ Productions' = Productions /\ Start' = Start /\ Nonterminals' = Nonterminals
  <1>1. Productions' = Productions /\ Start' = Start /\ Nonterminals' = Nonterminals
    BY DEF Productions, ProductionsOf, Start, Nonterminals
  <1>2. \A c : (Complete(c)' <=> Complete(c)) /\ NextSymbol(c)' = NextSymbol(c)
    BY SameGrammar DEF Complete, NextSymbol
  <1>3. \A I : Cores(I)' = Cores(I)
    BY DEF Cores, ItemCore
  <1>4. \A I : WellFormed(I)' <=> WellFormed(I)
    BY <1>1, <1>3, SameGrammar DEF WellFormed
  <1>5. \A I : Justified(I)' <=> Justified(I)
    BY <1>1, <1>2, <1>3 DEF Justified, Awaited
  <1>6. \A I : StartsOver(I)' <=> StartsOver(I)
    BY <1>1, <1>3 DEF StartsOver
  <1>7. \A items, moves : Sound(items, moves)' <=> Sound(items, moves)
    BY <1>4, <1>5, <1>6 DEF Sound
  <1>8. \A items, moves : Total(items, moves)' <=> Total(items, moves)
    BY <1>2, <1>3 DEF Total
  <1>9. \A I : /\ WellFormed(I)' <=> WellFormed(I)
               /\ Justified(I)' <=> Justified(I)
               /\ StartsOver(I)' <=> StartsOver(I)
               /\ Cores(I)' = Cores(I)
    BY <1>3, <1>4, <1>5, <1>6, Zenon
  <1>10. \A items, moves : /\ Sound(items, moves)' <=> Sound(items, moves)
                           /\ Total(items, moves)' <=> Total(items, moves)
    BY <1>7, <1>8, Zenon
  <1> QED BY <1>1, <1>2, <1>9, <1>10, Zenon

(* The production of an item that waits for its next symbol has it.         *)
LEMMA NextOnRight ==
  ASSUME WellRuled, NEW c, c.prod \in DOMAIN Productions, c.dot \in 0..Len(Rhs(c.prod)), ~Complete(c)
  PROVE  c.dot + 1 \in 1..Len(Rhs(c.prod)) /\ NextSymbol(c) # Augmented
  <1>1. Len(Rhs(c.prod)) \in Nat /\ c.dot # Len(Rhs(c.prod))
    BY DEF WellRuled, Complete
  <1>2. c.dot + 1 \in 1..Len(Rhs(c.prod))
    BY <1>1
  <1> QED BY <1>2 DEF WellRuled, NextSymbol

(* goto_lr1: the kernel of the state to come has nothing at its start.      *)
LEMMA KernelSound ==
  ASSUME WellRuled, CollectionInv, SoundInv, FollowSymbol
  PROVE  WellFormed(next') /\ Justified(next') /\ ~StartsOver(next')
  <1>1. /\ Collected /\ current \in DOMAIN states /\ Sound(states, trans)
        /\ next' = {[it EXCEPT !.dot = @ + 1] :
                      it \in {x \in states[current] : ~Complete(x) /\ NextSymbol(x) = Followed}}
    BY DEF FollowSymbol, CollectionInv, SoundInv
  <1>2. \A it \in states[current] : IsItem(it)
    BY <1>1 DEF Collected, Automaton
  <1>3. WellFormed(states[current])
    BY <1>1 DEF Sound
  <1>4. ASSUME NEW c \in Cores(next')
        PROVE  c.prod \in DOMAIN Productions /\ c.dot \in 1..Len(Rhs(c.prod))
    <2>1. PICK j \in next' : c = ItemCore(j)
      BY DEF Cores
    <2>2. PICK it \in states[current] : ~Complete(it) /\ j = [it EXCEPT !.dot = @ + 1]
      BY <1>1
    <2>3. c.prod = it.prod /\ c.dot = it.dot + 1
      BY <1>2, <2>1, <2>2 DEF ItemCore, IsItem
    <2>4. it.prod \in DOMAIN Productions /\ it.dot \in 0..Len(Rhs(it.prod))
      <3>1. ItemCore(it).prod = it.prod /\ ItemCore(it).dot = it.dot
        BY DEF ItemCore
      <3> QED BY <1>3, <3>1, CoreOf DEF WellFormed
    <2> QED BY <2>2, <2>3, <2>4, NextOnRight
  <1>5. WellFormed(next')
    <2> SUFFICES ASSUME NEW c \in Cores(next')
                 PROVE  c.prod \in DOMAIN Productions /\ c.dot \in 0..Len(Rhs(c.prod))
      BY DEF WellFormed
    <2> QED BY <1>4
  <1>6. \A c \in Cores(next') : c.dot # 0
    BY <1>4
  <1> QED BY <1>5, <1>6 DEF Justified, StartsOver

(* closure_lr1: what is added is awaited by the item it is added for.       *)
LEMMA ClosureSound ==
  ASSUME WellRuled, CloseItem, WellFormed(next), Justified(next), queue \subseteq Cores(next)
  PROVE  /\ WellFormed(next') /\ Justified(next') /\ queue' \subseteq Cores(next')
         /\ StartsOver(next') => StartsOver(next)
  <1> DEFINE c == CHOOSE x \in queue : TRUE
             prods == IF Complete(c) THEN {} ELSE {p \in DOMAIN Productions : Productions[p].lhs = NextSymbol(c)}
             las == IF prods = {} THEN {} ELSE Followers(c)
             grown == {p \in prods : ~ las \subseteq Lookaheads(next, [prod |-> p, dot |-> 0])}
  <1>1. /\ c \in queue
        /\ next' = next \cup [prod : prods, dot : {0}, la : las]
        /\ queue' = (queue \ {c}) \cup [prod : grown, dot : {0}]
        /\ \A p \in prods : p \in DOMAIN Productions /\ ~Complete(c) /\ Productions[p].lhs = NextSymbol(c)
        /\ grown \subseteq prods /\ (grown # {} => las # {})
    <2>1. c \in queue
      BY DEF CloseItem
    <2>2. /\ next' = next \cup [prod : prods, dot : {0}, la : las]
          /\ queue' = (queue \ {c}) \cup [prod : grown, dot : {0}]
      BY DEF CloseItem
    <2>3. \A p \in prods : p \in DOMAIN Productions /\ ~Complete(c) /\ Productions[p].lhs = NextSymbol(c)
      OBVIOUS
    <2>4. grown \subseteq prods /\ (grown # {} => las # {})
      OBVIOUS
    <2> QED BY <2>1, <2>2, <2>3, <2>4
  <1> HIDE DEF c, prods, las, grown
  <1> DEFINE new == [prod : prods, dot : {0}, la : las]
  <1>2. \A it \in new : it.prod \in prods /\ ItemCore(it) = [prod |-> it.prod, dot |-> 0]
    BY DEF ItemCore
  <1>3. c \in Cores(next) /\ Cores(next) \subseteq Cores(next')
    BY <1>1 DEF Cores
  <1>4. ASSUME NEW d \in Cores(next'), d \notin Cores(next)
        PROVE  /\ d.prod \in prods /\ d.dot = 0
               /\ ~Complete(c) /\ Productions[d.prod].lhs = NextSymbol(c) /\ d.prod \in DOMAIN Productions
    <2>1. PICK it \in new : d = ItemCore(it)
      BY <1>1, <1>4 DEF Cores
    <2>2. d.prod \in prods /\ d.dot = 0
      BY <1>2, <2>1
    <2> QED BY <1>1, <2>2
  <1>5. \A d \in Cores(next) : d.prod \in DOMAIN Productions /\ d.dot \in 0..Len(Rhs(d.prod))
    BY DEF WellFormed
  <1>6. ASSUME NEW d \in Cores(next'), d \notin Cores(next)
        PROVE  d.dot \in 0..Len(Rhs(d.prod)) /\ d.prod # Start
    <2>1. d.dot = 0 /\ d.prod \in DOMAIN Productions /\ Productions[d.prod].lhs = NextSymbol(c) /\ ~Complete(c)
      BY <1>4, <1>6
    <2>2. NextSymbol(c) # Augmented
      BY <1>3, <1>5, <2>1, NextOnRight
    <2>3. Len(Rhs(d.prod)) \in Nat /\ (d.prod = Start => Productions[d.prod].lhs = Augmented)
      BY <2>1 DEF WellRuled
    <2> QED BY <2>1, <2>2, <2>3
  <1>7. WellFormed(next')
    BY <1>4, <1>5, <1>6 DEF WellFormed
  <1>8. Justified(next')
    <2> SUFFICES ASSUME NEW d \in Cores(next'), d.dot = 0 PROVE d.prod = Start \/ Awaited(d, next')
      BY DEF Justified
    <2>1. CASE d \in Cores(next)
      <3>1. d.prod = Start \/ Awaited(d, next)
        BY <2>1 DEF Justified
      <3> QED BY <1>3, <3>1 DEF Awaited
    <2>2. CASE d \notin Cores(next)
      <3>1. ~Complete(c) /\ NextSymbol(c) = Productions[d.prod].lhs /\ c \in Cores(next')
        BY <1>3, <1>4, <2>2
      <3> QED BY <3>1 DEF Awaited
    <2> QED BY <2>1, <2>2
  <1>9. StartsOver(next') => StartsOver(next)
    BY <1>6 DEF StartsOver
  <1>10. queue' \subseteq Cores(next')
    <2> SUFFICES ASSUME NEW d \in queue', d \notin queue PROVE d \in Cores(next')
      BY <1>3
    <2>1. d \in [prod : grown, dot : {0}]
      BY <1>1
    <2>2. d = [prod |-> d.prod, dot |-> 0] /\ d.prod \in grown
      BY <2>1
    <2>3. PICK a \in las : TRUE
      BY <1>1, <2>2
    <2> DEFINE it == [prod |-> d.prod, dot |-> 0, la |-> a]
    <2>4. it \in new
      BY <1>1, <2>2, <2>3
    <2>5. it \in next' /\ ItemCore(it) = d
      BY <1>1, <2>2, <2>4 DEF ItemCore
    <2> QED BY <2>5, CoreOf
  <1> QED BY <1>7, <1>8, <1>9, <1>10

LEMMA SoundState ==
  ASSUME NEW items, NEW moves, IsSeq(items), Automaton(items, moves), Sound(items, moves),
         NEW I, WellFormed(I), Justified(I)
  PROVE  Sound(Append(items, I), moves)
  <1> DEFINE more == Append(items, I)
             n == Len(items)
  <1>1. /\ n \in Nat /\ DOMAIN items = 1..n /\ DOMAIN more = 1..(n + 1)
        /\ more[n + 1] = I /\ \A i \in 1..n : more[i] = items[i]
    BY SeqDomain, SeqAppend
  <1>2. ASSUME NEW m \in DOMAIN more PROVE WellFormed(more[m]) /\ Justified(more[m])
    <2>1. m = n + 1 \/ m \in 1..n
      BY <1>1
    <2> QED BY <1>1, <2>1 DEF Sound
  <1>3. \A e \in DOMAIN moves : more[moves[e]] = items[moves[e]]
    BY <1>1 DEF Automaton
  <1> QED BY <1>2, <1>3 DEF Sound

LEMMA SoundMove ==
  ASSUME NEW items, NEW moves, Sound(items, moves), NEW d, NEW m, ~StartsOver(items[m])
  PROVE  Sound(items, With(moves, d, m))
  BY DEF Sound, With

LEMMA CloseDoneSound ==
  ASSUME CollectionInv, SoundInv, CloseDone
  PROVE  Sound(states', trans') /\ Explored'
  <1> DEFINE known == {n \in DOMAIN states : states[n] = next}
             m == IF known = {} THEN Len(states) + 1 ELSE Min(known)
  <1>1. /\ stage = "close" /\ symbols' = (IF symbols = {} THEN {} ELSE symbols \ {Followed})
        /\ UNCHANGED <<grammar, current>>
    BY DEF CloseDone
  <1>2. /\ IsSeq(states) /\ Sound(states, trans) /\ Explored /\ WellFormed(next) /\ Justified(next)
        /\ symbols = {} => states = <<>> /\ trans = <<>> /\ current = 0
        /\ symbols # {} => Automaton(states, trans) /\ current \in DOMAIN states /\ ~StartsOver(next)
    BY <1>1, SeqEmpty DEF CollectionInv, SoundInv, Collected
  <1>3. /\ states' = (IF known = {} THEN Append(states, next) ELSE states)
        /\ trans' = (IF symbols = {} THEN trans ELSE With(trans, <<current, Followed>>, m))
        /\ \A n \in DOMAIN states : states'[n] = states[n]
        /\ \A n \in DOMAIN states' : n \in DOMAIN states \/ (n = Len(states) + 1 /\ states'[n] = next)
        /\ m \in DOMAIN states' /\ states'[m] = next
    BY <1>2, StateFound
  <1> HIDE DEF known, m
  <1>4. CASE symbols = {}
    <2>1. DOMAIN states = {} /\ DOMAIN trans = {} /\ trans' = trans /\ Len(states) = 0 /\ symbols' = {}
      BY <1>1, <1>2, <1>3, <1>4
    <2>2. \A n \in DOMAIN states' : n = 1 /\ states'[n] = next
      BY <1>3, <2>1
    <2>3. Sound(states', trans')
      BY <1>2, <2>1, <2>2 DEF Sound
    <2>4. \A n \in DOMAIN states' : ~(n <= current')
      BY <1>1, <1>2, <1>4, <2>2
    <2>5. Explored'
      BY <2>4 DEF Explored
    <2> QED BY <2>3, <2>5
  <1>5. CASE symbols # {}
    <2>1. Automaton(states, trans) /\ current \in DOMAIN states /\ ~StartsOver(next)
      BY <1>2, <1>5
    <2>2. Sound(states', trans)
      BY <1>2, <1>3, <2>1, SoundState
    <2>3. trans' = With(trans, <<current, Followed>>, m) /\ ~StartsOver(states'[m])
      BY <1>3, <1>5, <2>1
    <2>4. Sound(states', trans')
      BY <2>2, <2>3, SoundMove
    <2>5. DOMAIN trans' = DOMAIN trans \cup {<<current, Followed>>} /\ symbols' = symbols \ {Followed}
      BY <1>1, <1>5, <2>3 DEF With
    <2>6. ASSUME NEW n \in DOMAIN states', NEW c \in Cores(states'[n]), ~Complete(c), n <= current
          PROVE  <<n, NextSymbol(c)>> \in DOMAIN trans' \/ (n = current /\ NextSymbol(c) \in symbols')
      <3>1. n \in DOMAIN states
        <4>1. DOMAIN states = 1..Len(states) /\ Len(states) \in Nat
          BY <1>2, SeqDomain
        <4>2. n # Len(states) + 1
          BY <2>1, <2>6, <4>1
        <4> QED BY <1>3, <4>2
      <3>2. <<n, NextSymbol(c)>> \in DOMAIN trans \/ (n = current /\ NextSymbol(c) \in symbols)
        BY <1>2, <1>3, <2>6, <3>1 DEF Explored
      <3> QED BY <2>5, <3>2
    <2>7. Explored'
      <3>1. \A I : Cores(I)' = Cores(I)
        BY <1>1, SameSound
      <3>2. \A c : (Complete(c)' <=> Complete(c)) /\ NextSymbol(c)' = NextSymbol(c)
        BY <1>1, SameSound
      <3> QED BY <1>1, <2>6, <3>1, <3>2 DEF Explored
    <2> QED BY <2>4, <2>7
  <1> QED BY <1>4, <1>5

LEMMA MergeSound ==
  ASSUME CollectionInv, SoundInv, Merge
  PROVE  Sound(lalr'.items, lalr'.trans) /\ Total(lalr'.items, lalr'.trans)
  <1> DEFINE items == lalr'.items
             moves == lalr'.trans
  <1>1. /\ IsSeq(states) /\ Automaton(states, trans) /\ Sound(states, trans) /\ Explored
        /\ symbols = {} /\ current = Len(states)
    BY DEF Merge, CollectionInv, Collected, SoundInv
  <1>2. /\ \A n \in DOMAIN items : n \in DOMAIN states /\ Name(n) = n /\ Cores(items[n]) = Cores(states[n])
        /\ DOMAIN items = {Name(m) : m \in DOMAIN states}
        /\ DOMAIN moves = {<<Name(d[1]), d[2]>> : d \in DOMAIN trans}
        /\ \A e \in DOMAIN moves :
             \E d \in DOMAIN trans : e = <<Name(d[1]), d[2]>> /\ moves[e] = Name(trans[d])
    BY <1>1, MergeGroups
  <1> HIDE DEF items, moves
  <1>3. ASSUME NEW n \in DOMAIN items PROVE WellFormed(items[n]) /\ Justified(items[n])
    <2>1. n \in DOMAIN states /\ Cores(items[n]) = Cores(states[n])
      BY <1>2
    <2>2. WellFormed(states[n]) /\ Justified(states[n])
      BY <1>1, <2>1 DEF Sound
    <2> QED BY <2>1, <2>2 DEF WellFormed, Justified, Awaited
  <1>4. ASSUME NEW e \in DOMAIN moves PROVE ~StartsOver(items[moves[e]])
    <2>1. PICK d \in DOMAIN trans : moves[e] = Name(trans[d])
      BY <1>2
    <2>2. trans[d] \in DOMAIN states /\ ~StartsOver(states[trans[d]])
      BY <1>1 DEF Automaton, Sound
    <2>3. moves[e] \in DOMAIN items
      BY <1>2, <2>1, <2>2
    <2>4. Cores(items[moves[e]]) = Cores(states[trans[d]])
      BY <1>1, <1>2, <2>1, <2>2, <2>3, NameInGroup
    <2> QED BY <2>2, <2>4 DEF StartsOver
  <1>5. ASSUME NEW n \in DOMAIN items, NEW c \in Cores(items[n]), ~Complete(c)
        PROVE  <<n, NextSymbol(c)>> \in DOMAIN moves
    <2>1. n \in DOMAIN states /\ c \in Cores(states[n]) /\ Name(n) = n
      BY <1>2
    <2>2. n <= current
      <3>1. n \in 1..Len(states) /\ Len(states) \in Nat
        BY <1>1, <2>1, SeqDomain
      <3> QED BY <1>1, <3>1
    <2> DEFINE d == <<n, NextSymbol(c)>>
    <2>3. d \in DOMAIN trans
      BY <1>1, <1>5, <2>1, <2>2 DEF Explored
    <2>4. <<Name(d[1]), d[2]>> = d
      BY <2>1
    <2> HIDE DEF d
    <2>5. d \in DOMAIN moves
      BY <1>2, <2>3, <2>4
    <2> QED BY <2>5 DEF d
  <1>6. Sound(items, moves) /\ Total(items, moves)
    BY <1>3, <1>4, <1>5 DEF Sound, Total
  <1> QED BY <1>6 DEF items, moves

LEMMA NextSound == TextInv /\ CollectionInv /\ SoundInv /\ [Next]_vars => SoundInv'
  <1> SUFFICES ASSUME TextInv, CollectionInv, SoundInv, [Next]_vars PROVE SoundInv'
    OBVIOUS
  <1> USE DEF file, sweep, collection, expansion, filling
  <1>1. ASSUME stage' \notin {"close", "expand"} \cup Merged PROVE SoundInv'
    BY <1>1 DEF SoundInv
  <1>2. ASSUME stage \in Merged, stage' \in Merged, UNCHANGED <<grammar, lalr>> PROVE SoundInv'
    BY <1>2, SameSound DEF SoundInv, Merged, Ended
  <1>3. ASSUME UNCHANGED <<grammar, states, trans, symbols, current>> PROVE Explored' <=> Explored
    <2>1. \A I : Cores(I)' = Cores(I)
      BY <1>3, SameSound
    <2>2. \A c : (Complete(c)' <=> Complete(c)) /\ NextSymbol(c)' = NextSymbol(c)
      BY <1>3, SameSound
    <2> QED BY <1>3, <2>1, <2>2 DEF Explored
  <1>4. ASSUME stage' \in {"close", "expand"}, grammar' = grammar,
               Sound(states', trans'), Explored',
               stage' = "close" => /\ WellFormed(next') /\ Justified(next') /\ queue' \subseteq Cores(next')
                                   /\ IF symbols' = {} THEN current' = 0 ELSE ~StartsOver(next')
        PROVE  SoundInv'
    <2>1. stage' \notin Merged
      BY <1>4 DEF Merged, Ended
    <2>2. Sound(states, trans)'
      BY <1>4, SameSound
    <2>3. stage' = "close" => /\ WellFormed(next)' /\ Justified(next)' /\ queue' \subseteq Cores(next)'
                              /\ IF symbols' = {} THEN current' = 0 ELSE ~StartsOver(next)'
      BY <1>4, SameSound
    <2> QED BY <1>4, <2>1, <2>2, <2>3 DEF SoundInv
  <1>5. ASSUME ReadFile \/ SweepProduction PROVE SoundInv'
    <2>1. stage' \in {"read", "no_grammar", "first"}
      BY <1>5 DEF ReadFile, ReaderNext, GetLine, Handle, InGrammar, InRules, UserCode, Separator,
         Declaration, Rule, Alternative, EndRule, PassOver, BuildGrammar, SweepProduction
    <2> QED BY <1>1, <2>1 DEF Merged, Ended
  <1>6. ASSUME EndSweep PROVE SoundInv'
    <2>1. CASE stage' = stage
      BY <1>1, <1>6, <2>1 DEF EndSweep, Merged, Ended
    <2>2. CASE stage' # stage
      <3>1. /\ stage = "first" /\ stage' = "close" /\ UNCHANGED <<grammar, states, trans, symbols, current>>
            /\ next' = {[prod |-> Start, dot |-> 0, la |-> Dollar]} /\ queue' = {[prod |-> Start, dot |-> 0]}
            /\ states = <<>> /\ trans = <<>> /\ symbols = {} /\ current = 0
        BY <1>6, <2>2 DEF EndSweep, CollectionInv, Before
      <3>2. Cores(next') = {[prod |-> Start, dot |-> 0]}
        BY <3>1 DEF Cores, ItemCore
      <3>3. Start \in DOMAIN Productions /\ Len(Rhs(Start)) = 1
        BY <3>1, RulesOfFile DEF WellRuled
      <3>4. \A c \in Cores(next') : c.prod = Start /\ c.dot = 0
        BY <3>2
      <3>5. WellFormed(next') /\ Justified(next')
        BY <3>3, <3>4 DEF WellFormed, Justified
      <3>6. DOMAIN states' = {} /\ DOMAIN trans' = {}
        BY <3>1
      <3>7. Sound(states', trans') /\ Explored'
        BY <3>6 DEF Sound, Explored
      <3> QED BY <1>4, <3>1, <3>2, <3>5, <3>7
    <2> QED BY <2>1, <2>2
  <1>7. ASSUME ExpandState PROVE SoundInv'
    <2>1. /\ stage = "expand" /\ stage' = "expand" /\ symbols = {} /\ current' = current + 1
          /\ UNCHANGED <<grammar, states, trans>> /\ Sound(states, trans) /\ Explored
          /\ symbols' = {NextSymbol(it) : it \in {x \in states[current'] : ~Complete(x)}}
          /\ IsSeq(states) /\ current \in Nat
      BY <1>7 DEF ExpandState, SoundInv, CollectionInv, Collected
    <2>2. ASSUME NEW n \in DOMAIN states, NEW c \in Cores(states[n]), ~Complete(c), n <= current'
          PROVE  <<n, NextSymbol(c)>> \in DOMAIN trans \/ (n = current' /\ NextSymbol(c) \in symbols')
      <3>1. CASE n = current'
        <4>1. PICK it \in states[current'] : c = ItemCore(it)
          BY <2>2, <3>1 DEF Cores
        <4>2. c.prod = it.prod /\ c.dot = it.dot
          BY <4>1 DEF ItemCore
        <4>3. ~Complete(it) /\ NextSymbol(it) = NextSymbol(c)
          BY <2>2, <4>2 DEF Complete, NextSymbol
        <4> QED BY <2>1, <3>1, <4>1, <4>3
      <3>2. CASE n # current'
        <4>1. n \in Nat
          BY <2>1, SeqDomain
        <4>2. n <= current
          BY <2>1, <2>2, <3>2, <4>1
        <4> QED BY <2>1, <2>2, <4>2 DEF Explored
      <3> QED BY <3>1, <3>2
    <2>3. Explored'
      <3>1. \A I : Cores(I)' = Cores(I)
        BY <2>1, SameSound
      <3>2. \A c : (Complete(c)' <=> Complete(c)) /\ NextSymbol(c)' = NextSymbol(c)
        BY <2>1, SameSound
      <3> QED BY <2>1, <2>2, <3>1, <3>2 DEF Explored
    <2> QED BY <1>4, <2>1, <2>3
  <1>8. ASSUME FollowSymbol PROVE SoundInv'
    <2>1. /\ stage = "expand" /\ stage' = "close" /\ symbols # {} /\ queue' = Cores(next')
          /\ UNCHANGED <<grammar, states, trans, symbols, current>> /\ Sound(states, trans) /\ Explored
      BY <1>8 DEF FollowSymbol, SoundInv
    <2>2. WellFormed(next') /\ Justified(next') /\ ~StartsOver(next')
      BY <1>8, <2>1, KernelSound, RulesOfFile
    <2> QED BY <1>3, <1>4, <2>1, <2>2
  <1>9. ASSUME CloseItem PROVE SoundInv'
    <2>1. /\ stage = "close" /\ stage' = "close"
          /\ UNCHANGED <<grammar, states, trans, symbols, current>> /\ Sound(states, trans) /\ Explored
          /\ WellFormed(next) /\ Justified(next) /\ queue \subseteq Cores(next)
          /\ IF symbols = {} THEN current = 0 ELSE ~StartsOver(next)
      BY <1>9 DEF CloseItem, SoundInv
    <2>2. WellRuled
      BY <2>1, RulesOfFile
    <2>3. /\ WellFormed(next') /\ Justified(next') /\ queue' \subseteq Cores(next')
          /\ StartsOver(next') => StartsOver(next)
      BY <1>9, <2>1, <2>2, ClosureSound
    <2> QED BY <1>3, <1>4, <2>1, <2>3
  <1>10. ASSUME CloseDone PROVE SoundInv'
    <2>1. stage' = "expand" /\ grammar' = grammar
      BY <1>10 DEF CloseDone
    <2> QED BY <1>4, <1>10, <2>1, CloseDoneSound
  <1>11. ASSUME Merge PROVE SoundInv'
    <2>1. stage' = "shifts" /\ grammar' = grammar
      BY <1>11 DEF Merge
    <2>2. Sound(lalr.items, lalr.trans)' /\ Total(lalr.items, lalr.trans)'
      BY <1>11, <2>1, MergeSound, SameSound
    <2> QED BY <2>1, <2>2 DEF SoundInv
  <1>12. ASSUME \/ EnterShifts \/ EnterReductions \/ Begin
                \/ SyntaxError \/ ShiftToken \/ InternalError \/ ReduceProduction \/ AcceptInput
         PROVE  SoundInv'
    <2>1. stage \in Merged /\ stage' \in Merged /\ UNCHANGED <<grammar, lalr>>
      BY <1>12 DEF EnterShifts, EnterReductions, Begin, SyntaxError, ShiftToken, InternalError,
         ReduceProduction, AcceptInput, End, generator, Merged, Ended
    <2> QED BY <1>2, <2>1
  <1>13. CASE UNCHANGED vars
    <2>1. UNCHANGED <<stage, states, trans, symbols, current, grammar, next, queue, lalr>>
      BY <1>13 DEF vars, generator
    <2>2. (Explored' <=> Explored) /\ (Sound(states, trans)' <=> Sound(states, trans))
      BY <1>3, <2>1, SameSound
    <2>3. /\ (Sound(lalr.items, lalr.trans)' <=> Sound(lalr.items, lalr.trans))
          /\ (Total(lalr.items, lalr.trans)' <=> Total(lalr.items, lalr.trans))
      BY <2>1, SameSound
    <2>4. /\ (WellFormed(next)' <=> WellFormed(next)) /\ (Justified(next)' <=> Justified(next))
          /\ (StartsOver(next)' <=> StartsOver(next)) /\ Cores(next)' = Cores(next)
      BY <2>1, SameSound
    <2> QED BY <2>1, <2>2, <2>3, <2>4 DEF SoundInv
  <1> QED
    BY <1>5, <1>6, <1>7, <1>8, <1>9, <1>10, <1>11, <1>12, <1>13 DEF Next, Generate, GeneratorNext

-----------------------------------------------------------------------------
(* What the entries of the tables stand for.                                *)
Exact(e, a) ==
  /\ a.kind = "Shift" => e[2] \in grammar.terminals
  /\ a.kind = "Reduce" => Productions[a.value].lhs # Augmented
  /\ a.kind = "Accept" =>
       e[2] = Dollar /\ \E c \in Cores(lalr.items[e[1]]) : Complete(c) /\ Productions[c.prod].lhs = Augmented

EntriesInv ==
  stage \in Filled =>
    /\ \A e \in DOMAIN tables.action : Exact(e, tables.action[e])
    /\ \A e \in DOMAIN lalr.trans : e[2] \in Nonterminals => e \in DOMAIN tables.goto

LEMMA InitEntries == Init => EntriesInv
  BY DEF Init, GeneratorInit, ReaderInit, EntriesInv, Filled, Ended

LEMMA SameExact ==
  ASSUME UNCHANGED <<grammar, lalr>>
  PROVE  /\ \A e, a : Exact(e, a)' <=> Exact(e, a)
         /\ Nonterminals' = Nonterminals
  <1>1. \A e, a : Exact(e, a)' <=> Exact(e, a)
    BY SameSound DEF Exact
  <1> QED BY <1>1, SameSound

LEMMA WantedExact ==
  ASSUME NEW n, NEW c \in Cores(lalr.items[n]), Complete(c), NEW e \in DOMAIN Wanted(n, c)
  PROVE  Exact(e, Wanted(n, c)[e])
  <1>1. CASE Productions[c.prod].lhs = Augmented
    <2>1. e = <<n, Dollar>> /\ Wanted(n, c)[e].kind = "Accept"
      BY <1>1 DEF Wanted, Accept
    <2> QED BY <1>1, <2>1 DEF Exact
  <1>2. CASE Productions[c.prod].lhs # Augmented
    <2>1. Wanted(n, c) = [d \in {n} \X Lookaheads(lalr.items[n], c) |-> Reduce(c.prod)]
      BY <1>2 DEF Wanted
    <2>2. Wanted(n, c)[e] = [kind |-> "Reduce", value |-> c.prod]
      BY <2>1 DEF Reduce
    <2> QED BY <1>2, <2>2 DEF Exact
  <1> QED BY <1>1, <1>2

LEMMA NextEntries == TablesInv /\ EntriesInv /\ [Next]_vars => EntriesInv'
  <1> SUFFICES ASSUME TablesInv, EntriesInv, [Next]_vars PROVE EntriesInv'
    OBVIOUS
  <1> USE DEF file, sweep, collection, expansion, filling
  <1>1. ASSUME stage' \notin Filled PROVE EntriesInv'
    BY <1>1 DEF EntriesInv, Filled
  <1>2. ASSUME stage \in Filled, UNCHANGED <<grammar, lalr, tables>> PROVE EntriesInv'
    BY <1>2, SameExact DEF EntriesInv
  <1>3. ASSUME \/ ReadFile \/ SweepProduction \/ EndSweep \/ ExpandState \/ FollowSymbol
               \/ CloseItem \/ CloseDone \/ Merge
        PROVE  EntriesInv'
    <2>1. ReadFile => stage' \in {"read", "no_grammar", "first"}
      BY DEF ReadFile, ReaderNext, GetLine, Handle, InGrammar, InRules, UserCode, Separator,
         Declaration, Rule, Alternative, EndRule, PassOver, BuildGrammar
    <2>2. stage' \notin Filled
      BY <1>3, <2>1 DEF SweepProduction, EndSweep, ExpandState, FollowSymbol, CloseItem, CloseDone,
         Merge, Filled, Ended
    <2> QED BY <1>1, <2>2
  <1>4. ASSUME EnterShifts PROVE EntriesInv'
    <2> DEFINE on(Z) == {e \in DOMAIN lalr.trans : e[2] \in Z}
    <2>1. /\ UNCHANGED <<grammar, lalr>>
          /\ tables' = [action |-> [e \in on(grammar.terminals) |-> Shift(lalr.trans[e])],
                        goto |-> [e \in on(Nonterminals) |-> lalr.trans[e]]]
      BY <1>4 DEF EnterShifts
    <2>2. ASSUME NEW e \in DOMAIN tables'.action PROVE Exact(e, tables'.action[e])
      <3>1. e[2] \in grammar.terminals /\ tables'.action[e].kind = "Shift"
        BY <2>1, <2>2 DEF Shift
      <3> QED BY <3>1 DEF Exact
    <2>3. \A e \in DOMAIN lalr.trans : e[2] \in Nonterminals => e \in DOMAIN tables'.goto
      BY <2>1
    <2> QED BY <2>1, <2>2, <2>3, SameExact DEF EntriesInv
  <1>5. ASSUME EnterReductions PROVE EntriesInv'
    <2>1. PICK x \in pending : tables' = [tables EXCEPT !.action = SetActions(@, Wanted(x[1], x[2]))]
      BY <1>5 DEF EnterReductions
    <2>2. stage = "reductions" /\ UNCHANGED <<grammar, lalr>>
      BY <1>5 DEF EnterReductions
    <2>3. /\ \A e \in DOMAIN tables.action : Exact(e, tables.action[e])
          /\ \A e \in DOMAIN lalr.trans : e[2] \in Nonterminals => e \in DOMAIN tables.goto
          /\ tables = [action |-> tables.action, goto |-> tables.goto]
          /\ x[2] \in Cores(lalr.items[x[1]]) /\ Complete(x[2])
      BY <2>2 DEF TablesInv, EntriesInv, Filled
    <2> DEFINE wanted == Wanted(x[1], x[2])
    <2>4. tables'.goto = tables.goto /\ tables'.action = SetActions(tables.action, wanted)
      BY <2>1, <2>3
    <2>5. \A e \in DOMAIN wanted : Exact(e, wanted[e])
      BY <2>3, WantedExact
    <2>6. ASSUME NEW e \in DOMAIN tables'.action PROVE Exact(e, tables'.action[e])
      <3> HIDE DEF wanted
      <3>1. \/ e \in DOMAIN tables.action /\ tables'.action[e] = tables.action[e]
            \/ e \in DOMAIN wanted /\ tables'.action[e] = wanted[e]
        BY <2>4, <2>6 DEF SetActions
      <3> QED BY <2>3, <2>5, <3>1
    <2>7. \A e \in DOMAIN lalr.trans : e[2] \in Nonterminals => e \in DOMAIN tables'.goto
      BY <2>3, <2>4
    <2> QED BY <2>2, <2>6, <2>7, SameExact DEF EntriesInv
  <1>6. ASSUME Begin \/ SyntaxError \/ ShiftToken \/ InternalError \/ ReduceProduction \/ AcceptInput
        PROVE  EntriesInv'
    <2>1. stage \in Filled /\ UNCHANGED <<grammar, lalr, tables>>
      BY <1>6 DEF Begin, SyntaxError, ShiftToken, InternalError, ReduceProduction, AcceptInput, End,
         generator, Filled
    <2> QED BY <1>2, <2>1
  <1>7. CASE UNCHANGED vars
    <2>1. UNCHANGED <<stage, grammar, lalr, tables>>
      BY <1>7 DEF vars, generator
    <2> QED BY <2>1, SameExact DEF EntriesInv
  <1> QED
    BY <1>3, <1>4, <1>5, <1>6, <1>7 DEF Next, Generate, GeneratorNext
-----------------------------------------------------------------------------
(* The way back of an item: as many states below as it has read symbols, it *)
(* is there at its start.                                                   *)
LEMMA WayBack ==
  ASSUME Automaton(lalr.items, lalr.trans), NEW ss, NEW vs, Stacks(ss, vs),
         NEW c \in Cores(lalr.items[ss[Len(ss)]])
  PROVE  /\ c.dot \in 0..Len(vs)
         /\ [prod |-> c.prod, dot |-> 0] \in Cores(lalr.items[ss[Len(ss) - c.dot]])
  <1> DEFINE n == Len(ss)
             At(k) == [prod |-> c.prod, dot |-> c.dot - k]
             Lost == {k \in 0..c.dot : At(k) \notin Cores(lalr.items[ss[n - k]])}
  <1>1. n \in Nat /\ n = Len(vs) + 1 /\ Len(vs) \in Nat
    BY SeqDomain DEF Stacks
  <1>2. ASSUME NEW i \in 1..n
        PROVE  /\ ss[i] \in DOMAIN lalr.items
               /\ \A d \in Cores(lalr.items[ss[i]]) :
                    d = [prod |-> d.prod, dot |-> d.dot] /\ d.dot \in Nat /\ d.dot <= i - 1
    BY CoreType DEF Stacks, HasRead, Automaton
  <1>3. c = At(0) /\ c.dot \in 0..Len(vs)
    <2>1. n \in 1..n
      BY <1>1
    <2>2. c = [prod |-> c.prod, dot |-> c.dot] /\ c.dot \in Nat /\ c.dot <= n - 1
      BY <1>2, <2>1
    <2> QED BY <1>1, <2>2
  <1>4. ASSUME NEW k \in 1..c.dot, At(k - 1) \in Cores(lalr.items[ss[n - (k - 1)]])
        PROVE  At(k) \in Cores(lalr.items[ss[n - k]])
    <2> DEFINE i == n - k
               e == <<ss[i], vs[i].symbol>>
    <2>1. i \in 1..Len(vs) /\ n - (k - 1) = i + 1
      BY <1>1, <1>3
    <2>2. e \in DOMAIN lalr.trans /\ lalr.trans[e] = ss[i + 1] /\ e[1] = ss[i]
      BY <2>1 DEF Stacks
    <2>3. Leads(lalr.items[ss[i]], e[2], lalr.items[ss[i + 1]])
      BY <2>2 DEF Automaton
    <2>4. At(k - 1).dot > 0 /\ Back(At(k - 1)) = At(k)
      BY <1>3 DEF Back
    <2> HIDE DEF At, e, i
    <2>5. At(k) \in Cores(lalr.items[ss[i]])
      BY <1>4, <2>1, <2>3, <2>4 DEF Leads
    <2> QED BY <2>5 DEF i
  <1>5. Lost = {}
    <2> SUFFICES ASSUME Lost # {} PROVE FALSE
      OBVIOUS
    <2>1. Lost \in SUBSET Nat
      OBVIOUS
    <2>2. PICK k \in Lost : \A j \in Lost : k <= j
      <3> HIDE DEF Lost
      <3> QED BY <2>1, MinIsLeast
    <2>3. k # 0
      BY <1>3, <2>2
    <2>4. k \in 1..c.dot /\ k - 1 \in 0..c.dot
      BY <1>3, <2>2, <2>3
    <2>7. k - 1 \notin Lost
      <3> HIDE DEF Lost
      <3> QED BY <2>2, <2>4
    <2>5. At(k - 1) \in Cores(lalr.items[ss[n - (k - 1)]])
      BY <2>4, <2>7
    <2>6. At(k) \in Cores(lalr.items[ss[n - k]])
      BY <1>4, <2>4, <2>5
    <2> QED BY <2>2, <2>6
  <1>6. c.dot \in 0..c.dot /\ At(c.dot) = [prod |-> c.prod, dot |-> 0]
    BY <1>3
  <1> QED BY <1>3, <1>5, <1>6

ParserInv ==
  TextInv /\ CollectionInv /\ MergeInv /\ TablesInv /\ StackInv /\ SoundInv /\ EntriesInv

LEMMA InitParser == Init => ParserInv
  BY InitText, InitCollection, InitMerge, InitTables, InitStack, InitSound, InitEntries DEF ParserInv

LEMMA NextParser == ParserInv /\ [Next]_vars => ParserInv'
  BY NextText, NextCollection, NextMerge, NextTables, NextStack, NextSound, NextEntries, Zenon
     DEF ParserInv

LEMMA WhileParsing ==
  ASSUME ParserInv, stage = "parse", builder, Cell \in DOMAIN tables.action
  PROVE  /\ WellRuled
         /\ Automaton(lalr.items, lalr.trans) /\ Stacks(state_stack, value_stack)
         /\ Cell = <<state_stack[Len(state_stack)], Token>> /\ Right(Cell, Action)
         /\ Sound(lalr.items, lalr.trans) /\ Total(lalr.items, lalr.trans)
         /\ Exact(Cell, Action)
         /\ \A e \in DOMAIN lalr.trans : e[2] \in Nonterminals => e \in DOMAIN tables.goto
  <1>1. WellRuled
    BY RulesOfFile DEF ParserInv
  <1>2. /\ Automaton(lalr.items, lalr.trans) /\ Stacks(state_stack, value_stack)
        /\ Cell = <<state_stack[Len(state_stack)], Token>> /\ Right(Cell, Action)
    BY AtTheTop DEF ParserInv
  <1>3. Sound(lalr.items, lalr.trans) /\ Total(lalr.items, lalr.trans)
    BY DEF ParserInv, SoundInv, Merged
  <1>4. /\ Exact(Cell, Action)
        /\ \A e \in DOMAIN lalr.trans : e[2] \in Nonterminals => e \in DOMAIN tables.goto
    BY DEF ParserInv, EntriesInv, Filled, Action
  <1> QED BY <1>1, <1>2, <1>3, <1>4

(* Neither of the internal errors of run_parser: what a reduction leaves at *)
(* the top has its item at the start, an item that waits for its left side, *)
(* hence a move on it.                                                      *)
LEMMA NeverStuck ==
  ASSUME ParserInv, stage = "parse", builder, Cell \in DOMAIN tables.action, Action.kind = "Reduce"
  PROVE  ~Stuck(Action.value) /\ Action.value \in 1..(Start - 1)
  <1> DEFINE p == Action.value
             k == Len(Rhs(p))
             ss == state_stack
             n == Len(value_stack) - k
             popped == Popped(ss, k)
             c0 == [prod |-> p, dot |-> 0]
             J == lalr.items[ss[n + 1]]
             X == Productions[p].lhs
  <1>1. PICK c \in Cores(lalr.items[ss[Len(ss)]]) : Complete(c) /\ c.prod = p
    BY WhileParsing DEF Right
  <1>2. k \in 0..Len(value_stack) /\ c.dot = k
    BY <1>1, ReductionFits DEF ParserInv, Complete
  <1>3. /\ Len(ss) = Len(value_stack) + 1 /\ Len(value_stack) \in Nat /\ IsSeq(ss)
    BY WhileParsing, SeqDomain DEF Stacks
  <1>4. Len(ss) - k = n + 1 /\ n + 1 \in 1..Len(ss) /\ n + 1 \in 0..Len(ss)
    <2> HIDE DEF k
    <2> QED BY <1>2, <1>3
  <1>5. c0 \in Cores(lalr.items[ss[Len(ss) - c.dot]])
    BY <1>1, WhileParsing, WayBack
  <1>6. c0 \in Cores(J)
    BY <1>2, <1>4, <1>5
  <1>7. Last(popped) = ss[n + 1]
    <2> HIDE DEF n, k
    <2>1. popped = SubSeq(ss, 1, n + 1)
      BY <1>4, MaxOfTwo, <1>3 DEF Popped
    <2>2. Len(popped) = n + 1 /\ popped[n + 1] = ss[n + 1]
      BY <1>3, <1>4, <2>1, SeqPrefix
    <2> QED BY <2>2 DEF Last
  <1>8. ss[n + 1] \in DOMAIN lalr.items
    BY <1>4, WhileParsing DEF Stacks
  <1>9. WellFormed(J) /\ Justified(J)
    BY <1>8, WhileParsing DEF Sound
  <1> HIDE DEF n, k, popped, J, p
  <1>10. p \in DOMAIN Productions /\ p # Start /\ X \in Nonterminals
    <2>1. p \in DOMAIN Productions
      BY <1>6, <1>9 DEF WellFormed
    <2>2. X # Augmented
      BY WhileParsing DEF Exact, p
    <2> QED BY <2>1, <2>2, WhileParsing DEF WellRuled
  <1>11. PICK d \in Cores(J) : ~Complete(d) /\ NextSymbol(d) = X
    BY <1>6, <1>9, <1>10 DEF Justified, Awaited
  <1>12. <<ss[n + 1], X>> \in DOMAIN tables.goto
    <2>1. <<ss[n + 1], X>> \in DOMAIN lalr.trans
      BY <1>8, <1>11, WhileParsing DEF Total, J
    <2> QED BY <1>10, <2>1, WhileParsing
  <1>13. ~Stuck(p)
    <2>1. ~(Len(value_stack) < k)
      BY <1>2, <1>3
    <2> QED BY <1>7, <1>12, <2>1 DEF Stuck, k, popped
  <1>14. p \in 1..(Start - 1)
    BY <1>10, WhileParsing, SeqDomain DEF WellRuled, Start
  <1> QED BY <1>13, <1>14 DEF p

(* The production of the augmented start symbol is complete above the first *)
(* state only: no move leads to its start.                                  *)
LEMMA AcceptsOneTree ==
  ASSUME ParserInv, stage = "parse", builder, Cell \in DOMAIN tables.action, Action.kind = "Accept"
  PROVE  Token = Dollar /\ Len(value_stack) = 1 /\ value_stack[1].symbol = Rhs(Start)[1]
  <1> DEFINE ss == state_stack
             vs == value_stack
             n == Len(vs)
             J == lalr.items[ss[Len(ss)]]
  <1>1. Token = Dollar
    BY WhileParsing DEF Exact
  <1>2. PICK c \in Cores(J) : Complete(c) /\ Productions[c.prod].lhs = Augmented
    BY WhileParsing DEF Exact
  <1>3. Len(ss) = n + 1 /\ n \in Nat /\ IsSeq(ss)
    BY WhileParsing, SeqDomain DEF Stacks
  <1>4. ss[Len(ss)] \in DOMAIN lalr.items /\ HasRead(vs, n, J)
    <2>1. Len(ss) \in 1..Len(ss) /\ Len(ss) - 1 = n
      BY <1>3
    <2>2. ss[Len(ss)] \in DOMAIN lalr.items /\ HasRead(vs, Len(ss) - 1, J)
      BY <2>1, WhileParsing DEF Stacks
    <2> QED BY <2>1, <2>2
  <1>5. c.prod = Start /\ c.dot = 1
    <2>1. c.prod \in DOMAIN Productions
      BY <1>2, <1>4, WhileParsing DEF Sound, WellFormed
    <2> QED BY <1>2, <2>1, WhileParsing DEF WellRuled, Complete
  <1>6. 1 <= n /\ vs[n].symbol = Rhs(Start)[1]
    <2>1. c.dot <= n /\ \A j \in 1..c.dot : vs[n - c.dot + j].symbol = Rhs(c.prod)[j]
      BY <1>4 DEF HasRead
    <2>2. 1 <= n /\ vs[n - 1 + 1].symbol = Rhs(Start)[1]
      BY <1>5, <2>1
    <2>3. n - 1 + 1 = n
      BY <1>3
    <2> QED BY <2>2, <2>3
  <1>7. [prod |-> c.prod, dot |-> 0] \in Cores(lalr.items[ss[Len(ss) - c.dot]])
    BY WhileParsing, WayBack
  <1>8. StartsOver(lalr.items[ss[n]])
    <2>1. Len(ss) - 1 = n
      BY <1>3
    <2>2. [prod |-> Start, dot |-> 0] \in Cores(lalr.items[ss[n]])
      BY <1>5, <1>7, <2>1
    <2> QED BY <2>2 DEF StartsOver
  <1>9. n = 1
    <2> SUFFICES ASSUME n # 1 PROVE FALSE
      OBVIOUS
    <2> DEFINE i == n - 1
               e == <<ss[i], vs[i].symbol>>
    <2>1. i \in 1..n /\ i + 1 = n
      <3> HIDE DEF n
      <3> QED BY <1>3, <1>6
    <2>2. e \in DOMAIN lalr.trans /\ lalr.trans[e] = ss[i + 1]
      BY <2>1, WhileParsing DEF Stacks
    <2>3. ~StartsOver(lalr.items[ss[n]])
      BY <2>1, <2>2, WhileParsing DEF Sound
    <2> QED BY <1>8, <2>3
  <1> QED BY <1>1, <1>6, <1>9
-----------------------------------------------------------------------------
(* The runtime against Derivation.                                          *)
Outcome == IF stage \in {"parse"} \cup Ended THEN stage ELSE "none"

LEMMA InitDerives == Init => Abstract!Init
  BY DEF Init, GeneratorInit, ReaderInit, Abstract!Init, Ended

(* Making the tables, and giving the parser its input.                      *)
LEMMA PreparationDerives ==
  ASSUME Generate \/ Begin
  PROVE  Abstract!Prepare
  <1>1. ReadFile => stage \notin Running /\ stage' \notin Running
    BY DEF ReadFile, ReaderNext, GetLine, Handle, InGrammar, InRules, UserCode, Separator,
       Declaration, Rule, Alternative, EndRule, PassOver, BuildGrammar, Running, Ended
  <1>2. stage \notin Running /\ (stage' \notin Running \/ stage' = "parse")
    BY <1>1 DEF Generate, GeneratorNext, SweepProduction, EndSweep, ExpandState, FollowSymbol,
       CloseItem, CloseDone, Merge, EnterShifts, EnterReductions, Begin, Running, Ended
  <1>3. UNCHANGED <<token_idx, value_stack, reduction_sequence>>
    BY DEF Generate, Begin, runtime
  <1>4. Outcome = "none" /\ Outcome' \in {"none", "parse"}
    BY <1>2 DEF Outcome, Running
  <1> QED BY <1>3, <1>4 DEF Abstract!Prepare, Outcome

LEMMA RuntimeKeepsGrammar ==
  ASSUME stage = "parse",
         SyntaxError \/ ShiftToken \/ ReduceProduction \/ InternalError \/ AcceptInput
  PROVE  /\ Outcome = "parse"
         /\ UNCHANGED Abstract!grammar
         /\ builder => Abstract!Derives
         /\ ~builder => Abstract!Blind
  <1>1. Outcome = "parse"
    BY DEF Outcome
  <1>2. UNCHANGED <<grammar, builder, input>>
    BY DEF SyntaxError, ShiftToken, ReduceProduction, InternalError, AcceptInput, End, generator, runtime
  <1>3. UNCHANGED Abstract!grammar
    BY <1>2, SameSound DEF Abstract!grammar
  <1> QED BY <1>1, <1>3 DEF Abstract!Derives, Abstract!Blind, Outcome

LEMMA ShiftReads ==
  ASSUME ParserInv, builder, ShiftToken
  PROVE  Abstract!Read
  <1>1. stage = "parse" /\ Cell \in DOMAIN tables.action /\ Action.kind = "Shift"
    BY DEF ShiftToken
  <1>2. Token \in grammar.terminals /\ Token # Dollar
    BY <1>1, WhileParsing DEF Exact, WellRuled
  <1>3. token_idx <= Len(input) /\ Token = input[token_idx]
    BY <1>2 DEF Token
  <1>4. ~Abstract!AtEnd
    BY <1>2, <1>3 DEF Abstract!AtEnd
  <1>5. /\ token_idx' = token_idx + 1
        /\ value_stack' = Append(value_stack, [symbol |-> input[token_idx], prod |-> 0, kids |-> <<>>])
    BY <1>3 DEF ShiftToken, Pushed, Leaf
  <1>6. Outcome' = Outcome /\ UNCHANGED reduction_sequence
    BY DEF ShiftToken, generator, Outcome
  <1> QED BY <1>1, <1>4, <1>5, <1>6, RuntimeKeepsGrammar DEF Abstract!Read, Outcome

LEMMA ReductionBuilds ==
  ASSUME ParserInv, builder, ReduceProduction
  PROVE  Abstract!Reduce
  <1> DEFINE p == Action.value
             k == Len(Rhs(p))
             n == Len(value_stack) - k
             v == Node(p, SubSeq(value_stack, n + 1, Len(value_stack)))
  <1>1. /\ stage = "parse" /\ Cell \in DOMAIN tables.action /\ Action.kind = "Reduce"
        /\ value_stack' = Append(SubSeq(value_stack, 1, n), v)
        /\ reduction_sequence' = Append(reduction_sequence, p)
        /\ UNCHANGED <<token_idx, stage>>
    BY DEF ReduceProduction, Pushed, generator
  <1>2. p \in 1..(Len(Productions) - 1)
    BY <1>1, NeverStuck DEF Start
  <1>3. k \in 0..Len(value_stack) /\ \A j \in 1..k : value_stack[n + j].symbol = Rhs(p)[j]
    BY <1>1, ReductionFits DEF ParserInv
  <1>4. n >= 0
    <2>1. Len(value_stack) \in Nat
      BY <1>1, WhileParsing, SeqDomain DEF Stacks
    <2> HIDE DEF k
    <2> QED BY <1>3, <2>1
  <1>5. Abstract!Build(p)
    BY <1>1, <1>3, <1>4 DEF Abstract!Build, Node, Rhs
  <1>6. Outcome' = Outcome
    BY <1>1 DEF Outcome
  <1> QED BY <1>1, <1>2, <1>5, <1>6, RuntimeKeepsGrammar DEF Abstract!Reduce, Outcome

LEMMA AcceptFinishes ==
  ASSUME ParserInv, builder, AcceptInput
  PROVE  Abstract!Accept
  <1>1. /\ stage = "parse" /\ Cell \in DOMAIN tables.action /\ Action.kind = "Accept"
        /\ stage' = "accepted" /\ UNCHANGED <<token_idx, value_stack, reduction_sequence>>
    BY DEF AcceptInput, End, runtime
  <1>2. Token = Dollar /\ Len(value_stack) = 1 /\ value_stack[1].symbol = Rhs(Start)[1]
    BY <1>1, AcceptsOneTree
  <1>3. Abstract!AtEnd
    BY <1>2 DEF Abstract!AtEnd, Token
  <1>4. Outcome' = "accepted"
    BY <1>1 DEF Outcome, Ended
  <1> QED BY <1>1, <1>2, <1>3, <1>4, RuntimeKeepsGrammar DEF Abstract!Accept, Outcome, Rhs, Start

LEMMA ErrorRefuses ==
  ASSUME builder, SyntaxError
  PROVE  Abstract!Refuse
  <1>1. /\ stage = "parse" /\ stage' = "syntax_error"
        /\ UNCHANGED <<token_idx, value_stack, reduction_sequence>>
    BY DEF SyntaxError, End, runtime
  <1>2. Outcome' = "syntax_error"
    BY <1>1 DEF Outcome, Ended
  <1> QED BY <1>1, <1>2, RuntimeKeepsGrammar DEF Abstract!Refuse, Outcome

LEMMA StepDerives ==
  ASSUME ParserInv, [Next]_vars
  PROVE  [Abstract!Next]_(Abstract!vars)
  <1>1. CASE Generate \/ Begin
    BY <1>1, PreparationDerives DEF Abstract!Next
  <1>2. CASE ShiftToken \/ ReduceProduction \/ AcceptInput \/ SyntaxError \/ InternalError
    <2>1. stage = "parse"
      BY <1>2 DEF SyntaxError, ShiftToken, ReduceProduction, InternalError, AcceptInput
    <2>2. CASE ~builder
      BY <1>2, <2>1, <2>2, RuntimeKeepsGrammar DEF Abstract!Next
    <2>3. CASE builder
      <3>1. ~InternalError
        BY <2>3, NeverStuck DEF InternalError
      <3> QED
        BY <1>2, <2>3, <3>1, ShiftReads, ReductionBuilds, AcceptFinishes, ErrorRefuses DEF Abstract!Next
    <2> QED BY <2>2, <2>3
  <1>3. CASE UNCHANGED vars
    <2>1. UNCHANGED <<grammar, builder, input, token_idx, value_stack, reduction_sequence, stage>>
      BY <1>3 DEF vars, generator, runtime
    <2>2. Productions' = Productions /\ Outcome' = Outcome
      BY <2>1, SameSound DEF Outcome
    <2> QED BY <2>1, <2>2 DEF Abstract!vars, Outcome
  <1> QED BY <1>1, <1>2, <1>3 DEF Next

(* For every grammar file and every input, run_parser with a builder makes  *)
(* the calls of a rightmost derivation from its end: what a reduction pops  *)
(* spells the right side of its production, tokens enter in order and once,  *)
(* accepting leaves one tree of the start symbol with the input read, and   *)
(* "value stack underflow" and "GOTO table inconsistent" never happen, also *)
(* in the tables of a grammar with conflicts.                               *)
THEOREM ParserImplementsDerivation == Spec => ImplementsDerivation
  <1>1. Spec => []ParserInv
    BY InitParser, NextParser, PTL DEF Spec
  <1>2. ParserInv /\ [Next]_vars => [Abstract!Next]_(Abstract!vars)
    BY StepDerives
  <1> QED
    BY InitDerives, <1>1, <1>2, PTL DEF Spec, ImplementsDerivation, Abstract!Spec
=============================================================================
