----------------------------- MODULE LexerProofs -----------------------------
(***************************************************************************)
(* Proofs about the lexer and its generator, for every list of              *)
(* specifications and every text: Thompson's construction and the union     *)
(* never confuse the states of the automata that they put together; and the *)
(* deterministic automaton with its way back cuts a text as MaximalMunch    *)
(* does.                                                                    *)
(***************************************************************************)
EXTENDS Lexer, FiniteSetTheorems, NaturalsInduction, WellFoundedInduction, TLAPS

Fragments == [start : Nat, accept : Nat]
Ends(f) == {f.start, f.accept}
EdgeStates(E) == {e.from : e \in E} \cup {e.to : e \in E}

(* The fragments F over the edges E are whole: they share no end, nothing   *)
(* enters a start and nothing leaves an accepting state.                    *)
Sealed(F, E) ==
  /\ \A i, j \in DOMAIN F : i # j => Ends(F[i]) \cap Ends(F[j]) = {}
  /\ \A i \in DOMAIN F : \A e \in E : e.to # F[i].start /\ e.from # F[i].accept

(* The automaton under construction has the states from low to counter.     *)
Numbered(F, E, low) ==
  /\ F \in Seq(Fragments)
  /\ \A i \in DOMAIN F : Ends(F[i]) \subseteq low..(counter - 1)
  /\ EdgeStates(E) \subseteq low..(counter - 1)

(* The states of an automaton that is done.                                 *)
StatesOf(a) == {a.start, a.accept} \cup EdgeStates(a.edges)

(* The automata done have their states below low, the later the higher.     *)
Ordered(low) ==
  /\ \E S : nfas \in Seq(S)
  /\ \A i \in DOMAIN nfas : StatesOf(nfas[i]) \subseteq 0..(low - 1)
  /\ \A i, j \in DOMAIN nfas : i < j => \A p \in StatesOf(nfas[i]), q \in StatesOf(nfas[j]) : p < q

ThompsonInv ==
  /\ counter \in Nat
  /\ stage \in {"read", "class", "shunt"} => frags = <<>> /\ edges = {} /\ nfas = <<>>
  /\ stage = "thompson" =>
       /\ Sealed(frags, edges)
       /\ \E low \in 0..counter : Numbered(frags, edges, low) /\ Ordered(low)
  /\ stage = "unite" => Ordered(counter)

LEMMA InitThompson == Init => ThompsonInv
  BY DEF Init, GeneratorInit, ThompsonInv

(* The fragments after the first n give way to f, whose ends are new or     *)
(* theirs, with the edges D.                                                *)
LEMMA SealedStep ==
  ASSUME NEW F \in Seq(Fragments), NEW E, Sealed(F, E),
         NEW G \in Seq(Fragments), Len(G) <= Len(F), \A i \in 1..Len(G) : G[i] = F[i],
         NEW f \in Fragments, NEW D,
         \A i \in 1..Len(G) : Ends(G[i]) \cap Ends(f) = {},
         \A e \in E \cup D : e.to # f.start /\ e.from # f.accept,
         \A i \in 1..Len(G) : \A d \in D : d.to # G[i].start /\ d.from # G[i].accept
  PROVE  Sealed(Append(G, f), E \cup D)
  <1> DEFINE H == Append(G, f)
  <1>1. /\ H \in Seq(Fragments) /\ DOMAIN H = 1..(Len(G) + 1) /\ H[Len(G) + 1] = f
        /\ \A i \in 1..Len(G) : H[i] = G[i] /\ i \in DOMAIN F
    OBVIOUS
  <1> HIDE DEF H
  <1>2. ASSUME NEW i \in DOMAIN H PROVE i = Len(G) + 1 \/ i \in 1..Len(G)
    BY <1>1
  <1>3. ASSUME NEW i \in DOMAIN H, NEW j \in DOMAIN H, i # j PROVE Ends(H[i]) \cap Ends(H[j]) = {}
    BY <1>1, <1>2, <1>3 DEF Sealed
  <1>4. ASSUME NEW i \in DOMAIN H, NEW e \in E \cup D PROVE e.to # H[i].start /\ e.from # H[i].accept
    BY <1>1, <1>2 DEF Sealed
  <1> QED BY <1>3, <1>4 DEF Sealed, H

(* An edge to or from a state that no kept fragment has as its end.         *)
LEMMA NewStates ==
  ASSUME NEW F, NEW E, NEW low \in 0..counter, counter \in Nat, Numbered(F, E, low)
  PROVE  /\ \A i \in DOMAIN F : {counter, counter + 1} \cap Ends(F[i]) = {}
         /\ \A e \in E : {counter, counter + 1} \cap {e.from, e.to} = {}
  <1>1. counter \notin low..(counter - 1) /\ counter + 1 \notin low..(counter - 1)
    OBVIOUS
  <1>2. \A e \in E : e.from \in EdgeStates(E) /\ e.to \in EdgeStates(E)
    BY DEF EdgeStates
  <1> QED BY <1>1, <1>2 DEF Numbered
LEMMA FrontOf ==
  ASSUME NEW F \in Seq(Fragments), Len(F) >= 1
  PROVE  /\ Front(F) \in Seq(Fragments) /\ Len(Front(F)) = Len(F) - 1
         /\ \A i \in 1..(Len(F) - 1) : Front(F)[i] = F[i]
  <1> DEFINE n == Len(F) - 1
  <1>1. n \in 0..Len(F)
    OBVIOUS
  <1> HIDE DEF n
  <1>2. SubSeq(F, 1, n) \in Seq(Fragments) /\ Len(SubSeq(F, 1, n)) = n /\ \A i \in 1..n : SubSeq(F, 1, n)[i] = F[i]
    BY <1>1
  <1> QED BY <1>2 DEF Front, n

LEMMA FrontOfFront ==
  ASSUME NEW F \in Seq(Fragments), Len(F) >= 2
  PROVE  /\ Front(Front(F)) \in Seq(Fragments) /\ Len(Front(Front(F))) = Len(F) - 2
         /\ \A i \in 1..(Len(F) - 2) : Front(Front(F))[i] = F[i]
  <1>1. /\ Front(F) \in Seq(Fragments) /\ Len(Front(F)) = Len(F) - 1 /\ Len(F) \in Nat
        /\ \A i \in 1..(Len(F) - 1) : Front(F)[i] = F[i]
    BY FrontOf
  <1>2. /\ Front(Front(F)) \in Seq(Fragments) /\ Len(Front(Front(F))) = Len(F) - 2
        /\ \A i \in 1..(Len(F) - 2) : Front(Front(F))[i] = Front(F)[i]
    BY <1>1, FrontOf
  <1> QED BY <1>1, <1>2

LEMMA Wider ==
  ASSUME NEW low \in Nat, NEW n \in Nat, NEW m \in Nat, m >= n
  PROVE  low..(n - 1) \subseteq low..(m - 1)
  OBVIOUS

(* One turn of the construction: a step that keeps the first fragments, G,  *)
(* and puts f on them, keeps the invariant.                                 *)
LEMMA Grown ==
  ASSUME ThompsonInv, stage = "thompson", stage' = "thompson",
         NEW low \in 0..counter, Numbered(frags, edges, low), Ordered(low),
         NEW G \in Seq(Fragments), Len(G) <= Len(frags), \A i \in 1..Len(G) : G[i] = frags[i],
         NEW f \in Fragments, NEW D,
         \A i \in 1..Len(G) : Ends(G[i]) \cap Ends(f) = {},
         \A e \in edges \cup D : e.to # f.start /\ e.from # f.accept,
         \A i \in 1..Len(G) : \A d \in D : d.to # G[i].start /\ d.from # G[i].accept,
         counter' \in Nat, counter' >= counter,
         Ends(f) \cup EdgeStates(D) \subseteq low..(counter' - 1),
         frags' = Append(G, f), edges' = edges \cup D, nfas' = nfas
  PROVE  ThompsonInv'
  <1>1. counter \in Nat /\ low \in Nat /\ frags \in Seq(Fragments) /\ Sealed(frags, edges)
    BY DEF ThompsonInv, Numbered
  <1>2. Sealed(frags, edges)'
    <2>1. Sealed(Append(G, f), edges \cup D)
      BY <1>1, SealedStep
    <2> QED BY <2>1 DEF Sealed, Ends
  <1>3. low..(counter - 1) \subseteq low..(counter' - 1)
    BY <1>1, Wider
  <1>4. \A i \in DOMAIN frags' : Ends(frags'[i]) \subseteq low..(counter' - 1)
    <2> SUFFICES ASSUME NEW i \in DOMAIN frags' PROVE Ends(frags'[i]) \subseteq low..(counter' - 1)
      OBVIOUS
    <2>1. CASE i = Len(G) + 1
      BY <2>1
    <2>2. CASE i # Len(G) + 1
      <3>1. i \in 1..Len(G) /\ frags'[i] = frags[i] /\ i \in DOMAIN frags
        BY <1>1, <2>2
      <3> QED BY <1>3, <3>1 DEF Numbered
    <2> QED BY <2>1, <2>2
  <1>5. EdgeStates(edges') \subseteq low..(counter' - 1)
    <2>1. EdgeStates(edges') = EdgeStates(edges) \cup EdgeStates(D)
      BY DEF EdgeStates
    <2> QED BY <1>3, <2>1 DEF Numbered
  <1>6. frags' \in Seq(Fragments)
    OBVIOUS
  <1>7. Numbered(frags, edges, low)'
    BY <1>4, <1>5, <1>6 DEF Numbered, Ends, EdgeStates
  <1>8. Ordered(low)'
    BY DEF Ordered, StatesOf, EdgeStates
  <1>9. low \in 0..counter'
    BY <1>1
  <1> QED BY <1>2, <1>7, <1>8, <1>9 DEF ThompsonInv

LEMMA LiteralStep == ASSUME ThompsonInv, AddLiteral PROVE ThompsonInv'
  <1> DEFINE c == Postfix[at].value
             f == [start |-> counter, accept |-> counter + 1]
             D == {Edge(counter, c, counter + 1)}
  <1>1. /\ stage = "thompson" /\ stage' = "thompson" /\ nfas' = nfas /\ counter' = counter + 2
        /\ frags' = Append(frags, f) /\ edges' = edges \cup D
    BY DEF AddLiteral
  <1>2. PICK low \in 0..counter : Numbered(frags, edges, low) /\ Ordered(low)
    BY <1>1 DEF ThompsonInv
  <1>3. counter \in Nat /\ frags \in Seq(Fragments) /\ f \in Fragments
    BY <1>2 DEF ThompsonInv, Numbered, Fragments
  <1>4. Ends(f) = {counter, counter + 1} /\ f.start = counter /\ f.accept = counter + 1
    BY DEF Ends
  <1>5. \A d \in D : d.from = counter /\ d.to = counter + 1
    BY DEF Edge
  <1>6. EdgeStates(D) = {counter, counter + 1}
    BY <1>5 DEF EdgeStates
  <1>7. /\ \A i \in 1..Len(frags) : {counter, counter + 1} \cap Ends(frags[i]) = {}
        /\ \A e \in edges : {counter, counter + 1} \cap {e.from, e.to} = {}
    BY <1>2, <1>3, NewStates
  <1>8. \A i \in 1..Len(frags) : counter # frags[i].accept /\ counter + 1 # frags[i].start
    BY <1>7 DEF Ends
  <1>9. counter' \in Nat /\ counter' >= counter /\ {counter, counter + 1} \subseteq low..(counter' - 1)
    BY <1>1, <1>2, <1>3
  <1>10. counter + 1 # counter
    BY <1>3
  <1> HIDE DEF c, f, D
  <1>11. \A e \in edges \cup D : e.to # f.start /\ e.from # f.accept
    BY <1>4, <1>5, <1>7, <1>10
  <1>12. \A i \in 1..Len(frags) : Ends(frags[i]) \cap Ends(f) = {}
    BY <1>4, <1>7
  <1>13. \A i \in 1..Len(frags) : \A d \in D : d.to # frags[i].start /\ d.from # frags[i].accept
    BY <1>5, <1>8
  <1>14. Ends(f) \cup EdgeStates(D) \subseteq low..(counter' - 1)
    BY <1>4, <1>6, <1>9
  <1>15. Len(frags) <= Len(frags)
    BY <1>3
  <1> QED BY <1>1, <1>2, <1>3, <1>9, <1>11, <1>12, <1>13, <1>14, <1>15, Grown
(* The two fragments at the top, and what is left without them.             *)
LEMMA TopTwo ==
  ASSUME frags \in Seq(Fragments), Len(frags) >= 2, Sealed(frags, edges),
         NEW low \in Nat, counter \in Nat, Numbered(frags, edges, low)
  PROVE  /\ Top = frags[Len(frags)] /\ Top \in Fragments /\ Below \in Fragments
         /\ Ends(Top) \cap Ends(Below) = {}
         /\ Ends(Top) \cup Ends(Below) \subseteq low..(counter - 1)
         /\ \A e \in edges : e.to \notin {Top.start, Below.start} /\ e.from \notin {Top.accept, Below.accept}
         /\ \A i \in 1..(Len(frags) - 2) : Ends(frags[i]) \cap (Ends(Top) \cup Ends(Below)) = {}
  <1> DEFINE n == Len(frags)
  <1>1. /\ n \in DOMAIN frags /\ n - 1 \in DOMAIN frags /\ n # n - 1
        /\ Top = frags[n] /\ Below = frags[n - 1]
    BY DEF Top, Below, Last
  <1>2. \A i \in 1..(n - 2) : i \in DOMAIN frags /\ i # n /\ i # n - 1
    OBVIOUS
  <1> HIDE DEF n
  <1>3. Top \in Fragments /\ Below \in Fragments
    BY <1>1
  <1>4. /\ Ends(Top) \cap Ends(Below) = {}
        /\ \A i \in 1..(n - 2) : Ends(frags[i]) \cap (Ends(Top) \cup Ends(Below)) = {}
    BY <1>1, <1>2 DEF Sealed
  <1>5. Ends(Top) \cup Ends(Below) \subseteq low..(counter - 1)
    BY <1>1 DEF Numbered
  <1>6. \A e \in edges : e.to \notin {Top.start, Below.start} /\ e.from \notin {Top.accept, Below.accept}
    BY <1>1 DEF Sealed
  <1> QED BY <1>1, <1>3, <1>4, <1>5, <1>6 DEF n

LEMMA ConcatStep == ASSUME ThompsonInv, AddConcat, Len(frags) >= 2 PROVE ThompsonInv'
  <1> DEFINE G == Front(Front(frags))
             f == [start |-> Below.start, accept |-> Top.accept]
             D == {Edge(Below.accept, Epsilon, Top.start)}
  <1>1. PICK low \in 0..counter : Numbered(frags, edges, low) /\ Ordered(low)
    BY DEF ThompsonInv, AddConcat
  <1>2. counter \in Nat /\ low \in Nat /\ frags \in Seq(Fragments) /\ Sealed(frags, edges) /\ stage = "thompson"
    BY <1>1 DEF ThompsonInv, Numbered, AddConcat
  <1>3. /\ stage' = "thompson" /\ nfas' = nfas /\ counter' = counter
        /\ frags' = Append(G, f) /\ edges' = edges \cup D
    BY <1>2 DEF AddConcat
  <1>4. G \in Seq(Fragments) /\ Len(G) = Len(frags) - 2 /\ \A i \in 1..(Len(frags) - 2) : G[i] = frags[i]
    BY <1>2, FrontOfFront
  <1>5. /\ Top \in Fragments /\ Below \in Fragments
        /\ Ends(Top) \cap Ends(Below) = {}
        /\ Ends(Top) \cup Ends(Below) \subseteq low..(counter - 1)
        /\ \A e \in edges : e.to \notin {Top.start, Below.start} /\ e.from \notin {Top.accept, Below.accept}
        /\ \A i \in 1..(Len(frags) - 2) : Ends(frags[i]) \cap (Ends(Top) \cup Ends(Below)) = {}
    BY <1>1, <1>2, TopTwo
  <1>6. f \in Fragments /\ f.start = Below.start /\ f.accept = Top.accept /\ Ends(f) \subseteq Ends(Top) \cup Ends(Below)
    BY <1>5 DEF Fragments, Ends
  <1>7. /\ \A d \in D : d.from = Below.accept /\ d.to = Top.start
        /\ EdgeStates(D) \subseteq Ends(Top) \cup Ends(Below)
    BY DEF Edge, EdgeStates, Ends
  <1>8. Below.accept # Top.accept /\ Top.start # Below.start
    BY <1>5 DEF Ends
  <1>9. Len(G) <= Len(frags)
    BY <1>2, <1>4
  <1> HIDE DEF G, f, D
  <1>10. \A i \in 1..Len(G) : Ends(G[i]) \cap Ends(f) = {}
    BY <1>4, <1>5, <1>6
  <1>11. \A e \in edges \cup D : e.to # f.start /\ e.from # f.accept
    BY <1>5, <1>6, <1>7, <1>8
  <1>12. \A i \in 1..Len(G) : \A d \in D : d.to # G[i].start /\ d.from # G[i].accept
    BY <1>4, <1>5, <1>7 DEF Ends
  <1>13. Ends(f) \cup EdgeStates(D) \subseteq low..(counter' - 1)
    BY <1>3, <1>5, <1>6, <1>7
  <1>14. counter' \in Nat /\ counter' >= counter /\ \A i \in 1..Len(G) : G[i] = frags[i]
    BY <1>2, <1>3, <1>4
  <1> QED BY <1>1, <1>2, <1>3, <1>4, <1>6, <1>9, <1>10, <1>11, <1>12, <1>13, <1>14, Grown

(* A fragment of two new states around what was at the top: its edges go    *)
(* from its start to old starts and its accepting state, and from old       *)
(* accepting states back to old starts and to its own.                      *)
LEMMA Wrapped ==
  ASSUME ThompsonInv, stage = "thompson", stage' = "thompson", nfas' = nfas, counter' = counter + 2,
         NEW low \in 0..counter, Numbered(frags, edges, low), Ordered(low),
         NEW G \in Seq(Fragments), Len(G) <= Len(frags), \A i \in 1..Len(G) : G[i] = frags[i],
         NEW A, NEW B, A \cup B \subseteq low..(counter - 1),
         \A i \in 1..Len(G) : Ends(G[i]) \cap (A \cup B) = {},
         NEW D,
         \A d \in D : d.from \in {counter} \cup A /\ d.to \in {counter + 1} \cup B,
         frags' = Append(G, [start |-> counter, accept |-> counter + 1]),
         edges' = edges \cup D
  PROVE  ThompsonInv'
  <1> DEFINE f == [start |-> counter, accept |-> counter + 1]
  <1>1. counter \in Nat /\ low \in Nat /\ frags \in Seq(Fragments) /\ f \in Fragments
    BY DEF ThompsonInv, Numbered, Fragments
  <1>2. Ends(f) = {counter, counter + 1} /\ f.start = counter /\ f.accept = counter + 1
    BY DEF Ends
  <1>3. /\ \A i \in DOMAIN frags : {counter, counter + 1} \cap Ends(frags[i]) = {}
        /\ \A e \in edges : {counter, counter + 1} \cap {e.from, e.to} = {}
    BY <1>1, NewStates
  <1>4. \A i \in 1..Len(G) : i \in DOMAIN frags /\ G[i] = frags[i]
    BY <1>1
  <1>5. counter \notin B /\ counter + 1 \notin A /\ counter # counter + 1
    BY <1>1
  <1>6. A \cup B \cup {counter, counter + 1} \subseteq low..(counter' - 1)
    <2>1. low..(counter - 1) \subseteq low..(counter' - 1)
      BY <1>1, Wider
    <2>2. {counter, counter + 1} \subseteq low..(counter' - 1)
      BY <1>1
    <2> QED BY <2>1, <2>2
  <1>7. counter' \in Nat /\ counter' >= counter
    BY <1>1
  <1> HIDE DEF f
  <1>8. \A i \in 1..Len(G) : Ends(G[i]) \cap Ends(f) = {}
    BY <1>2, <1>3, <1>4
  <1>9. \A e \in edges \cup D : e.to # f.start /\ e.from # f.accept
    BY <1>2, <1>3, <1>5
  <1>10. \A i \in 1..Len(G) : \A d \in D : d.to # G[i].start /\ d.from # G[i].accept
    BY <1>3, <1>4 DEF Ends
  <1>11. EdgeStates(D) \subseteq A \cup B \cup {counter, counter + 1}
    BY DEF EdgeStates
  <1>12. Ends(f) \cup EdgeStates(D) \subseteq low..(counter' - 1)
    BY <1>2, <1>6, <1>11
  <1>13. frags' = Append(G, f)
    BY DEF f
  <1> QED BY <1>1, <1>7, <1>8, <1>9, <1>10, <1>12, <1>13, Grown

LEMMA UnionStep == ASSUME ThompsonInv, AddUnion, Len(frags) >= 2 PROVE ThompsonInv'
  <1> DEFINE G == Front(Front(frags))
             D == UNION {{Edge(counter, Epsilon, f.start), Edge(f.accept, Epsilon, counter + 1)} : f \in {Below, Top}}
             C == Ends(Top) \cup Ends(Below)
  <1>1. PICK low \in 0..counter : Numbered(frags, edges, low) /\ Ordered(low)
    BY DEF ThompsonInv, AddUnion
  <1>2. counter \in Nat /\ low \in Nat /\ frags \in Seq(Fragments) /\ Sealed(frags, edges) /\ stage = "thompson"
    BY <1>1 DEF ThompsonInv, Numbered, AddUnion
  <1>3. /\ stage' = "thompson" /\ nfas' = nfas /\ counter' = counter + 2
        /\ frags' = Append(G, [start |-> counter, accept |-> counter + 1]) /\ edges' = edges \cup D
    BY <1>2 DEF AddUnion
  <1>4. G \in Seq(Fragments) /\ Len(G) = Len(frags) - 2 /\ \A i \in 1..(Len(frags) - 2) : G[i] = frags[i]
    BY <1>2, FrontOfFront
  <1>5. /\ C \subseteq low..(counter - 1)
        /\ \A i \in 1..(Len(frags) - 2) : Ends(frags[i]) \cap C = {}
    BY <1>1, <1>2, TopTwo
  <1>6. \A d \in D : d.from \in {counter} \cup C /\ d.to \in {counter + 1} \cup C
    BY DEF Edge, Ends
  <1>7. Len(G) <= Len(frags) /\ \A i \in 1..Len(G) : G[i] = frags[i] /\ Ends(G[i]) \cap (C \cup C) = {}
    BY <1>2, <1>4, <1>5
  <1> HIDE DEF G, D, C
  <1> QED BY <1>1, <1>2, <1>3, <1>4, <1>5, <1>6, <1>7, Wrapped

LEMMA UnaryStep == ASSUME ThompsonInv, AddUnary, frags # <<>> PROVE ThompsonInv'
  <1> DEFINE G == Front(frags)
             type == Postfix[at].type
             D == {Edge(counter, Epsilon, Top.start), Edge(Top.accept, Epsilon, counter + 1)}
                    \cup (IF type \in {"Star", "Optional"} THEN {Edge(counter, Epsilon, counter + 1)} ELSE {})
                    \cup (IF type \in {"Star", "Plus"} THEN {Edge(Top.accept, Epsilon, Top.start)} ELSE {})
             C == Ends(Top)
  <1>1. PICK low \in 0..counter : Numbered(frags, edges, low) /\ Ordered(low)
    BY DEF ThompsonInv, AddUnary
  <1>2. /\ counter \in Nat /\ low \in Nat /\ frags \in Seq(Fragments) /\ Sealed(frags, edges) /\ stage = "thompson"
        /\ Len(frags) \in Nat /\ Len(frags) >= 1
    BY <1>1 DEF ThompsonInv, Numbered, AddUnary
  <1>3. /\ stage' = "thompson" /\ nfas' = nfas /\ counter' = counter + 2
        /\ frags' = Append(G, [start |-> counter, accept |-> counter + 1]) /\ edges' = edges \cup D
    <2>1. edges' = edges
            \cup {Edge(counter, Epsilon, Top.start), Edge(Top.accept, Epsilon, counter + 1)}
            \cup (IF type \in {"Star", "Optional"} THEN {Edge(counter, Epsilon, counter + 1)} ELSE {})
            \cup (IF type \in {"Star", "Plus"} THEN {Edge(Top.accept, Epsilon, Top.start)} ELSE {})
      BY DEF AddUnary
    <2>2. edges' = edges \cup D
      BY <2>1
    <2>3. /\ stage' = "thompson" /\ nfas' = nfas /\ counter' = counter + 2
          /\ frags' = Append(G, [start |-> counter, accept |-> counter + 1])
      BY <1>2 DEF AddUnary
    <2> QED BY <2>2, <2>3
  <1>4. G \in Seq(Fragments) /\ Len(G) = Len(frags) - 1 /\ \A i \in 1..(Len(frags) - 1) : G[i] = frags[i]
    BY <1>2, FrontOf
  <1>5. /\ Top = frags[Len(frags)] /\ Len(frags) \in DOMAIN frags
        /\ \A i \in 1..(Len(frags) - 1) : i \in DOMAIN frags /\ i # Len(frags)
    BY <1>2 DEF Top, Last
  <1>6. /\ C \subseteq low..(counter - 1)
        /\ \A i \in 1..(Len(frags) - 1) : Ends(frags[i]) \cap C = {}
    BY <1>1, <1>2, <1>5 DEF Numbered, Sealed
  <1>7. \A d \in D : d.from \in {counter} \cup C /\ d.to \in {counter + 1} \cup C
    BY DEF Edge, Ends
  <1>8. Len(G) <= Len(frags) /\ \A i \in 1..Len(G) : G[i] = frags[i] /\ Ends(G[i]) \cap (C \cup C) = {}
    BY <1>2, <1>4, <1>6
  <1> HIDE DEF G, D, C
  <1> QED BY <1>1, <1>2, <1>3, <1>4, <1>6, <1>7, <1>8, Wrapped
(* The fragment left is the automaton; the next one begins at counter.      *)
LEMMA AutomatonStep == ASSUME ThompsonInv, EndPostfix, Len(frags) = 1 PROVE ThompsonInv'
  <1> DEFINE a == [start |-> Top.start, accept |-> Top.accept, edges |-> edges]
             n == Len(nfas)
  <1>1. PICK low \in 0..counter : Numbered(frags, edges, low) /\ Ordered(low)
    BY DEF ThompsonInv, EndPostfix
  <1>2. /\ counter \in Nat /\ low \in Nat /\ counter' = counter /\ stage' \in {"thompson", "unite"}
        /\ frags' = <<>> /\ edges' = {} /\ nfas' = Append(nfas, a)
    BY <1>1 DEF ThompsonInv, EndPostfix
  <1>3. StatesOf(a) \subseteq low..(counter - 1)
    <2>1. Top = frags[1] /\ 1 \in DOMAIN frags
      BY <1>1 DEF Top, Last, Numbered
    <2>2. Ends(Top) \subseteq low..(counter - 1) /\ EdgeStates(edges) \subseteq low..(counter - 1)
      BY <1>1, <2>1 DEF Numbered
    <2>3. StatesOf(a) = Ends(Top) \cup EdgeStates(edges)
      BY DEF StatesOf, Ends
    <2> QED BY <2>2, <2>3
  <1> HIDE DEF a
  <1>4. PICK S : nfas \in Seq(S)
    BY <1>1 DEF Ordered
  <1>5. /\ nfas' \in Seq(S \cup {a}) /\ n \in Nat /\ DOMAIN nfas = 1..n /\ DOMAIN nfas' = 1..(n + 1)
        /\ nfas'[n + 1] = a /\ \A i \in 1..n : nfas'[i] = nfas[i]
    <2>1. nfas \in Seq(S \cup {a})
      BY <1>4
    <2> QED BY <1>2, <2>1
  <1> HIDE DEF n
  <1>6. ASSUME NEW i \in 1..(n + 1)
        PROVE  /\ i \in 1..n => nfas'[i] = nfas[i] /\ StatesOf(nfas[i]) \subseteq 0..(low - 1)
               /\ i \notin 1..n => i = n + 1 /\ nfas'[i] = a
    BY <1>1, <1>5 DEF Ordered
  <1>7. 0..(low - 1) \subseteq 0..(counter - 1) /\ low..(counter - 1) \subseteq 0..(counter - 1)
    BY <1>2
  <1>8. \A i \in 1..(n + 1) : StatesOf(nfas'[i]) \subseteq 0..(counter - 1)
    BY <1>3, <1>6, <1>7
  <1>9. ASSUME NEW i \in 1..(n + 1), NEW j \in 1..(n + 1), i < j,
               NEW p \in StatesOf(nfas'[i]), NEW q \in StatesOf(nfas'[j])
        PROVE  p < q
    <2>1. i \in 1..n
      BY <1>5, <1>9
    <2>2. p \in StatesOf(nfas[i]) /\ p \in 0..(low - 1)
      BY <1>6, <2>1
    <2>3. CASE j \in 1..n
      BY <1>1, <1>5, <1>6, <1>9, <2>1, <2>2, <2>3 DEF Ordered
    <2>4. CASE j \notin 1..n
      <3>1. q \in low..(counter - 1)
        BY <1>3, <1>6, <2>4
      <3> QED BY <1>2, <2>2, <3>1
    <2> QED BY <2>3, <2>4
  <1>10. Ordered(counter)'
    <2>1. \A i : StatesOf(nfas[i])' = StatesOf(nfas'[i])
      BY DEF StatesOf, EdgeStates
    <2>2. /\ (\E T : nfas \in Seq(T))'
          /\ DOMAIN nfas' = 1..(n + 1)
      BY <1>5
    <2> QED BY <1>2, <1>8, <1>9, <2>1, <2>2 DEF Ordered
  <1>11. Sealed(frags, edges)' /\ Numbered(frags, edges, counter)'
    BY <1>2 DEF Sealed, Numbered, EdgeStates, Ends
  <1>12. Numbered(frags, edges, counter)' /\ counter' \in 0..counter'
    BY <1>2, <1>11
  <1> QED BY <1>2, <1>10, <1>11, <1>12 DEF ThompsonInv

LEMMA NextThompson == ThompsonInv /\ [Next]_vars => ThompsonInv'
  <1> SUFFICES ASSUME ThompsonInv, [Next]_vars PROVE ThompsonInv'
    OBVIOUS
  <1> USE DEF reading, thompson, automata, generator
  <1>1. ASSUME counter' \in Nat, stage' \notin {"read", "class", "shunt", "thompson", "unite"} PROVE ThompsonInv'
    BY <1>1 DEF ThompsonInv
  <1>2. ASSUME stage \in {"read", "class", "shunt"}, stage' \in {"read", "class", "shunt", "failed"},
               UNCHANGED thompson
        PROVE  ThompsonInv'
    BY <1>2 DEF ThompsonInv
  <1>3. ASSUME ReadChar \/ OpenClass \/ ReadClassChar \/ CloseClass \/ EndRegex \/ Shunt PROVE ThompsonInv'
    BY <1>2, <1>3 DEF ReadChar, OpenClass, ReadClassChar, CloseClass, EndRegex, Shunt, Fail
  <1>4. ASSUME EndShunt PROVE ThompsonInv'
    <2>1. stage = "shunt" /\ stage' \in {"read", "thompson", "failed"} /\ UNCHANGED thompson
      BY <1>4 DEF EndShunt, Fail
    <2>2. counter \in Nat /\ frags = <<>> /\ edges = {} /\ nfas = <<>>
      BY <2>1 DEF ThompsonInv
    <2>3. nfas' \in Seq({}) /\ DOMAIN nfas' = {}
      BY <2>1, <2>2
    <2>4. Ordered(0)'
      BY <2>3 DEF Ordered
    <2>5. Sealed(frags, edges)' /\ Numbered(frags, edges, 0)'
      BY <2>1, <2>2 DEF Sealed, Numbered, EdgeStates, Ends
    <2>6. 0 \in 0..counter' /\ counter' \in Nat
      BY <2>1, <2>2
    <2> QED BY <2>1, <2>2, <2>4, <2>5, <2>6 DEF ThompsonInv
  <1>5. ASSUME stage = "thompson", Fail PROVE ThompsonInv'
    BY <1>1, <1>5 DEF Fail, ThompsonInv
  <1>6. ASSUME AddLiteral \/ AddConcat \/ AddUnion \/ AddUnary PROVE ThompsonInv'
    <2>1. stage = "thompson" => Len(frags) \in Nat
      BY DEF ThompsonInv, Numbered
    <2>2. AddConcat => (Fail /\ stage = "thompson") \/ Len(frags) >= 2
      BY <2>1 DEF AddConcat
    <2>3. AddUnion => (Fail /\ stage = "thompson") \/ Len(frags) >= 2
      BY <2>1 DEF AddUnion
    <2>4. AddUnary => (Fail /\ stage = "thompson") \/ frags # <<>>
      BY DEF AddUnary
    <2> QED BY <1>5, <1>6, <2>2, <2>3, <2>4, LiteralStep, ConcatStep, UnionStep, UnaryStep
  <1>7. ASSUME EndPostfix PROVE ThompsonInv'
    <2>1. (Fail /\ stage = "thompson") \/ Len(frags) = 1
      BY <1>7 DEF EndPostfix
    <2> QED BY <1>5, <1>7, <2>1, AutomatonStep
  <1>8. ASSUME Unite PROVE ThompsonInv'
    <2>1. stage = "unite" /\ stage' = "subset" /\ counter' = counter + 1 + Len(nfas)
      BY <1>8 DEF Unite
    <2>2. counter \in Nat /\ Len(nfas) \in Nat
      BY <2>1 DEF ThompsonInv, Ordered
    <2> QED BY <1>1, <2>1, <2>2
  <1>9. ASSUME Subset \/ EndSubset \/ Start \/ Advance \/ Emit \/ Reject \/ Finish PROVE ThompsonInv'
    <2>1. /\ stage' \in {"subset", "built", "scan", "lexical_error", "done"} /\ counter' = counter
      BY <1>9 DEF Subset, EndSubset, Start, Advance, Emit, Reject, Finish
    <2> QED BY <1>1, <2>1 DEF ThompsonInv
  <1>10. CASE UNCHANGED vars
    <2>1. UNCHANGED <<stage, thompson>>
      BY <1>10 DEF vars
    <2>2. /\ Sealed(frags, edges)' <=> Sealed(frags, edges)
          /\ \A low : (Numbered(frags, edges, low)' <=> Numbered(frags, edges, low)) /\ (Ordered(low)' <=> Ordered(low))
      BY <2>1 DEF Sealed, Numbered, Ordered, StatesOf, EdgeStates, Ends
    <2>3. Ordered(counter)' <=> Ordered(counter)
      BY <2>1, <2>2 DEF Ordered, StatesOf, EdgeStates
    <2> QED BY <2>1, <2>2, <2>3 DEF ThompsonInv
  <1> QED
    BY <1>3, <1>4, <1>6, <1>7, <1>8, <1>9, <1>10 DEF Next, Generate, GeneratorNext

(* regex_postfix_to_nfa may glue fragments together by their ends alone:    *)
(* those on its stack share no end, nothing enters a start and nothing      *)
(* leaves an accepting state, whatever postfix form it is given.            *)
THEOREM FragmentsStaySealed == Spec => []FragmentsSealed
  <1>1. ThompsonInv => FragmentsSealed
    BY DEF ThompsonInv, Sealed, Ends, FragmentsSealed
  <1> QED BY <1>1, InitThompson, NextThompson, PTL DEF Spec

(* unite_nfas copies every automaton with an offset of its own; no state of *)
(* one falls on a state of another, so that the token of an accepting state *)
(* is that of its own specification.                                        *)
CopiesApart ==
  stage = "unite" =>
    \A i, j \in DOMAIN nfas : i # j =>
      \A p \in StatesOf(nfas[i]), q \in StatesOf(nfas[j]) : Copied(i, p) # Copied(j, q)

THEOREM CopiesStayApart == Spec => []CopiesApart
  <1>1. ASSUME ThompsonInv, stage = "unite", NEW i \in DOMAIN nfas, NEW j \in DOMAIN nfas, i < j,
               NEW p \in StatesOf(nfas[i]), NEW q \in StatesOf(nfas[j])
        PROVE  Copied(i, p) # Copied(j, q)
    <2>1. counter \in Nat /\ Ordered(counter)
      BY <1>1 DEF ThompsonInv
    <2>2. p \in Nat /\ q \in Nat /\ p < q /\ i \in Nat /\ j \in Nat
      BY <1>1, <2>1 DEF Ordered
    <2> QED BY <1>1, <2>1, <2>2 DEF Copied
  <1>2. ASSUME ThompsonInv, stage = "unite", NEW i \in DOMAIN nfas, NEW j \in DOMAIN nfas, i # j
        PROVE  i < j \/ j < i
    BY <1>2 DEF ThompsonInv, Ordered
  <1>3. ThompsonInv => CopiesApart
    BY <1>1, <1>2 DEF CopiesApart
  <1> QED BY <1>3, InitThompson, NextThompson, PTL DEF Spec
-----------------------------------------------------------------------------
(* The least and the greatest of a set of numbers.                          *)
LEMMA MinIsLeast ==
  ASSUME NEW T \in SUBSET Nat, T # {}
  PROVE  Min(T) \in T /\ \A y \in T : Min(T) <= y
  <1> DEFINE R == {ss \in Nat \X Nat : ss[1] < ss[2]}
  <1>1. IsWellFoundedOn(R, Nat)
    BY NatLessThanWellFounded DEF OpToRel
  <1> HIDE DEF R
  <1>2. PICK x \in T : \A y \in T : ~(<<y, x>> \in R)
    BY <1>1, WFMin
  <1>3. ASSUME NEW y \in T PROVE x <= y
    <2>1. x \in Nat /\ y \in Nat /\ ~(<<y, x>> \in R)
      BY <1>2
    <2> QED BY <2>1 DEF R
  <1> QED BY <1>3 DEF Min

LEMMA MaxIsGreatest ==
  ASSUME NEW T, T # {}, NEW n \in Nat, T \subseteq 0..n
  PROVE  Max(T) \in T /\ \A y \in T : Max(T) >= y
  <1> DEFINE U == {n - y : y \in T}
  <1>1. U \in SUBSET Nat /\ U # {}
    <2>1. \A y \in T : n - y \in Nat
      OBVIOUS
    <2> QED BY <2>1
  <1>2. Min(U) \in U /\ \A u \in U : Min(U) <= u
    BY <1>1, MinIsLeast
  <1>3. PICK x \in T : Min(U) = n - x
    BY <1>2
  <1>4. ASSUME NEW y \in T PROVE x >= y
    <2>1. n - y \in U /\ x \in 0..n /\ y \in 0..n
      OBVIOUS
    <2>2. n - x <= n - y
      BY <1>2, <1>3, <2>1
    <2> QED BY <2>1, <2>2
  <1> QED BY <1>4 DEF Max

(* There is one greatest only.                                              *)
LEMMA MaxIs ==
  ASSUME NEW T \in SUBSET Nat, NEW x \in T, \A y \in T : x >= y
  PROVE  Max(T) = x
  <1>1. Max(T) \in T /\ Max(T) >= x
    BY DEF Max
  <1>2. Max(T) \in Nat /\ x \in Nat /\ x >= Max(T)
    BY <1>1
  <1> QED BY <1>1, <1>2
-----------------------------------------------------------------------------
(* What nfa_to_dfa builds: subsets are met before they are explored, and an *)
(* explored one leads where the nondeterministic automaton goes.            *)
Moved(Q, c) == LET R == Move(nfa, Q, c) IN IF R = {} THEN {} ELSE Closure(nfa, R)

Deterministic ==
  /\ dfa = [states |-> dfa.states, start |-> dfa.start, trans |-> dfa.trans, accept |-> dfa.accept]
  /\ dfa.start = Closure(nfa, {nfa.start}) /\ dfa.start \in dfa.states
  /\ dfa.states \subseteq DOMAIN dfa.trans \cup worklist
  /\ \A Q \in DOMAIN dfa.trans : dfa.trans[Q] = Outgoing(Q) /\ Range(Outgoing(Q)) \subseteq dfa.states
  /\ DOMAIN dfa.accept = {Q \in DOMAIN dfa.trans : TokensOf(nfa, Q) # {}}
  /\ \A Q \in DOMAIN dfa.accept : dfa.accept[Q] = Min(TokensOf(nfa, Q))

Scanning == {"scan", "lexical_error", "done"}

DfaInv ==
  /\ stage \in {"subset", "built"} \cup Scanning => Deterministic
  /\ stage \in {"built"} \cup Scanning => worklist = {}

LEMMA InitDfa == Init => DfaInv
  BY DEF Init, GeneratorInit, DfaInv, Scanning

LEMMA SubsetStep == ASSUME DfaInv, Subset PROVE DfaInv'
  <1> DEFINE Q == CHOOSE x \in worklist : TRUE
             out == Outgoing(Q)
             T == TokensOf(nfa, Q)
  <1>1. /\ stage = "subset" /\ stage' = "subset" /\ nfa' = nfa /\ Q \in worklist
        /\ worklist' = (worklist \ {Q}) \cup (Range(out) \ dfa.states) /\ dfa' = Explored(Q)
    BY DEF Subset
  <1>2. Deterministic
    BY <1>1 DEF DfaInv
  <1> HIDE DEF Q
  <1>3. /\ dfa'.states = dfa.states \cup Range(out) /\ dfa'.start = dfa.start
        /\ dfa'.trans = With(dfa.trans, Q, out)
        /\ dfa'.accept = IF T = {} THEN dfa.accept ELSE With(dfa.accept, Q, Min(T))
        /\ dfa' = [states |-> dfa'.states, start |-> dfa'.start, trans |-> dfa'.trans, accept |-> dfa'.accept]
    <2> DEFINE states == dfa.states
               start == dfa.start
               trans == dfa.trans
               accept == dfa.accept
    <2>1. dfa = [states |-> states, start |-> start, trans |-> trans, accept |-> accept]
      BY <1>2 DEF Deterministic
    <2> HIDE DEF states, start, trans, accept
    <2>2. dfa' = [states |-> states \cup Range(out), start |-> start, trans |-> With(trans, Q, out),
                  accept |-> IF T = {} THEN accept ELSE With(accept, Q, Min(T))]
      BY <1>1, <2>1 DEF Explored
    <2> QED BY <2>2 DEF states, start, trans, accept
  <1>4. /\ DOMAIN dfa'.trans = DOMAIN dfa.trans \cup {Q} /\ dfa'.trans[Q] = out
        /\ \A R \in DOMAIN dfa.trans \ {Q} : dfa'.trans[R] = dfa.trans[R]
    BY <1>3 DEF With
  <1>5. /\ dfa.start = Closure(nfa, {nfa.start}) /\ dfa.start \in dfa.states
        /\ dfa.states \subseteq DOMAIN dfa.trans \cup worklist
        /\ \A R \in DOMAIN dfa.trans : dfa.trans[R] = Outgoing(R) /\ Range(Outgoing(R)) \subseteq dfa.states
        /\ DOMAIN dfa.accept = {R \in DOMAIN dfa.trans : TokensOf(nfa, R) # {}}
        /\ \A R \in DOMAIN dfa.accept : dfa.accept[R] = Min(TokensOf(nfa, R))
    BY <1>2 DEF Deterministic
  <1>6. dfa'.states \subseteq DOMAIN dfa'.trans \cup worklist'
    <2> HIDE DEF out
    <2> QED BY <1>1, <1>3, <1>4, <1>5
  <1>7. \A R : Outgoing(R)' = Outgoing(R)
    BY <1>1 DEF Outgoing
  <1>8. \A R \in DOMAIN dfa'.trans : dfa'.trans[R] = Outgoing(R) /\ Range(Outgoing(R)) \subseteq dfa'.states
    <2>1. ASSUME NEW R \in DOMAIN dfa'.trans
          PROVE  dfa'.trans[R] = Outgoing(R) /\ Range(Outgoing(R)) \subseteq dfa'.states
      <3>1. CASE R = Q
        BY <1>3, <1>4, <3>1
      <3>2. CASE R # Q
        BY <1>3, <1>4, <1>5, <3>2
      <3> QED BY <3>1, <3>2
    <2> QED BY <2>1
  <1>9. /\ DOMAIN dfa'.accept = {R \in DOMAIN dfa'.trans : TokensOf(nfa, R) # {}}
        /\ \A R \in DOMAIN dfa'.accept : dfa'.accept[R] = Min(TokensOf(nfa, R))
    <2>1. CASE T = {}
      BY <1>3, <1>4, <1>5, <2>1
    <2>2. CASE T # {}
      <3>1. /\ DOMAIN dfa'.accept = DOMAIN dfa.accept \cup {Q} /\ dfa'.accept[Q] = Min(T)
            /\ \A R \in DOMAIN dfa.accept \ {Q} : dfa'.accept[R] = dfa.accept[R]
        BY <1>3, <2>2 DEF With
      <3> QED BY <1>4, <1>5, <2>2, <3>1
    <2> QED BY <2>1, <2>2
  <1>10. Deterministic'
    BY <1>1, <1>3, <1>5, <1>6, <1>7, <1>8, <1>9 DEF Deterministic
  <1> QED BY <1>1, <1>10 DEF DfaInv, Scanning

LEMMA SameDfa ==
  ASSUME UNCHANGED automata
  PROVE  Deterministic' <=> Deterministic
  BY DEF automata, Deterministic, Outgoing

LEMMA NextDfa == DfaInv /\ [Next]_vars => DfaInv'
  <1> SUFFICES ASSUME DfaInv, [Next]_vars PROVE DfaInv'
    OBVIOUS
  <1>1. ASSUME stage' \notin {"subset", "built"} \cup Scanning PROVE DfaInv'
    BY <1>1 DEF DfaInv
  <1>2. ASSUME \/ ReadChar \/ OpenClass \/ ReadClassChar \/ CloseClass \/ EndRegex \/ Shunt \/ EndShunt
               \/ AddLiteral \/ AddConcat \/ AddUnion \/ AddUnary \/ EndPostfix
        PROVE  DfaInv'
    <2>1. stage' \in {"read", "class", "shunt", "thompson", "unite", "failed"}
      BY <1>2 DEF ReadChar, OpenClass, ReadClassChar, CloseClass, EndRegex, Shunt, EndShunt,
         AddLiteral, AddConcat, AddUnion, AddUnary, EndPostfix, Fail
    <2> QED BY <1>1, <2>1 DEF Scanning
  <1>3. ASSUME Unite PROVE DfaInv'
    <2> DEFINE start == Closure(nfa', {counter})
    <2>1. /\ nfa'.start = counter /\ worklist' = {start} /\ stage' = "subset"
          /\ dfa' = [states |-> {start}, start |-> start, trans |-> <<>>, accept |-> <<>>]
      BY <1>3 DEF Unite
    <2>2. DOMAIN dfa'.trans = {} /\ DOMAIN dfa'.accept = {}
      BY <2>1
    <2>3. Deterministic'
      BY <2>1, <2>2 DEF Deterministic
    <2> QED BY <2>1, <2>3 DEF DfaInv, Scanning
  <1>4. CASE Subset
    BY <1>4, SubsetStep
  <1>5. ASSUME UNCHANGED automata, stage \in {"built"} \cup Scanning \/ (stage = "subset" /\ worklist = {}) \/ stage' = stage
        PROVE  DfaInv'
    <2>1. stage' \in {"subset", "built"} \cup Scanning /\ stage \in {"subset", "built"} \cup Scanning => DfaInv'
      BY <1>5, SameDfa DEF DfaInv, automata, Scanning
    <2> QED BY <1>1, <1>5, <2>1
  <1>6. CASE EndSubset \/ Start \/ Advance \/ Emit \/ Reject \/ Finish
    <2>1. UNCHANGED automata
      BY <1>6 DEF EndSubset, Start, Advance, Emit, Reject, Finish, generator
    <2>2. stage \in {"built", "scan"} \/ (stage = "subset" /\ worklist = {})
      BY <1>6 DEF EndSubset, Start, Advance, Emit, Reject, Finish
    <2> QED BY <1>5, <2>1, <2>2 DEF Scanning
  <1>7. CASE UNCHANGED vars
    BY <1>5, <1>7 DEF vars, generator
  <1> QED
    BY <1>2, <1>3, <1>4, <1>6, <1>7 DEF Next, Generate, GeneratorNext
-----------------------------------------------------------------------------
(* The operators that both use are the same.                                *)
LEMMA SameOperators ==
  /\ \A n, Q : Abstract!Closure(n, Q) = Closure(n, Q)
  /\ \A n, Q, c : Abstract!Move(n, Q, c) = Move(n, Q, c)
  /\ \A n, Q : Abstract!TokensOf(n, Q) = TokensOf(n, Q)
  /\ \A S : Abstract!Max(S) = Max(S) /\ Abstract!Min(S) = Min(S)
  /\ \A S : Abstract!Cardinality(S) = Cardinality(S)
  <1>1. \A n, Q : Abstract!Closure(n, Q) = Closure(n, Q)
    BY DEF Abstract!Closure, Closure, Abstract!Epsilon, Epsilon
  <1>2. \A n, Q, c : Abstract!Move(n, Q, c) = Move(n, Q, c)
    BY DEF Abstract!Move, Move
  <1>3. \A n, Q : Abstract!TokensOf(n, Q) = TokensOf(n, Q)
    BY DEF Abstract!TokensOf, TokensOf
  <1>4. \A S : Abstract!Max(S) = Max(S) /\ Abstract!Min(S) = Min(S)
    BY DEF Abstract!Max, Max, Abstract!Min, Min
  <1>5. \A S : Abstract!Cardinality(S) = Cardinality(S)
    BY DEF Abstract!Cardinality, Cardinality
  <1> QED BY <1>1, <1>2, <1>3, <1>4, <1>5

(* The states that MaximalMunch reaches: the function it is defined by       *)
(* exists, and once no state is left there is never one again.              *)
Runs(p, f, m) ==
  f = [q \in p..m |-> IF q = p THEN Closure(nfa, {nfa.start}) ELSE Moved(f[q - 1], input[q - 1])]

LEMMA ReachedRuns ==
  ASSUME Len(input) \in Nat, NEW p \in Nat
  PROVE  Runs(p, Abstract!Reached(p), Len(input) + 1)
  <1> DEFINE Bad == {m \in Nat : ~ \E f : Runs(p, f, m)}
             n == Len(input) + 1
  <1>1. Bad = {}
    <2>1. SUFFICES ASSUME Bad # {} PROVE FALSE
      OBVIOUS
    <2>2. PICK m \in Bad : \A y \in Bad : m <= y
      BY <2>1, MinIsLeast
    <2>3. CASE m <= p
      <3> DEFINE g == [q \in p..m |-> Closure(nfa, {nfa.start})]
      <3>1. \A q \in p..m : q = p
        BY <2>3
      <3>2. Runs(p, g, m)
        BY <3>1 DEF Runs
      <3> QED BY <2>2, <3>2
    <2>4. CASE m > p
      <3>1. m - 1 \in Nat /\ m - 1 \notin Bad
        BY <2>2, <2>4
      <3>2. PICK f : Runs(p, f, m - 1)
        BY <3>1
      <3> DEFINE g == [q \in p..m |-> IF q = m THEN Moved(f[m - 1], input[m - 1]) ELSE f[q]]
                 start == Closure(nfa, {nfa.start})
      <3>3. \A q \in p..(m - 1) : f[q] = IF q = p THEN start ELSE Moved(f[q - 1], input[q - 1])
        BY <3>2 DEF Runs
      <3> HIDE DEF start
      <3>4. ASSUME NEW q \in p..m PROVE g[q] = IF q = p THEN start ELSE Moved(g[q - 1], input[q - 1])
        <4>1. q # p => q - 1 \in p..(m - 1) /\ q - 1 # m
          BY <2>2
        <4>2. q # m => q \in p..(m - 1)
          BY <2>2
        <4>3. CASE q = m
          BY <2>4, <4>1, <4>3
        <4>4. CASE q # m
          BY <4>1, <4>2, <4>4, <3>3
        <4> QED BY <4>3, <4>4
      <3>5. Runs(p, g, m)
        BY <3>4 DEF Runs, start
      <3> QED BY <2>2, <3>5
    <2> QED BY <2>2, <2>3, <2>4
  <1> DEFINE after == CHOOSE f : Runs(p, f, n)
  <1>2. Runs(p, after, n)
    BY <1>1
  <1>3. Abstract!Reached(p) = after
    BY SameOperators DEF Abstract!Reached, Runs, Moved
  <1> QED BY <1>2, <1>3

LEMMA ReachedAt ==
  ASSUME Len(input) \in Nat, NEW p \in Nat, NEW q \in p..(Len(input) + 1)
  PROVE  Abstract!Reached(p)[q] =
           IF q = p THEN Closure(nfa, {nfa.start}) ELSE Moved(Abstract!Reached(p)[q - 1], input[q - 1])
  BY ReachedRuns DEF Runs

LEMMA DeadStays ==
  ASSUME Len(input) \in Nat, NEW p \in Nat, NEW q \in (p + 1)..(Len(input) + 1), Abstract!Reached(p)[q] = {},
         NEW r \in q..(Len(input) + 1)
  PROVE  Abstract!Reached(p)[r] = {}
  <1> DEFINE R == Abstract!Reached(p)
             Alive == {m \in q..(Len(input) + 1) : R[m] # {}}
  <1> HIDE DEF R
  <1>1. SUFFICES ASSUME Alive # {} PROVE FALSE
    BY DEF R
  <1>2. PICK m \in Alive : \A y \in Alive : m <= y
    <2>1. Alive \in SUBSET Nat
      OBVIOUS
    <2> HIDE DEF Alive
    <2> QED BY <1>1, <2>1, MinIsLeast
  <1>3. m # q /\ m \in q..(Len(input) + 1) /\ m - 1 \in q..(Len(input) + 1) /\ m # p
    BY <1>2 DEF R
  <1>4. m - 1 \notin Alive
    BY <1>2, <1>3
  <1>5. R[m - 1] = {}
    BY <1>3, <1>4
  <1>6. R[m] = Moved({}, input[m - 1])
    <2>1. m \in p..(Len(input) + 1)
      BY <1>3
    <2>2. R[m] = IF m = p THEN Closure(nfa, {nfa.start}) ELSE Moved(R[m - 1], input[m - 1])
      BY <2>1, ReachedAt DEF R
    <2> QED BY <1>3, <1>5, <2>2
  <1>7. Moved({}, input[m - 1]) = {}
    BY DEF Moved, Move
  <1> QED BY <1>2, <1>6, <1>7

LEMMA SameText ==
  ASSUME UNCHANGED <<nfa, input>>
  PROVE  /\ \A p : Abstract!Reached(p)' = Abstract!Reached(p)
         /\ \A p : Abstract!Ends(p)' = Abstract!Ends(p)
         /\ \A p : Abstract!Line(p)' = Abstract!Line(p) /\ Abstract!Column(p)' = Abstract!Column(p)
  <1>1. \A p : Abstract!Reached(p)' = Abstract!Reached(p)
    BY DEF Abstract!Reached
  <1>2. \A p : Abstract!Ends(p)' = Abstract!Ends(p)
    BY <1>1 DEF Abstract!Ends
  <1>3. \A p : Abstract!Newlines(p)' = Abstract!Newlines(p)
    BY DEF Abstract!Newlines
  <1>4. \A p : Abstract!Line(p)' = Abstract!Line(p) /\ Abstract!Column(p)' = Abstract!Column(p)
    BY <1>3 DEF Abstract!Line, Abstract!Column
  <1> QED BY <1>1, <1>2, <1>4

(* The lines and columns of a lexeme's end, from those of its beginning.    *)
LEMMA LinesAdd ==
  ASSUME Len(input) \in Nat, pos \in 1..(Len(input) + 1), run.upto \in pos..(Len(input) + 1)
  PROVE  /\ Abstract!Line(run.upto) = Abstract!Line(pos) + Cardinality(Breaks)
         /\ column = Abstract!Column(pos) => Abstract!Column(run.upto) = ColumnAfter
  <1> DEFINE p == pos
             q == run.upto
             N == Abstract!Newlines(p)
             B == Breaks
  <1>1. /\ p \in Nat /\ q \in Nat /\ 1 <= p /\ p <= q
    OBVIOUS
  <1>2. N = {j \in 1..(p - 1) : input[j] = "\n"} /\ B = {j \in p..(q - 1) : input[j] = "\n"}
        /\ Abstract!Newlines(q) = {j \in 1..(q - 1) : input[j] = "\n"}
    BY DEF Abstract!Newlines, Breaks
  <1> HIDE DEF p, q, N, B
  <1>3. 1..(q - 1) = (1..(p - 1)) \cup (p..(q - 1)) /\ (1..(p - 1)) \cap (p..(q - 1)) = {}
    BY <1>1
  <1>4. Abstract!Newlines(q) = N \cup B /\ N \cap B = {}
    BY <1>2, <1>3
  <1>5. IsFiniteSet(N) /\ IsFiniteSet(B) /\ Cardinality(N) \in Nat /\ Cardinality(B) \in Nat
    <2>1. IsFiniteSet(1..(p - 1)) /\ IsFiniteSet(p..(q - 1))
      <3>1. 1 \in Int /\ p - 1 \in Int /\ p \in Int /\ q - 1 \in Int
        BY <1>1
      <3> QED BY <3>1, FS_Interval, Zenon
    <2>2. IsFiniteSet(N) /\ IsFiniteSet(B)
      <3>1. N \subseteq 1..(p - 1) /\ B \subseteq p..(q - 1)
        BY <1>2
      <3> QED BY <2>1, <3>1, FS_Subset
    <2> QED BY <2>2, FS_CardinalityType
  <1>6. Cardinality(N \cup B) = Cardinality(N) + Cardinality(B)
    <2>1. Cardinality(N \cup B) = Cardinality(N) + Cardinality(B) - Cardinality({})
      BY <1>4, <1>5, FS_Union
    <2> QED BY <1>5, <2>1, FS_EmptySet
  <1>7. Abstract!Line(q) = Abstract!Line(p) + Cardinality(B)
    <2>1. Abstract!Line(q) = 1 + Cardinality(N \cup B) /\ Abstract!Line(p) = 1 + Cardinality(N)
      BY <1>4, SameOperators DEF Abstract!Line, N
    <2> QED BY <1>5, <1>6, <2>1
  <1>8. Abstract!Column(q) = q - Max({0} \cup (N \cup B)) /\ Abstract!Column(p) = p - Max({0} \cup N)
    BY <1>4, SameOperators DEF Abstract!Column, N
  <1>9. CASE B = {}
    <2>1. Max({0} \cup N) \in {0} \cup N /\ {0} \cup N \subseteq Nat
      <3> DEFINE T == {0} \cup N
      <3>1. T \subseteq 0..p /\ T # {} /\ T \subseteq Nat
        BY <1>1, <1>2
      <3> HIDE DEF T
      <3>2. Max(T) \in T
        BY <1>1, <3>1, MaxIsGreatest
      <3> QED BY <3>1, <3>2 DEF T
    <2>2. Max({0} \cup N) \in Nat
      BY <2>1
    <2>3. Abstract!Column(q) = Abstract!Column(p) + (q - p)
      <3> DEFINE m == Max({0} \cup N)
      <3>1. {0} \cup (N \cup B) = {0} \cup N
        BY <1>9
      <3>2. Abstract!Column(q) = q - m /\ Abstract!Column(p) = p - m /\ m \in Nat
        BY <1>8, <2>2, <3>1
      <3> HIDE DEF m
      <3> QED BY <1>1, <3>2
    <2> QED BY <1>7, <1>9, <2>3 DEF ColumnAfter, p, q, B
  <1>10. CASE B # {}
    <2>1. Max(B) \in B /\ \A y \in B : Max(B) >= y
      <3>1. B \subseteq 0..q
        BY <1>1, <1>2
      <3> QED BY <1>1, <1>10, <3>1, MaxIsGreatest
    <2>2. \A y \in {0} \cup (N \cup B) : Max(B) >= y
      <3>1. \A y \in {0} \cup N : y < p /\ y \in Nat
        BY <1>1, <1>2
      <3>2. Max(B) \in Nat /\ Max(B) >= p
        BY <1>1, <1>2, <2>1
      <3> DEFINE m == Max(B)
      <3> HIDE DEF m
      <3>3. \A y \in {0} \cup N : m >= y
        BY <1>1, <3>1, <3>2 DEF m
      <3> QED BY <2>1, <3>3 DEF m
    <2>3. {0} \cup (N \cup B) \in SUBSET Nat /\ Max(B) \in {0} \cup (N \cup B)
      BY <1>1, <1>2, <2>1
    <2>4. Max({0} \cup (N \cup B)) = Max(B)
      BY <2>2, <2>3, MaxIs
    <2>5. Abstract!Column(q) = q - Max(B)
      BY <1>8, <2>4
    <2> QED BY <1>7, <1>10, <2>5 DEF ColumnAfter, p, q, B
  <1> QED BY <1>9, <1>10
-----------------------------------------------------------------------------
(* The run of the deterministic automaton from pos: it is where MaximalMunch *)
(* gets on the same characters, and remembers the last end of a lexeme.     *)
Found == {q \in Abstract!Ends(pos) : q <= run.i}

Following ==
  /\ run = [state |-> run.state, i |-> run.i, accepted |-> run.accepted, upto |-> run.upto]
  /\ run.i \in pos..(Len(input) + 1)
  /\ run.state = Abstract!Reached(pos)[run.i] /\ run.state \in dfa.states
  /\ IF Found = {} THEN run.accepted = {}
     ELSE /\ run.upto = Max(Found) /\ run.accepted = Abstract!Reached(pos)[run.upto]
          /\ run.accepted \in DOMAIN dfa.accept

ScanInv ==
  /\ specs \in SpecLists
  /\ stage \notin Scanning => pos = 1 /\ tokens = <<>> /\ line = 1 /\ column = 1
  /\ stage \in Scanning =>
       /\ input \in Seq(Chars) /\ pos \in 1..(Len(input) + 1)
       /\ line = Abstract!Line(pos) /\ column = Abstract!Column(pos)
  /\ stage = "scan" => Following

LEMMA InitScan == Init => ScanInv
  BY DEF Init, GeneratorInit, ScanInv, Scanning

LEMMA EndsAt ==
  ASSUME Len(input) \in Nat, NEW p \in Nat
  PROVE  /\ Abstract!Ends(p) = {q \in (p + 1)..(Len(input) + 1) : TokensOf(nfa, Abstract!Reached(p)[q]) # {}}
         /\ Abstract!Ends(p) \subseteq 0..(Len(input) + 1)
  <1>1. Abstract!Ends(p) = {q \in (p + 1)..(Len(input) + 1) : TokensOf(nfa, Abstract!Reached(p)[q]) # {}}
    BY SameOperators DEF Abstract!Ends
  <1> QED BY <1>1

LEMMA FirstLine ==
  ASSUME Len(input) \in Nat
  PROVE  Abstract!Line(1) = 1 /\ Abstract!Column(1) = 1
  <1>1. Abstract!Newlines(1) = {}
    BY DEF Abstract!Newlines
  <1>2. Abstract!Line(1) = 1
    BY <1>1, SameOperators, FS_EmptySet DEF Abstract!Line
  <1>3. {0} \cup {} = {0} /\ Max({0}) = 0
    BY MaxIs
  <1>4. Abstract!Column(1) = 1 - 0
    BY <1>1, <1>3, SameOperators DEF Abstract!Column
  <1> QED BY <1>2, <1>4

(* A run that begins.                                                       *)
LEMMA FollowingBegins ==
  ASSUME Deterministic, Len(input) \in Nat, pos \in 1..(Len(input) + 1), run = RunFrom(pos)
  PROVE  Following
  <1>1. /\ run = [state |-> run.state, i |-> run.i, accepted |-> run.accepted, upto |-> run.upto]
        /\ run.i = pos /\ run.state = dfa.start /\ run.accepted = {}
    BY DEF RunFrom
  <1>2. Abstract!Reached(pos)[pos] = Closure(nfa, {nfa.start})
    <2>1. pos \in Nat /\ pos \in pos..(Len(input) + 1)
      OBVIOUS
    <2> QED BY <2>1, ReachedAt
  <1>3. Found = {}
    BY <1>1, EndsAt DEF Found
  <1> QED BY <1>1, <1>2, <1>3 DEF Following, Deterministic

LEMMA AdvanceFollows ==
  ASSUME Deterministic, worklist = {}, input \in Seq(Chars), pos \in 1..(Len(input) + 1), Following, Advance
  PROVE  Following'
  <1> DEFINE c == input[run.i]
             q == dfa.trans[run.state][c]
             i == run.i
             R == Abstract!Reached(pos)
             n == Len(input)
  <1>1. /\ Continues /\ UNCHANGED <<pos, input, dfa, nfa>>
        /\ run' = IF q \in DOMAIN dfa.accept
                  THEN [state |-> q, i |-> i + 1, accepted |-> q, upto |-> i + 1]
                  ELSE [run EXCEPT !.state = q, !.i = @ + 1]
    BY DEF Advance, generator, automata
  <1>2. /\ run = [state |-> run.state, i |-> run.i, accepted |-> run.accepted, upto |-> run.upto]
        /\ i \in pos..(n + 1) /\ run.state = R[i] /\ run.state \in dfa.states
    BY DEF Following
  <1>3. i <= n /\ c \in DOMAIN dfa.trans[run.state] /\ n \in Nat /\ pos \in Nat
    BY <1>1 DEF Continues
  <1>4. i \in Nat /\ i + 1 \in (pos + 1)..(n + 1) /\ i + 1 # pos /\ i + 1 - 1 = i /\ i + 1 \in pos..(n + 1)
    BY <1>2, <1>3
  <1>5. dfa.trans[run.state] = Outgoing(run.state) /\ Range(Outgoing(run.state)) \subseteq dfa.states
    BY <1>2 DEF Deterministic
  <1>6. q \in dfa.states /\ q = Moved(run.state, c)
    <2>1. c \in DOMAIN Outgoing(run.state) /\ q = Outgoing(run.state)[c]
      BY <1>3, <1>5
    <2>2. q \in dfa.states
      BY <1>5, <2>1 DEF Range
    <2>3. q = Moved(run.state, c)
      BY <2>1 DEF Outgoing, Moved
    <2> QED BY <2>2, <2>3
  <1>7. R[i + 1] = q
    <2>1. R[i + 1] = IF i + 1 = pos THEN Closure(nfa, {nfa.start}) ELSE Moved(R[i + 1 - 1], input[i + 1 - 1])
      BY <1>3, <1>4, ReachedAt
    <2> QED BY <1>2, <1>4, <1>6, <2>1
  <1>8. q \in DOMAIN dfa.accept <=> i + 1 \in Abstract!Ends(pos)
    <2>1. q \in DOMAIN dfa.accept <=> TokensOf(nfa, q) # {}
      BY <1>6 DEF Deterministic
    <2> QED BY <1>3, <1>4, <1>7, <2>1, EndsAt
  <1>9. /\ run'.state = q /\ run'.i = i + 1
        /\ run' = [state |-> run'.state, i |-> run'.i, accepted |-> run'.accepted, upto |-> run'.upto]
        /\ q \in DOMAIN dfa.accept => run'.accepted = q /\ run'.upto = i + 1
        /\ q \notin DOMAIN dfa.accept => run'.accepted = run.accepted /\ run'.upto = run.upto
    <2> DEFINE a == run.accepted
               u == run.upto
               s == run.state
    <2>1. run = [state |-> s, i |-> i, accepted |-> a, upto |-> u]
      BY <1>2
    <2> HIDE DEF a, u, s, i, q
    <2>2. CASE q \in DOMAIN dfa.accept
      BY <1>1, <2>2
    <2>3. CASE q \notin DOMAIN dfa.accept
      <3>1. run' = [run EXCEPT !.state = q, !.i = @ + 1]
        BY <1>1, <2>3
      <3>2. /\ run' = [state |-> run'.state, i |-> run'.i, accepted |-> run'.accepted, upto |-> run'.upto]
            /\ run'.state = q /\ run'.i = i + 1 /\ run'.accepted = a /\ run'.upto = u
        BY <2>1, <3>1
      <3> QED BY <2>3, <3>2 DEF a, u
    <2> QED BY <2>2, <2>3
  <1>10. \A p : Abstract!Reached(p)' = Abstract!Reached(p) /\ Abstract!Ends(p)' = Abstract!Ends(p)
    BY <1>1, SameText
  <1>11. Found' = Found \cup (IF i + 1 \in Abstract!Ends(pos) THEN {i + 1} ELSE {})
    <2>1. Found' = {x \in Abstract!Ends(pos) : x <= i + 1}
      BY <1>1, <1>9, <1>10 DEF Found
    <2>2. Abstract!Ends(pos) \subseteq Nat
      BY <1>3, EndsAt
    <2> HIDE DEF i
    <2>3. \A x \in Abstract!Ends(pos) : x <= i + 1 <=> x <= i \/ x = i + 1
      BY <1>4, <2>2
    <2> QED BY <2>1, <2>3 DEF Found, i
  <1>12. CASE i + 1 \in Abstract!Ends(pos)
    <2>1. Found' = Found \cup {i + 1} /\ Found' # {}
      BY <1>11, <1>12
    <2>2. Found \cup {i + 1} \subseteq Nat /\ \A x \in Found \cup {i + 1} : i + 1 >= x
      <3>1. Found \subseteq Nat /\ \A x \in Found : x <= i
        BY <1>3, EndsAt DEF Found
      <3> HIDE DEF i
      <3> QED BY <1>4, <3>1
    <2>3. Max(Found \cup {i + 1}) = i + 1
      BY <2>2, MaxIs
    <2>4. run'.accepted = q /\ run'.upto = i + 1 /\ q \in DOMAIN dfa.accept
      BY <1>8, <1>9, <1>12
    <2> HIDE DEF q, i
    <2> QED BY <1>1, <1>4, <1>6, <1>7, <1>9, <1>10, <2>1, <2>3, <2>4 DEF Following
  <1>13. CASE i + 1 \notin Abstract!Ends(pos)
    <2>1. Found' = Found
      BY <1>11, <1>13
    <2>2. run'.accepted = run.accepted /\ run'.upto = run.upto
      BY <1>8, <1>9, <1>13
    <2> HIDE DEF q, i
    <2> QED BY <1>1, <1>4, <1>6, <1>7, <1>9, <1>10, <2>1, <2>2 DEF Following
  <1> QED BY <1>12, <1>13

(* Where the run stops every end of a lexeme has been found.                *)
LEMMA AllFound ==
  ASSUME Deterministic, worklist = {}, input \in Seq(Chars), pos \in 1..(Len(input) + 1), Following, ~Continues
  PROVE  Found = Abstract!Ends(pos)
  <1> DEFINE i == run.i
             R == Abstract!Reached(pos)
             n == Len(input)
  <1>1. n \in Nat /\ pos \in Nat /\ i \in pos..(n + 1) /\ run.state = R[i] /\ run.state \in dfa.states
    BY DEF Following
  <1>2. SUFFICES ASSUME NEW q \in Abstract!Ends(pos), ~(q <= i) PROVE FALSE
    BY DEF Found
  <1>3. q \in (pos + 1)..(n + 1) /\ TokensOf(nfa, R[q]) # {}
    BY <1>1, EndsAt
  <1>4. i \in 1..n /\ i + 1 \in (pos + 1)..(n + 1) /\ q \in (i + 1)..(n + 1)
    BY <1>1, <1>2, <1>3
  <1>5. input[i] \in Chars /\ input[i] \notin DOMAIN dfa.trans[run.state]
    BY <1>4 DEF Continues
  <1>6. Move(nfa, run.state, input[i]) = {}
    <2>1. dfa.trans[run.state] = Outgoing(run.state)
      BY <1>1 DEF Deterministic
    <2> QED BY <1>5, <2>1 DEF Outgoing
  <1>7. R[i + 1] = {}
    <2>1. i + 1 \in pos..(n + 1) /\ i + 1 # pos /\ i + 1 - 1 = i
      BY <1>1, <1>4
    <2>2. R[i + 1] = IF i + 1 = pos THEN Closure(nfa, {nfa.start}) ELSE Moved(R[i + 1 - 1], input[i + 1 - 1])
      BY <1>1, <2>1, ReachedAt
    <2>3. R[i + 1] = Moved(run.state, input[i])
      BY <1>1, <2>1, <2>2
    <2> QED BY <1>6, <2>3 DEF Moved
  <1>8. R[q] = {}
    BY <1>1, <1>4, <1>7, DeadStays
  <1> QED BY <1>3, <1>8 DEF TokensOf

(* What the end of a lexeme relies on.                                      *)
LEMMA AtTheEnd ==
  ASSUME DfaInv, ScanInv, stage = "scan", ~Continues
  PROVE  /\ Deterministic /\ input \in Seq(Chars) /\ Len(input) \in Nat /\ pos \in 1..(Len(input) + 1)
         /\ line = Abstract!Line(pos) /\ column = Abstract!Column(pos)
         /\ run.accepted = {} <=> Abstract!Ends(pos) = {}
         /\ run.accepted # {} =>
              /\ run.upto = Max(Abstract!Ends(pos)) /\ run.upto \in (pos + 1)..(Len(input) + 1)
              /\ dfa.accept[run.accepted] = Min(TokensOf(nfa, Abstract!Reached(pos)[run.upto]))
  <1>1. /\ Deterministic /\ worklist = {} /\ input \in Seq(Chars) /\ pos \in 1..(Len(input) + 1) /\ Following
        /\ line = Abstract!Line(pos) /\ column = Abstract!Column(pos)
    BY DEF DfaInv, ScanInv, Scanning
  <1>2. Len(input) \in Nat /\ pos \in Nat
    BY <1>1
  <1>3. Found = Abstract!Ends(pos)
    BY <1>1, AllFound
  <1>4. Found # {} => run.accepted # {}
    <2>1. Found # {} => TokensOf(nfa, run.accepted) # {}
      BY <1>1 DEF Following, Deterministic
    <2> QED BY <2>1 DEF TokensOf
  <1>5. Found = {} => run.accepted = {}
    BY <1>1 DEF Following
  <1>6. ASSUME Found # {}
        PROVE  /\ run.upto = Max(Abstract!Ends(pos)) /\ run.upto \in (pos + 1)..(Len(input) + 1)
               /\ dfa.accept[run.accepted] = Min(TokensOf(nfa, Abstract!Reached(pos)[run.upto]))
    <2>1. /\ run.upto = Max(Abstract!Ends(pos)) /\ run.accepted = Abstract!Reached(pos)[run.upto]
          /\ run.accepted \in DOMAIN dfa.accept
      BY <1>1, <1>3, <1>6 DEF Following
    <2>2. Max(Abstract!Ends(pos)) \in Abstract!Ends(pos)
      <3>1. Abstract!Ends(pos) \subseteq 0..(Len(input) + 1) /\ Len(input) + 1 \in Nat
        BY <1>2, EndsAt
      <3> QED BY <1>3, <1>6, <3>1, MaxIsGreatest
    <2>3. run.upto \in (pos + 1)..(Len(input) + 1)
      BY <1>2, <2>1, <2>2, EndsAt
    <2>4. dfa.accept[run.accepted] = Min(TokensOf(nfa, run.accepted))
      BY <1>1, <2>1 DEF Deterministic
    <2> QED BY <2>1, <2>3, <2>4
  <1> QED BY <1>1, <1>2, <1>3, <1>4, <1>5, <1>6

(* A text at its beginning, and a run that begins.                          *)
Begins ==
  /\ Deterministic /\ input \in Seq(Chars) /\ pos \in 1..(Len(input) + 1) /\ run = RunFrom(pos)
AtFirst == Len(input) \in Nat /\ pos = 1 /\ line = 1 /\ column = 1
Placed == line = Abstract!Line(pos) /\ column = Abstract!Column(pos)

LEMMA BeginsFollows == Begins => Following
  <1>1. input \in Seq(Chars) => Len(input) \in Nat
    OBVIOUS
  <1> QED BY <1>1, FollowingBegins DEF Begins

LEMMA BeginsFollowsNext == Begins' => Following'
  BY BeginsFollows, PTL

LEMMA FirstPlaced == AtFirst => Placed
  BY FirstLine DEF AtFirst, Placed

LEMMA FirstPlacedNext == AtFirst' => Placed'
  BY FirstPlaced, PTL

LEMMA StartScans == ASSUME DfaInv, DfaInv', ScanInv, Start PROVE ScanInv'
  <1>1. /\ stage = "built" /\ stage' = "scan" /\ input' \in Inputs(specs) /\ run' = RunFrom(1)
        /\ UNCHANGED <<specs, automata, pos, line, column, tokens>>
    BY DEF Start
  <1>2. pos = 1 /\ line = 1 /\ column = 1 /\ specs \in SpecLists
    BY <1>1 DEF ScanInv, Scanning
  <1>3. input' \in Seq(Chars) /\ Len(input') \in Nat
    <2>1. Inputs(specs) \subseteq Seq(Chars)
      BY <1>2, TextsOfChars
    <2>2. input' \in Seq(Chars)
      BY <1>1, <2>1
    <2> QED BY <2>2
  <1>4. pos' = 1 /\ 1 \in 1..(Len(input') + 1) /\ line' = 1 /\ column' = 1
    BY <1>1, <1>2, <1>3
  <1>5. Placed'
    BY <1>3, <1>4, FirstPlacedNext DEF AtFirst
  <1>6. Deterministic'
    BY <1>1 DEF DfaInv, Scanning
  <1>7. run' = RunFrom(pos)'
    BY <1>1, <1>4 DEF RunFrom, automata
  <1>8. Following'
    BY <1>3, <1>4, <1>6, <1>7, BeginsFollowsNext DEF Begins
  <1> QED BY <1>1, <1>2, <1>3, <1>4, <1>5, <1>8 DEF ScanInv, Scanning, Placed

LEMMA EmitScans == ASSUME DfaInv, DfaInv', ScanInv, Emit PROVE ScanInv'
  <1>1. /\ stage = "scan" /\ ~Continues /\ run.accepted # {}
        /\ line' = line + Cardinality(Breaks) /\ column' = ColumnAfter
        /\ pos' = run.upto /\ run' = RunFrom(run.upto)
        /\ UNCHANGED <<generator, input>>
    BY DEF Emit
  <1>2. /\ Deterministic /\ input \in Seq(Chars) /\ Len(input) \in Nat /\ pos \in 1..(Len(input) + 1)
        /\ Placed /\ run.upto \in (pos + 1)..(Len(input) + 1)
    BY <1>1, AtTheEnd DEF Placed
  <1>3. run.upto \in pos..(Len(input) + 1) /\ run.upto \in 1..(Len(input) + 1)
    BY <1>2
  <1>4. /\ Abstract!Line(run.upto) = Abstract!Line(pos) + Cardinality(Breaks)
        /\ Abstract!Column(run.upto) = ColumnAfter
    BY <1>2, <1>3, LinesAdd DEF Placed
  <1>5. /\ UNCHANGED <<nfa, dfa, input, specs, stage>>
        /\ \A p : Abstract!Line(p)' = Abstract!Line(p) /\ Abstract!Column(p)' = Abstract!Column(p)
    <2>1. UNCHANGED <<nfa, dfa, input, specs, stage>>
      BY <1>1 DEF generator, automata
    <2> QED BY <2>1, SameText
  <1>6. line' = Abstract!Line(run.upto) /\ column' = Abstract!Column(run.upto)
    BY <1>1, <1>2, <1>4 DEF Placed
  <1>7. Placed'
    BY <1>1, <1>5, <1>6 DEF Placed, Abstract!Line, Abstract!Column, Abstract!Newlines
  <1>8. Deterministic'
    BY <1>1, <1>5 DEF DfaInv, Scanning
  <1>9. run' = RunFrom(pos)'
    BY <1>1, <1>5 DEF RunFrom
  <1>10. Following'
    BY <1>1, <1>2, <1>3, <1>5, <1>8, <1>9, BeginsFollowsNext DEF Begins
  <1> QED BY <1>1, <1>2, <1>3, <1>5, <1>7, <1>10 DEF ScanInv, Scanning, Placed

(* Nothing of what a scan is about changes.                                 *)
LEMMA SameScan ==
  ASSUME ScanInv, UNCHANGED <<specs, automata, scanner>>,
         stage' = "scan" => stage = "scan", stage' \in Scanning <=> stage \in Scanning
  PROVE  ScanInv'
  <1>1. UNCHANGED <<specs, nfa, dfa, input, pos, run, line, column, tokens>>
    BY DEF automata, scanner
  <1>2. /\ \A p : Abstract!Reached(p)' = Abstract!Reached(p) /\ Abstract!Ends(p)' = Abstract!Ends(p)
        /\ \A p : Abstract!Line(p)' = Abstract!Line(p) /\ Abstract!Column(p)' = Abstract!Column(p)
    BY <1>1, SameText
  <1>3. Abstract!Line(pos)' = Abstract!Line(pos) /\ Abstract!Column(pos)' = Abstract!Column(pos)
    BY <1>1 DEF Abstract!Line, Abstract!Column, Abstract!Newlines
  <1>4. Following => Following'
    <2>1. Abstract!Reached(pos)' = Abstract!Reached(pos) /\ Abstract!Ends(pos)' = Abstract!Ends(pos)
      BY <1>1 DEF Abstract!Reached, Abstract!Ends
    <2>2. Found' = Found
      BY <1>1, <2>1 DEF Found
    <2> QED BY <1>1, <2>1, <2>2 DEF Following
  <1> QED BY <1>1, <1>3, <1>4 DEF ScanInv

LEMMA NextScan == DfaInv /\ DfaInv' /\ ScanInv /\ [Next]_vars => ScanInv'
  <1> SUFFICES ASSUME DfaInv, DfaInv', ScanInv, [Next]_vars PROVE ScanInv'
    OBVIOUS
  <1>1. CASE Generate
    <2>1. UNCHANGED <<specs, scanner>> /\ stage \notin Scanning /\ stage' \notin Scanning
      BY <1>1 DEF Generate, GeneratorNext, ReadChar, OpenClass, ReadClassChar, CloseClass, EndRegex, Shunt,
         EndShunt, AddLiteral, AddConcat, AddUnion, AddUnary, EndPostfix, Unite, Subset, EndSubset, Fail, Scanning
    <2> QED BY <2>1 DEF ScanInv, scanner, Scanning
  <1>2. CASE Start
    BY <1>2, StartScans
  <1>3. CASE Advance
    <2>1. /\ stage = "scan" /\ UNCHANGED <<stage, specs, nfa, input, pos, line, column, tokens>>
      BY <1>3 DEF Advance, generator, automata
    <2>2. /\ Deterministic /\ worklist = {} /\ input \in Seq(Chars) /\ pos \in 1..(Len(input) + 1) /\ Following
      BY <2>1 DEF DfaInv, ScanInv, Scanning
    <2>3. Following'
      BY <1>3, <2>2, AdvanceFollows
    <2>4. Abstract!Line(pos)' = Abstract!Line(pos) /\ Abstract!Column(pos)' = Abstract!Column(pos)
      BY <2>1 DEF Abstract!Line, Abstract!Column, Abstract!Newlines
    <2> QED BY <2>1, <2>3, <2>4 DEF ScanInv, Scanning
  <1>4. CASE Emit
    BY <1>4, EmitScans
  <1>5. CASE Reject \/ Finish
    <2>1. UNCHANGED <<specs, automata, scanner>> /\ stage = "scan" /\ stage' \in {"lexical_error", "done"}
      BY <1>5 DEF Reject, Finish
    <2> QED BY <2>1, SameScan DEF Scanning
  <1>6. CASE UNCHANGED vars
    <2>1. UNCHANGED <<stage, specs, automata, scanner>>
      BY <1>6 DEF vars, generator
    <2> QED BY <2>1, SameScan
  <1> QED
    BY <1>1, <1>2, <1>3, <1>4, <1>5, <1>6 DEF Next
-----------------------------------------------------------------------------
(* Every step is a step of MaximalMunch, or none of it.                     *)
LEMMA InitMunches == Init => Abstract!Init
  BY DEF Init, GeneratorInit, Abstract!Init

(* Before there is a text, and when it comes.                               *)
LEMMA PrepareMunches ==
  ASSUME Generate \/ Start
  PROVE  Abstract!Prepare
  <1>1. /\ stage \notin Scanning /\ stage' \notin {"lexical_error", "done"} /\ UNCHANGED <<pos, tokens>>
    BY DEF Generate, scanner, GeneratorNext, ReadChar, OpenClass, ReadClassChar, CloseClass, EndRegex, Shunt,
       EndShunt, AddLiteral, AddConcat, AddUnion, AddUnary, EndPostfix, Unite, Subset, EndSubset, Fail, Scanning, Start
  <1> QED BY <1>1 DEF Abstract!Prepare, Scanning

LEMMA EmitMunches == ASSUME DfaInv, ScanInv, Emit PROVE Abstract!Cut
  <1>1. /\ stage = "scan" /\ ~Continues /\ run.accepted # {}
        /\ line' = line + Cardinality(Breaks) /\ column' = ColumnAfter
        /\ pos' = run.upto /\ UNCHANGED <<generator, input>>
    BY DEF Emit
  <1>2. /\ input \in Seq(Chars) /\ Len(input) \in Nat /\ pos \in 1..(Len(input) + 1)
        /\ Placed /\ Abstract!Ends(pos) # {} /\ run.upto = Max(Abstract!Ends(pos))
        /\ run.upto \in (pos + 1)..(Len(input) + 1)
        /\ dfa.accept[run.accepted] = Min(TokensOf(nfa, Abstract!Reached(pos)[run.upto]))
    BY <1>1, AtTheEnd DEF Placed
  <1>3. line' = Abstract!Line(run.upto) /\ column' = Abstract!Column(run.upto)
    <2>1. run.upto \in pos..(Len(input) + 1)
      BY <1>2
    <2> QED BY <1>1, <1>2, <2>1, LinesAdd DEF Placed
  <1> DEFINE id == dfa.accept[run.accepted]
             t == [id |-> id, lexeme |-> SubSeq(input, pos, run.upto - 1),
                   line |-> line, column |-> column, end_line |-> line', end_column |-> column']
             u == Abstract!TokenBetween(pos, run.upto)
  <1>4. tokens' = IF Skipped(id) THEN tokens ELSE Append(tokens, t)
    BY DEF Emit
  <1>5. t = u
    BY <1>2, <1>3, SameOperators DEF Abstract!TokenBetween, Placed
  <1>6. Abstract!LeftOut(t) = Skipped(id)
    BY SameOperators DEF Abstract!LeftOut, Skipped
  <1>7. pos' = Abstract!Max(Abstract!Ends(pos))
    BY <1>1, <1>2, SameOperators
  <1>8. UNCHANGED <<nfa, specs, input, stage>>
    BY <1>1 DEF generator, automata
  <1> HIDE DEF id, t
  <1>9. tokens' = IF Abstract!LeftOut(u) THEN tokens ELSE Append(tokens, u)
    BY <1>4, <1>5, <1>6
  <1> QED BY <1>1, <1>2, <1>7, <1>8, <1>9 DEF Abstract!Cut, Abstract!automaton, Scanning

LEMMA RejectMunches == ASSUME DfaInv, ScanInv, Reject PROVE Abstract!Refuse
  <1>1. /\ stage = "scan" /\ pos <= Len(input) /\ ~Continues /\ run.accepted = {} /\ stage' = "lexical_error"
        /\ UNCHANGED <<nfa, specs, input, pos, tokens>>
    BY DEF Reject, automata, scanner
  <1>2. Abstract!Ends(pos) = {}
    BY <1>1, AtTheEnd
  <1> QED BY <1>1, <1>2 DEF Abstract!Refuse, Abstract!automaton

LEMMA FinishMunches == ASSUME ScanInv, Finish PROVE Abstract!Finish
  <1>1. /\ stage = "scan" /\ pos > Len(input) /\ stage' = "done" /\ UNCHANGED <<nfa, specs, input, pos, tokens>>
    BY DEF Finish, automata, scanner
  <1>2. pos = Len(input) + 1
    <2>1. input \in Seq(Chars) /\ pos \in 1..(Len(input) + 1)
      BY <1>1 DEF ScanInv, Scanning
    <2> QED BY <1>1, <2>1
  <1> QED BY <1>1, <1>2 DEF Abstract!Finish, Abstract!automaton

LEMMA StepMunches == DfaInv /\ ScanInv /\ [Next]_vars => [Abstract!Next]_(Abstract!vars)
  <1> SUFFICES ASSUME DfaInv, ScanInv, [Next]_vars PROVE [Abstract!Next]_(Abstract!vars)
    OBVIOUS
  <1>1. CASE Generate \/ Start
    BY <1>1, PrepareMunches DEF Abstract!Next
  <1>2. CASE Advance
    BY <1>2 DEF Advance, generator, automata, Abstract!vars, Abstract!automaton
  <1>3. CASE Emit
    BY <1>3, EmitMunches DEF Abstract!Next
  <1>4. CASE Reject
    BY <1>4, RejectMunches DEF Abstract!Next
  <1>5. CASE Finish
    BY <1>5, FinishMunches DEF Abstract!Next
  <1>6. CASE UNCHANGED vars
    BY <1>6 DEF vars, generator, automata, scanner, Abstract!vars, Abstract!automaton
  <1> QED
    BY <1>1, <1>2, <1>3, <1>4, <1>5, <1>6 DEF Next

(* Lexer::tokenize, with the deterministic automaton of nfa_to_dfa and its  *)
(* way back to the last accepting state, cuts every text as MaximalMunch    *)
(* does on the automaton before determinisation: into the longest lexemes,  *)
(* each with the lowest of its tokens and the lines and columns of its      *)
(* place in the text, and it refuses the text only where no lexeme begins.  *)
THEOREM LexerImplementsMaximalMunch == Spec => ImplementsMaximalMunch
  <1>1. Spec => [](DfaInv /\ ScanInv)
    BY InitDfa, InitScan, NextDfa, NextScan, PTL DEF Spec
  <1>2. DfaInv /\ ScanInv /\ [Next]_vars => [Abstract!Next]_(Abstract!vars)
    BY StepMunches
  <1> QED
    BY InitMunches, <1>1, <1>2, PTL DEF Spec, ImplementsMaximalMunch, Abstract!Spec
=============================================================================
