--------------------------- MODULE ActionGraphProofs ---------------------------
(***************************************************************************)
(* Proofs about the operators of ActionGraph, for graphs of any size: what  *)
(* Kahn's rounds, the greedy colouring and the split of phases compute.     *)
(* They are recursive functions, and the induction is over sets of naturals *)
(* (NatSets), since the library's induction theorems take an operator.      *)
(***************************************************************************)
EXTENDS ActionGraph, FiniteSetTheorems, WellFoundedInduction, TLAPS

-----------------------------------------------------------------------------
(* Naturals. *)

\* A set of naturals that is not empty has a least element.
LEMMA LeastOf ==
  ASSUME NEW T \in SUBSET Nat, T # {}
  PROVE  \E m \in T : \A k \in T : m <= k
<1>1. PICK m \in T : \A k \in T : <<k, m>> \notin OpToRel(<, Nat)
  BY WFMin, NatLessThanWellFounded, Zenon
<1>2. \A k \in T : ~ (k < m)
  BY <1>1, Zenon DEF OpToRel
<1>. QED  BY <1>2

\* Induction, of a set in place of an operator.
LEMMA NatSets ==
  ASSUME NEW T \in SUBSET Nat, 0 \in T, \A k \in T : k + 1 \in T
  PROVE  \A k \in Nat : k \in T
<1>1. ASSUME Nat \ T # {}
      PROVE  FALSE
  <2>1. PICK m \in Nat \ T : \A k \in Nat \ T : m <= k
    BY <1>1, LeastOf
  <2>2. m # 0 /\ m - 1 \in Nat /\ m - 1 \in T
    BY <2>1
  <2>. QED  BY <2>1, <2>2
<1>. QED  BY <1>1

\* A finite set of naturals has a bound.
LEMMA Bounded ==
  ASSUME NEW S \in SUBSET Nat, IsFiniteSet(S)
  PROVE  \E b \in Nat : \A k \in S : k < b
<1>. DEFINE Sized(k) == {A \in SUBSET Nat : IsFiniteSet(A) /\ Cardinality(A) = k}
            T == {k \in Nat : \A A \in Sized(k) : \E b \in Nat : \A x \in A : x < b}
<1>1. 0 \in T
  <2>1. \A A \in Sized(0) : A = {}
    BY FS_EmptySet
  <2>. QED  BY <2>1
<1>2. ASSUME NEW k \in T
      PROVE  k + 1 \in T
  <2>1. ASSUME NEW A \in Sized(k + 1)
        PROVE  \E b \in Nat : \A x \in A : x < b
    <3>1. PICK x : x \in A
      BY FS_EmptySet
    <3>2. A \ {x} \in Sized(k)
      <4>1. IsFiniteSet(A) /\ Cardinality(A) = k + 1
        OBVIOUS
      <4>2. k \in Nat /\ k + 1 - 1 = k
        OBVIOUS
      <4>3. A \in SUBSET Nat
        OBVIOUS
      <4>. HIDE DEF T, Sized
      <4>4. IsFiniteSet(A \ {x}) /\ Cardinality(A \ {x}) = Cardinality(A) - 1
        BY <3>1, <4>1, FS_RemoveElement, Zenon
      <4>5. A \ {x} \in SUBSET Nat
        BY <4>3
      <4>. QED  BY <4>1, <4>2, <4>4, <4>5 DEF Sized
    <3>3. PICK b \in Nat : \A y \in A \ {x} : y < b
      BY <3>2
    <3>4. x \in Nat
      BY <3>1
    <3>5. CASE x < b
      BY <3>3, <3>5
    <3>6. CASE ~(x < b)
      <4>1. \A y \in A : y < x + 1
        BY <3>3, <3>4, <3>6
      <4>2. x + 1 \in Nat
        BY <3>4
      <4>. QED  BY <4>1, <4>2, Zenon
    <3>. QED  BY <3>5, <3>6
  <2>2. k + 1 \in Nat
    OBVIOUS
  <2>. HIDE DEF Sized
  <2>3. \A A \in Sized(k + 1) : \E b \in Nat : \A x \in A : x < b
    BY <2>1, Zenon
  <2>. QED  BY <2>2, <2>3
<1>3. Cardinality(S) \in T
  <2>. HIDE DEF T
  <2>. QED  BY <1>1, <1>2, NatSets, FS_CardinalityType DEF T
<1>. QED  BY <1>3

\* A finite set of naturals that is not empty has a greatest element.
LEMMA GreatestOf ==
  ASSUME NEW S \in SUBSET Nat, IsFiniteSet(S), S # {}
  PROVE  \E m \in S : \A k \in S : k <= m
<1>. DEFINE T == {b \in Nat : \A k \in S : k < b}
<1>1. PICK b \in T : \A c \in T : b <= c
  BY Bounded, LeastOf
<1>2. PICK k \in S : TRUE
  OBVIOUS
<1>3. b - 1 \in Nat
  BY <1>1, <1>2
<1>4. b - 1 \notin T
  BY <1>1
<1>5. PICK m \in S : ~(m < b - 1)
  BY <1>3, <1>4
<1>6. \A x \in S : x <= m
  BY <1>1, <1>5
<1>. QED  BY <1>6

-----------------------------------------------------------------------------
(* Kahn's rounds. *)

Rounds(deps) == 
  CHOOSE round : round = [i \in 0..Cardinality(DOMAIN deps) |->
    IF i = 0 THEN FirstRound(deps) ELSE NextRound(round[i - 1], deps)]

\* The recursion has a solution.
LEMMA RoundsAre ==
  ASSUME NEW deps, IsFiniteSet(DOMAIN deps)
  PROVE  LET n == Cardinality(DOMAIN deps)
         IN /\ KahnRounds(deps) = Rounds(deps)[n]
            /\ Rounds(deps)[0] = FirstRound(deps)
            /\ \A i \in 1..n : Rounds(deps)[i] = NextRound(Rounds(deps)[i - 1], deps)
<1>. DEFINE n == Cardinality(DOMAIN deps)
            Solves(g, k) == g = [i \in 0..k |-> IF i = 0 THEN FirstRound(deps)
                                                ELSE NextRound(g[i - 1], deps)]
            T == {k \in Nat : \E g : Solves(g, k)}
<1>1. 0 \in T
  <2>. DEFINE g == [i \in 0..0 |-> FirstRound(deps)]
  <2>1. Solves(g, 0)
    OBVIOUS
  <2>. QED  BY <2>1
<1>2. ASSUME NEW k \in T
      PROVE  k + 1 \in T
  <2>1. PICK g : Solves(g, k)
    OBVIOUS
  <2>. DEFINE h == [i \in 0..k + 1 |-> IF i <= k THEN g[i] ELSE NextRound(g[k], deps)]
  <2>2. Solves(h, k + 1)
    <3>1. ASSUME NEW i \in 0..k + 1
          PROVE  h[i] = IF i = 0 THEN FirstRound(deps) ELSE NextRound(h[i - 1], deps)
      <4>1. CASE i = 0
        BY <2>1, <4>1
      <4>2. CASE i # 0 /\ i <= k
        <5>1. g[i] = NextRound(g[i - 1], deps) /\ i - 1 \in 0..k
          BY <2>1, <4>2
        <5>. QED  BY <4>2, <5>1
      <4>3. CASE i = k + 1
        BY <4>3
      <4>. QED  BY <4>1, <4>2, <4>3
    <3>. QED  BY <3>1, Zenon
  <2>3. k + 1 \in Nat
    OBVIOUS
  <2>. HIDE DEF Solves
  <2>. QED  BY <2>2, <2>3
<1>3. n \in T
  <2>. HIDE DEF T
  <2>. QED  BY <1>1, <1>2, NatSets, FS_CardinalityType DEF T
<1>4. Solves(Rounds(deps), n)
  BY <1>3, Zenon DEF Rounds
<1>5. n \in Nat
  BY FS_CardinalityType
<1>6. KahnRounds(deps) = Rounds(deps)[n]
  BY Zenon DEF KahnRounds, Rounds
<1>7. Rounds(deps)[0] = FirstRound(deps)
  BY <1>4, <1>5
<1>8. ASSUME NEW i \in 1..n
      PROVE  Rounds(deps)[i] = NextRound(Rounds(deps)[i - 1], deps)
  BY <1>4, <1>5
<1>. QED  BY <1>6, <1>7, <1>8

\* Taking a phase out of the remaining actions counts its members down.
LEMMA CountsDown ==
  ASSUME NEW A, NEW P, NEW D, IsFiniteSet(A), P \subseteq A
  PROVE  Cardinality(D \cap A) - Cardinality(D \cap P) = Cardinality(D \cap (A \ P))
<1>. DEFINE U == D \cap P
            V == D \cap (A \ P)
<1>1. IsFiniteSet(U) /\ IsFiniteSet(V)
  BY FS_Subset
<1>2. U \cup V = D \cap A /\ U \cap V = {}
  OBVIOUS
<1>3. Cardinality(U) \in Nat /\ Cardinality(V) \in Nat /\ Cardinality(U \cap V) = 0
  BY <1>1, <1>2, FS_CardinalityType, FS_EmptySet
<1>4. Cardinality(U \cup V) = Cardinality(U) + Cardinality(V) - Cardinality(U \cap V)
  BY <1>1, FS_Union
<1>5. Cardinality(D \cap A) = Cardinality(U \cup V)
  BY <1>2, Zenon
<1>. HIDE DEF U, V
<1>6. Cardinality(D \cap A) = Cardinality(U) + Cardinality(V)
  BY <1>3, <1>4, <1>5
<1>7. Cardinality(D \cap A) - Cardinality(U) = Cardinality(V)
  BY <1>3, <1>6
<1>. QED  BY <1>7, Zenon DEF U, V

\* A graph whose edges stay within its actions.
IsGraph(deps) == /\ IsFiniteSet(DOMAIN deps)
                 /\ \A a \in DOMAIN deps : deps[a] \subseteq DOMAIN deps

\* Every action comes after all it depends on, and as early as that allows.
Layers(phases, deps) ==
  \A i \in DOMAIN phases : \A a \in phases[i] :
    /\ a \in DOMAIN deps
    /\ \A j \in DOMAIN phases : a \in phases[j] => j = i
    /\ deps[a] \subseteq Earlier(phases, i)
    /\ i > 1 => deps[a] \cap phases[i - 1] # {}

\* Between two rounds: an in-degree counts the dependencies that remain, and what
\* remains waits for the last phase or for each other.
RoundInv(r, deps) ==
  /\ r.phases \in Seq(SUBSET DOMAIN deps)
  /\ DOMAIN r.inDegree = DOMAIN deps \ UNION {r.phases[i] : i \in DOMAIN r.phases}
  /\ \A a \in DOMAIN r.inDegree : r.inDegree[a] = Cardinality(deps[a] \cap DOMAIN r.inDegree)
  /\ \A i \in DOMAIN r.phases : r.phases[i] # {}
  /\ Layers(r.phases, deps)
  /\ Len(r.phases) > 0 =>
       \A a \in DOMAIN r.inDegree :
         deps[a] \cap (DOMAIN r.inDegree \cup r.phases[Len(r.phases)]) # {}

\* Before the first round nothing is in a phase, and everything is counted.
LEMMA FirstInv ==
  ASSUME NEW deps, IsGraph(deps)
  PROVE  RoundInv(FirstRound(deps), deps)
<1>. DEFINE r == FirstRound(deps)
<1>1. r.phases = <<>> /\ DOMAIN r.inDegree = DOMAIN deps
  BY DEF FirstRound
<1>2. ASSUME NEW a \in DOMAIN deps
      PROVE  r.inDegree[a] = Cardinality(deps[a] \cap DOMAIN deps)
  <2>1. deps[a] \cap DOMAIN deps = deps[a]
    BY DEF IsGraph
  <2>. QED  BY <2>1 DEF FirstRound
<1>3. r.phases \in Seq(SUBSET DOMAIN deps) /\ DOMAIN r.phases = {} /\ Len(r.phases) = 0
  BY <1>1
<1>4. UNION {r.phases[i] : i \in DOMAIN r.phases} = {}
  BY <1>3
<1>5. Layers(r.phases, deps)
  BY <1>3 DEF Layers
<1>6. DOMAIN r.inDegree = DOMAIN deps \ UNION {r.phases[i] : i \in DOMAIN r.phases}
  BY <1>1, <1>4
<1>. HIDE DEF r
<1>7. RoundInv(r, deps)
  BY <1>1, <1>2, <1>3, <1>5, <1>6 DEF RoundInv
<1>. QED  BY <1>7 DEF r

\* A round takes the ready actions as its phase.
LEMMA NextInv ==
  ASSUME NEW deps, IsGraph(deps), NEW r, RoundInv(r, deps)
  PROVE  LET P == Ready(r.inDegree)
             s == NextRound(r, deps)
         IN /\ RoundInv(s, deps)
            /\ P \subseteq DOMAIN r.inDegree
            /\ \A a \in DOMAIN r.inDegree \ P : deps[a] \cap DOMAIN r.inDegree # {}
            /\ IF P = {} THEN s = r ELSE DOMAIN s.inDegree = DOMAIN r.inDegree \ P
<1>. DEFINE R == DOMAIN r.inDegree
            P == Ready(r.inDegree)
            ph == r.phases
            L == Len(ph)
            s == NextRound(r, deps)
<1>1. /\ ph \in Seq(SUBSET DOMAIN deps)
      /\ R = DOMAIN deps \ UNION {ph[i] : i \in DOMAIN ph}
      /\ \A a \in R : r.inDegree[a] = Cardinality(deps[a] \cap R)
      /\ \A i \in DOMAIN ph : ph[i] # {}
      /\ Layers(ph, deps)
      /\ L > 0 => \A a \in R : deps[a] \cap (R \cup ph[L]) # {}
  BY DEF RoundInv
<1>2. IsFiniteSet(DOMAIN deps) /\ IsFiniteSet(R) /\ R \subseteq DOMAIN deps
  BY <1>1, FS_Subset DEF IsGraph
<1>3. P \subseteq R /\ \A a \in R : a \in P <=> deps[a] \cap R = {}
  <2>1. ASSUME NEW a \in R
        PROVE  Cardinality(deps[a] \cap R) = 0 <=> deps[a] \cap R = {}
    BY <1>2, FS_Subset, FS_EmptySet
  <2>2. P = {a \in R : r.inDegree[a] = 0}
    BY Zenon DEF Ready
  <2>. HIDE DEF R, P
  <2>. QED  BY <1>1, <2>1, <2>2
<1>4. CASE P = {}
  <2>1. s = r
    BY <1>4 DEF NextRound
  <2>. QED  BY <1>3, <1>4, <2>1
<1>5. CASE P # {}
  <2>1. s = [inDegree |-> RemovePhase(r.inDegree, P, deps), phases |-> Append(ph, P)]
    BY <1>5 DEF NextRound
  <2>2. s.phases = Append(ph, P) /\ s.inDegree = [a \in R \ P |-> r.inDegree[a] - Cardinality(deps[a] \cap P)]
    BY <2>1 DEF RemovePhase
  <2>3. DOMAIN s.inDegree = R \ P
    BY <2>2
  <2>4. ASSUME NEW a \in R \ P
        PROVE  s.inDegree[a] = Cardinality(deps[a] \cap (R \ P))
    <3>1. Cardinality(deps[a] \cap R) - Cardinality(deps[a] \cap P) = Cardinality(deps[a] \cap (R \ P))
      BY <1>2, <1>3, CountsDown
    <3>2. s.inDegree[a] = r.inDegree[a] - Cardinality(deps[a] \cap P)
      BY <2>2
    <3>. QED  BY <1>1, <3>1, <3>2
  <2>. DEFINE q == Append(ph, P)
  <2>. HIDE DEF R, P, s, ph
  <2>5. /\ q \in Seq(SUBSET DOMAIN deps) /\ L \in Nat /\ Len(q) = L + 1
        /\ DOMAIN ph = 1..L /\ DOMAIN q = 1..L + 1
        /\ \A i \in 1..L : q[i] = ph[i]
        /\ q[L + 1] = P
    BY <1>1, <1>2, <1>3
  <2>. HIDE DEF q, L
  <2>6. UNION {q[i] : i \in DOMAIN q} = (UNION {ph[i] : i \in DOMAIN ph}) \cup P
    <3>1. \A a : (\E i \in 1..L + 1 : a \in q[i]) <=> a \in P \/ \E i \in 1..L : a \in ph[i]
      BY <2>5
    <3>2. \A a : a \in UNION {q[i] : i \in 1..L + 1} <=> \E i \in 1..L + 1 : a \in q[i]
      OBVIOUS
    <3>3. \A a : a \in UNION {ph[i] : i \in 1..L} <=> \E i \in 1..L : a \in ph[i]
      OBVIOUS
    <3>4. UNION {q[i] : i \in 1..L + 1} = (UNION {ph[i] : i \in 1..L}) \cup P
      <4>. DEFINE U == UNION {q[i] : i \in 1..L + 1}
                  V == UNION {ph[i] : i \in 1..L}
      <4>1. \A a : a \in U <=> a \in V \/ a \in P
        BY <3>1, <3>2, <3>3, Zenon
      <4>. HIDE DEF U, V
      <4>2. U = V \cup P
        BY <4>1
      <4>. QED  BY <4>2 DEF U, V
    <3>. QED  BY <2>5, <3>4
  <2>7. Earlier(q, L + 1) = DOMAIN deps \ R
    <3>1. 1..(L + 1 - 1) = 1..L
      BY <2>5
    <3>2. {q[i] : i \in 1..L} = {ph[i] : i \in 1..L}
      BY <2>5
    <3>3. \A i \in 1..L : ph[i] \subseteq DOMAIN deps
      BY <1>1, <2>5
    <3>. QED  BY <1>1, <2>5, <3>1, <3>2, <3>3 DEF Earlier
  <2>8. ASSUME NEW i \in 1..L
        PROVE  Earlier(q, i) = Earlier(ph, i)
    <3>1. \A j \in 1..(i - 1) : q[j] = ph[j]
      BY <2>5
    <3>. QED  BY <3>1 DEF Earlier
  <2>9. \A a \in P : a \in R /\ \A j \in 1..L : a \notin ph[j]
    BY <1>1, <1>3, <2>5
  <2>10. Layers(q, deps)
    <3>1. ASSUME NEW i \in 1..L, NEW a \in q[i]
          PROVE  /\ a \in DOMAIN deps
                 /\ \A j \in 1..L + 1 : a \in q[j] => j = i
                 /\ deps[a] \subseteq Earlier(q, i)
                 /\ i > 1 => deps[a] \cap q[i - 1] # {}
      <4>1. /\ a \in DOMAIN deps
            /\ \A j \in 1..L : a \in ph[j] => j = i
            /\ deps[a] \subseteq Earlier(ph, i)
            /\ i > 1 => deps[a] \cap ph[i - 1] # {}
        BY <1>1, <2>5 DEF Layers
      <4>2. a \notin P
        BY <2>5, <2>9
      <4>3. i > 1 => i - 1 \in 1..L
        BY <2>5
      <4>. QED  BY <2>5, <2>8, <4>1, <4>2, <4>3
    <3>2. ASSUME NEW a \in P
          PROVE  /\ a \in DOMAIN deps
                 /\ \A j \in 1..L + 1 : a \in q[j] => j = L + 1
                 /\ deps[a] \subseteq Earlier(q, L + 1)
                 /\ L + 1 > 1 => deps[a] \cap q[L + 1 - 1] # {}
      <4>1. a \in DOMAIN deps /\ deps[a] \subseteq DOMAIN deps /\ deps[a] \cap R = {}
        BY <1>2, <1>3 DEF IsGraph
      <4>2. \A j \in 1..L + 1 : a \in q[j] => j = L + 1
        BY <2>5, <2>9
      <4>3. L + 1 > 1 => deps[a] \cap q[L + 1 - 1] # {}
        <5>1. L > 0 => deps[a] \cap (R \cup ph[L]) # {}
          BY <1>1, <2>9 DEF L
        <5>2. L > 0 => L \in 1..L /\ L + 1 - 1 = L
          BY <2>5
        <5>. QED  BY <2>5, <4>1, <5>1, <5>2
      <4>. QED  BY <2>7, <4>1, <4>2, <4>3
    <3>. QED  BY <2>5, <3>1, <3>2 DEF Layers
  <2>11. ASSUME NEW a \in R \ P
         PROVE  deps[a] \cap ((R \ P) \cup q[Len(q)]) # {}
    <3>1. q[Len(q)] = P
      BY <2>5
    <3>. QED  BY <1>3, <3>1
  <2>12. R \ P = DOMAIN deps \ UNION {q[i] : i \in DOMAIN q}
    <3>. DEFINE U == UNION {q[i] : i \in DOMAIN q}
                V == UNION {ph[i] : i \in DOMAIN ph}
    <3>1. R = DOMAIN deps \ V
      BY <1>1
    <3>2. U = V \cup P
      BY <2>6
    <3>. HIDE DEF U, V
    <3>3. R \ P = DOMAIN deps \ U
      BY <3>1, <3>2
    <3>. QED  BY <3>3 DEF U
  <2>13. \A i \in DOMAIN q : q[i] # {}
    BY <1>1, <1>5, <2>5
  <2>14. s.phases = q
    BY <2>2 DEF q
  <2>15. RoundInv(s, deps)
    <3>1. q \in Seq(SUBSET DOMAIN deps)
      BY <2>5
    <3>. HIDE DEF R, P, q, s
    <3>. QED
      BY <2>3, <2>4, <2>10, <2>11, <2>12, <2>13, <2>14, <3>1 DEF RoundInv
  <2>16. P \subseteq R /\ (\A a \in R \ P : deps[a] \cap R # {})
    BY <1>3
  <2>17. IF P = {} THEN s = r ELSE DOMAIN s.inDegree = R \ P
    BY <1>5, <2>3
  <2>. QED  BY <2>15, <2>16, <2>17, Zenon DEF R, P, s
<1>. QED  BY <1>4, <1>5

\* After as many rounds as there are actions nothing is ready any more.
LEMMA KahnInv ==
  ASSUME NEW deps, IsGraph(deps)
  PROVE  /\ RoundInv(KahnRounds(deps), deps)
         /\ Ready(KahnRounds(deps).inDegree) = {}
<1>. DEFINE n == Cardinality(DOMAIN deps)
            round == Rounds(deps)
            R(i) == DOMAIN round[i].inDegree
            Works(i) == /\ RoundInv(round[i], deps)
                        /\ Ready(round[i].inDegree) = {} \/ Cardinality(R(i)) <= n - i
            T == {k \in Nat : k <= n => Works(k)}
<1>1. IsFiniteSet(DOMAIN deps) /\ n \in Nat
  BY FS_CardinalityType DEF IsGraph
<1>2. /\ KahnRounds(deps) = round[n]
      /\ round[0] = FirstRound(deps)
      /\ \A i \in 1..n : round[i] = NextRound(round[i - 1], deps)
  BY <1>1, RoundsAre
<1>3. 0 \in T
  <2>1. RoundInv(round[0], deps)
    BY <1>2, FirstInv
  <2>2. R(0) = DOMAIN deps
    BY <1>2 DEF FirstRound
  <2>3. Cardinality(R(0)) <= n - 0
    BY <1>1, <2>2
  <2>. QED  BY <2>1, <2>3
<1>4. ASSUME NEW k \in T
      PROVE  k + 1 \in T
  <2>1. SUFFICES ASSUME k + 1 <= n
                 PROVE  Works(k + 1)
    OBVIOUS
  <2>2. k \in Nat /\ Works(k) /\ k + 1 \in 1..n /\ k + 1 - 1 = k
    BY <1>1, <2>1
  <2>3. round[k + 1] = NextRound(round[k], deps)
    BY <1>2, <2>2
  <2>. DEFINE P == Ready(round[k].inDegree)
  <2>. HIDE DEF round, n
  <2>4. /\ RoundInv(round[k + 1], deps)
        /\ P \subseteq R(k)
        /\ IF P = {} THEN round[k + 1] = round[k] ELSE R(k + 1) = R(k) \ P
    BY <2>2, <2>3, NextInv
  <2>5. CASE P = {}
    BY <2>4, <2>5
  <2>6. CASE P # {}
    <3>1. IsFiniteSet(R(k)) /\ R(k + 1) = R(k) \ P
      <4>1. R(k) \subseteq DOMAIN deps
        BY <2>2 DEF RoundInv
      <4>. QED  BY <1>1, <2>4, <2>6, <4>1, FS_Subset
    <3>2. IsFiniteSet(R(k + 1)) /\ Cardinality(R(k + 1)) <= Cardinality(R(k)) /\ R(k + 1) # R(k)
      BY <2>4, <2>6, <3>1, FS_Subset
    <3>3. Cardinality(R(k + 1)) # Cardinality(R(k))
      BY <3>1, <3>2, FS_Subset
    <3>4. Cardinality(R(k)) \in Nat /\ Cardinality(R(k + 1)) \in Nat
      BY <3>1, <3>2, FS_CardinalityType
    <3>5. Cardinality(R(k)) <= n - k
      BY <2>2, <2>6
    <3>6. Cardinality(R(k + 1)) <= n - (k + 1)
      <4>. HIDE DEF R
      <4>. QED  BY <1>1, <2>2, <3>2, <3>3, <3>4, <3>5
    <3>. QED  BY <2>4, <3>6
  <2>. QED  BY <2>5, <2>6
<1>5. Works(n)
  <2>1. n \in T
    <3>. HIDE DEF T
    <3>. QED  BY <1>1, <1>3, <1>4, NatSets DEF T
  <2>. QED  BY <1>1, <2>1
<1>6. Ready(round[n].inDegree) = {}
  <2>1. CASE Cardinality(R(n)) <= n - n
    <3>1. R(n) \subseteq DOMAIN deps
      BY <1>5 DEF RoundInv
    <3>2. IsFiniteSet(R(n))
      BY <1>1, <3>1, FS_Subset
    <3>3. R(n) = {}
      <4>. HIDE DEF R, n
      <4>. QED  BY <1>1, <2>1, <3>2, FS_CardinalityType, FS_EmptySet
    <3>4. Ready(round[n].inDegree) \subseteq R(n)
      BY DEF Ready
    <3>. QED  BY <3>3, <3>4
  <2>. QED  BY <1>5, <2>1
<1>. QED  BY <1>2, <1>5, <1>6

\* What is left over are actions that wait for each other.
LEMMA LeftOverWaits ==
  ASSUME NEW deps, IsGraph(deps)
  PROVE  LET R == DOMAIN KahnRounds(deps).inDegree
         IN R \subseteq DOMAIN deps /\ \A a \in R : deps[a] \cap R # {}
<1>. DEFINE r == KahnRounds(deps)
<1>1. RoundInv(r, deps) /\ Ready(r.inDegree) = {}
  BY KahnInv
<1>. HIDE DEF r
<1>2. \A a \in DOMAIN r.inDegree : deps[a] \cap DOMAIN r.inDegree # {}
  BY <1>1, NextInv
<1>3. DOMAIN r.inDegree \subseteq DOMAIN deps
  BY <1>1 DEF RoundInv
<1>. QED  BY <1>2, <1>3 DEF r

\* The phases are layers, and without a cycle they hold every action.
LEMMA KahnPhases ==
  ASSUME NEW deps, IsGraph(deps)
  PROVE  LET ph == ExecutionPhases(deps)
         IN /\ ph \in Seq(SUBSET DOMAIN deps)
            /\ \A i \in DOMAIN ph : ph[i] # {}
            /\ Layers(ph, deps)
            /\ ~CycleDetected(deps) => UNION {ph[i] : i \in DOMAIN ph} = DOMAIN deps
<1>. DEFINE r == KahnRounds(deps)
            ph == r.phases
            U == UNION {ph[i] : i \in DOMAIN ph}
<1>1. /\ ph \in Seq(SUBSET DOMAIN deps)
      /\ \A i \in DOMAIN ph : ph[i] # {}
      /\ Layers(ph, deps)
      /\ DOMAIN r.inDegree = DOMAIN deps \ U
  BY KahnInv DEF RoundInv
<1>. HIDE DEF r
<1>2. U \subseteq DOMAIN deps
  BY <1>1
<1>3. ASSUME DOMAIN r.inDegree = {}
      PROVE  U = DOMAIN deps
  <2>. HIDE DEF U
  <2>. QED  BY <1>1, <1>2, <1>3
<1>. QED  BY <1>1, <1>3 DEF r, ExecutionPhases, CycleDetected

\* Kahn's algorithm rejects exactly the graphs in which some actions wait for each
\* other.
LEMMA RejectedAreCyclic ==
  ASSUME NEW deps, IsGraph(deps)
  PROVE  CycleDetected(deps) <=>
           \E S \in (SUBSET DOMAIN deps) \ {{}} : \A n \in S : deps[n] \cap S # {}
<1>1. ASSUME CycleDetected(deps)
      PROVE  \E S \in (SUBSET DOMAIN deps) \ {{}} : \A n \in S : deps[n] \cap S # {}
  <2>. DEFINE R == DOMAIN KahnRounds(deps).inDegree
  <2>1. R \subseteq DOMAIN deps /\ \A a \in R : deps[a] \cap R # {}
    BY LeftOverWaits
  <2>2. R # {}
    BY <1>1 DEF CycleDetected
  <2>. HIDE DEF R
  <2>. QED  BY <2>1, <2>2
<1>2. ASSUME ~CycleDetected(deps),
             NEW S \in (SUBSET DOMAIN deps) \ {{}}, \A n \in S : deps[n] \cap S # {}
      PROVE  FALSE
  <2>. DEFINE ph == ExecutionPhases(deps)
              T == {i \in DOMAIN ph : ph[i] \cap S # {}}
  <2>1. /\ ph \in Seq(SUBSET DOMAIN deps)
        /\ Layers(ph, deps)
        /\ UNION {ph[i] : i \in DOMAIN ph} = DOMAIN deps
    BY <1>2, KahnPhases
  <2>. HIDE DEF ph
  <2>2. DOMAIN ph = 1..Len(ph) /\ Len(ph) \in Nat
    BY <2>1
  <2>3. T \in SUBSET Nat
    BY <2>2
  <2>4. T # {}
    <3>1. PICK a \in S : TRUE
      BY <1>2
    <3>2. a \in UNION {ph[i] : i \in DOMAIN ph}
      BY <2>1
    <3>. QED  BY <3>1, <3>2
  <2>5. PICK m \in T : \A k \in T : m <= k
    <3>. HIDE DEF T
    <3>. QED  BY <2>3, <2>4, LeastOf
  <2>6. PICK a \in ph[m] \cap S : TRUE
    OBVIOUS
  <2>7. PICK b \in deps[a] \cap S : TRUE
    BY <1>2, <2>6
  <2>8. b \in Earlier(ph, m)
    BY <2>1, <2>6, <2>7 DEF Layers
  <2>9. PICK j \in 1..(m - 1) : b \in ph[j]
    BY <2>8 DEF Earlier
  <2>10. j \in T /\ j < m
    BY <2>2, <2>3, <2>7, <2>9
  <2>. QED  BY <2>2, <2>5, <2>10
<1>. QED  BY <1>1, <1>2

-----------------------------------------------------------------------------
(* The colouring of a phase. *)

\* The neighbours that have their colour when n gets one.
Coloured(n, phase, exclusive) == {k \in ConflictsOf(n, phase, exclusive) : k < n}

UsedAt(c, n, phase, exclusive) == {c[m] : m \in Coloured(n, phase, exclusive)}

\* A finite set has no more images than members.
LEMMA ImageOf ==
  ASSUME NEW B, IsFiniteSet(B), NEW c
  PROVE  LET U == {c[m] : m \in B}
         IN IsFiniteSet(U) /\ Cardinality(U) <= Cardinality(B)
<1>. DEFINE U == {c[m] : m \in B}
            f == [m \in B |-> c[m]]
<1>1. f \in Surjection(B, U)
  BY DEF Surjection
<1>. HIDE DEF f, U
<1>2. IsFiniteSet(U) /\ Cardinality(U) <= Cardinality(B)
  BY <1>1, FS_Surjection
<1>. QED  BY <1>2 DEF U

\* A colour is free, as small as can be, and so at most the number of those in use.
LEMMA LeastUnusedIs ==
  ASSUME NEW used, IsFiniteSet(used), NEW bound \in Nat, Cardinality(used) <= bound
  PROVE  LET c == LeastUnused(used, bound)
         IN /\ c \in Nat /\ c <= Cardinality(used)
            /\ c \notin used
            /\ \A d \in 0..(c - 1) : d \in used
<1>. DEFINE free == (0..bound) \ used
            c == LeastUnused(used, bound)
<1>0. Cardinality(used) \in Nat
  BY FS_CardinalityType
<1>1. free # {}
  <2>1. ASSUME free = {}
        PROVE  FALSE
    <3>1. 0..bound \in SUBSET used
      BY <2>1
    <3>2. Cardinality(0..bound) <= Cardinality(used)
      BY <3>1, FS_Subset
    <3>3. Cardinality(0..bound) = bound + 1
      BY FS_Interval
    <3>. QED  BY <1>0, <3>2, <3>3
  <2>. QED  BY <2>1
<1>2. PICK m \in free : \A k \in free : m <= k
  <2>1. free \in SUBSET Nat
    OBVIOUS
  <2>. HIDE DEF free
  <2>. QED  BY <1>1, <2>1, LeastOf
<1>3. m \in 0..bound /\ m \notin used /\ \A d \in 0..(m - 1) : d \in used
  BY <1>2
<1>4. c \in 0..bound /\ c \notin used /\ \A d \in 0..(c - 1) : d \in used
  BY <1>3, Zenon DEF LeastUnused
<1>. HIDE DEF c
<1>5. c <= Cardinality(used)
  <2>1. 0..(c - 1) \in SUBSET used
    BY <1>4
  <2>2. Cardinality(0..(c - 1)) <= Cardinality(used)
    BY <2>1, FS_Subset
  <2>3. Cardinality(0..(c - 1)) = c
    <3>1. 0 \in Int /\ c - 1 \in Int /\ (IF 0 > c - 1 THEN 0 ELSE c - 1 - 0 + 1) = c
      BY <1>4
    <3>2. Cardinality(0..(c - 1)) = IF 0 > c - 1 THEN 0 ELSE c - 1 - 0 + 1
      BY <3>1, FS_Interval
    <3>. QED  BY <3>1, <3>2
  <2>. QED  BY <2>2, <2>3
<1>6. c \in Nat
  BY <1>4
<1>. QED  BY <1>4, <1>5, <1>6 DEF c

\* The recursion has a solution.
LEMMA ColoursAre ==
  ASSUME NEW phase \in SUBSET Nat, IsFiniteSet(phase), NEW exclusive
  PROVE  LET c == Colours(phase, exclusive)
         IN c = [n \in phase |-> LeastUnused(UsedAt(c, n, phase, exclusive), Cardinality(phase))]
<1>. DEFINE Part(k) == {n \in phase : n < k}
            Before(n) == Coloured(n, phase, exclusive)
            Pick(g, n) == LeastUnused(UsedAt(g, n, phase, exclusive), Cardinality(phase))
            Solves(g, S) == g = [n \in S |-> Pick(g, n)]
            T == {k \in Nat : \E g : Solves(g, Part(k))}
<1>1. 0 \in T
  <2>. DEFINE g == [n \in {} |-> 0]
  <2>1. Part(0) = {}
    <3>1. \A n \in phase : n \in Nat /\ ~(n < 0)
      OBVIOUS
    <3>. QED  BY <3>1
  <2>2. Solves(g, Part(0))
    BY <2>1
  <2>. QED  BY <2>2
<1>2. ASSUME NEW k \in T
      PROVE  k + 1 \in T
  <2>1. PICK g : Solves(g, Part(k))
    OBVIOUS
  <2>. DEFINE h == [n \in Part(k + 1) |-> IF n < k THEN g[n] ELSE Pick(g, n)]
  <2>2. Solves(h, Part(k + 1))
    <3>1. ASSUME NEW n \in Part(k + 1)
          PROVE  h[n] = Pick(h, n)
      <4>1. \A m \in Before(n) : m \in Part(k + 1) /\ m < k
        BY DEF Coloured, ConflictsOf
      <4>2. \A m \in Before(n) : h[m] = g[m]
        BY <4>1
      <4>. HIDE DEF h
      <4>3. UsedAt(h, n, phase, exclusive) = UsedAt(g, n, phase, exclusive)
        BY <4>2 DEF UsedAt
      <4>4. Pick(h, n) = Pick(g, n)
        BY <4>3, Zenon
      <4>5. CASE n < k
        <5>1. n \in Part(k)
          BY <4>5
        <5>2. h[n] = g[n]
          BY <4>5 DEF h
        <5>3. g[n] = Pick(g, n)
          <6>. HIDE DEF Pick
          <6>. QED  BY <2>1, <5>1
        <5>. QED  BY <4>4, <5>2, <5>3, Zenon
      <4>6. CASE ~(n < k)
        <5>. HIDE DEF Pick
        <5>. QED  BY <4>4, <4>6 DEF h
      <4>. QED  BY <4>5, <4>6
    <3>. HIDE DEF Part
    <3>. QED  BY <3>1, Zenon
  <2>3. k + 1 \in Nat
    OBVIOUS
  <2>. HIDE DEF Solves
  <2>. QED  BY <2>2, <2>3
<1>3. PICK b \in Nat : \A k \in phase : k < b
  BY Bounded
<1>4. b \in T
  <2>. HIDE DEF T
  <2>1. T \in SUBSET Nat
    BY DEF T
  <2>. QED  BY <1>1, <1>2, <2>1, NatSets
<1>5. Part(b) = phase
  BY <1>3
<1>6. \E g : Solves(g, phase)
  BY <1>4, <1>5
<1>7. Solves(Colours(phase, exclusive), phase)
  BY <1>6, Zenon DEF Colours, UsedAt, Coloured
<1>. QED  BY <1>7, Zenon

\* Conflicting actions get different colours, and a colour counts conflicts.
LEMMA ColourFacts ==
  ASSUME NEW phase \in SUBSET Nat, IsFiniteSet(phase), NEW exclusive
  PROVE  LET c == Colours(phase, exclusive)
         IN /\ \A n \in phase :
                 /\ c[n] \in Nat /\ c[n] <= Cardinality(Coloured(n, phase, exclusive))
                 /\ \A d \in 0..(c[n] - 1) : \E m \in phase : c[m] = d
            /\ \A m, n \in phase : m # n /\ m \in exclusive[n] => c[m] # c[n]
<1>. DEFINE c == Colours(phase, exclusive)
            Before(n) == Coloured(n, phase, exclusive)
            Used(n) == UsedAt(c, n, phase, exclusive)
<1>1. \A n \in phase : c[n] = LeastUnused(Used(n), Cardinality(phase))
  <2>1. c = [n \in phase |-> LeastUnused(Used(n), Cardinality(phase))]
    BY ColoursAre, Zenon
  <2>. QED  BY <2>1, Zenon
<1>2. Cardinality(phase) \in Nat
  BY FS_CardinalityType
<1>. HIDE DEF c
<1>3. ASSUME NEW n \in phase
      PROVE  /\ c[n] \in Nat /\ c[n] <= Cardinality(Before(n))
             /\ c[n] \notin Used(n)
             /\ \A d \in 0..(c[n] - 1) : d \in Used(n)
  <2>1. Before(n) \in SUBSET phase
    BY DEF Coloured, ConflictsOf
  <2>2. IsFiniteSet(Before(n)) /\ Cardinality(Before(n)) <= Cardinality(phase)
    BY <2>1, FS_Subset
  <2>3. IsFiniteSet(Used(n)) /\ Cardinality(Used(n)) <= Cardinality(Before(n))
    BY <2>2, ImageOf, Zenon DEF UsedAt
  <2>. HIDE DEF Used, Before
  <2>4. /\ Cardinality(Before(n)) \in Nat /\ Cardinality(Used(n)) \in Nat
        /\ Cardinality(Used(n)) <= Cardinality(phase)
    BY <1>2, <2>2, <2>3, FS_CardinalityType
  <2>5. /\ c[n] \in Nat /\ c[n] <= Cardinality(Used(n))
        /\ c[n] \notin Used(n)
        /\ \A d \in 0..(c[n] - 1) : d \in Used(n)
    BY <1>1, <1>2, <2>3, <2>4, LeastUnusedIs
  <2>. QED  BY <2>3, <2>4, <2>5
<1>4. ASSUME NEW n \in phase, NEW d \in 0..(c[n] - 1)
      PROVE  \E m \in phase : c[m] = d
  BY <1>3 DEF UsedAt, Coloured, ConflictsOf
<1>5. ASSUME NEW m \in phase, NEW n \in phase, m # n, m \in exclusive[n]
      PROVE  c[m] # c[n]
  <2>1. CASE m < n
    <3>1. m \in Before(n)
      BY <1>5, <2>1 DEF Coloured, ConflictsOf
    <3>2. c[m] \in Used(n)
      BY <3>1 DEF UsedAt
    <3>. QED  BY <1>3, <3>2
  <2>2. CASE n < m
    <3>1. n \in Before(m)
      BY <1>5, <2>2 DEF Coloured, ConflictsOf
    <3>2. c[n] \in Used(m)
      BY <3>1 DEF UsedAt
    <3>. QED  BY <1>3, <3>2
  <2>3. m \in Nat /\ n \in Nat
    OBVIOUS
  <2>4. m < n \/ n < m
    BY <1>5, <2>3
  <2>. QED  BY <2>1, <2>2, <2>4
<1>. QED  BY <1>3, <1>4, <1>5 DEF c

-----------------------------------------------------------------------------
(* The split of a phase. *)

\* What m and n may not do in one sub-phase.
InConflict(m, n, exclusive) == m \in exclusive[n] \/ n \in exclusive[m]

\* A split is a partition of the phase in which no two actions exclude each other,
\* with at most one sub-phase more than some action has conflicts.
SplitOf(sp, phase, exclusive) ==
  /\ sp \in Seq(SUBSET phase)
  /\ \A i \in DOMAIN sp : sp[i] # {}
  /\ \A n \in phase : \E i \in DOMAIN sp : n \in sp[i]
  /\ \A i, j \in DOMAIN sp : \A n \in sp[i] : n \in sp[j] => j = i
  /\ \A i \in DOMAIN sp : \A m, n \in sp[i] : m # n => m \notin exclusive[n]
  /\ \E n \in phase :
       Len(sp) <= 1 + Cardinality({m \in phase \ {n} : InConflict(m, n, exclusive)})

\* splitPhaseForExclusive makes such a split of every phase.
LEMMA SplitPhaseIs ==
  ASSUME NEW phase \in SUBSET Nat, IsFiniteSet(phase), phase # {}, NEW exclusive
  PROVE  SplitOf(SplitPhase(phase, exclusive), phase, exclusive)
<1>. DEFINE sp == SplitPhase(phase, exclusive)
            c == Colours(phase, exclusive)
            Foes(n) == {m \in phase \ {n} : InConflict(m, n, exclusive)}
<1>0. \A n \in phase : IsFiniteSet(Foes(n)) /\ Cardinality(Foes(n)) \in Nat
  <2>1. \A n \in phase : Foes(n) \in SUBSET phase
    OBVIOUS
  <2>. HIDE DEF Foes
  <2>. QED  BY <2>1, FS_Subset, FS_CardinalityType
<1>1. CASE \A n \in phase : ConflictsOf(n, phase, exclusive) = {}
  <2>1. sp = <<phase>>
    BY <1>1 DEF SplitPhase
  <2>2. /\ sp \in Seq(SUBSET phase) /\ DOMAIN sp = {1} /\ Len(sp) = 1 /\ sp[1] = phase
    BY <2>1
  <2>. HIDE DEF sp
  <2>3. \A m, n \in phase : m \notin exclusive[n]
    BY <1>1 DEF ConflictsOf
  <2>4. \E n \in phase : Len(sp) <= 1 + Cardinality(Foes(n))
    <3>1. PICK n \in phase : TRUE
      OBVIOUS
    <3>. HIDE DEF Foes
    <3>2. Cardinality(Foes(n)) \in Nat
      BY <1>0
    <3>3. Len(sp) <= 1 + Cardinality(Foes(n))
      BY <2>2, <3>2
    <3>. QED  BY <3>3
  <2>5. SplitOf(sp, phase, exclusive)
    BY <2>2, <2>3, <2>4 DEF SplitOf
  <2>. QED  BY <2>5 DEF sp
<1>2. CASE ~ \A n \in phase : ConflictsOf(n, phase, exclusive) = {}
  <2>. DEFINE image == {c[n] : n \in phase}
              maxColour == CHOOSE d \in image : \A n \in phase : c[n] <= d
  <2>1. /\ \A n \in phase :
             /\ c[n] \in Nat /\ c[n] <= Cardinality(Coloured(n, phase, exclusive))
             /\ \A d \in 0..(c[n] - 1) : \E m \in phase : c[m] = d
        /\ \A m, n \in phase : m # n /\ m \in exclusive[n] => c[m] # c[n]
    BY ColourFacts
  <2>2. sp = [i \in 1..(maxColour + 1) |-> {n \in phase : c[n] = i - 1}]
    BY <1>2, Zenon DEF SplitPhase
  <2>. HIDE DEF c
  <2>3. \E d \in image : \A n \in phase : c[n] <= d
    <3>1. image \in SUBSET Nat /\ image # {}
      BY <2>1
    <3>2. IsFiniteSet(image)
      BY ImageOf, Zenon
    <3>3. PICK d \in image : \A k \in image : k <= d
      <4>. HIDE DEF image
      <4>. QED  BY <3>1, <3>2, GreatestOf
    <3>. QED  BY <3>3
  <2>4. maxColour \in image /\ \A n \in phase : c[n] <= maxColour
    <3>. HIDE DEF image
    <3>. QED  BY <2>3, Zenon
  <2>. HIDE DEF maxColour
  <2>5. PICK top \in phase : c[top] = maxColour
    BY <2>4
  <2>6. maxColour \in Nat
    BY <2>1, <2>5
  <2>. HIDE DEF sp
  <2>7. /\ sp \in Seq(SUBSET phase) /\ DOMAIN sp = 1..(maxColour + 1) /\ Len(sp) = maxColour + 1
        /\ \A i \in 1..(maxColour + 1) : sp[i] = {n \in phase : c[n] = i - 1}
    BY <2>2, <2>6
  <2>8. ASSUME NEW i \in DOMAIN sp
        PROVE  sp[i] # {}
    <3>1. i - 1 \in 0..(maxColour - 1) \/ i - 1 = maxColour
      BY <2>6, <2>7
    <3>2. \E m \in phase : c[m] = i - 1
      BY <2>1, <2>5, <3>1
    <3>. QED  BY <2>7, <3>2
  <2>9. ASSUME NEW n \in phase
        PROVE  \E i \in DOMAIN sp : n \in sp[i]
    <3>. DEFINE i == c[n] + 1
    <3>1. i \in 1..(maxColour + 1) /\ i - 1 = c[n]
      BY <2>1, <2>4, <2>6
    <3>. HIDE DEF i
    <3>2. n \in sp[i]
      BY <2>7, <3>1
    <3>. QED  BY <2>7, <3>1, <3>2
  <2>10. ASSUME NEW i \in DOMAIN sp, NEW j \in DOMAIN sp, NEW n \in sp[i], n \in sp[j]
         PROVE  j = i
    BY <2>7, <2>10
  <2>11. ASSUME NEW i \in DOMAIN sp, NEW m \in sp[i], NEW n \in sp[i], m # n
         PROVE  m \notin exclusive[n]
    <3>1. m \in phase /\ n \in phase /\ c[m] = c[n]
      BY <2>7
    <3>. QED  BY <2>1, <2>11, <3>1
  <2>12. Len(sp) <= 1 + Cardinality(Foes(top))
    <3>0. top \in Nat /\ ~(top < top)
      OBVIOUS
    <3>1. Coloured(top, phase, exclusive) \in SUBSET Foes(top)
      BY <3>0 DEF Coloured, ConflictsOf, InConflict
    <3>2. IsFiniteSet(Foes(top)) /\ Cardinality(Foes(top)) \in Nat
      BY <1>0
    <3>. HIDE DEF Foes
    <3>3. /\ Cardinality(Coloured(top, phase, exclusive)) <= Cardinality(Foes(top))
          /\ Cardinality(Coloured(top, phase, exclusive)) \in Nat
      BY <3>1, <3>2, FS_Subset, FS_CardinalityType
    <3>. QED  BY <2>1, <2>5, <2>6, <2>7, <3>2, <3>3
  <2>13. SplitOf(sp, phase, exclusive)
    BY <2>7, <2>8, <2>9, <2>10, <2>11, <2>12 DEF SplitOf
  <2>. QED  BY <2>13 DEF sp
<1>. QED  BY <1>1, <1>2

-----------------------------------------------------------------------------
(* Flattening a sequence of sequences. *)

\* flat runs through the first k sequences of ss: its i-th element is the pos[i]-th
\* of the blk[i]-th, every one is met, and in order.
IsFlat(flat, ss, k, X) ==
  /\ flat \in Seq(X)
  /\ \E blk, pos \in [1..Len(flat) -> Nat] :
       /\ \A i \in 1..Len(flat) : /\ blk[i] \in 1..k /\ pos[i] \in 1..Len(ss[blk[i]])
                                  /\ flat[i] = ss[blk[i]][pos[i]]
       /\ \A p \in 1..k : \A j \in 1..Len(ss[p]) :
            \E i \in 1..Len(flat) : blk[i] = p /\ pos[i] = j
       /\ \A i, j \in 1..Len(flat) :
            i < j => blk[i] < blk[j] \/ (blk[i] = blk[j] /\ pos[i] < pos[j])

\* The first of the sequences alone,
LEMMA FlatFirst ==
  ASSUME NEW X, NEW ss \in Seq(Seq(X)), Len(ss) >= 1
  PROVE  IsFlat(ss[1], ss, 1, X)
<1>1. ss[1] \in Seq(X) /\ Len(ss[1]) \in Nat
  OBVIOUS
<1>. DEFINE flat == ss[1]
            blk == [i \in 1..Len(flat) |-> 1]
            pos == [i \in 1..Len(flat) |-> i]
<1>2. blk \in [1..Len(flat) -> Nat] /\ pos \in [1..Len(flat) -> Nat]
  BY <1>1
<1>3. \A i \in 1..Len(flat) : /\ blk[i] \in 1..1 /\ pos[i] \in 1..Len(ss[blk[i]])
                              /\ flat[i] = ss[blk[i]][pos[i]]
  BY <1>1
<1>4. \A p \in 1..1 : \A j \in 1..Len(ss[p]) :
        \E i \in 1..Len(flat) : blk[i] = p /\ pos[i] = j
  BY <1>1
<1>5. \A i, j \in 1..Len(flat) :
        i < j => blk[i] < blk[j] \/ (blk[i] = blk[j] /\ pos[i] < pos[j])
  BY <1>1
<1>6. flat \in Seq(X)
  BY <1>1
<1>. HIDE DEF flat, blk, pos
<1>7. IsFlat(flat, ss, 1, X)
  BY <1>2, <1>3, <1>4, <1>5, <1>6 DEF IsFlat
<1>. QED  BY <1>7 DEF flat

\* and each appended to what is flat already, give a flat sequence;
LEMMA FlatNext ==
  ASSUME NEW X, NEW ss \in Seq(Seq(X)), NEW k \in Nat, k + 1 <= Len(ss),
         NEW old, IsFlat(old, ss, k, X)
  PROVE  IsFlat(old \o ss[k + 1], ss, k + 1, X)
<1>. DEFINE new == ss[k + 1]
            flat == old \o new
            L == Len(old)
            M == Len(new)
<1>1. PICK b, q \in [1..L -> Nat] :
        /\ \A i \in 1..L : /\ b[i] \in 1..k /\ q[i] \in 1..Len(ss[b[i]])
                           /\ old[i] = ss[b[i]][q[i]]
        /\ \A p \in 1..k : \A j \in 1..Len(ss[p]) : \E i \in 1..L : b[i] = p /\ q[i] = j
        /\ \A i, j \in 1..L : i < j => b[i] < b[j] \/ (b[i] = b[j] /\ q[i] < q[j])
  BY DEF IsFlat
<1>2. old \in Seq(X) /\ new \in Seq(X) /\ L \in Nat /\ M \in Nat
  <2>1. k + 1 \in 1..Len(ss) /\ old \in Seq(X)
    BY DEF IsFlat
  <2>. QED  BY <2>1
<1>. HIDE DEF new
<1>3. /\ flat \in Seq(X) /\ Len(flat) = L + M
      /\ \A i \in 1..L : flat[i] = old[i]
      /\ \A i \in (L + 1)..(L + M) : flat[i] = new[i - L]
  BY <1>2
<1>. DEFINE blk == [i \in 1..(L + M) |-> IF i <= L THEN b[i] ELSE k + 1]
            pos == [i \in 1..(L + M) |-> IF i <= L THEN q[i] ELSE i - L]
<1>. HIDE DEF L, M, flat
<1>4. /\ \A i \in 1..L : i \in 1..(L + M) /\ blk[i] = b[i] /\ pos[i] = q[i]
      /\ \A i \in (L + 1)..(L + M) : i \in 1..(L + M) /\ blk[i] = k + 1 /\ pos[i] = i - L
      /\ \A i \in 1..(L + M) : i \in 1..L \/ i \in (L + 1)..(L + M)
  BY <1>2
<1>5. blk \in [1..(L + M) -> Nat] /\ pos \in [1..(L + M) -> Nat]
  <2>1. \A i \in 1..(L + M) : (i <= L => i \in 1..L) /\ (~(i <= L) => i - L \in Nat)
    BY <1>2
  <2>2. \A i \in 1..L : b[i] \in Nat /\ q[i] \in Nat
    BY <1>1
  <2>3. k + 1 \in Nat
    OBVIOUS
  <2>4. blk \in [1..(L + M) -> Nat]
    BY <2>1, <2>2, <2>3
  <2>5. pos \in [1..(L + M) -> Nat]
    BY <2>1, <2>2
  <2>. QED  BY <2>4, <2>5
<1>. HIDE DEF blk, pos
<1>6. ASSUME NEW i \in 1..(L + M)
      PROVE  /\ blk[i] \in 1..(k + 1) /\ pos[i] \in 1..Len(ss[blk[i]])
             /\ flat[i] = ss[blk[i]][pos[i]]
  <2>1. CASE i \in 1..L
    <3>1. blk[i] = b[i] /\ pos[i] = q[i] /\ flat[i] = old[i]
      BY <1>3, <1>4, <2>1
    <3>2. b[i] \in 1..k /\ q[i] \in 1..Len(ss[b[i]]) /\ old[i] = ss[b[i]][q[i]]
      BY <1>1, <2>1
    <3>. QED  BY <3>1, <3>2
  <2>2. CASE i \in (L + 1)..(L + M)
    <3>1. blk[i] = k + 1 /\ pos[i] = i - L /\ flat[i] = new[i - L]
      BY <1>3, <1>4, <2>2
    <3>2. i - L \in 1..M
      BY <1>2, <2>2
    <3>. QED  BY <3>1, <3>2 DEF new, M
  <2>. QED  BY <1>4, <2>1, <2>2
<1>7. ASSUME NEW p \in 1..(k + 1), NEW j \in 1..Len(ss[p])
      PROVE  \E i \in 1..(L + M) : blk[i] = p /\ pos[i] = j
  <2>1. CASE p \in 1..k
    <3>1. PICK i \in 1..L : b[i] = p /\ q[i] = j
      BY <1>1, <2>1
    <3>. QED  BY <1>4, <3>1
  <2>2. CASE p = k + 1
    <3>1. j \in 1..M
      BY <2>2 DEF M, new
    <3>. DEFINE i == L + j
    <3>2. i \in (L + 1)..(L + M) /\ i - L = j
      BY <1>2, <3>1
    <3>. HIDE DEF i
    <3>3. i \in 1..(L + M) /\ blk[i] = p /\ pos[i] = j
      BY <1>4, <2>2, <3>2
    <3>. QED  BY <3>3
  <2>. QED  BY <2>1, <2>2
<1>8. ASSUME NEW i \in 1..(L + M), NEW j \in 1..(L + M), i < j
      PROVE  blk[i] < blk[j] \/ (blk[i] = blk[j] /\ pos[i] < pos[j])
  <2>1. CASE i \in 1..L /\ j \in 1..L
    <3>1. blk[i] = b[i] /\ pos[i] = q[i] /\ blk[j] = b[j] /\ pos[j] = q[j]
      BY <1>4, <2>1
    <3>2. b[i] < b[j] \/ (b[i] = b[j] /\ q[i] < q[j])
      BY <1>1, <1>8, <2>1
    <3>. QED  BY <3>1, <3>2
  <2>2. CASE i \in 1..L /\ j \in (L + 1)..(L + M)
    <3>1. blk[i] = b[i] /\ blk[j] = k + 1
      BY <1>4, <2>2
    <3>2. b[i] \in 1..k
      BY <1>1, <2>2
    <3>3. b[i] < k + 1
      BY <3>2
    <3>. QED  BY <3>1, <3>3
  <2>3. CASE i \in (L + 1)..(L + M) /\ j \in (L + 1)..(L + M)
    <3>1. blk[i] = k + 1 /\ pos[i] = i - L /\ blk[j] = k + 1 /\ pos[j] = j - L
      BY <1>4, <2>3
    <3>2. i - L < j - L
      BY <1>2, <1>8
    <3>. QED  BY <3>1, <3>2
  <2>4. j \in 1..L => i \in 1..L
    BY <1>2, <1>8
  <2>. QED  BY <1>4, <2>1, <2>2, <2>3, <2>4
<1>9. IsFlat(flat, ss, k + 1, X)
  <2>. DEFINE Runs(f, g, N) ==
                /\ \A i \in 1..N : /\ f[i] \in 1..(k + 1) /\ g[i] \in 1..Len(ss[f[i]])
                                   /\ flat[i] = ss[f[i]][g[i]]
                /\ \A p \in 1..(k + 1) : \A j \in 1..Len(ss[p]) :
                     \E i \in 1..N : f[i] = p /\ g[i] = j
                /\ \A i, j \in 1..N : i < j => f[i] < f[j] \/ (f[i] = f[j] /\ g[i] < g[j])
  <2>1. Runs(blk, pos, L + M)
    BY <1>6, <1>7, <1>8
  <2>2. Len(flat) = L + M
    BY <1>3
  <2>. HIDE DEF Runs
  <2>3. \E f, g \in [1..Len(flat) -> Nat] : Runs(f, g, Len(flat))
    BY <1>5, <2>1, <2>2, Zenon
  <2>. QED  BY <1>3, <2>3, Zenon DEF IsFlat, Runs
<1>. QED  BY <1>9 DEF flat, new

\* so does FlattenSeq of all of them.
LEMMA FlattenIs ==
  ASSUME NEW X, NEW ss \in Seq(Seq(X))
  PROVE  IsFlat(FlattenSeq(ss), ss, Len(ss), X)
<1>. DEFINE N == Len(ss)
            Step(g, i) == IF i = 1 THEN ss[i] ELSE g[i - 1] \o ss[i]
            Solves(g, k) == g = [i \in 1..k |-> Step(g, i)]
            Flatten == CHOOSE g : Solves(g, N)
            T == {k \in Nat : \E g : Solves(g, k)}
            F == {k \in Nat : k + 1 <= N => IsFlat(Flatten[k + 1], ss, k + 1, X)}
<1>0. N \in Nat
  OBVIOUS
<1>1. CASE N = 0
  <2>1. FlattenSeq(ss) = ss /\ ss = <<>>
    BY <1>1 DEF FlattenSeq
  <2>2. ss \in Seq(X) /\ 1..Len(ss) = {} /\ 1..0 = {}
    BY <1>1, <2>1
  <2>. DEFINE f == [i \in {} |-> 0]
  <2>3. f \in [1..Len(ss) -> Nat]
    BY <2>2
  <2>. HIDE DEF f
  <2>4. IsFlat(ss, ss, 0, X)
    BY <2>2, <2>3 DEF IsFlat
  <2>. QED  BY <1>1, <2>1, <2>4
<1>2. CASE N # 0
  <2>1. 0 \in T
    <3>. DEFINE g == [i \in {} |-> 0]
    <3>1. Solves(g, 0)
      OBVIOUS
    <3>. QED  BY <3>1
  <2>2. ASSUME NEW k \in T
        PROVE  k + 1 \in T
    <3>1. PICK g : Solves(g, k)
      OBVIOUS
    <3>. DEFINE h == [i \in 1..k + 1 |-> IF i <= k THEN g[i] ELSE Step(g, i)]
    <3>2. Solves(h, k + 1)
      <4>1. ASSUME NEW i \in 1..k + 1
            PROVE  h[i] = Step(h, i)
        <5>1. i # 1 => i - 1 \in 1..k + 1 /\ i - 1 <= k
          OBVIOUS
        <5>2. i # 1 => h[i - 1] = g[i - 1]
          BY <5>1
        <5>3. i <= k => g[i] = Step(g, i)
          <6>1. i <= k => i \in 1..k
            OBVIOUS
          <6>. HIDE DEF Step
          <6>. QED  BY <3>1, <6>1
        <5>4. h[i] = Step(g, i)
          <6>. HIDE DEF Step
          <6>. QED  BY <5>3
        <5>. QED  BY <5>2, <5>4, Zenon
      <4>. HIDE DEF Step
      <4>. QED  BY <4>1, Zenon
    <3>3. k + 1 \in Nat
      OBVIOUS
    <3>. HIDE DEF Solves
    <3>. QED  BY <3>2, <3>3
  <2>3. N \in T
    <3>1. T \in SUBSET Nat
      OBVIOUS
    <3>. HIDE DEF T, N
    <3>. QED  BY <1>0, <2>1, <2>2, <3>1, NatSets
  <2>4. Solves(Flatten, N)
    BY <2>3, Zenon
  <2>5. FlattenSeq(ss) = Flatten[N]
    BY <1>2, Zenon DEF FlattenSeq
  <2>. HIDE DEF Flatten
  <2>6. \A i \in 1..N : Flatten[i] = Step(Flatten, i)
    <3>. HIDE DEF Step
    <3>. QED  BY <2>4, Zenon
  <2>7. 0 \in F
    <3>1. 1 \in 1..N /\ Flatten[1] = ss[1]
      BY <1>0, <1>2, <2>6
    <3>2. IsFlat(ss[1], ss, 1, X)
      BY <1>0, <1>2, FlatFirst
    <3>. QED  BY <3>1, <3>2
  <2>8. ASSUME NEW k \in F
        PROVE  k + 1 \in F
    <3>. DEFINE l == k + 1
    <3>1. SUFFICES ASSUME l + 1 <= N
                   PROVE  IsFlat(Flatten[l + 1], ss, l + 1, X)
      OBVIOUS
    <3>2. l \in Nat /\ IsFlat(Flatten[l], ss, l, X)
      BY <1>0, <3>1
    <3>3. Flatten[l + 1] = Flatten[l] \o ss[l + 1]
      <4>. DEFINE i == l + 1
      <4>1. i \in 1..N /\ i # 1 /\ i - 1 = l
        BY <1>0, <3>1, <3>2
      <4>. HIDE DEF i, l
      <4>2. Flatten[i] = Flatten[i - 1] \o ss[i]
        BY <2>6, <4>1
      <4>. QED  BY <4>1, <4>2 DEF i
    <3>. HIDE DEF l
    <3>4. IsFlat(Flatten[l] \o ss[l + 1], ss, l + 1, X)
      BY <3>1, <3>2, FlatNext
    <3>. QED  BY <3>3, <3>4
  <2>9. N - 1 \in Nat /\ N - 1 + 1 = N
    BY <1>0, <1>2
  <2>10. N - 1 \in F
    <3>1. F \in SUBSET Nat
      OBVIOUS
    <3>. HIDE DEF F, N
    <3>. QED  BY <2>7, <2>8, <2>9, <3>1, NatSets
  <2>11. IsFlat(Flatten[N], ss, N, X)
    BY <1>0, <2>9, <2>10
  <2>. QED  BY <2>5, <2>11
<1>. QED  BY <1>1, <1>2

-----------------------------------------------------------------------------
(* The order of a section. *)

\* What SplitPhases makes of layers: the sub-phases in the order of their phases.
LEMMA OrderOf ==
  ASSUME NEW deps, IsGraph(deps), DOMAIN deps \subseteq Nat, NEW exclusive,
         NEW ph \in Seq(SUBSET DOMAIN deps), \A i \in DOMAIN ph : ph[i] # {}
  PROVE  LET order == SplitPhases(ph, exclusive)
         IN /\ order \in Seq(SUBSET DOMAIN deps)
            /\ \E split : 
                 /\ \A p \in DOMAIN ph : SplitOf(split[p], ph[p], exclusive)
                 /\ IsFlat(order, split, Len(ph), SUBSET DOMAIN deps)
<1>. DEFINE X == SUBSET DOMAIN deps
            split == [p \in DOMAIN ph |-> SplitPhase(ph[p], exclusive)]
            order == SplitPhases(ph, exclusive)
<1>1. ASSUME NEW p \in DOMAIN ph
      PROVE  SplitOf(SplitPhase(ph[p], exclusive), ph[p], exclusive)
  <2>1. ph[p] \in SUBSET DOMAIN deps /\ ph[p] # {}
    OBVIOUS
  <2>2. ph[p] \in SUBSET Nat /\ IsFiniteSet(ph[p])
    BY <2>1, FS_Subset DEF IsGraph
  <2>. QED  BY <2>1, <2>2, SplitPhaseIs
<1>2. ASSUME NEW p \in DOMAIN ph
      PROVE  SplitPhase(ph[p], exclusive) \in Seq(X)
  <2>1. SplitPhase(ph[p], exclusive) \in Seq(SUBSET ph[p])
    BY <1>1 DEF SplitOf
  <2>2. SUBSET ph[p] \subseteq X
    OBVIOUS
  <2>. HIDE DEF X
  <2>. QED  BY <2>1, <2>2
<1>3. DOMAIN ph = 1..Len(ph) /\ Len(ph) \in Nat
  OBVIOUS
<1>4. split \in Seq(Seq(X)) /\ Len(split) = Len(ph)
  <2>. HIDE DEF X
  <2>. QED  BY <1>2, <1>3
<1>5. order = FlattenSeq(split)
  BY Zenon DEF SplitPhases
<1>. HIDE DEF split, X, order
<1>6. IsFlat(order, split, Len(ph), X)
  BY <1>4, <1>5, FlattenIs
<1>7. order \in Seq(X)
  BY <1>6 DEF IsFlat
<1>8. \A p \in DOMAIN ph : SplitOf(split[p], ph[p], exclusive)
  BY <1>1 DEF split
<1>. QED  BY <1>6, <1>7, <1>8 DEF X, order

\* Where the sub-phases of an order come from.
Placed(order, deps, exclusive, ph, split, blk, pos) ==
  /\ \A p \in 1..Len(ph) : SplitOf(split[p], ph[p], exclusive)
  /\ \A i \in 1..Len(order) :
       /\ blk[i] \in 1..Len(ph) /\ pos[i] \in 1..Len(split[blk[i]])
       /\ order[i] = split[blk[i]][pos[i]]
       /\ order[i] \subseteq ph[blk[i]] /\ order[i] # {}
  /\ \A p \in 1..Len(ph) : \A j \in 1..Len(split[p]) :
       \E i \in 1..Len(order) : blk[i] = p /\ pos[i] = j
  /\ \A i, j \in 1..Len(order) :
       i < j => blk[i] < blk[j] \/ (blk[i] = blk[j] /\ pos[i] < pos[j])

\* Every sub-phase of an order has its place: its phase, and its part in that one.
LEMMA Placing ==
  ASSUME NEW deps, IsGraph(deps), DOMAIN deps \subseteq Nat, NEW exclusive
  PROVE  LET ph == ExecutionPhases(deps)
             order == SplitPhases(ph, exclusive)
         IN /\ ph \in Seq(SUBSET DOMAIN deps) /\ Layers(ph, deps)
            /\ order \in Seq(SUBSET DOMAIN deps)
            /\ \E split, blk, pos : Placed(order, deps, exclusive, ph, split, blk, pos)
<1>. DEFINE ph == ExecutionPhases(deps)
            order == SplitPhases(ph, exclusive)
            N == Len(order)
            K == Len(ph)
<1>1. /\ ph \in Seq(SUBSET DOMAIN deps) /\ Layers(ph, deps)
      /\ \A i \in DOMAIN ph : ph[i] # {}
  BY KahnPhases
<1>. HIDE DEF ph
<1>2. PICK split : /\ \A p \in DOMAIN ph : SplitOf(split[p], ph[p], exclusive)
                   /\ IsFlat(order, split, K, SUBSET DOMAIN deps)
  BY <1>1, OrderOf
<1>3. order \in Seq(SUBSET DOMAIN deps)
  BY <1>1, OrderOf
<1>4. DOMAIN ph = 1..K /\ K \in Nat
  BY <1>1
<1>. HIDE DEF order, K, N
<1>5. PICK blk, pos \in [1..N -> Nat] :
        /\ \A i \in 1..N : /\ blk[i] \in 1..K /\ pos[i] \in 1..Len(split[blk[i]])
                           /\ order[i] = split[blk[i]][pos[i]]
        /\ \A p \in 1..K : \A j \in 1..Len(split[p]) :
             \E i \in 1..N : blk[i] = p /\ pos[i] = j
        /\ \A i, j \in 1..N :
             i < j => blk[i] < blk[j] \/ (blk[i] = blk[j] /\ pos[i] < pos[j])
  BY <1>2 DEF IsFlat, N
<1>6. ASSUME NEW i \in 1..N
      PROVE  order[i] \subseteq ph[blk[i]] /\ order[i] # {}
  <2>. DEFINE p == blk[i]
  <2>1. p \in 1..K /\ pos[i] \in 1..Len(split[p]) /\ order[i] = split[p][pos[i]]
    BY <1>5
  <2>. HIDE DEF p
  <2>2. SplitOf(split[p], ph[p], exclusive)
    BY <1>2, <1>4, <2>1
  <2>3. split[p] \in Seq(SUBSET ph[p]) /\ \A j \in DOMAIN split[p] : split[p][j] # {}
    BY <2>2 DEF SplitOf
  <2>4. pos[i] \in DOMAIN split[p]
    BY <2>1, <2>3
  <2>5. split[p][pos[i]] \in SUBSET ph[p]
    BY <2>3, <2>4
  <2>. QED  BY <2>1, <2>3, <2>4, <2>5 DEF p
<1>7. Placed(order, deps, exclusive, ph, split, blk, pos)
  BY <1>2, <1>4, <1>5, <1>6 DEF Placed, N, K
<1>. QED  BY <1>1, <1>3, <1>7 DEF ph, order

\* An order keeps the actions of a sub-phase from excluding one another, and puts
\* them after all they depend on.
LEMMA OrderSeparates ==
  ASSUME NEW deps, IsGraph(deps), DOMAIN deps \subseteq Nat, NEW exclusive
  PROVE  LET order == SplitPhases(ExecutionPhases(deps), exclusive)
         IN \A i \in DOMAIN order : \A n \in order[i] :
              /\ \A m \in order[i] \ {n} : m \notin exclusive[n]
              /\ deps[n] \subseteq Earlier(order, i)
<1>. DEFINE ph == ExecutionPhases(deps)
            order == SplitPhases(ph, exclusive)
            N == Len(order)
<1>1. /\ ph \in Seq(SUBSET DOMAIN deps) /\ Layers(ph, deps)
      /\ order \in Seq(SUBSET DOMAIN deps)
  BY Placing
<1>2. PICK split, blk, pos : Placed(order, deps, exclusive, ph, split, blk, pos)
  BY Placing
<1>. HIDE DEF order, ph
<1>3. N \in Nat /\ DOMAIN order = 1..N /\ DOMAIN ph = 1..Len(ph) /\ Len(ph) \in Nat
  BY <1>1
<1>. SUFFICES ASSUME NEW i \in 1..N, NEW n \in order[i]
              PROVE  /\ \A m \in order[i] \ {n} : m \notin exclusive[n]
                     /\ deps[n] \subseteq Earlier(order, i)
  BY <1>3 DEF ph, order
<1>. DEFINE p == blk[i]
<1>4. /\ p \in 1..Len(ph) /\ pos[i] \in 1..Len(split[p]) /\ order[i] = split[p][pos[i]]
      /\ SplitOf(split[p], ph[p], exclusive) /\ n \in ph[p]
  BY <1>2 DEF Placed
<1>5. \A m \in order[i] \ {n} : m \notin exclusive[n]
  <2>. HIDE DEF p
  <2>1. /\ split[p] \in Seq(SUBSET ph[p])
        /\ \A j \in DOMAIN split[p] : \A a, b \in split[p][j] : a # b => a \notin exclusive[b]
    BY <1>4 DEF SplitOf
  <2>2. pos[i] \in DOMAIN split[p]
    BY <1>4, <2>1
  <2>. QED  BY <1>4, <2>1, <2>2
<1>6. ASSUME NEW b \in deps[n]
      PROVE  b \in Earlier(order, i)
  <2>1. b \in Earlier(ph, p)
    BY <1>1, <1>3, <1>4 DEF Layers
  <2>2. PICK q \in 1..(p - 1) : b \in ph[q]
    BY <2>1 DEF Earlier
  <2>. HIDE DEF p
  <2>3. q \in 1..Len(ph) /\ q < p
    BY <1>3, <1>4, <2>2
  <2>4. SplitOf(split[q], ph[q], exclusive)
    BY <1>2, <2>3 DEF Placed
  <2>5. PICK j \in DOMAIN split[q] : b \in split[q][j]
    BY <2>2, <2>4 DEF SplitOf
  <2>6. j \in 1..Len(split[q])
    BY <2>4, <2>5 DEF SplitOf
  <2>7. PICK k \in 1..N : blk[k] = q /\ pos[k] = j
    BY <1>2, <2>3, <2>6 DEF Placed
  <2>8. b \in order[k]
    BY <1>2, <2>5, <2>7 DEF Placed
  <2>9. k < i
    <3>1. k # i
      BY <2>3, <2>7, <1>4 DEF p
    <3>2. ~(i < k)
      <4>1. i < k => blk[i] < blk[k] \/ blk[i] = blk[k]
        BY <1>2 DEF Placed
      <4>. QED  BY <1>4, <2>3, <2>7, <4>1 DEF p
    <3>. QED  BY <1>3, <3>1, <3>2
  <2>10. k \in 1..(i - 1)
    BY <1>3, <2>9
  <2>. QED  BY <2>8, <2>10 DEF Earlier
<1>. QED  BY <1>5, <1>6

\* Without a cycle an order holds every action once, in no empty sub-phase.
LEMMA OrderComplete ==
  ASSUME NEW deps, IsGraph(deps), DOMAIN deps \subseteq Nat, NEW exclusive
  PROVE  LET order == SplitPhases(ExecutionPhases(deps), exclusive)
         IN /\ {} \notin {order[i] : i \in DOMAIN order}
            /\ ~CycleDetected(deps) =>
                 \A n \in DOMAIN deps : Cardinality({i \in DOMAIN order : n \in order[i]}) = 1
<1>. DEFINE ph == ExecutionPhases(deps)
            order == SplitPhases(ph, exclusive)
            N == Len(order)
<1>1. /\ ph \in Seq(SUBSET DOMAIN deps) /\ Layers(ph, deps)
      /\ order \in Seq(SUBSET DOMAIN deps)
  BY Placing
<1>2. PICK split, blk, pos : Placed(order, deps, exclusive, ph, split, blk, pos)
  BY Placing
<1>3. ~CycleDetected(deps) => UNION {ph[i] : i \in DOMAIN ph} = DOMAIN deps
  BY KahnPhases
<1>. HIDE DEF order, ph
<1>4. N \in Nat /\ DOMAIN order = 1..N /\ DOMAIN ph = 1..Len(ph) /\ Len(ph) \in Nat
  BY <1>1
<1>5. {} \notin {order[i] : i \in DOMAIN order}
  BY <1>2, <1>4 DEF Placed
<1>6. ASSUME ~CycleDetected(deps), NEW n \in DOMAIN deps
      PROVE  Cardinality({i \in DOMAIN order : n \in order[i]}) = 1
  <2>1. PICK p \in 1..Len(ph) : n \in ph[p]
    BY <1>3, <1>4, <1>6
  <2>2. SplitOf(split[p], ph[p], exclusive)
    BY <1>2 DEF Placed
  <2>3. PICK j \in DOMAIN split[p] : n \in split[p][j]
    BY <2>1, <2>2 DEF SplitOf
  <2>4. j \in 1..Len(split[p])
    BY <2>2, <2>3 DEF SplitOf
  <2>5. PICK i \in 1..N : blk[i] = p /\ pos[i] = j
    BY <1>2, <2>4 DEF Placed
  <2>6. n \in order[i]
    BY <1>2, <2>3, <2>5 DEF Placed
  <2>7. ASSUME NEW k \in 1..N, n \in order[k]
        PROVE  k = i
    <3>1. /\ blk[k] \in 1..Len(ph) /\ pos[k] \in 1..Len(split[blk[k]])
          /\ order[k] = split[blk[k]][pos[k]] /\ n \in ph[blk[k]]
      BY <1>2, <2>7 DEF Placed
    <3>2. blk[k] = p
      BY <1>1, <1>4, <2>1, <3>1 DEF Layers
    <3>3. pos[k] \in DOMAIN split[p] /\ n \in split[p][pos[k]]
      <4>1. DOMAIN split[p] = 1..Len(split[p])
        BY <2>2 DEF SplitOf
      <4>2. order[k] = split[p][pos[k]] /\ pos[k] \in 1..Len(split[p])
        BY <3>1, <3>2
      <4>. QED  BY <2>7, <4>1, <4>2
    <3>4. pos[k] = j
      BY <2>2, <2>3, <3>3 DEF SplitOf
    <3>5. j \in Nat /\ p \in Nat
      BY <2>4
    <3>6. /\ i < k => blk[i] < blk[k] \/ (blk[i] = blk[k] /\ pos[i] < pos[k])
          /\ k < i => blk[k] < blk[i] \/ (blk[k] = blk[i] /\ pos[k] < pos[i])
      BY <1>2 DEF Placed
    <3>. QED  BY <2>5, <3>2, <3>4, <3>5, <3>6
  <2>8. {k \in DOMAIN order : n \in order[k]} = {i}
    BY <1>4, <2>6, <2>7
  <2>. QED  BY <2>8, FS_Singleton
<1>. QED  BY <1>5, <1>6 DEF order, ph

\* A phase is cut into at most one sub-phase more than one of its actions has
\* conflicts.
LEMMA OrderTight ==
  ASSUME NEW deps, IsGraph(deps), DOMAIN deps \subseteq Nat, NEW exclusive
  PROVE  LET ph == ExecutionPhases(deps)
             order == SplitPhases(ph, exclusive)
         IN \A p \in DOMAIN ph : \E n \in ph[p] :
              Cardinality({i \in DOMAIN order : order[i] \subseteq ph[p]})
                <= 1 + Cardinality({m \in ph[p] \ {n} :
                                      m \in exclusive[n] \/ n \in exclusive[m]})
<1>. DEFINE ph == ExecutionPhases(deps)
            order == SplitPhases(ph, exclusive)
            N == Len(order)
            Foes(n, p) == {m \in ph[p] \ {n} : m \in exclusive[n] \/ n \in exclusive[m]}
            Cut(p) == {i \in DOMAIN order : order[i] \subseteq ph[p]}
<1>1. /\ ph \in Seq(SUBSET DOMAIN deps) /\ Layers(ph, deps)
      /\ order \in Seq(SUBSET DOMAIN deps)
  BY Placing
<1>2. PICK split, blk, pos : Placed(order, deps, exclusive, ph, split, blk, pos)
  BY Placing
<1>. HIDE DEF order, ph
<1>4. N \in Nat /\ DOMAIN order = 1..N /\ DOMAIN ph = 1..Len(ph) /\ Len(ph) \in Nat
  BY <1>1
<1>5. ASSUME NEW p \in 1..Len(ph)
      PROVE  \E n \in ph[p] : Cardinality(Cut(p)) <= 1 + Cardinality(Foes(n, p))
  <2>1. SplitOf(split[p], ph[p], exclusive)
    BY <1>2 DEF Placed
  <2>2. PICK n \in ph[p] : Len(split[p]) <= 1 + Cardinality(Foes(n, p))
    BY <2>1 DEF SplitOf, InConflict
  <2>3. IsFiniteSet(Foes(n, p)) /\ Cardinality(Foes(n, p)) \in Nat
    <3>1. Foes(n, p) \in SUBSET DOMAIN deps
      BY <1>1
    <3>. HIDE DEF Foes
    <3>. QED  BY <3>1, FS_Subset, FS_CardinalityType DEF IsGraph
  <2>4. Len(split[p]) \in Nat
    BY <2>1 DEF SplitOf
  <2>5. ASSUME NEW i \in Cut(p)
        PROVE  blk[i] = p /\ pos[i] \in 1..Len(split[p])
    <3>1. i \in 1..N /\ order[i] \subseteq ph[p]
      BY <1>4
    <3>2. PICK a \in order[i] : TRUE
      BY <1>2, <3>1 DEF Placed
    <3>3. blk[i] \in 1..Len(ph) /\ a \in ph[blk[i]] /\ a \in ph[p]
      BY <1>2, <3>1, <3>2 DEF Placed
    <3>4. blk[i] = p
      BY <1>1, <1>4, <3>3 DEF Layers
    <3>. QED  BY <1>2, <3>1, <3>4 DEF Placed
  <2>. DEFINE f == [i \in Cut(p) |-> pos[i]]
  <2>6. f \in Injection(Cut(p), 1..Len(split[p]))
    <3>1. ASSUME NEW i \in Cut(p), NEW j \in Cut(p), pos[i] = pos[j]
          PROVE  i = j
      <4>1. i \in 1..N /\ j \in 1..N /\ blk[i] = blk[j] /\ blk[i] \in Nat /\ pos[i] \in Nat
        BY <1>4, <2>5
      <4>2. /\ i < j => blk[i] < blk[j] \/ (blk[i] = blk[j] /\ pos[i] < pos[j])
            /\ j < i => blk[j] < blk[i] \/ (blk[j] = blk[i] /\ pos[j] < pos[i])
        BY <1>2, <4>1 DEF Placed
      <4>. QED  BY <3>1, <4>1, <4>2
    <3>. HIDE DEF Cut
    <3>2. f \in [Cut(p) -> 1..Len(split[p])]
      BY <2>5
    <3>3. \A i, j \in Cut(p) : f[i] = f[j] => i = j
      BY <3>1
    <3>. HIDE DEF f
    <3>. QED  BY <3>2, <3>3 DEF Injection, IsInjective
  <2>. HIDE DEF f, Cut
  <2>7. IsFiniteSet(1..Len(split[p])) /\ Cardinality(1..Len(split[p])) = Len(split[p])
    <3>. DEFINE L == Len(split[p])
    <3>1. 1 \in Int /\ L \in Int /\ (IF 1 > L THEN 0 ELSE L - 1 + 1) = L
      BY <2>4
    <3>. HIDE DEF L
    <3>2. IsFiniteSet(1..L) /\ Cardinality(1..L) = IF 1 > L THEN 0 ELSE L - 1 + 1
      BY <3>1, FS_Interval
    <3>3. IsFiniteSet(1..L) /\ Cardinality(1..L) = L
      BY <3>1, <3>2
    <3>. QED  BY <3>3 DEF L
  <2>8. IsFiniteSet(Cut(p)) /\ Cardinality(Cut(p)) <= Len(split[p])
    BY <2>6, <2>7, FS_Injection
  <2>9. Cardinality(Cut(p)) \in Nat
    BY <2>8, FS_CardinalityType
  <2>. HIDE DEF Foes
  <2>10. Cardinality(Cut(p)) <= 1 + Cardinality(Foes(n, p))
    BY <2>2, <2>3, <2>4, <2>8, <2>9
  <2>. QED  BY <2>10
<1>. QED  BY <1>4, <1>5 DEF order, ph

-----------------------------------------------------------------------------
(* Sections. *)

\* Finitely many finite sets have a finite union.
LEMMA UnionOfFinite ==
  ASSUME NEW B, IsFiniteSet(B), NEW f, \A b \in B : IsFiniteSet(f[b])
  PROVE  IsFiniteSet(UNION {f[b] : b \in B})
<1>. DEFINE All(A) == UNION {f[b] : b \in A}
            Sized(k) == {A \in SUBSET B : Cardinality(A) = k}
            T == {k \in Nat : \A A \in Sized(k) : IsFiniteSet(All(A))}
<1>0. \A A \in SUBSET B : IsFiniteSet(A) /\ Cardinality(A) \in Nat
  BY FS_Subset, FS_CardinalityType
<1>1. 0 \in T
  <2>1. \A A \in Sized(0) : A = {}
    BY <1>0, FS_EmptySet
  <2>2. All({}) = {}
    OBVIOUS
  <2>. HIDE DEF All, Sized
  <2>. QED  BY <2>1, <2>2, FS_EmptySet
<1>2. ASSUME NEW k \in T
      PROVE  k + 1 \in T
  <2>1. ASSUME NEW A \in Sized(k + 1)
        PROVE  IsFiniteSet(All(A))
    <3>1. A \in SUBSET B /\ Cardinality(A) = k + 1 /\ k \in Nat
      OBVIOUS
    <3>2. PICK x \in A : TRUE
      BY <3>1, FS_EmptySet
    <3>3. A \ {x} \in SUBSET B /\ Cardinality(A \ {x}) = k
      <4>. HIDE DEF T, Sized, All
      <4>1. IsFiniteSet(A)
        BY <1>0, <3>1
      <4>2. Cardinality(A \ {x}) = Cardinality(A) - 1
        BY <3>2, <4>1, FS_RemoveElement, Zenon
      <4>. QED  BY <3>1, <4>2
    <3>4. IsFiniteSet(All(A \ {x}))
      <4>. HIDE DEF All
      <4>. QED  BY <3>3
    <3>5. IsFiniteSet(f[x])
      BY <3>1, <3>2
    <3>6. All(A) = All(A \ {x}) \cup f[x]
      BY <3>2
    <3>. HIDE DEF All
    <3>7. IsFiniteSet(All(A \ {x}) \cup f[x])
      BY <3>4, <3>5, FS_Union
    <3>. QED  BY <3>6, <3>7, Zenon
  <2>2. k + 1 \in Nat
    OBVIOUS
  <2>. HIDE DEF Sized, All
  <2>. QED  BY <2>1, <2>2
<1>3. Cardinality(B) \in T
  <2>1. T \in SUBSET Nat
    OBVIOUS
  <2>. HIDE DEF T
  <2>. QED  BY <1>0, <1>1, <1>2, <2>1, NatSets
<1>. QED  BY <1>3

\* The dependencies of a section make a graph on its actions.
LEMMA SectionGraph ==
  ASSUME NEW w, WellFormed(w)
  PROVE  /\ DOMAIN Dependencies(w) = Names(w) /\ Names(w) \subseteq Nat
         /\ IsGraph(Dependencies(w))
<1>1. IsFiniteSet(Names(w))
  <2>1. IsFiniteSet(w.bases) /\ \A b \in w.bases : IsFiniteSet(w.expansion[b])
    BY DEF WellFormed
  <2>. QED  BY <2>1, UnionOfFinite DEF Names
<1>2. Names(w) \subseteq Nat
  BY DEF WellFormed, Names
<1>3. DOMAIN Dependencies(w) = Names(w)
  BY DEF Dependencies
<1>4. \A a \in Names(w) : Dependencies(w)[a] \subseteq Names(w)
  BY DEF Dependencies
<1>. QED  BY <1>1, <1>2, <1>3, <1>4 DEF IsGraph

\* Names are unique, so that an action knows which one it was written as.
LEMMA BaseOfIs ==
  ASSUME NEW w, WellFormed(w), NEW b \in w.bases, NEW n \in w.expansion[b]
  PROVE  n \in Names(w) /\ BaseOf(w, n) = b
<1>1. \A c \in w.bases : n \in w.expansion[c] => c = b
  BY DEF WellFormed
<1>2. n \in Names(w)
  BY DEF Names
<1>. QED  BY <1>1, <1>2, Zenon DEF BaseOf

\* An action waits for all iterations of what it refers to, in its own section.
LEMMA DependenciesShared ==
  ASSUME NEW w, WellFormed(w), NEW b \in w.bases, NEW n \in w.expansion[b]
  PROVE  /\ Dependencies(w)[n] = Names(w) \cap UNION {w.expansion[r] : r \in w.refs[b]}
         /\ \A r \in w.refs[b] \cap w.bases : w.expansion[r] \subseteq Dependencies(w)[n]
         /\ \A m \in w.expansion[b] : m \notin Dependencies(w)[n]
         /\ \A r \in w.refs[b] \ w.bases : w.expansion[r] \cap Dependencies(w)[n] = {}
<1>1. n \in Names(w) /\ BaseOf(w, n) = b
  BY BaseOfIs
<1>2. Dependencies(w)[n] = Names(w) \cap UNION {w.expansion[r] : r \in w.refs[b]}
  BY <1>1 DEF Dependencies
<1>3. ASSUME NEW r \in w.refs[b] \cap w.bases
      PROVE  w.expansion[r] \subseteq Dependencies(w)[n]
  BY <1>2 DEF Names
<1>4. \A r \in w.refs[b] : r \in DOMAIN w.expansion /\ r # b
  BY DEF WellFormed
<1>5. \A c \in w.bases : c \in DOMAIN w.expansion
  BY DEF WellFormed
<1>6. \A c, d \in DOMAIN w.expansion : c # d => w.expansion[c] \cap w.expansion[d] = {}
  BY DEF WellFormed
<1>7. ASSUME NEW m \in w.expansion[b]
      PROVE  m \notin Dependencies(w)[n]
  BY <1>2, <1>4, <1>5, <1>6
<1>8. ASSUME NEW r \in w.refs[b] \ w.bases
      PROVE  w.expansion[r] \cap Dependencies(w)[n] = {}
  <2>1. \A c \in w.bases : c # r
    BY <1>8
  <2>2. \A c \in w.bases : w.expansion[r] \cap w.expansion[c] = {}
    BY <1>4, <1>5, <1>6, <2>1
  <2>3. w.expansion[r] \cap Names(w) = {}
    BY <2>2 DEF Names
  <2>. QED  BY <1>2, <2>3
<1>. QED  BY <1>2, <1>3, <1>7, <1>8
=============================================================================
