--------------------------- MODULE VersionPoolProofs ---------------------------
(***************************************************************************)
(* Proofs about VersionPool: the order of the version index, and that       *)
(* index, store, capacity, references and pins are exact and no running     *)
(* plugin is lost, for every set of plugins, versions and callers.          *)
(***************************************************************************)
EXTENDS VersionPool, FiniteSetTheorems, SequenceTheorems, WellFoundedInduction, TLAPS

-----------------------------------------------------------------------------
(* The version index. *)

\* A set of naturals that is not empty has a least element.
LEMMA LeastOf ==
  ASSUME NEW T \in SUBSET Nat, T # {}
  PROVE  \E m \in T : \A k \in T : m <= k
<1>1. PICK m \in T : \A k \in T : <<k, m>> \notin OpToRel(<, Nat)
  BY WFMin, NatLessThanWellFounded, Zenon
<1>2. \A k \in T : ~ (k < m)
  BY <1>1, Zenon DEF OpToRel
<1>. QED  BY <1>2

LEMMA VersionsAreNaturals == Version \subseteq Nat /\ None \notin Version
BY VersionPoolAssumption

LEMMA Versions ==
  ASSUME NEW vs \in Seq(Version)
  PROVE  /\ Len(vs) \in Nat /\ DOMAIN vs = 1..Len(vs)
         /\ \A j \in 1..Len(vs) : vs[j] \in Version /\ vs[j] \in Nat
<1>1. Len(vs) \in Nat /\ DOMAIN vs = 1..Len(vs) /\ \A j \in 1..Len(vs) : vs[j] \in Version
  OBVIOUS
<1>. QED  BY <1>1, VersionsAreNaturals

\* search finds a position, whatever the versions.
LEMMA SearchFinds ==
  ASSUME NEW vs \in Seq(Version), NEW v \in Version
  PROVE  /\ Search(vs, v) \in 1..Len(vs) + 1
         /\ \A j \in 1..Search(vs, v) - 1 : vs[j] > v
         /\ Search(vs, v) <= Len(vs) => vs[Search(vs, v)] <= v
<1>. DEFINE T == {k \in 1..Len(vs) + 1 : k <= Len(vs) => vs[k] <= v}
<1>1. Len(vs) \in Nat /\ \A j \in 1..Len(vs) : vs[j] \in Nat
  BY Versions
<1>2. Len(vs) + 1 \in T /\ T \in SUBSET Nat
  BY <1>1
<1>3. PICK m \in T : \A k \in T : m <= k
  <2>. HIDE DEF T
  <2>. QED  BY <1>2, LeastOf
<1>4. ASSUME NEW j \in 1..m - 1
      PROVE  vs[j] > v
  <2>1. j \notin T
    BY <1>1, <1>3
  <2>2. j \in 1..Len(vs)
    BY <1>1, <1>3
  <2>3. vs[j] \in Nat /\ v \in Nat
    BY <1>1, <2>2, VersionsAreNaturals
  <2>. QED  BY <2>1, <2>2, <2>3
<1>5. \E i \in 1..Len(vs) + 1 : /\ \A j \in 1..i - 1 : vs[j] > v
                                /\ i <= Len(vs) => vs[i] <= v
  BY <1>3, <1>4
<1>. QED  BY <1>5 DEF Search

\* In an index in order search tells whether the version is there.
LEMMA HasIsMember ==
  ASSUME NEW vs \in Seq(Version), Descending(vs), NEW v \in Version
  PROVE  HasVersion(vs, v) <=> v \in Range(vs)
<1>1. Len(vs) \in Nat /\ DOMAIN vs = 1..Len(vs) /\ v \in Nat
      /\ \A j \in 1..Len(vs) : vs[j] \in Nat
  BY Versions, VersionsAreNaturals
<1>2. /\ Search(vs, v) \in 1..Len(vs) + 1
      /\ \A j \in 1..Search(vs, v) - 1 : vs[j] > v
      /\ Search(vs, v) <= Len(vs) => vs[Search(vs, v)] <= v
  BY SearchFinds
<1>3. ASSUME HasVersion(vs, v)
      PROVE  v \in Range(vs)
  BY <1>1, <1>2, <1>3 DEF HasVersion, Range
<1>4. ASSUME v \in Range(vs)
      PROVE  HasVersion(vs, v)
  <2>1. PICK k \in 1..Len(vs) : vs[k] = v
    BY <1>1, <1>4 DEF Range
  <2>2. Search(vs, v) <= k
    BY <1>1, <1>2, <2>1
  <2>3. Search(vs, v) = k
    <3>1. CASE Search(vs, v) < k
      BY <1>1, <1>2, <2>1, <3>1 DEF Descending
    <3>. QED  BY <1>1, <1>2, <2>1, <2>2, <3>1
  <2>. QED  BY <1>1, <2>1, <2>3 DEF HasVersion
<1>. QED  BY <1>3, <1>4

LEMMA InsertAtElements ==
  ASSUME NEW S, NEW s \in Seq(S), NEW v \in S, NEW i \in 1..Len(s) + 1
  PROVE  /\ InsertAt(s, i, v) \in Seq(S)
         /\ Len(InsertAt(s, i, v)) = Len(s) + 1
         /\ \A j \in 1..Len(s) + 1 :
              InsertAt(s, i, v)[j] = IF j < i THEN s[j] ELSE IF j = i THEN v ELSE s[j - 1]
<1>. DEFINE a == SubSeq(s, 1, i - 1)
            b == SubSeq(s, i, Len(s))
            ab == a \o <<v>>
<1>0. Len(s) \in Nat /\ i \in Int /\ i - 1 \in Int /\ \A j \in 1..Len(s) : s[j] \in S
  OBVIOUS
<1>1. a \in Seq(S) /\ Len(a) = i - 1 /\ \A j \in 1..i - 1 : a[j] = s[j]
  <2>1. \A j \in 1..i - 1 : s[j] \in S
    BY <1>0
  <2>2. /\ a \in Seq(S)
        /\ Len(a) = IF 1 <= i - 1 THEN i - 1 - 1 + 1 ELSE 0
        /\ \A j \in 1..i - 1 - 1 + 1 : a[j] = s[1 + j - 1]
    BY <1>0, <2>1, SubSeqProperties
  <2>. QED  BY <1>0, <2>2
<1>2. b \in Seq(S) /\ Len(b) = Len(s) - i + 1 /\ \A j \in 1..Len(s) - i + 1 : b[j] = s[i + j - 1]
  <2>1. \A j \in i..Len(s) : s[j] \in S
    BY <1>0
  <2>2. /\ b \in Seq(S)
        /\ Len(b) = IF i <= Len(s) THEN Len(s) - i + 1 ELSE 0
        /\ \A j \in 1..Len(s) - i + 1 : b[j] = s[i + j - 1]
    BY <1>0, <2>1, SubSeqProperties
  <2>. QED  BY <1>0, <2>2
<1>3. <<v>> \in Seq(S) /\ Len(<<v>>) = 1 /\ <<v>>[1] = v
  OBVIOUS
<1>. HIDE DEF a, b
<1>4. /\ ab \in Seq(S) /\ Len(ab) = i
      /\ \A j \in 1..i : ab[j] = IF j < i THEN s[j] ELSE v
  <2>1. /\ ab \in Seq(S) /\ Len(ab) = Len(a) + 1
        /\ \A j \in 1..Len(a) + 1 : ab[j] = IF j <= Len(a) THEN a[j] ELSE <<v>>[j - Len(a)]
    BY <1>1, <1>3, ConcatProperties
  <2>. QED  BY <1>0, <1>1, <1>3, <2>1
<1>. HIDE DEF ab
<1>5. /\ ab \o b \in Seq(S) /\ Len(ab \o b) = Len(ab) + Len(b)
      /\ \A j \in 1..Len(ab) + Len(b) :
           (ab \o b)[j] = IF j <= Len(ab) THEN ab[j] ELSE b[j - Len(ab)]
  BY <1>2, <1>4, ConcatProperties
<1>6. InsertAt(s, i, v) = ab \o b
  BY DEF InsertAt, ab, a, b
<1>7. Len(ab \o b) = Len(s) + 1
  BY <1>0, <1>2, <1>4, <1>5
<1>8. ASSUME NEW j \in 1..Len(s) + 1
      PROVE  (ab \o b)[j] = IF j < i THEN s[j] ELSE IF j = i THEN v ELSE s[j - 1]
  <2>1. CASE j <= i
    <3>1. Len(b) \in Nat /\ j \in 1..Len(ab) + Len(b) /\ j <= Len(ab) /\ j \in 1..i
      BY <1>0, <1>2, <1>4, <2>1
    <3>2. (ab \o b)[j] = ab[j]
      BY <1>5, <3>1
    <3>3. ab[j] = IF j < i THEN s[j] ELSE v
      BY <1>4, <3>1
    <3>4. CASE j < i
      BY <3>2, <3>3, <3>4
    <3>5. CASE j = i /\ ~(j < i)
      BY <3>2, <3>3, <3>5
    <3>6. j < i \/ (j = i /\ ~(j < i))
      BY <1>0, <2>1
    <3>. QED  BY <3>4, <3>5, <3>6
  <2>2. CASE j > i
    <3>1. (ab \o b)[j] = b[j - i]
      BY <1>0, <1>2, <1>4, <1>5, <2>2
    <3>2. b[j - i] = s[i + (j - i) - 1]
      BY <1>0, <1>2, <2>2
    <3>. QED  BY <1>0, <2>2, <3>1, <3>2
  <2>3. j <= i \/ j > i
    BY <1>0
  <2>. QED  BY <2>1, <2>2, <2>3
<1>. QED  BY <1>5, <1>6, <1>7, <1>8

LEMMA RemoveAtElements ==
  ASSUME NEW S, NEW s \in Seq(S), NEW i \in 1..Len(s)
  PROVE  /\ RemoveAt(s, i) \in Seq(S)
         /\ Len(RemoveAt(s, i)) = Len(s) - 1
         /\ \A j \in 1..Len(s) - 1 : RemoveAt(s, i)[j] = IF j < i THEN s[j] ELSE s[j + 1]
<1>. DEFINE a == SubSeq(s, 1, i - 1)
            b == SubSeq(s, i + 1, Len(s))
<1>0. Len(s) \in Nat /\ i \in Int /\ i - 1 \in Int /\ i + 1 \in Int /\ \A j \in 1..Len(s) : s[j] \in S
  OBVIOUS
<1>1. a \in Seq(S) /\ Len(a) = i - 1 /\ \A j \in 1..i - 1 : a[j] = s[j]
  <2>1. \A j \in 1..i - 1 : s[j] \in S
    BY <1>0
  <2>2. /\ a \in Seq(S)
        /\ Len(a) = IF 1 <= i - 1 THEN i - 1 - 1 + 1 ELSE 0
        /\ \A j \in 1..i - 1 - 1 + 1 : a[j] = s[1 + j - 1]
    BY <1>0, <2>1, SubSeqProperties
  <2>. QED  BY <1>0, <2>2
<1>2. b \in Seq(S) /\ Len(b) = Len(s) - i /\ \A j \in 1..Len(s) - i : b[j] = s[i + j]
  <2>1. \A j \in i + 1..Len(s) : s[j] \in S
    BY <1>0
  <2>2. /\ b \in Seq(S)
        /\ Len(b) = IF i + 1 <= Len(s) THEN Len(s) - (i + 1) + 1 ELSE 0
        /\ \A j \in 1..Len(s) - (i + 1) + 1 : b[j] = s[i + 1 + j - 1]
    BY <1>0, <2>1, SubSeqProperties
  <2>. QED  BY <1>0, <2>2
<1>3. RemoveAt(s, i) = a \o b
  BY DEF RemoveAt
<1>. HIDE DEF a, b
<1>4. /\ a \o b \in Seq(S) /\ Len(a \o b) = Len(a) + Len(b)
      /\ \A j \in 1..Len(a) + Len(b) : (a \o b)[j] = IF j <= Len(a) THEN a[j] ELSE b[j - Len(a)]
  BY <1>1, <1>2, ConcatProperties
<1>5. ASSUME NEW j \in 1..Len(s) - 1
      PROVE  (a \o b)[j] = IF j < i THEN s[j] ELSE s[j + 1]
  <2>1. CASE j < i
    BY <1>0, <1>1, <1>2, <1>4, <2>1
  <2>2. CASE ~(j < i)
    <3>1. (a \o b)[j] = b[j - (i - 1)]
      BY <1>0, <1>1, <1>2, <1>4, <2>2
    <3>2. b[j - (i - 1)] = s[i + (j - (i - 1))]
      BY <1>0, <1>2, <2>2
    <3>. QED  BY <1>0, <2>2, <3>1, <3>2
  <2>. QED  BY <2>1, <2>2
<1>. QED  BY <1>0, <1>1, <1>2, <1>3, <1>4, <1>5

\* A version is inserted in its place.
LEMMA AddVersionKeepsOrder ==
  ASSUME NEW vs \in Seq(Version), Descending(vs), NEW v \in Version
  PROVE  /\ AddVersion(vs, v) \in Seq(Version)
         /\ Descending(AddVersion(vs, v))
         /\ Range(AddVersion(vs, v)) = Range(vs) \cup {v}
<1>. DEFINE i == Search(vs, v)
            ws == InsertAt(vs, i, v)
            n == Len(vs)
<1>1. CASE HasVersion(vs, v)
  BY <1>1, HasIsMember DEF AddVersion
<1>2. CASE ~HasVersion(vs, v)
  <2>0. n \in Nat /\ DOMAIN vs = 1..n /\ v \in Nat /\ \A j \in 1..n : vs[j] \in Nat
    BY Versions, VersionsAreNaturals
  <2>1. /\ i \in 1..n + 1
        /\ \A j \in 1..i - 1 : vs[j] > v
        /\ i <= n => vs[i] <= v
    BY SearchFinds
  <2>2. i <= n => vs[i] # v
    BY <1>2 DEF HasVersion
  <2>3. \A j \in i..n : vs[j] < v
    <3>1. TAKE j \in i..n
    <3>2. i <= n /\ vs[i] \in Nat /\ vs[j] \in Nat
      BY <2>0, <2>1, <3>1
    <3>3. vs[i] < v
      BY <2>0, <2>1, <2>2, <3>2
    <3>4. j = i \/ vs[i] > vs[j]
      BY <2>0, <2>1, <3>1 DEF Descending
    <3>. QED  BY <2>0, <3>2, <3>3, <3>4
  <2>4. /\ ws \in Seq(Version) /\ Len(ws) = n + 1
        /\ \A j \in 1..n + 1 : ws[j] = IF j < i THEN vs[j] ELSE IF j = i THEN v ELSE vs[j - 1]
    <3>1. i \in 1..Len(vs) + 1
      BY <2>1
    <3>2. /\ InsertAt(vs, i, v) \in Seq(Version)
          /\ Len(InsertAt(vs, i, v)) = Len(vs) + 1
          /\ \A j \in 1..Len(vs) + 1 : InsertAt(vs, i, v)[j] =
               IF j < i THEN vs[j] ELSE IF j = i THEN v ELSE vs[j - 1]
      <4>. HIDE DEF i
      <4>. QED  BY <3>1, InsertAtElements
    <3>. QED  BY <3>2
  <2>. HIDE DEF i, ws, n
  <2>5. DOMAIN ws = 1..n + 1
    BY <2>0, <2>4, Versions
  <2>6. ASSUME NEW j \in 1..n + 1, NEW k \in 1..n + 1, j < k
        PROVE  ws[j] > ws[k]
    <3>1. CASE k < i
      BY <2>0, <2>1, <2>4, <2>6, <3>1 DEF Descending
    <3>2. CASE k = i
      BY <2>0, <2>1, <2>4, <2>6, <3>2
    <3>3. CASE k > i
      <4>1. ws[k] = vs[k - 1] /\ k - 1 \in i..n /\ k - 1 \in 1..n
        BY <2>0, <2>1, <2>4, <3>3
      <4>2. CASE j = i
        BY <2>0, <2>1, <2>3, <2>4, <4>1, <4>2
      <4>3. CASE j < i
        <5>1. ws[j] = vs[j] /\ j \in 1..n /\ j < k - 1
          BY <2>0, <2>1, <2>4, <3>3, <4>3
        <5>. QED  BY <2>0, <4>1, <5>1 DEF Descending
      <4>4. CASE j > i
        <5>1. ws[j] = vs[j - 1] /\ j - 1 \in 1..n /\ j - 1 < k - 1
          BY <2>0, <2>1, <2>4, <2>6, <4>4
        <5>. QED  BY <2>0, <4>1, <5>1 DEF Descending
      <4>. QED  BY <2>0, <2>1, <4>2, <4>3, <4>4
    <3>. QED  BY <2>0, <2>1, <3>1, <3>2, <3>3
  <2>7. ASSUME NEW j \in 1..n + 1
        PROVE  ws[j] \in Range(vs) \cup {v}
    <3>1. CASE j < i
      BY <2>0, <2>1, <2>4, <3>1 DEF Range
    <3>2. CASE j > i
      <4>1. ws[j] = vs[j - 1] /\ j - 1 \in 1..n
        BY <2>0, <2>1, <2>4, <3>2
      <4>. QED  BY <2>0, <4>1 DEF Range
    <3>. QED  BY <2>0, <2>1, <2>4, <3>1, <3>2
  <2>8. ASSUME NEW j \in 1..n
        PROVE  vs[j] \in Range(ws)
    <3>1. CASE j < i
      <4>1. ws[j] = vs[j] /\ j \in 1..n + 1
        BY <2>0, <2>1, <2>4, <3>1
      <4>. QED  BY <2>5, <4>1 DEF Range
    <3>2. CASE j >= i
      <4>1. ws[j + 1] = vs[j] /\ j + 1 \in 1..n + 1
        BY <2>0, <2>1, <2>4, <3>2
      <4>. QED  BY <2>5, <4>1 DEF Range
    <3>. QED  BY <2>0, <2>1, <3>1, <3>2
  <2>9. v \in Range(ws)
    <3>1. ws[i] = v
      BY <2>0, <2>1, <2>4
    <3>. QED  BY <2>1, <2>5, <3>1 DEF Range
  <2>10. Range(ws) = Range(vs) \cup {v}
    BY <2>0, <2>5, <2>7, <2>8, <2>9 DEF Range
  <2>11. Descending(ws)
    BY <2>5, <2>6 DEF Descending
  <2>. QED  BY <1>2, <2>4, <2>10, <2>11 DEF AddVersion, ws, i
<1>. QED  BY <1>1, <1>2

\* A version is removed from its place.
LEMMA DeleteVersionKeepsOrder ==
  ASSUME NEW vs \in Seq(Version), Descending(vs), NEW v \in Version
  PROVE  /\ DeleteVersion(vs, v) \in Seq(Version)
         /\ Descending(DeleteVersion(vs, v))
         /\ Range(DeleteVersion(vs, v)) = Range(vs) \ {v}
<1>. DEFINE i == Search(vs, v)
            ws == RemoveAt(vs, i)
            n == Len(vs)
<1>1. CASE ~HasVersion(vs, v)
  BY <1>1, HasIsMember DEF DeleteVersion
<1>2. CASE HasVersion(vs, v)
  <2>0. n \in Nat /\ DOMAIN vs = 1..n /\ v \in Nat /\ \A j \in 1..n : vs[j] \in Nat
    BY Versions, VersionsAreNaturals
  <2>1. i \in 1..n /\ vs[i] = v
    BY <1>2, <2>0, SearchFinds DEF HasVersion
  <2>2. /\ ws \in Seq(Version) /\ Len(ws) = n - 1
        /\ \A j \in 1..n - 1 : ws[j] = IF j < i THEN vs[j] ELSE vs[j + 1]
    BY <2>1, RemoveAtElements
  <2>. HIDE DEF i, ws, n
  <2>3. DOMAIN ws = 1..n - 1
    BY <2>0, <2>2, Versions
  <2>4. ASSUME NEW j \in 1..n - 1, NEW k \in 1..n - 1, j < k
        PROVE  ws[j] > ws[k]
    <3>1. PICK a \in 1..n, b \in 1..n : a < b /\ ws[j] = vs[a] /\ ws[k] = vs[b]
      <4>1. CASE k < i
        <5>1. j < i /\ j \in 1..n /\ k \in 1..n
          BY <2>0, <2>1, <2>4, <4>1
        <5>2. ws[j] = vs[j] /\ ws[k] = vs[k]
          BY <2>2, <4>1, <5>1
        <5>. QED  BY <2>4, <5>1, <5>2
      <4>2. CASE j < i /\ k >= i
        <5>1. ~(k < i) /\ j \in 1..n /\ k + 1 \in 1..n /\ j < k + 1
          BY <2>0, <2>1, <2>4, <4>2
        <5>2. ws[j] = vs[j] /\ ws[k] = vs[k + 1]
          BY <2>2, <4>2, <5>1
        <5>. QED  BY <5>1, <5>2
      <4>3. CASE j >= i
        <5>1. ~(j < i) /\ ~(k < i) /\ j + 1 \in 1..n /\ k + 1 \in 1..n /\ j + 1 < k + 1
          BY <2>0, <2>1, <2>4, <4>3
        <5>2. ws[j] = vs[j + 1] /\ ws[k] = vs[k + 1]
          BY <2>2, <5>1
        <5>. QED  BY <5>1, <5>2
      <4>. QED  BY <2>0, <2>1, <2>4, <4>1, <4>2, <4>3
    <3>. QED  BY <2>0, <3>1 DEF Descending
  <2>5. ASSUME NEW j \in 1..n - 1
        PROVE  ws[j] \in Range(vs) \ {v}
    <3>1. PICK a \in 1..n : a # i /\ ws[j] = vs[a]
      <4>1. CASE j < i
        <5>1. j \in 1..n /\ j # i
          BY <2>0, <2>1, <4>1
        <5>. QED  BY <2>2, <4>1, <5>1
      <4>2. CASE ~(j < i)
        <5>1. j + 1 \in 1..n /\ j + 1 # i
          BY <2>0, <2>1, <4>2
        <5>. QED  BY <2>2, <4>2, <5>1
      <4>. QED  BY <4>1, <4>2
    <3>2. vs[a] # vs[i]
      <4>1. a < i \/ i < a
        BY <2>0, <2>1, <3>1
      <4>2. vs[a] > vs[i] \/ vs[i] > vs[a]
        BY <2>0, <2>1, <4>1 DEF Descending
      <4>3. vs[a] \in Nat /\ vs[i] \in Nat
        BY <2>0, <2>1
      <4>. QED  BY <4>2, <4>3
    <3>. QED  BY <2>0, <2>1, <3>1, <3>2 DEF Range
  <2>6. ASSUME NEW j \in 1..n, j # i
        PROVE  vs[j] \in Range(ws)
    <3>1. PICK k \in 1..n - 1 : ws[k] = vs[j]
      <4>1. CASE j < i
        <5>1. j \in 1..n - 1
          BY <2>0, <2>1, <4>1
        <5>. QED  BY <2>2, <4>1, <5>1
      <4>2. CASE j > i
        <5>1. j - 1 \in 1..n - 1 /\ ~(j - 1 < i) /\ j - 1 + 1 = j
          BY <2>0, <2>1, <4>2
        <5>. QED  BY <2>2, <5>1
      <4>. QED  BY <2>0, <2>1, <2>6, <4>1, <4>2
    <3>. QED  BY <2>3, <3>1 DEF Range
  <2>7. Range(ws) = Range(vs) \ {v}
    BY <2>0, <2>1, <2>3, <2>5, <2>6 DEF Range
  <2>8. Descending(ws)
    BY <2>3, <2>4 DEF Descending
  <2>. QED  BY <1>2, <2>2, <2>7, <2>8 DEF DeleteVersion, ws, i
<1>. QED  BY <1>1, <1>2

\* Every finite set of versions can be put in order: take a smallest one that
\* cannot, and insert a version of it into the rest.
LEMMA OrderExists ==
  ASSUME NEW S \in SUBSET Version, IsFiniteSet(S)
  PROVE  \E vs \in Seq(Version) : Descending(vs) /\ Range(vs) = S
<1>. DEFINE Orderable(U) == \E vs \in Seq(Version) : Descending(vs) /\ Range(vs) = U
            Bad(n) == \E U \in SUBSET Version : IsFiniteSet(U) /\ Cardinality(U) = n /\ ~Orderable(U)
            T == {n \in Nat : Bad(n)}
<1>1. Orderable({})
  <2>1. <<>> \in Seq(Version) /\ Descending(<<>>) /\ Range(<<>>) = {}
    BY DEF Descending, Range
  <2>. QED  BY <2>1
<1>2. ASSUME NEW U \in SUBSET Version, NEW v \in U, Orderable(U \ {v})
      PROVE  Orderable(U)
  <2>1. PICK vs \in Seq(Version) : Descending(vs) /\ Range(vs) = U \ {v}
    BY <1>2
  <2>2. v \in Version
    OBVIOUS
  <2>3. /\ AddVersion(vs, v) \in Seq(Version) /\ Descending(AddVersion(vs, v))
        /\ Range(AddVersion(vs, v)) = (U \ {v}) \cup {v}
    BY <2>1, <2>2, AddVersionKeepsOrder
  <2>4. (U \ {v}) \cup {v} = U
    OBVIOUS
  <2>. QED  BY <2>3, <2>4
<1>. HIDE DEF Orderable
<1>3. ASSUME T # {} PROVE FALSE
  <2>1. T \in SUBSET Nat
    OBVIOUS
  <2>2. PICK m \in T : \A k \in T : m <= k
    <3>. HIDE DEF T
    <3>. QED  BY <1>3, <2>1, LeastOf
  <2>3. PICK U \in SUBSET Version : IsFiniteSet(U) /\ Cardinality(U) = m /\ ~Orderable(U)
    BY <2>2
  <2>4. PICK v \in U : TRUE
    BY <1>1, <2>3
  <2>5. IsFiniteSet(U \ {v}) /\ Cardinality(U \ {v}) = m - 1
    BY <2>3, <2>4, FS_RemoveElement
  <2>6. m - 1 \in Nat
    BY <2>5, FS_CardinalityType
  <2>7. ~Orderable(U \ {v})
    BY <1>2, <2>3, <2>4
  <2>8. U \ {v} \in SUBSET Version
    OBVIOUS
  <2>9. m - 1 \in T
    BY <2>5, <2>6, <2>7, <2>8
  <2>. QED  BY <2>2, <2>9
<1>4. Cardinality(S) \in Nat
  BY FS_CardinalityType
<1>5. Orderable(S)
  BY <1>3, <1>4
<1>. QED  BY <1>5 DEF Orderable

\* A sequence in order has as many elements as its range.
LEMMA OrderIsTight ==
  ASSUME NEW vs \in Seq(Version), Descending(vs)
  PROVE  IsFiniteSet(Range(vs)) /\ Cardinality(Range(vs)) = Len(vs)
<1>1. Len(vs) \in Nat /\ DOMAIN vs = 1..Len(vs) /\ \A j \in 1..Len(vs) : vs[j] \in Nat
  BY Versions
<1>2. IsFiniteSet(1..Len(vs)) /\ Cardinality(1..Len(vs)) = Len(vs)
  <2>1. Cardinality(1..Len(vs)) = IF 1 > Len(vs) THEN 0 ELSE Len(vs) - 1 + 1
    BY <1>1, FS_Interval
  <2>. QED  BY <1>1, <2>1, FS_Interval
<1>3. vs \in Bijection(1..Len(vs), Range(vs))
  <2>1. vs \in [1..Len(vs) -> Range(vs)]
    BY <1>1 DEF Range
  <2>2. \A i, j \in 1..Len(vs) : vs[i] = vs[j] => i = j
    BY <1>1 DEF Descending
  <2>3. \A t \in Range(vs) : \E i \in 1..Len(vs) : vs[i] = t
    BY <1>1 DEF Range
  <2>. QED  BY <2>1, <2>2, <2>3 DEF Bijection, Injection, Surjection, IsInjective
<1>. QED
  <2>. DEFINE D == 1..Len(vs)
  <2>1. IsFiniteSet(D) /\ Cardinality(D) = Len(vs) /\ vs \in Bijection(D, Range(vs))
    BY <1>2, <1>3
  <2>2. ExistsBijection(D, Range(vs))
    BY <2>1 DEF ExistsBijection
  <2>. HIDE DEF D
  <2>. QED  BY <2>1, <2>2, FS_Bijection

LEMMA InOrderIsOrder ==
  ASSUME NEW S \in SUBSET Version, IsFiniteSet(S)
  PROVE  InOrder(S) \in Seq(Version) /\ Descending(InOrder(S)) /\ Range(InOrder(S)) = S
<1>1. PICK vs \in Seq(Version) : Descending(vs) /\ Range(vs) = S
  BY OrderExists
<1>2. Len(vs) = Cardinality(S) /\ DOMAIN vs = 1..Len(vs) /\ Len(vs) \in Nat
  BY <1>1, OrderIsTight, Versions
<1>3. vs \in [1..Cardinality(S) -> S]
  BY <1>1, <1>2 DEF Range
<1>4. InOrder(S) \in [1..Cardinality(S) -> S] /\ Descending(InOrder(S)) /\ Range(InOrder(S)) = S
  BY <1>1, <1>3 DEF InOrder
<1>5. InOrder(S) \in Seq(Version)
  BY <1>2, <1>4
<1>. QED  BY <1>4, <1>5

-----------------------------------------------------------------------------
(* The inductive invariant. *)

\* Entries are made in order, the adopted ones before any request.
MadeInv ==
  /\ Made = 1..Cardinality(Made)
  /\ \A e \in Made : e \in DOMAIN Preloaded => Key(e) = Preloaded[e]
  /\ \A c \in Caller : caller[c].pc # "idle" => StartedUp

\* An entry in the store is under its own plugin and version.
StoreInv == \A a \in Artifact : store[a] # None => store[a] \in Made /\ Key(store[a]) = a

CapacityInv == IsFiniteSet(Stored) /\ Cardinality(Stored) <= Cardinality(Made)

\* An entry and the goroutine that spawns it.
Spawns == {"fetch", "start", "register", "publish"}

EntryInv(e) ==
  /\ spawner[e].pc \in Spawns => entry[e].state = "starting"
  /\ entry[e].state = "unused" => spawner[e].pc = "off"
  /\ spawner[e].pc \in {"off", "fetch", "done"} => ~spawner[e].pin

HoldInv == \A e \in Entry : IsFiniteSet(Holds(e))

Committing == {c \in Caller : caller[c].pc = "commit"}
PinHolders == {e \in Entry : spawner[e].pin}

CommittingInv == IsFiniteSet(Committing)

\* A running entry has someone who knows of it, one that is being spawned has its
\* place in the store.
InStore(e) == \E a \in Artifact : store[a] = e

Known(e) ==
  \/ InStore(e)
  \/ e \in victims["evictor"]
  \/ entry[e].pendingKill
  \/ \E c \in Caller : caller[c].pc = "teardown" /\ caller[c].ptr = e

AliveAt(e) ==
  /\ entry[e].state = "starting" => InStore(e)
  /\ entry[e].client => Known(e)

AliveInv == \A e \in Entry : ~cancelled /\ e \notin displaced => AliveAt(e)

IInv ==
  /\ TypeOK /\ PoolIsConsistent /\ CountsAreExact
  /\ MadeInv /\ StoreInv /\ CapacityInv /\ (\A e \in Entry : EntryInv(e))
  /\ HoldInv /\ CommittingInv /\ AliveInv

-----------------------------------------------------------------------------
(* What the pool has for a request. *)

LEMMA Nones == None \notin Entry /\ None \notin Version /\ Entries \in Nat /\ Entry = 1..Entries
<1>1. None \notin Nat /\ Version \subseteq Nat /\ Entries \in Nat
  BY VersionPoolAssumption
<1>2. Entry = 1..Entries /\ 1..Entries \subseteq Nat
  BY <1>1 DEF Entry
<1>3. None \notin Entry
  BY <1>1, <1>2, Zenon
<1>4. None \notin Version
  BY <1>1, Zenon
<1>. QED  BY <1>1, <1>2, <1>3, <1>4, Zenon

LEMMA WantTypes ==
  ASSUME TypeOK, NEW c \in Caller
  PROVE  /\ Want(c) \in Dependency /\ Want(c).plugin \in Plugin
         /\ Want(c).by \in {"version", "constraint", "latest"}
         /\ Want(c).accepts \in SUBSET Version
         /\ Resolvable(c) \subseteq Version
         /\ Want(c).by = "version" => Pinned(c) \in Version
<1>1. caller[c].at \in DOMAIN Wants[c] /\ Wants[c] \in Seq(Dependency)
  BY VersionPoolAssumption DEF TypeOK
<1>2. Want(c) \in Dependency
  BY <1>1 DEF Want
<1>3. /\ Want(c).plugin \in Plugin /\ Want(c).by \in {"version", "constraint", "latest"}
      /\ Want(c).accepts \in SUBSET Version
  BY <1>2 DEF Dependency
<1>4. Want(c).by = "version" => Pinned(c) \in Version
  <2>1. Want(c).by = "version" => \E v \in Version : Want(c).accepts = {v}
    BY <1>1, VersionPoolAssumption DEF Want
  <2>. QED  BY <2>1 DEF Pinned
<1>. QED  BY <1>2, <1>3, <1>4 DEF Resolvable

\* A lookup by version finds what is in the store.
LEMMA FoundIsStored ==
  ASSUME TypeOK, IndexMatchesStore, NEW p \in Plugin, NEW v \in Version
  PROVE  Found(p, v) = store[<<p, v>>]
<1>1. index[p] \in Seq(Version) /\ Descending(index[p])
      /\ (v \in Range(index[p]) <=> store[<<p, v>>] # None)
  BY DEF TypeOK, IndexMatchesStore
<1>2. HasVersion(index[p], v) <=> store[<<p, v>>] # None
  BY <1>1, HasIsMember
<1>. QED  BY <1>2, Nones DEF Found

LEMMA FoundIsMade ==
  ASSUME TypeOK, IndexMatchesStore, StoreInv, NEW p \in Plugin, NEW v \in Version \cup {None}
  PROVE  Found(p, v) \in Made \cup {None}
<1>1. CASE v \in Version
  BY <1>1, FoundIsStored DEF StoreInv, Artifact
<1>2. CASE v = None
  BY <1>2 DEF Found
<1>. QED  BY <1>1, <1>2

LEMMA ConstraintsType ==
  ASSUME NEW vs \in Seq(Version), NEW accepts \in SUBSET Version
  PROVE  GetConstraints(vs, accepts) \in Version \cup {None}
<1>. DEFINE ok == {i \in DOMAIN vs : vs[i] \in accepts}
<1>1. ok \in SUBSET Nat /\ \A i \in ok : vs[i] \in Version
  BY Versions
<1>2. ASSUME ok # {}
      PROVE  Min(ok) \in ok
  <2>. HIDE DEF ok
  <2>1. PICK m \in ok : \A k \in ok : m <= k
    BY <1>1, <1>2, LeastOf
  <2>. QED  BY <2>1 DEF Min
<1>. QED  BY <1>1, <1>2 DEF GetConstraints

LEMMA InPoolIsMade ==
  ASSUME TypeOK, IndexMatchesStore, StoreInv, NEW c \in Caller
  PROVE  InPool(c) \in Made \cup {None}
<1>1. /\ Want(c).plugin \in Plugin /\ Want(c).accepts \in SUBSET Version
      /\ Want(c).by \in {"version", "constraint", "latest"}
      /\ Want(c).by = "version" => Pinned(c) \in Version
  BY WantTypes
<1>2. caller[c].version \in Version \cup {None}
  BY DEF TypeOK, CallerRecord
<1>3. CASE Want(c).by = "latest"
  BY <1>1, <1>2, <1>3, FoundIsMade DEF InPool
<1>4. CASE Want(c).by = "version"
  BY <1>1, <1>4, FoundIsMade DEF InPool
<1>5. CASE Want(c).by = "constraint"
  <2>1. index[Want(c).plugin] \in Seq(Version)
    BY <1>1 DEF TypeOK
  <2>2. GetConstraints(index[Want(c).plugin], Want(c).accepts) \in Version \cup {None}
    BY <1>1, <2>1, ConstraintsType
  <2>. QED  BY <1>1, <1>5, <2>2, FoundIsMade DEF InPool
<1>. QED  BY <1>1, <1>3, <1>4, <1>5

-----------------------------------------------------------------------------
(* New entries. *)

LEMMA MadeFinite ==
  /\ Made \subseteq Entry /\ IsFiniteSet(Made) /\ Cardinality(Made) \in Nat
<1>1. IsFiniteSet(Entry)
  BY Nones, FS_Interval
<1>2. Made \subseteq Entry
  BY DEF Made
<1>. QED  BY <1>1, <1>2, FS_Subset, FS_CardinalityType

\* The next entry is fresh.
LEMMA FreshIsNew ==
  ASSUME MadeInv
  PROVE  Fresh \notin Made /\ Fresh \in Nat
<1>1. Cardinality(Made) \in Nat /\ Made = 1..Cardinality(Made)
  BY MadeFinite DEF MadeInv
<1>2. Cardinality(Made) + 1 \notin 1..Cardinality(Made)
  BY <1>1
<1>. QED  BY <1>1, <1>2 DEF Fresh

OnlyEntry(e)   == \A f \in Entry : f # e => entry'[f] = entry[f]
OnlySpawner(e) == \A f \in Entry : f # e => spawner'[f] = spawner[f]

\* Entry e is made for version v of plugin p.
Makes(e, p, v) ==
  /\ e = Fresh /\ e \in Entry /\ e \notin Made
  /\ p \in Plugin /\ v \in Version /\ store[<<p, v>>] = None
  /\ Insert(p, v, e)
  /\ OnlyEntry(e) /\ entry' \in [Entry -> EntryRecord]
  /\ entry'[e].plugin = p /\ entry'[e].version = v
  /\ entry'[e].state \in {"starting", "ready"}
  /\ entry'[e].refs = 0 /\ ~entry'[e].pendingKill
  /\ OnlySpawner(e) /\ spawner' \in [Entry -> SpawnerRecord]
  /\ spawner'[e].pc \in Spawns => entry'[e].state = "starting"
  /\ spawner'[e].pc \in {"off", "fetch", "done"} => ~spawner'[e].pin
  /\ (MaxPlugins > 0 => Cardinality(Stored) < MaxPlugins) \/ e <= Len(Preloaded)
  /\ e \in DOMAIN Preloaded => Preloaded[e] = <<p, v>>
  /\ UNCHANGED <<closed, cancelled, acquired, teardown, victims, displaced>>

LEMMA MadeGrows ==
  ASSUME IInv, NEW e, NEW p, NEW v, Makes(e, p, v)
  PROVE  /\ Made' = Made \cup {e}
         /\ Cardinality(Made') = Cardinality(Made) + 1
         /\ Key(e)' = <<p, v>>
         /\ \A f \in Entry : f # e => Key(f)' = Key(f)
         /\ \A f \in Made : f # e
<1>1. Made' = Made \cup {e}
  BY DEF Makes, Made, OnlyEntry
<1>2. Cardinality(Made \cup {e}) = Cardinality(Made) + 1
  BY MadeFinite, FS_AddElement DEF Makes
<1>. QED  BY <1>1, <1>2 DEF Makes, Key, OnlyEntry

LEMMA FullMeans ==
  ASSUME CapacityInv, ~Full
  PROVE  MaxPlugins > 0 => Cardinality(Stored) < MaxPlugins
<1>1. Cardinality(Stored) \in Nat /\ MaxPlugins \in Nat
  BY FS_CardinalityType, VersionPoolAssumption DEF CapacityInv
<1>. QED  BY <1>1 DEF Full

\* A new entry whose process is still to be spawned.
LEMMA SpawningMakes ==
  ASSUME IInv, NEW p \in Plugin, NEW v \in Version, store[<<p, v>>] = None, ~Full, StartedUp,
         NEW loc \in {"fetch", "start"}, NEW pinned \in BOOLEAN, loc = "fetch" => ~pinned,
         Spawning(p, v, loc, pinned),
         UNCHANGED <<closed, cancelled, acquired, teardown, victims, displaced>>
  PROVE  Makes(Fresh, p, v) /\ entry'[Fresh].state = "starting" /\ ~entry'[Fresh].client
         /\ spawner'[Fresh].pin = pinned /\ spawner'[Fresh].pc = loc
<1>1. /\ Fresh \in Entry /\ Insert(p, v, Fresh)
      /\ entry' = [entry EXCEPT ![Fresh] = NewEntry(p, v)]
      /\ spawner' = [spawner EXCEPT ![Fresh] = [pc |-> loc, pin |-> pinned, registered |-> FALSE]]
  BY DEF Spawning
<1>2. Fresh \notin Made /\ Fresh \in Nat
  BY FreshIsNew DEF IInv
<1>3. entry \in [Entry -> EntryRecord] /\ spawner \in [Entry -> SpawnerRecord]
  BY DEF IInv, TypeOK
<1>4. /\ NewEntry(p, v) \in EntryRecord /\ NewEntry(p, v).plugin = p
      /\ NewEntry(p, v).version = v /\ NewEntry(p, v).state = "starting"
      /\ NewEntry(p, v).refs = 0 /\ ~NewEntry(p, v).pendingKill /\ ~NewEntry(p, v).client
  BY DEF NewEntry, NoEntry, EntryRecord
<1>5. [pc |-> loc, pin |-> pinned, registered |-> FALSE] \in SpawnerRecord
  BY DEF SpawnerRecord
<1>6. Fresh \notin DOMAIN Preloaded
  <2>1. DOMAIN Preloaded = 1..Len(Preloaded) /\ Len(Preloaded) \in Nat
    BY VersionPoolAssumption
  <2>2. Cardinality(Made) \in Nat /\ Cardinality(Made) >= Len(Preloaded)
    BY MadeFinite DEF StartedUp
  <2>. QED  BY <2>1, <2>2 DEF Fresh
<1>7. /\ entry' \in [Entry -> EntryRecord] /\ entry'[Fresh] = NewEntry(p, v) /\ OnlyEntry(Fresh)
  <2>. HIDE DEF Fresh
  <2>. QED  BY <1>1, <1>3, <1>4 DEF OnlyEntry
<1>8. /\ spawner' \in [Entry -> SpawnerRecord] /\ OnlySpawner(Fresh)
      /\ spawner'[Fresh].pc = loc /\ spawner'[Fresh].pin = pinned
  BY <1>1, <1>3, <1>5 DEF OnlySpawner
<1>9. MaxPlugins > 0 => Cardinality(Stored) < MaxPlugins
  BY FullMeans DEF IInv
<1>. QED  BY <1>1, <1>2, <1>4, <1>6, <1>7, <1>8, <1>9 DEF Makes

LEMMA LoadVersionMakes ==
  ASSUME IInv, NEW c \in Caller, LoadVersion(c)
  PROVE  \E v \in Version :
           /\ Makes(Fresh, Want(c).plugin, v) /\ ~entry'[Fresh].client
           /\ entry'[Fresh].state = "starting"
           /\ ~spawner'[Fresh].pin /\ spawner'[Fresh].pc = "fetch"
<1>1. /\ Want(c).plugin \in Plugin /\ Pinned(c) \in Version /\ Want(c).by = "version"
      /\ InPool(c) = None
  BY WantTypes DEF LoadVersion, IInv
<1>2. store[<<Want(c).plugin, Pinned(c)>>] = None
  BY <1>1, FoundIsStored DEF InPool, IInv, PoolIsConsistent
<1>3. StartedUp /\ ~Full /\ Spawning(Want(c).plugin, Pinned(c), "fetch", FALSE)
  BY DEF LoadVersion, LookingUp, IInv, MadeInv
<1>4. UNCHANGED <<closed, cancelled, acquired, teardown, victims, displaced>>
  BY DEF LoadVersion
<1>. QED  BY <1>1, <1>2, <1>3, <1>4, SpawningMakes

LEMMA CommitMakes ==
  ASSUME IInv, NEW c \in Caller, Commit(c)
  PROVE  \E v \in Version :
           /\ Makes(Fresh, Want(c).plugin, v) /\ ~entry'[Fresh].client
           /\ entry'[Fresh].state = "starting"
           /\ spawner'[Fresh].pin /\ spawner'[Fresh].pc = "start"
<1>1. /\ Want(c).plugin \in Plugin /\ caller[c].version \in Version
      /\ PooledMeanwhile(c) = None
  BY WantTypes DEF Commit, IInv, TypeOK, CallerRecord
<1>2. store[<<Want(c).plugin, caller[c].version>>] = None
  BY <1>1, FoundIsStored DEF PooledMeanwhile, IInv, PoolIsConsistent
<1>3. StartedUp /\ ~Full /\ Spawning(Want(c).plugin, caller[c].version, "start", TRUE)
  BY DEF Commit, IInv, MadeInv
<1>4. UNCHANGED <<closed, cancelled, acquired, teardown, victims, displaced>>
  BY DEF Commit
<1>. QED  BY <1>1, <1>2, <1>3, <1>4, SpawningMakes

LEMMA AdoptMakes ==
  ASSUME IInv, Adopt
  PROVE  \E p \in Plugin, v \in Version :
           /\ Makes(Fresh, p, v) /\ spawner'[Fresh].pin = FALSE
<1>. DEFINE p == Preloaded[Fresh][1]
            v == Preloaded[Fresh][2]
            new == [NewEntry(p, v) EXCEPT !.state = "ready", !.client = TRUE, !.provider = TRUE]
<1>1. Fresh \notin Made /\ Fresh \in Nat
  BY FreshIsNew DEF IInv
<1>2. /\ DOMAIN Preloaded = 1..Len(Preloaded) /\ Len(Preloaded) \in Nat /\ Entries \in Nat
      /\ Len(Preloaded) <= Entries /\ \A i \in DOMAIN Preloaded : Preloaded[i] \in Artifact
      /\ \A i, j \in DOMAIN Preloaded : Preloaded[i] = Preloaded[j] => i = j
  BY VersionPoolAssumption DEF IsInjective
<1>3. Cardinality(Made) \in Nat /\ Fresh \in 1..Len(Preloaded)
  BY <1>2, MadeFinite DEF Adopt, StartedUp, Fresh
<1>4. Fresh \in Entry /\ Fresh \in DOMAIN Preloaded
  BY <1>2, <1>3 DEF Entry
<1>5. p \in Plugin /\ v \in Version /\ Preloaded[Fresh] = <<p, v>>
  BY <1>2, <1>4 DEF Artifact
<1>6. store[<<p, v>>] = None
  <2>1. SUFFICES ASSUME store[<<p, v>>] # None
                 PROVE  FALSE
    OBVIOUS
  <2>2. store[<<p, v>>] \in Made /\ Key(store[<<p, v>>]) = <<p, v>>
    BY <1>5, <2>1 DEF IInv, StoreInv, Artifact
  <2>3. PICK f \in Made : Key(f) = Preloaded[Fresh]
    BY <1>5, <2>2
  <2>4. f \in 1..Cardinality(Made)
    BY DEF IInv, MadeInv
  <2>5. f \in DOMAIN Preloaded /\ f # Fresh
    BY <1>2, <1>3, <2>4 DEF Fresh
  <2>6. Preloaded[f] = Preloaded[Fresh]
    BY <2>3, <2>5 DEF IInv, MadeInv
  <2>. QED  BY <1>2, <1>4, <2>5, <2>6
<1>7. /\ Insert(p, v, Fresh) /\ entry' = [entry EXCEPT ![Fresh] = new]
      /\ spawner' = [spawner EXCEPT ![Fresh].pc = "done"]
      /\ UNCHANGED <<closed, cancelled, acquired, teardown, victims, displaced>>
  BY DEF Adopt
<1>8. entry \in [Entry -> EntryRecord] /\ spawner \in [Entry -> SpawnerRecord]
  BY DEF IInv, TypeOK
<1>9. /\ new \in EntryRecord /\ new.plugin = p /\ new.version = v /\ new.state = "ready"
      /\ new.refs = 0 /\ ~new.pendingKill
  BY <1>5 DEF NewEntry, NoEntry, EntryRecord
<1>10. spawner[Fresh].pin = FALSE
  BY <1>1, <1>4, <1>8 DEF IInv, EntryInv, Made, SpawnerRecord
<1>. HIDE DEF new, p, v
<1>11. entry' \in [Entry -> EntryRecord] /\ entry'[Fresh] = new /\ OnlyEntry(Fresh)
  BY <1>4, <1>7, <1>8, <1>9 DEF OnlyEntry
<1>12. /\ spawner' \in [Entry -> SpawnerRecord] /\ OnlySpawner(Fresh)
       /\ spawner'[Fresh].pc = "done" /\ spawner'[Fresh].pin = FALSE
  BY <1>4, <1>7, <1>8, <1>10 DEF OnlySpawner, SpawnerRecord
<1>13. Fresh <= Len(Preloaded)
  BY <1>2, <1>3
<1>14. Makes(Fresh, p, v)
  BY <1>1, <1>4, <1>5, <1>6, <1>7, <1>9, <1>11, <1>12, <1>13 DEF Makes, Spawns
<1>. QED  BY <1>5, <1>12, <1>14

-----------------------------------------------------------------------------
(* What a step does to an entry that was made before. *)

\* The entry of a step that makes none: its plugin and version stay.
Touches(e) ==
  /\ e \in Made /\ OnlyEntry(e) /\ entry' \in [Entry -> EntryRecord]
  /\ entry'[e].plugin = entry[e].plugin /\ entry'[e].version = entry[e].version
  /\ entry'[e].state # "unused"

KeyAfter(e) == <<entry'[e].plugin, entry'[e].version>>

Keeps == \A f \in Entry : Key(f)' = Key(f) /\ (f \in Made' <=> f \in Made)

LEMMA TouchesKeeps ==
  ASSUME NEW e, Touches(e)
  PROVE  Keeps
BY DEF Touches, Keeps, OnlyEntry, Key, Made

LEMMA UnchangedKeeps ==
  ASSUME UNCHANGED entry
  PROVE  Keeps
BY DEF Keeps, Key, Made

LEMMA KeepsMade ==
  ASSUME Keeps
  PROVE  Made' = Made /\ Cardinality(Made') = Cardinality(Made)
<1>1. Made' \subseteq Entry /\ Made \subseteq Entry
  BY DEF Made
<1>. QED  BY <1>1 DEF Keeps

LEMMA HeadIsMade ==
  ASSUME TypeOK, NEW c \in Caller, acquired[c] # <<>>
  PROVE  /\ Released(c) \in Made /\ Released(c) \in Entry
         /\ Released(c) = acquired[c][1] /\ 1 \in DOMAIN acquired[c]
<1>1. acquired[c] \in Seq(Made)
  BY DEF TypeOK
<1>2. Head(acquired[c]) \in Made /\ Head(acquired[c]) = acquired[c][1] /\ 1 \in DOMAIN acquired[c]
  BY <1>1
<1>. QED  BY <1>2, MadeFinite DEF Released

\* An entry a request holds has a reference.
LEMMA HeldIsCounted ==
  ASSUME TypeOK, RefsAreHeld, HoldInv, NEW c \in Caller, acquired[c] # <<>>
  PROVE  entry[Released(c)].refs \in Nat \ {0}
<1>. DEFINE e == Released(c)
<1>1. e \in Entry /\ <<c, 1>> \in Holds(e)
  BY HeadIsMade DEF Holds
<1>2. IsFiniteSet(Holds(e)) /\ entry[e].refs = Cardinality(Holds(e))
  BY <1>1 DEF HoldInv, RefsAreHeld
<1>3. Cardinality(Holds(e)) \in Nat /\ Cardinality(Holds(e)) # 0
  <2>. HIDE DEF e
  <2>. QED  BY <1>1, <1>2, FS_CardinalityType, FS_EmptySet
<1>. QED  BY <1>2, <1>3

LEMMA ValidateTouches ==
  ASSUME IInv, NEW c \in Caller, Validate(c)
  PROVE  LET e == caller[c].ptr IN
         /\ Touches(e) /\ entry[e].state = "ready" /\ entry'[e].state = "ready"
         /\ entry'[e].refs = entry[e].refs + 1
         /\ entry'[e].client = entry[e].client /\ entry'[e].pendingKill = entry[e].pendingKill
<1>. DEFINE e == caller[c].ptr
<1>1. e \in Made /\ e \in Entry /\ entry \in [Entry -> EntryRecord]
  BY MadeFinite DEF IInv, TypeOK, Validate
<1>2. entry' = [entry EXCEPT ![e].refs = @ + 1] /\ entry[e].state = "ready"
  BY DEF Validate
<1>. HIDE DEF e
<1>3. entry[e] \in EntryRecord
  BY <1>1
<1>4. [entry[e] EXCEPT !.refs = @ + 1] \in EntryRecord
  BY <1>3 DEF EntryRecord
<1>. QED  BY <1>1, <1>2, <1>3, <1>4 DEF Touches, OnlyEntry, EntryRecord, e

LEMMA ReleaseTouches ==
  ASSUME IInv, NEW c \in Caller, ReleaseOne(c), acquired[c] # <<>>
  PROVE  LET e == Released(c) IN
         /\ Touches(e) /\ entry'[e].state = entry[e].state
         /\ entry'[e].refs = entry[e].refs - 1 /\ entry[e].refs \in Nat \ {0}
         /\ entry'[e].client = (entry[e].client /\ ~Drains(e))
         /\ entry'[e].pendingKill = (entry[e].pendingKill /\ ~Drains(e))
<1>. DEFINE e == Released(c)
            new == [entry[e] EXCEPT !.refs = @ - 1, !.client = @ /\ ~Drains(e),
                                    !.pendingKill = @ /\ ~Drains(e)]
<1>1. e \in Made /\ e \in Entry /\ entry \in [Entry -> EntryRecord]
  BY HeadIsMade DEF IInv, TypeOK
<1>2. entry' = [entry EXCEPT ![e].refs = @ - 1, ![e].client = @ /\ ~Drains(e),
                             ![e].pendingKill = @ /\ ~Drains(e)]
  BY DEF ReleaseOne
<1>3. entry[e].refs \in Nat \ {0}
  BY HeldIsCounted DEF IInv, CountsAreExact
<1>4. entry[e].state # "unused"
  BY <1>1 DEF Made
<1>. HIDE DEF e
<1>5. entry[e] \in EntryRecord /\ Drains(e) \in BOOLEAN
  BY <1>1 DEF Drains
<1>6. new \in EntryRecord
  <2>1. /\ entry[e].refs - 1 \in Nat /\ (entry[e].client /\ ~Drains(e)) \in BOOLEAN
        /\ (entry[e].pendingKill /\ ~Drains(e)) \in BOOLEAN
    BY <1>3
  <2>. QED  BY <1>5, <2>1 DEF EntryRecord
<1>7. entry' = [entry EXCEPT ![e] = new]
  BY <1>1, <1>2, <1>5 DEF EntryRecord
<1>8. /\ new.plugin = entry[e].plugin /\ new.version = entry[e].version
      /\ new.state = entry[e].state /\ new.refs = entry[e].refs - 1
      /\ new.client = (entry[e].client /\ ~Drains(e))
      /\ new.pendingKill = (entry[e].pendingKill /\ ~Drains(e))
  BY <1>5 DEF EntryRecord
<1>. HIDE DEF new
<1>9. entry'[e] = new /\ OnlyEntry(e) /\ entry' \in [Entry -> EntryRecord]
  BY <1>1, <1>6, <1>7 DEF OnlyEntry
<1>. QED  BY <1>1, <1>3, <1>4, <1>8, <1>9 DEF Touches, e

LEMMA SpawnFailsTouches ==
  ASSUME IInv, NEW e \in Entry, spawner[e].pc \in Spawns, SpawnFails(e)
  PROVE  /\ Touches(e) /\ entry[e].state = "starting" /\ entry'[e].state = "dead"
         /\ entry'[e].refs = entry[e].refs
         /\ entry'[e].client = entry[e].client /\ entry'[e].pendingKill = entry[e].pendingKill
         /\ OnlySpawner(e) /\ spawner' \in [Entry -> SpawnerRecord]
         /\ spawner'[e].pc = "done" /\ ~spawner'[e].pin
         /\ pins' = Unpinned(e)
<1>1. entry[e].state = "starting" /\ e \in Made
  BY DEF IInv, EntryInv, Made
<1>2. entry \in [Entry -> EntryRecord] /\ spawner \in [Entry -> SpawnerRecord]
  BY DEF IInv, TypeOK
<1>3. entry' = [entry EXCEPT ![e].state = "dead"]
  BY DEF SpawnFails
<1>4. spawner' = [spawner EXCEPT ![e].pc = "done", ![e].pin = FALSE]
  BY DEF SpawnFails, SpawnerDone
<1>5. Touches(e) /\ entry'[e].state = "dead" /\ entry'[e].refs = entry[e].refs
      /\ entry'[e].client = entry[e].client /\ entry'[e].pendingKill = entry[e].pendingKill
  <2>1. entry[e] \in EntryRecord /\ [entry[e] EXCEPT !.state = "dead"] \in EntryRecord
    BY <1>2 DEF EntryRecord
  <2>. QED  BY <1>1, <1>2, <1>3, <2>1 DEF Touches, OnlyEntry, EntryRecord
<1>6. /\ OnlySpawner(e) /\ spawner' \in [Entry -> SpawnerRecord]
      /\ spawner'[e].pc = "done" /\ ~spawner'[e].pin
  BY <1>2, <1>4 DEF OnlySpawner, SpawnerRecord
<1>. QED  BY <1>1, <1>5, <1>6 DEF SpawnFails

LEMMA PublishTouches ==
  ASSUME IInv, NEW e \in Entry, Publish(e)
  PROVE  /\ Touches(e) /\ entry[e].state = "starting" /\ entry'[e].state = "ready"
         /\ entry'[e].refs = entry[e].refs /\ entry'[e].pendingKill = entry[e].pendingKill
         /\ OnlySpawner(e) /\ spawner' \in [Entry -> SpawnerRecord]
         /\ spawner'[e].pc = "done" /\ ~spawner'[e].pin
         /\ pins' = Unpinned(e)
<1>1. entry[e].state = "starting" /\ e \in Made
  BY DEF IInv, EntryInv, Made, Publish, Spawns
<1>2. entry \in [Entry -> EntryRecord] /\ spawner \in [Entry -> SpawnerRecord]
  BY DEF IInv, TypeOK
<1>3. entry' = [entry EXCEPT ![e].state = "ready", ![e].client = TRUE,
                            ![e].provider = spawner[e].registered]
  BY DEF Publish
<1>4. spawner' = [[spawner EXCEPT ![e].pc = "done", ![e].pin = FALSE]
                    EXCEPT ![e].registered = FALSE]
  BY DEF Publish, SpawnerDone
<1>5. /\ Touches(e) /\ entry'[e].state = "ready" /\ entry'[e].refs = entry[e].refs
      /\ entry'[e].pendingKill = entry[e].pendingKill
  <2>. DEFINE new == [entry[e] EXCEPT !.state = "ready", !.client = TRUE,
                                      !.provider = spawner[e].registered]
  <2>1. entry[e] \in EntryRecord /\ spawner[e].registered \in BOOLEAN
    BY <1>2 DEF SpawnerRecord
  <2>2. new \in EntryRecord
    BY <2>1 DEF EntryRecord
  <2>3. entry' = [entry EXCEPT ![e] = new]
    BY <1>2, <1>3
  <2>4. /\ new.plugin = entry[e].plugin /\ new.version = entry[e].version
        /\ new.state = "ready" /\ new.refs = entry[e].refs
        /\ new.pendingKill = entry[e].pendingKill
    BY <2>1 DEF EntryRecord
  <2>. HIDE DEF new
  <2>. QED  BY <1>1, <1>2, <2>2, <2>3, <2>4 DEF Touches, OnlyEntry
<1>6. /\ OnlySpawner(e) /\ spawner' \in [Entry -> SpawnerRecord]
      /\ spawner'[e].pc = "done" /\ ~spawner'[e].pin
  BY <1>2, <1>4 DEF OnlySpawner, SpawnerRecord
<1>7. pins' = Unpinned(e)
  BY DEF Publish
<1>. QED  BY <1>1, <1>5, <1>6, <1>7

LEMMA TeardownTouches ==
  ASSUME IInv, NEW w \in Worker, NEW e \in Made, TeardownEntry(w, e)
  PROVE  /\ Touches(e) /\ entry'[e].state = entry[e].state /\ entry'[e].refs = entry[e].refs
         /\ entry'[e].client = Deferred(e)
         /\ entry'[e].pendingKill = (entry[e].pendingKill \/ Deferred(e))
         /\ teardown' \in [Worker -> TeardownRecord]
<1>. DEFINE new == [entry[e] EXCEPT !.provider = FALSE, !.pendingKill = @ \/ Deferred(e),
                                    !.client = Deferred(e)]
            td == [unregister |-> IF entry[e].provider THEN Key(e) ELSE None,
                   kill |-> IF entry[e].client /\ ~Deferred(e) THEN e ELSE None]
<1>1. e \in Entry /\ entry \in [Entry -> EntryRecord] /\ teardown \in [Worker -> TeardownRecord]
      /\ Key(e) \in Artifact /\ entry[e].state # "unused"
  BY MadeFinite DEF IInv, TypeOK, Made
<1>2. entry[e] \in EntryRecord /\ Deferred(e) \in BOOLEAN
  BY <1>1 DEF Deferred
<1>3. new \in EntryRecord
  BY <1>2 DEF EntryRecord
<1>4. entry' = [entry EXCEPT ![e] = new] /\ teardown' = [teardown EXCEPT ![w] = td]
  BY <1>1 DEF TeardownEntry
<1>5. /\ new.plugin = entry[e].plugin /\ new.version = entry[e].version
      /\ new.state = entry[e].state /\ new.refs = entry[e].refs
      /\ new.client = Deferred(e)
      /\ new.pendingKill = (entry[e].pendingKill \/ Deferred(e))
  BY <1>2 DEF EntryRecord
<1>6. td \in TeardownRecord
  BY <1>1 DEF TeardownRecord
<1>. HIDE DEF new, td
<1>7. entry'[e] = new /\ OnlyEntry(e) /\ entry' \in [Entry -> EntryRecord]
  BY <1>1, <1>3, <1>4 DEF OnlyEntry
<1>. QED  BY <1>1, <1>4, <1>5, <1>6, <1>7 DEF Touches

LEMMA ShutdownTouches ==
  ASSUME IInv, ShutdownTeardown
  PROVE  \E e \in victims["shutdown"] :
         /\ Touches(e) /\ entry'[e].state = entry[e].state /\ entry'[e].refs = entry[e].refs
         /\ ~entry'[e].client /\ entry'[e].pendingKill = entry[e].pendingKill
         /\ teardown' \in [Worker -> TeardownRecord]
         /\ victims' = [victims EXCEPT !["shutdown"] = @ \ {e}]
<1>1. PICK e \in victims["shutdown"] :
       /\ entry' = [entry EXCEPT ![e].provider = FALSE, ![e].client = FALSE]
       /\ teardown' = [teardown EXCEPT !["shutdown"] =
                         [unregister |-> IF entry[e].provider THEN Key(e) ELSE None,
                          kill |-> IF entry[e].client THEN e ELSE None]]
       /\ victims' = [victims EXCEPT !["shutdown"] = @ \ {e}]
  BY DEF ShutdownTeardown
<1>. DEFINE new == [entry[e] EXCEPT !.provider = FALSE, !.client = FALSE]
            td == [unregister |-> IF entry[e].provider THEN Key(e) ELSE None,
                   kill |-> IF entry[e].client THEN e ELSE None]
<1>2. e \in Made
  BY DEF IInv, TypeOK
<1>3. e \in Entry /\ entry \in [Entry -> EntryRecord] /\ teardown \in [Worker -> TeardownRecord]
      /\ Key(e) \in Artifact /\ entry[e].state # "unused"
  BY <1>2, MadeFinite DEF IInv, TypeOK, Made
<1>4. entry[e] \in EntryRecord /\ new \in EntryRecord
  BY <1>3 DEF EntryRecord
<1>5. entry' = [entry EXCEPT ![e] = new] /\ teardown' = [teardown EXCEPT !["shutdown"] = td]
  BY <1>1, <1>3
<1>6. /\ new.plugin = entry[e].plugin /\ new.version = entry[e].version
      /\ new.state = entry[e].state /\ new.refs = entry[e].refs
      /\ ~new.client /\ new.pendingKill = entry[e].pendingKill
  BY <1>4 DEF EntryRecord
<1>7. td \in TeardownRecord
  BY <1>3 DEF TeardownRecord
<1>. HIDE DEF new, td
<1>8. entry'[e] = new /\ OnlyEntry(e) /\ entry' \in [Entry -> EntryRecord]
  BY <1>3, <1>4, <1>5 DEF OnlyEntry
<1>9. Touches(e)
  BY <1>2, <1>3, <1>6, <1>8 DEF Touches
<1>10. teardown' \in [Worker -> TeardownRecord]
  BY <1>3, <1>5, <1>7 DEF Worker
<1>. QED  BY <1>1, <1>6, <1>8, <1>9, <1>10

-----------------------------------------------------------------------------
(* Index, store and capacity. *)

ShapeInv ==
  /\ index \in [Plugin -> Seq(Version)] /\ store \in [Artifact -> Entry \cup {None}]
  /\ IndexMatchesStore /\ WithinCapacity /\ StoreInv /\ CapacityInv

\* What is taken out of the store makes room.
LEMMA FewerStored ==
  ASSUME CapacityInv, WithinCapacity, Keeps, Stored' \subseteq Stored
  PROVE  CapacityInv' /\ WithinCapacity'
<1>1. IsFiniteSet(Stored) /\ Cardinality(Stored) \in Nat /\ Cardinality(Stored) <= Cardinality(Made)
  BY FS_CardinalityType DEF CapacityInv
<1>2. IsFiniteSet(Stored') /\ Cardinality(Stored') \in Nat
      /\ Cardinality(Stored') <= Cardinality(Stored)
  BY <1>1, FS_Subset, FS_CardinalityType
<1>3. Cardinality(Made) \in Nat /\ Cardinality(Made') = Cardinality(Made)
  BY MadeFinite, KeepsMade
<1>4. MaxPlugins \in Nat /\ Len(Preloaded) \in Nat
  BY VersionPoolAssumption
<1>. QED  BY <1>1, <1>2, <1>3, <1>4 DEF CapacityInv, WithinCapacity

LEMMA ShapeKept ==
  ASSUME ShapeInv, Keeps, UNCHANGED <<index, store>>
  PROVE  ShapeInv'
<1>1. Stored' = Stored
  BY DEF Stored
<1>2. CapacityInv' /\ WithinCapacity'
  BY <1>1, FewerStored DEF ShapeInv
<1>3. StoreInv'
  <2>1. ASSUME NEW a \in Artifact, store[a] # None
        PROVE  store[a] \in Made' /\ Key(store[a])' = a
    <3>1. store[a] \in Entry /\ store[a] \in Made /\ Key(store[a]) = a
      BY <2>1, MadeFinite DEF ShapeInv, StoreInv
    <3>2. \A f \in Entry : Key(f)' = Key(f) /\ (f \in Made' <=> f \in Made)
      BY DEF Keeps
    <3>3. Key(store[a])' = <<entry'[store[a]].plugin, entry'[store[a]].version>>
      BY DEF Key
    <3>. QED  BY <3>1, <3>2, <3>3 DEF Key
  <2>. QED  BY <2>1 DEF StoreInv, Key
<1>. QED  BY <1>2, <1>3 DEF ShapeInv, IndexMatchesStore

\* A store of which entries were taken out, and nothing put in.
LEMMA StoreShrinks ==
  ASSUME ShapeInv, Keeps, NEW gone,
         store' = [a \in Artifact |-> IF a \in gone THEN None ELSE store[a]]
  PROVE  /\ store' \in [Artifact -> Entry \cup {None}]
         /\ StoreInv' /\ CapacityInv' /\ WithinCapacity'
<1>1. store' \in [Artifact -> Entry \cup {None}]
  BY DEF ShapeInv
<1>2. Stored' \subseteq Stored
  BY DEF Stored
<1>3. StoreInv'
  <2>1. ASSUME NEW a \in Artifact, store'[a] # None
        PROVE  store'[a] \in Made' /\ KeyAfter(store'[a]) = a
    <3>1. store'[a] = store[a] /\ store[a] \in Made /\ Key(store[a]) = a /\ store[a] \in Entry
      BY <2>1, MadeFinite DEF ShapeInv, StoreInv
    <3>2. \A f \in Entry : Key(f)' = Key(f) /\ (f \in Made' <=> f \in Made)
      BY DEF Keeps
    <3>3. Key(store[a]) = KeyAfter(store[a])
      BY <3>1, <3>2 DEF Key, KeyAfter
    <3>. QED  BY <3>1, <3>2, <3>3
  <2>. QED  BY <2>1 DEF StoreInv, Key, KeyAfter
<1>. QED  BY <1>1, <1>2, <1>3, FewerStored DEF ShapeInv

LEMMA ShapeForget ==
  ASSUME ShapeInv, Keeps, NEW p \in Plugin, NEW v \in Version, Forget(p, v)
  PROVE  ShapeInv'
<1>1. /\ index' = [index EXCEPT ![p] = DeleteVersion(@, v)]
      /\ store' = [store EXCEPT ![<<p, v>>] = None]
      /\ index \in [Plugin -> Seq(Version)] /\ store \in [Artifact -> Entry \cup {None}]
  BY DEF Forget, ShapeInv
<1>2. store' = [a \in Artifact |-> IF a \in {<<p, v>>} THEN None ELSE store[a]]
  BY <1>1
<1>3. /\ store' \in [Artifact -> Entry \cup {None}]
      /\ StoreInv' /\ CapacityInv' /\ WithinCapacity'
  BY <1>2, StoreShrinks
<1>4. index[p] \in Seq(Version) /\ Descending(index[p])
      /\ Range(index[p]) = {w \in Version : store[<<p, w>>] # None}
  BY <1>1 DEF ShapeInv, IndexMatchesStore
<1>5. /\ DeleteVersion(index[p], v) \in Seq(Version) /\ Descending(DeleteVersion(index[p], v))
      /\ Range(DeleteVersion(index[p], v)) = Range(index[p]) \ {v}
  BY <1>4, DeleteVersionKeepsOrder
<1>6. index' \in [Plugin -> Seq(Version)]
  BY <1>1, <1>5
<1>7. IndexMatchesStore'
  <2>1. SUFFICES ASSUME NEW q \in Plugin
                 PROVE  /\ Range(index'[q]) = {w \in Version : store'[<<q, w>>] # None}
                        /\ Descending(index'[q])
    BY DEF IndexMatchesStore, Descending, Range
  <2>2. CASE q = p
    <3>1. index'[p] = DeleteVersion(index[p], v)
      BY <1>1
    <3>2. \A w \in Version : store'[<<p, w>>] # None <=> (w # v /\ store[<<p, w>>] # None)
      BY <1>2 DEF Artifact
    <3>3. Range(index'[p]) = {w \in Version : store'[<<p, w>>] # None}
      BY <1>4, <1>5, <3>1, <3>2
    <3>. QED  BY <1>5, <2>2, <3>1, <3>3
  <2>3. CASE q # p
    <3>1. index'[q] = index[q]
      BY <1>1, <2>3
    <3>2. \A w \in Version : store'[<<q, w>>] = store[<<q, w>>]
      BY <1>2, <2>3 DEF Artifact
    <3>. QED  BY <3>1, <3>2 DEF ShapeInv, IndexMatchesStore
  <2>. QED  BY <2>2, <2>3
<1>. QED  BY <1>3, <1>6, <1>7 DEF ShapeInv

LEMMA ShapeEvict ==
  ASSUME ShapeInv, Evict
  PROVE  ShapeInv'
<1>0. Keeps
  BY UnchangedKeeps DEF Evict
<1>1. PICK chosen \in SUBSET Stored :
        /\ store' = [a \in Artifact |-> IF a \in chosen THEN None ELSE store[a]]
        /\ index' = [p \in Plugin |-> InOrder({v \in Range(index[p]) : <<p, v>> \notin chosen})]
  BY DEF Evict
<1>2. /\ store' \in [Artifact -> Entry \cup {None}]
      /\ StoreInv' /\ CapacityInv' /\ WithinCapacity'
  BY <1>0, <1>1, StoreShrinks
<1>3. ASSUME NEW p \in Plugin
      PROVE  /\ index'[p] \in Seq(Version) /\ Descending(index'[p])
             /\ Range(index'[p]) = {v \in Version : store'[<<p, v>>] # None}
  <2>. DEFINE left == {v \in Range(index[p]) : <<p, v>> \notin chosen}
  <2>1. /\ index[p] \in Seq(Version) /\ Descending(index[p])
        /\ Range(index[p]) = {w \in Version : store[<<p, w>>] # None}
    BY DEF ShapeInv, IndexMatchesStore
  <2>2. IsFiniteSet(Range(index[p]))
    BY <2>1, OrderIsTight
  <2>3. left \in SUBSET Version /\ left \subseteq Range(index[p])
    BY <2>1
  <2>4. IsFiniteSet(left)
    <3>. HIDE DEF left
    <3>. QED  BY <2>2, <2>3, FS_Subset
  <2>5. index'[p] = InOrder(left)
    BY <1>1
  <2>6. index'[p] \in Seq(Version) /\ Descending(index'[p]) /\ Range(index'[p]) = left
    <3>. HIDE DEF left
    <3>. QED  BY <2>3, <2>4, <2>5, InOrderIsOrder
  <2>7. \A w \in Version : store'[<<p, w>>] # None <=> w \in left
    BY <1>1, <2>1 DEF Artifact
  <2>. QED  BY <2>3, <2>6, <2>7
<1>4. index' \in [Plugin -> Seq(Version)]
  BY <1>1, <1>3
<1>. QED  BY <1>2, <1>3, <1>4 DEF ShapeInv, IndexMatchesStore

LEMMA ShapeClose ==
  ASSUME ShapeInv, ClosePool
  PROVE  ShapeInv'
<1>0. Keeps
  BY UnchangedKeeps DEF ClosePool
<1>1. index' = [p \in Plugin |-> <<>>] /\ store' = [a \in Artifact |-> None]
  BY DEF ClosePool
<1>2. store' = [a \in Artifact |-> IF a \in Artifact THEN None ELSE store[a]]
  BY <1>1
<1>3. /\ store' \in [Artifact -> Entry \cup {None}]
      /\ StoreInv' /\ CapacityInv' /\ WithinCapacity'
  BY <1>0, <1>2, StoreShrinks
<1>4. index' \in [Plugin -> Seq(Version)]
  BY <1>1
<1>5. IndexMatchesStore'
  BY <1>1 DEF IndexMatchesStore, Descending, Range, Artifact
<1>. QED  BY <1>3, <1>4, <1>5 DEF ShapeInv

LEMMA ShapeMakes ==
  ASSUME IInv, NEW e, NEW p, NEW v, Makes(e, p, v)
  PROVE  ShapeInv'
<1>0. /\ p \in Plugin /\ v \in Version /\ store[<<p, v>>] = None /\ e \in Entry /\ e = Fresh
      /\ index' = [index EXCEPT ![p] = AddVersion(@, v)]
      /\ store' = [store EXCEPT ![<<p, v>>] = e]
      /\ index \in [Plugin -> Seq(Version)] /\ store \in [Artifact -> Entry \cup {None}]
  BY DEF Makes, Insert, IInv, TypeOK
<1>1. <<p, v>> \in Artifact
  BY <1>0 DEF Artifact
<1>2. store' \in [Artifact -> Entry \cup {None}]
  BY <1>0
<1>3. /\ Made' = Made \cup {e} /\ Cardinality(Made') = Cardinality(Made) + 1
      /\ Key(e)' = <<p, v>>
      /\ \A f \in Entry : f # e => Key(f)' = Key(f)
      /\ \A f \in Made : f # e
  BY MadeGrows
<1>4. StoreInv'
  <2>1. ASSUME NEW a \in Artifact, store'[a] # None
        PROVE  store'[a] \in Made' /\ KeyAfter(store'[a]) = a
    <3>1. CASE a = <<p, v>>
      <4>1. store'[a] = e /\ KeyAfter(e) = <<p, v>>
        BY <1>0, <1>1, <1>3, <3>1 DEF Key, KeyAfter
      <4>. QED  BY <1>3, <3>1, <4>1
    <3>2. CASE a # <<p, v>>
      <4>1. store'[a] = store[a] /\ store[a] \in Made /\ Key(store[a]) = a /\ store[a] \in Entry
        BY <1>0, <2>1, <3>2, MadeFinite DEF IInv, StoreInv
      <4>2. KeyAfter(store[a]) = a
        BY <1>3, <4>1 DEF Key, KeyAfter
      <4>. QED  BY <1>3, <4>1, <4>2
    <3>. QED  BY <3>1, <3>2
  <2>. QED  BY <2>1 DEF StoreInv, Key, KeyAfter
<1>5. /\ Stored' = Stored \cup {<<p, v>>} /\ IsFiniteSet(Stored) /\ <<p, v>> \notin Stored
  BY <1>0, <1>1, Nones DEF Stored, IInv, CapacityInv
<1>6. IsFiniteSet(Stored') /\ Cardinality(Stored') = Cardinality(Stored) + 1
  BY <1>5, FS_AddElement
<1>7. /\ Cardinality(Stored) \in Nat /\ Cardinality(Made) \in Nat
      /\ Cardinality(Stored) <= Cardinality(Made)
      /\ MaxPlugins \in Nat /\ Len(Preloaded) \in Nat
  BY <1>5, MadeFinite, FS_CardinalityType, VersionPoolAssumption DEF IInv, CapacityInv
<1>8. CapacityInv'
  BY <1>3, <1>6, <1>7 DEF CapacityInv
<1>9. WithinCapacity'
  <2>1. (MaxPlugins > 0 => Cardinality(Stored) < MaxPlugins) \/ Cardinality(Made) + 1 <= Len(Preloaded)
    BY DEF Makes, Fresh
  <2>. QED  BY <1>6, <1>7, <2>1 DEF WithinCapacity
<1>10. index[p] \in Seq(Version) /\ Descending(index[p])
      /\ Range(index[p]) = {w \in Version : store[<<p, w>>] # None}
  BY <1>0 DEF IInv, PoolIsConsistent, IndexMatchesStore
<1>11. /\ AddVersion(index[p], v) \in Seq(Version) /\ Descending(AddVersion(index[p], v))
       /\ Range(AddVersion(index[p], v)) = Range(index[p]) \cup {v}
  BY <1>0, <1>10, AddVersionKeepsOrder
<1>12. index' \in [Plugin -> Seq(Version)]
  BY <1>0, <1>11
<1>13. IndexMatchesStore'
  <2>1. SUFFICES ASSUME NEW q \in Plugin
                 PROVE  /\ Range(index'[q]) = {w \in Version : store'[<<q, w>>] # None}
                        /\ Descending(index'[q])
    BY DEF IndexMatchesStore, Descending, Range
  <2>2. CASE q = p
    <3>1. index'[p] = AddVersion(index[p], v)
      BY <1>0
    <3>2. \A w \in Version : store'[<<p, w>>] # None <=> (w = v \/ store[<<p, w>>] # None)
      BY <1>0, <1>1, Nones DEF Artifact
    <3>3. Range(index'[p]) = {w \in Version : store'[<<p, w>>] # None}
      BY <1>0, <1>10, <1>11, <3>1, <3>2
    <3>. QED  BY <1>11, <2>2, <3>1, <3>3
  <2>3. CASE q # p
    <3>1. index'[q] = index[q]
      BY <1>0, <2>3
    <3>2. \A w \in Version : store'[<<q, w>>] = store[<<q, w>>]
      BY <1>0, <2>3 DEF Artifact
    <3>. QED  BY <3>1, <3>2 DEF IInv, PoolIsConsistent, IndexMatchesStore
  <2>. QED  BY <2>2, <2>3
<1>. QED  BY <1>2, <1>4, <1>8, <1>9, <1>12, <1>13 DEF ShapeInv

-----------------------------------------------------------------------------
(* The steps. *)

Quiet(c) ==
  Begin(c) \/ Reject(c) \/ ResolveLatest(c) \/ LookUp(c) \/ Fetch(c) \/ Redundant(c)

Creates == Adopt \/ \E c \in Caller : LoadVersion(c) \/ Commit(c)

Spawner(e) == FetchBinary(e) \/ StartProcess(e) \/ RegisterProvider(e) \/ Publish(e)

LEMMA NextCases ==
  ASSUME [Next]_vars
  PROVE  \/ Creates
         \/ \E c \in Caller :
              Quiet(c) \/ Validate(c) \/ ReleaseOne(c) \/ Abandon(c) \/ CallerTeardown(c)
         \/ \E e \in Entry : Spawner(e)
         \/ \E w \in Worker : FinishTeardown(w)
         \/ Evict \/ EvictorTeardown \/ CancelContext \/ ClosePool \/ ShutdownTeardown
         \/ UNCHANGED vars
BY DEF Next, Creates, Quiet, Spawner

LEMMA CreatesMakes ==
  ASSUME IInv, Creates
  PROVE  \E e, p, v : Makes(e, p, v)
<1>1. CASE Adopt
  BY <1>1, AdoptMakes
<1>2. ASSUME NEW c \in Caller, LoadVersion(c)
      PROVE  \E e, p, v : Makes(e, p, v)
  BY <1>2, LoadVersionMakes
<1>3. ASSUME NEW c \in Caller, Commit(c)
      PROVE  \E e, p, v : Makes(e, p, v)
  BY <1>3, CommitMakes
<1>. QED  BY <1>1, <1>2, <1>3 DEF Creates

LEMMA QuietIs ==
  ASSUME NEW c \in Caller, Quiet(c)
  PROVE  UNCHANGED <<closed, cancelled, index, store, entry, process, spawner, registry,
                     acquired, teardown, victims, displaced>>
BY DEF Quiet, Begin, Reject, ResolveLatest, LookUp, Fetch, Redundant

LEMMA SpawnerIs ==
  ASSUME IInv, NEW e \in Entry, Spawner(e)
  PROVE  /\ entry' = entry \/ (Touches(e) /\ entry'[e].refs = entry[e].refs
                                /\ entry'[e].pendingKill = entry[e].pendingKill
                                /\ entry[e].state = "starting")
         /\ OnlySpawner(e) /\ spawner' \in [Entry -> SpawnerRecord]
         /\ spawner[e].pc \in Spawns
         /\ UNCHANGED <<closed, cancelled, index, store, caller, acquired, served, teardown,
                        victims, displaced>>
<1>0. spawner \in [Entry -> SpawnerRecord] /\ spawner[e] \in SpawnerRecord
  BY DEF IInv, TypeOK
<1>1. CASE FetchBinary(e)
  <2>1. CASE SpawnFails(e)
    BY <1>1, <2>1, SpawnFailsTouches DEF FetchBinary, Spawns
  <2>2. CASE ~SpawnFails(e)
    BY <1>0, <1>1, <2>2 DEF FetchBinary, Spawns, OnlySpawner, SpawnerRecord
  <2>. QED  BY <2>1, <2>2
<1>2. CASE StartProcess(e)
  <2>1. CASE SpawnFails(e)
    BY <1>2, <2>1, SpawnFailsTouches DEF StartProcess, Spawns
  <2>2. CASE ~SpawnFails(e)
    BY <1>0, <1>2, <2>2 DEF StartProcess, SpawnerAt, Spawns, OnlySpawner, SpawnerRecord
  <2>. QED  BY <2>1, <2>2
<1>3. CASE RegisterProvider(e)
  BY <1>0, <1>3 DEF RegisterProvider, SpawnerAt, Spawns, OnlySpawner, SpawnerRecord
<1>4. CASE Publish(e)
  BY <1>4, PublishTouches DEF Publish, Spawns
<1>. QED  BY <1>1, <1>2, <1>3, <1>4 DEF Spawner

LEMMA AbandonKey ==
  ASSUME IInv, NEW c \in Caller, Abandon(c)
  PROVE  /\ caller[c].ptr \in Made /\ caller[c].ptr \in Entry
         /\ entry[caller[c].ptr].plugin \in Plugin /\ entry[caller[c].ptr].version \in Version
         /\ Key(caller[c].ptr) \in Artifact
<1>1. caller[c].ptr \in Made
  BY DEF IInv, TypeOK, Abandon
<1>. QED  BY <1>1, MadeFinite DEF IInv, TypeOK, Key, Artifact

\* A step that makes no entry leaves index and store, or takes out of them.
LEMMA KeepsStep ==
  ASSUME IInv, [Next]_vars, ~Creates
  PROVE  /\ Keeps
         /\ \/ UNCHANGED <<index, store>>
            \/ \E p \in Plugin, v \in Version : Forget(p, v)
            \/ Evict \/ ClosePool
<1>1. CASE \E c \in Caller : Quiet(c)
  BY <1>1, QuietIs, UnchangedKeeps
<1>2. ASSUME NEW c \in Caller, Validate(c)
      PROVE  Keeps /\ UNCHANGED <<index, store>>
  BY <1>2, ValidateTouches, TouchesKeeps DEF Validate
<1>3. ASSUME NEW c \in Caller, ReleaseOne(c)
      PROVE  Keeps /\ UNCHANGED <<index, store>>
  BY <1>3, ReleaseTouches, TouchesKeeps, UnchangedKeeps DEF ReleaseOne
<1>4. ASSUME NEW c \in Caller, Abandon(c)
      PROVE  Keeps /\ (UNCHANGED <<index, store>> \/ \E p \in Plugin, v \in Version : Forget(p, v))
  BY <1>4, AbandonKey, UnchangedKeeps DEF Abandon
<1>5. ASSUME NEW c \in Caller, CallerTeardown(c)
      PROVE  Keeps /\ UNCHANGED <<index, store>>
  <2>1. caller[c].ptr \in Made /\ c \in Worker
    BY <1>5 DEF CallerTeardown, IInv, TypeOK, Worker
  <2>. QED  BY <1>5, <2>1, TeardownTouches, TouchesKeeps DEF CallerTeardown
<1>6. ASSUME NEW e \in Entry, Spawner(e)
      PROVE  Keeps /\ UNCHANGED <<index, store>>
  BY <1>6, SpawnerIs, TouchesKeeps, UnchangedKeeps
<1>7. CASE \E w \in Worker : FinishTeardown(w)
  BY <1>7, UnchangedKeeps DEF FinishTeardown
<1>8. CASE EvictorTeardown
  <2>1. PICK e \in victims["evictor"] : TeardownEntry("evictor", e)
    BY <1>8 DEF EvictorTeardown
  <2>2. e \in Made /\ "evictor" \in Worker
    BY DEF IInv, TypeOK, Worker
  <2>. QED  BY <1>8, <2>1, <2>2, TeardownTouches, TouchesKeeps DEF EvictorTeardown
<1>9. CASE ShutdownTeardown
  BY <1>9, ShutdownTouches, TouchesKeeps DEF ShutdownTeardown
<1>10. CASE Evict \/ ClosePool
  BY <1>10, UnchangedKeeps DEF Evict, ClosePool
<1>11. CASE CancelContext \/ UNCHANGED vars
  BY <1>11, UnchangedKeeps DEF CancelContext, vars
<1>. QED  BY <1>1, <1>2, <1>3, <1>4, <1>5, <1>6, <1>7, <1>8, <1>9, <1>10, <1>11, NextCases

LEMMA ShapeStep ==
  ASSUME IInv, [Next]_vars
  PROVE  ShapeInv'
<1>0. ShapeInv
  BY DEF IInv, ShapeInv, TypeOK, PoolIsConsistent
<1>1. CASE Creates
  BY <1>1, CreatesMakes, ShapeMakes
<1>2. CASE ~Creates
  BY <1>0, <1>2, KeepsStep, ShapeKept, ShapeForget, ShapeEvict, ShapeClose
<1>. QED  BY <1>1, <1>2

\* What was made stays made, under its key.
LEMMA MadeStays ==
  ASSUME IInv, [Next]_vars
  PROVE  /\ Made \subseteq Made' /\ Cardinality(Made) <= Cardinality(Made')
         /\ \A f \in Made : Key(f)' = Key(f)
<1>1. CASE Creates
  <2>1. PICK e, p, v : Makes(e, p, v)
    BY <1>1, CreatesMakes
  <2>2. /\ Made' = Made \cup {e} /\ Cardinality(Made') = Cardinality(Made) + 1
        /\ \A f \in Entry : f # e => Key(f)' = Key(f)
        /\ \A f \in Made : f # e
    BY <2>1, MadeGrows
  <2>. QED  BY <2>2, MadeFinite
<1>2. CASE ~Creates
  BY <1>2, KeepsStep, KeepsMade, MadeFinite DEF Keeps
<1>. QED  BY <1>1, <1>2

-----------------------------------------------------------------------------
(* Requests. *)

CallerOK(c) ==
  /\ caller[c].at \in DOMAIN Wants[c]
  /\ (caller[c].ptr # None) <=> caller[c].pc \in {"wait", "teardown"}
  /\ caller[c].ptr # None => caller[c].ptr \in Made
  /\ caller[c].version # None => caller[c].pc \in {"look up", "fetch", "commit"}
  /\ caller[c].pc = "commit" => caller[c].version # None

CallersOK == caller \in [Caller -> CallerRecord] /\ \A c \in Caller : CallerOK(c)

\* Where a request may go.
Place(c, r) ==
  /\ r \in CallerRecord /\ r.at \in DOMAIN Wants[c]
  /\ (r.ptr # None) <=> r.pc \in {"wait", "teardown"}
  /\ r.ptr # None => r.ptr \in Made'
  /\ r.version # None => r.pc \in {"look up", "fetch", "commit"}
  /\ r.pc = "commit" => r.version # None

LEMMA CallerNow ==
  ASSUME IInv, NEW c \in Caller
  PROVE  caller \in [Caller -> CallerRecord] /\ caller[c] \in CallerRecord /\ CallerOK(c)
BY DEF IInv, TypeOK, CallerOK

LEMMA CallerMoves ==
  ASSUME IInv, [Next]_vars, NEW c \in Caller, NEW r, Place(c, r),
         caller' = [caller EXCEPT ![c] = r]
  PROVE  CallersOK' /\ caller'[c] = r /\ \A d \in Caller : d # c => caller'[d] = caller[d]
<1>1. caller \in [Caller -> CallerRecord] /\ \A d \in Caller : CallerOK(d)
  BY CallerNow
<1>2. caller'[c] = r /\ caller' \in [Caller -> CallerRecord]
      /\ \A d \in Caller : d # c => caller'[d] = caller[d]
  BY <1>1 DEF Place
<1>3. ASSUME NEW d \in Caller
      PROVE  CallerOK(d)'
  <2>1. CASE d = c
    BY <1>2, <2>1 DEF Place, CallerOK
  <2>2. CASE d # c
    BY <1>1, <1>2, <2>2, MadeStays DEF CallerOK
  <2>. QED  BY <2>1, <2>2
<1>. QED  BY <1>2, <1>3 DEF CallersOK

LEMMA CallersStay ==
  ASSUME IInv, [Next]_vars, caller' = caller
  PROVE  CallersOK'
<1>1. ASSUME NEW d \in Caller
      PROVE  CallerOK(d)'
  BY CallerNow, MadeStays DEF CallerOK
<1>2. caller \in [Caller -> CallerRecord]
  BY DEF IInv, TypeOK
<1>. QED  BY <1>1, <1>2 DEF CallersOK

\* Three ways to go on: elsewhere with no entry, to wait for one, to give up.
LEMMA GotoMoves ==
  ASSUME IInv, [Next]_vars, NEW c \in Caller, NEW loc \in {"release", "ensure", "fetch"},
         Goto(c, loc), caller[c].pc \in {"idle", "ensure", "look up", "using", "release"},
         loc # "fetch" => caller[c].pc # "look up"
  PROVE  CallersOK' /\ caller'[c].pc = loc /\ \A d \in Caller : d # c => caller'[d] = caller[d]
<1>. DEFINE r == [caller[c] EXCEPT !.pc = loc]
<1>1. caller' = [caller EXCEPT ![c] = r] /\ caller[c] \in CallerRecord /\ CallerOK(c)
  BY CallerNow DEF Goto
<1>2. /\ r \in CallerRecord /\ r.pc = loc /\ r.at = caller[c].at /\ r.ptr = caller[c].ptr
      /\ r.version = caller[c].version
  BY <1>1 DEF CallerRecord
<1>3. Place(c, r)
  BY <1>1, <1>2 DEF Place, CallerOK
<1>. HIDE DEF r
<1>. QED  BY <1>1, <1>2, <1>3, CallerMoves

LEMMA WaitMoves ==
  ASSUME IInv, [Next]_vars, NEW c \in Caller, NEW e \in Entry, e \in Made', WaitFor(c, e)
  PROVE  CallersOK' /\ caller'[c].pc = "wait" /\ \A d \in Caller : d # c => caller'[d] = caller[d]
<1>. DEFINE r == [caller[c] EXCEPT !.pc = "wait", !.ptr = e, !.version = None]
<1>1. caller \in [Caller -> CallerRecord] /\ caller[c] \in CallerRecord /\ CallerOK(c)
  BY CallerNow
<1>2. caller' = [caller EXCEPT ![c] = r]
  BY <1>1 DEF WaitFor
<1>3. /\ r \in CallerRecord /\ r.pc = "wait" /\ r.at = caller[c].at /\ r.ptr = e
      /\ r.version = None
  BY <1>1 DEF CallerRecord
<1>4. Place(c, r)
  BY <1>1, <1>3, Nones DEF Place, CallerOK
<1>. HIDE DEF r
<1>. QED  BY <1>2, <1>3, <1>4, CallerMoves

LEMMA FailsMoves ==
  ASSUME IInv, [Next]_vars, NEW c \in Caller, Fails(c)
  PROVE  CallersOK' /\ caller'[c].pc = "release"
         /\ \A d \in Caller : d # c => caller'[d] = caller[d]
<1>. DEFINE r == [caller[c] EXCEPT !.pc = "release", !.ptr = None, !.version = None]
<1>1. caller \in [Caller -> CallerRecord] /\ caller[c] \in CallerRecord /\ CallerOK(c)
  BY CallerNow
<1>2. caller' = [caller EXCEPT ![c] = r]
  BY <1>1 DEF Fails
<1>3. /\ r \in CallerRecord /\ r.pc = "release" /\ r.at = caller[c].at /\ r.ptr = None
      /\ r.version = None
  BY <1>1 DEF CallerRecord
<1>4. Place(c, r)
  BY <1>1, <1>3 DEF Place, CallerOK
<1>. HIDE DEF r
<1>. QED  BY <1>2, <1>3, <1>4, CallerMoves

\* A version resolved for a request that has no entry yet.
LEMMA ResolvedMoves ==
  ASSUME IInv, [Next]_vars, NEW c \in Caller, NEW v \in Version, NEW loc \in {"look up", "commit"},
         caller[c].pc \in {"ensure", "fetch"},
         caller' = [caller EXCEPT ![c].pc = loc, ![c].version = v]
  PROVE  CallersOK' /\ caller'[c].pc = loc /\ \A d \in Caller : d # c => caller'[d] = caller[d]
<1>. DEFINE r == [caller[c] EXCEPT !.pc = loc, !.version = v]
<1>1. caller \in [Caller -> CallerRecord] /\ caller[c] \in CallerRecord /\ CallerOK(c)
  BY CallerNow
<1>2. caller' = [caller EXCEPT ![c] = r]
  BY <1>1
<1>3. /\ r \in CallerRecord /\ r.pc = loc /\ r.at = caller[c].at /\ r.ptr = caller[c].ptr
      /\ r.version = v
  BY <1>1 DEF CallerRecord
<1>4. Place(c, r)
  BY <1>1, <1>3, Nones DEF Place, CallerOK
<1>. HIDE DEF r
<1>. QED  BY <1>2, <1>3, <1>4, CallerMoves

\* Only c moves, and not by taking up or leaving a fetched version.
Plain(c) ==
  /\ CallersOK' /\ \A d \in Caller : d # c => caller'[d] = caller[d]
  /\ caller[c].pc # "commit" /\ caller'[c].pc # "commit"

LEMMA QuietMoves ==
  ASSUME IInv, [Next]_vars, NEW c \in Caller, Quiet(c)
  PROVE  /\ CallersOK' /\ \A d \in Caller : d # c => caller'[d] = caller[d]
         /\ \/ /\ caller[c].pc # "commit" /\ caller'[c].pc # "commit" /\ pins' = pins
            \/ Fetch(c) /\ caller[c].pc = "fetch" /\ caller'[c].pc = "commit" /\ pins' = pins + 1
            \/ Redundant(c) /\ caller[c].pc = "commit" /\ caller'[c].pc # "commit"
               /\ pins' = pins - 1
<1>1. CASE Begin(c)
  <2>1. Admitted \in {"release", "ensure", "fetch"} /\ Admitted # "fetch"
    BY DEF Admitted
  <2>. QED  BY <1>1, <2>1, GotoMoves DEF Begin
<1>2. CASE Reject(c)
  BY <1>2, FailsMoves DEF Reject
<1>3. CASE ResolveLatest(c)
  <2>1. PICK v \in Resolvable(c) :
          caller' = [caller EXCEPT ![c].pc = "look up", ![c].version = v]
    BY <1>3 DEF ResolveLatest
  <2>2. v \in Version
    BY WantTypes DEF IInv
  <2>. QED  BY <1>3, <2>1, <2>2, ResolvedMoves DEF ResolveLatest
<1>4. CASE LookUp(c)
  <2>1. caller[c].pc \in {"look up", "ensure"} /\ pins' = pins
    BY <1>4 DEF LookUp, LookingUp
  <2>2. CASE InPool(c) # None /\ WaitFor(c, InPool(c))
    <3>1. InPool(c) \in Made /\ InPool(c) \in Entry
      BY <2>2, InPoolIsMade, MadeFinite DEF IInv, PoolIsConsistent
    <3>. QED  BY <2>1, <2>2, <3>1, WaitMoves, MadeStays
  <2>3. CASE Fails(c)
    BY <2>1, <2>3, FailsMoves
  <2>4. CASE Goto(c, "fetch")
    BY <2>1, <2>4, GotoMoves
  <2>. QED  BY <1>4, <2>2, <2>3, <2>4 DEF LookUp
<1>5. CASE Fetch(c)
  <2>1. caller[c].pc = "fetch"
    BY <1>5 DEF Fetch
  <2>2. CASE Fails(c) /\ UNCHANGED pins
    BY <2>1, <2>2, FailsMoves
  <2>3. CASE /\ \E v \in Resolvable(c) :
                  caller' = [caller EXCEPT ![c].pc = "commit", ![c].version = v]
             /\ pins' = pins + 1
    <3>1. PICK v \in Resolvable(c) :
            caller' = [caller EXCEPT ![c].pc = "commit", ![c].version = v]
      BY <2>3
    <3>2. v \in Version
      BY WantTypes DEF IInv
    <3>. QED  BY <1>5, <2>1, <2>3, <3>1, <3>2, ResolvedMoves
  <2>. QED  BY <1>5, <2>2, <2>3 DEF Fetch
<1>6. CASE Redundant(c)
  <2>1. caller[c].pc = "commit" /\ pins' = pins - 1
    BY <1>6 DEF Redundant, ReleasePin
  <2>2. CASE PooledMeanwhile(c) # None /\ WaitFor(c, PooledMeanwhile(c))
    <3>1. Want(c).plugin \in Plugin /\ caller[c].version \in Version \cup {None}
      BY WantTypes, CallerNow DEF IInv, CallerRecord
    <3>2. PooledMeanwhile(c) \in Made /\ PooledMeanwhile(c) \in Entry
      BY <2>2, <3>1, FoundIsMade, MadeFinite DEF IInv, PoolIsConsistent, PooledMeanwhile
    <3>. QED  BY <1>6, <2>1, <2>2, <3>2, WaitMoves, MadeStays
  <2>3. CASE Fails(c)
    BY <1>6, <2>1, <2>3, FailsMoves
  <2>. QED  BY <1>6, <2>2, <2>3 DEF Redundant
<1>. QED  BY <1>1, <1>2, <1>3, <1>4, <1>5, <1>6 DEF Quiet

LEMMA GoesOnMoves ==
  ASSUME IInv, [Next]_vars, NEW c \in Caller, caller[c].pc = "wait",
         NEW to \in {"using", "release", "ensure"}, NEW pos \in Nat, pos \in DOMAIN Wants[c],
         caller' = [caller EXCEPT ![c].pc = to, ![c].at = pos, ![c].ptr = None]
  PROVE  Plain(c)
<1>. DEFINE r == [caller[c] EXCEPT !.pc = to, !.at = pos, !.ptr = None]
<1>1. caller \in [Caller -> CallerRecord] /\ caller[c] \in CallerRecord /\ CallerOK(c)
  BY CallerNow
<1>2. caller' = [caller EXCEPT ![c] = r]
  BY <1>1
<1>3. /\ r \in CallerRecord /\ r.pc = to /\ r.at = pos /\ r.ptr = None
      /\ r.version = caller[c].version
  BY <1>1 DEF CallerRecord
<1>4. Place(c, r)
  <2>. HIDE DEF r
  <2>. QED  BY <1>1, <1>3 DEF Place, CallerOK
<1>. HIDE DEF r
<1>. QED  BY <1>1, <1>2, <1>3, <1>4, CallerMoves DEF Plain

LEMMA ValidateMoves ==
  ASSUME IInv, [Next]_vars, NEW c \in Caller, Validate(c)
  PROVE  Plain(c)
<1>1. caller \in [Caller -> CallerRecord] /\ CallerOK(c) /\ caller[c].pc = "wait"
  BY CallerNow DEF Validate
<1>2. /\ Len(Wants[c]) \in Nat /\ DOMAIN Wants[c] = 1..Len(Wants[c])
      /\ caller[c].at \in 1..Len(Wants[c])
  BY <1>1, VersionPoolAssumption DEF CallerOK
<1>3. CASE IsLast(c)
  <2>1. caller' = [caller EXCEPT ![c].pc = "using", ![c].at = caller[c].at, ![c].ptr = None]
    BY <1>3 DEF Validate
  <2>2. caller[c].at \in Nat /\ caller[c].at \in DOMAIN Wants[c]
    BY <1>2
  <2>. QED  BY <1>1, <2>1, <2>2, GoesOnMoves
<1>4. CASE ~IsLast(c)
  <2>1. caller' = [caller EXCEPT ![c].pc = Admitted, ![c].at = caller[c].at + 1, ![c].ptr = None]
    BY <1>4 DEF Validate
  <2>2. Admitted \in {"release", "ensure"}
    BY DEF Admitted
  <2>3. caller[c].at + 1 \in Nat /\ caller[c].at + 1 \in DOMAIN Wants[c]
    BY <1>2, <1>4 DEF IsLast
  <2>. QED  BY <1>1, <2>1, <2>2, <2>3, GoesOnMoves
<1>. QED  BY <1>3, <1>4

LEMMA ReleaseMoves ==
  ASSUME IInv, [Next]_vars, NEW c \in Caller, ReleaseOne(c)
  PROVE  Plain(c)
<1>1. caller[c].pc \in {"using", "release"}
  BY DEF ReleaseOne
<1>2. CASE acquired[c] = <<>>
  <2>. DEFINE r == [pc |-> "idle", at |-> 1, ptr |-> None, version |-> None]
  <2>1. caller' = [caller EXCEPT ![c] = r]
    BY <1>2 DEF ReleaseOne
  <2>2. Wants[c] \in Seq(Dependency) /\ Wants[c] # <<>>
    BY VersionPoolAssumption
  <2>3. 1 \in DOMAIN Wants[c]
    BY <2>2
  <2>4. Place(c, r) /\ r.pc = "idle"
    BY <2>3 DEF Place, CallerRecord
  <2>. HIDE DEF r
  <2>. QED  BY <1>1, <2>1, <2>4, CallerMoves DEF Plain
<1>3. CASE acquired[c] # <<>>
  BY <1>1, <1>3, GotoMoves DEF ReleaseOne, Plain
<1>. QED  BY <1>2, <1>3

LEMMA AbandonMoves ==
  ASSUME IInv, [Next]_vars, NEW c \in Caller, Abandon(c)
  PROVE  /\ Plain(c)
         /\ LET e == caller[c].ptr IN
              entry[e].state = "dead" /\ entry[e].refs = 0
                => caller'[c].pc = "teardown" /\ caller'[c].ptr = e
<1>. DEFINE e == caller[c].ptr
<1>1. caller \in [Caller -> CallerRecord] /\ caller[c] \in CallerRecord /\ CallerOK(c)
      /\ caller[c].pc = "wait"
  BY CallerNow DEF Abandon
<1>2. CASE entry[e].state = "dead" /\ entry[e].refs = 0
  <2>. DEFINE r == [caller[c] EXCEPT !.pc = "teardown"]
  <2>1. caller' = [caller EXCEPT ![c] = r]
    BY <1>1, <1>2 DEF Abandon, Goto
  <2>2. /\ r \in CallerRecord /\ r.pc = "teardown" /\ r.at = caller[c].at
        /\ r.ptr = e /\ r.version = caller[c].version
    BY <1>1 DEF CallerRecord
  <2>3. Place(c, r)
    <3>. HIDE DEF r
    <3>. QED  BY <1>1, <2>2, MadeStays DEF Place, CallerOK
  <2>. HIDE DEF r
  <2>. QED  BY <1>1, <2>1, <2>2, <2>3, CallerMoves DEF Plain
<1>3. CASE ~(entry[e].state = "dead" /\ entry[e].refs = 0)
  <2>1. Fails(c)
    BY <1>3 DEF Abandon
  <2>. QED  BY <1>1, <1>3, <2>1, FailsMoves DEF Plain
<1>. QED  BY <1>2, <1>3

LEMMA CallerTeardownMoves ==
  ASSUME IInv, [Next]_vars, NEW c \in Caller, CallerTeardown(c)
  PROVE  Plain(c)
BY FailsMoves DEF CallerTeardown, Plain

LEMMA LoadVersionMoves ==
  ASSUME IInv, [Next]_vars, NEW c \in Caller, LoadVersion(c)
  PROVE  Plain(c) /\ caller[c].pc # "idle"
<1>1. caller[c].pc \in {"look up", "ensure"} /\ WaitFor(c, Fresh)
  BY DEF LoadVersion, LookingUp
<1>2. Fresh \in Entry /\ Fresh \in Made'
  BY LoadVersionMakes, MadeGrows DEF Makes
<1>. QED  BY <1>1, <1>2, WaitMoves DEF Plain

LEMMA CommitMoves ==
  ASSUME IInv, [Next]_vars, NEW c \in Caller, Commit(c)
  PROVE  /\ CallersOK' /\ \A d \in Caller : d # c => caller'[d] = caller[d]
         /\ caller[c].pc = "commit" /\ caller'[c].pc = "wait"
<1>1. caller[c].pc = "commit" /\ WaitFor(c, Fresh)
  BY DEF Commit
<1>2. Fresh \in Entry /\ Fresh \in Made'
  BY CommitMakes, MadeGrows DEF Makes
<1>. QED  BY <1>1, <1>2, WaitMoves

LEMMA CallersStep ==
  ASSUME IInv, [Next]_vars
  PROVE  CallersOK'
<1>1. ASSUME NEW c \in Caller, Quiet(c) \/ Validate(c) \/ ReleaseOne(c) \/ Abandon(c) \/ CallerTeardown(c)
      PROVE  CallersOK'
  BY <1>1, QuietMoves, ValidateMoves, ReleaseMoves, AbandonMoves, CallerTeardownMoves DEF Plain
<1>2. CASE Creates
  <2>1. CASE Adopt
    BY <2>1, CallersStay DEF Adopt
  <2>2. ASSUME NEW c \in Caller, LoadVersion(c) \/ Commit(c)
        PROVE  CallersOK'
    BY <2>2, LoadVersionMoves, CommitMoves DEF Plain
  <2>. QED  BY <1>2, <2>1, <2>2 DEF Creates
<1>3. ASSUME NEW e \in Entry, Spawner(e)
      PROVE  CallersOK'
  BY <1>3, SpawnerIs, CallersStay
<1>4. CASE \/ \E w \in Worker : FinishTeardown(w)
           \/ Evict \/ EvictorTeardown \/ CancelContext \/ ClosePool \/ ShutdownTeardown
           \/ UNCHANGED vars
  BY <1>4, CallersStay DEF FinishTeardown, Evict, EvictorTeardown, CancelContext, ClosePool,
                           ShutdownTeardown, vars
<1>. QED  BY <1>1, <1>2, <1>3, <1>4, NextCases

-----------------------------------------------------------------------------
(* The other variables. *)

LEMMA EntryStep ==
  ASSUME IInv, [Next]_vars
  PROVE  /\ entry' \in [Entry -> EntryRecord]
         /\ \A e \in Made' : Key(e)' \in Artifact
<1>0. entry \in [Entry -> EntryRecord] /\ \A e \in Made : Key(e) \in Artifact
  BY DEF IInv, TypeOK
<1>1. CASE Creates
  <2>1. PICK e, p, v : Makes(e, p, v)
    BY <1>1, CreatesMakes
  <2>2. /\ Made' = Made \cup {e} /\ Key(e)' = <<p, v>>
        /\ \A f \in Entry : f # e => Key(f)' = Key(f)
    BY <2>1, MadeGrows
  <2>3. <<p, v>> \in Artifact /\ entry' \in [Entry -> EntryRecord]
    BY <2>1 DEF Makes, Artifact
  <2>. QED  BY <1>0, <2>2, <2>3, MadeFinite
<1>2. CASE ~Creates
  <2>1. Keeps
    BY <1>2, KeepsStep
  <2>2. \A e \in Made' : Key(e)' \in Artifact
    BY <1>0, <2>1, KeepsMade, MadeFinite DEF Keeps
  <2>3. ASSUME NEW c \in Caller, Quiet(c) \/ Validate(c) \/ ReleaseOne(c) \/ Abandon(c) \/ CallerTeardown(c)
        PROVE  entry' \in [Entry -> EntryRecord]
    <3>1. CASE Quiet(c) \/ Abandon(c)
      BY <1>0, <3>1, QuietIs DEF Abandon
    <3>2. CASE Validate(c)
      BY <3>2, ValidateTouches DEF Touches
    <3>3. CASE ReleaseOne(c)
      BY <1>0, <3>3, ReleaseTouches DEF Touches, ReleaseOne
    <3>4. CASE CallerTeardown(c)
      <4>1. caller[c].ptr \in Made /\ c \in Worker
        BY <3>4 DEF CallerTeardown, IInv, TypeOK, Worker
      <4>. QED  BY <3>4, <4>1, TeardownTouches DEF CallerTeardown, Touches
    <3>. QED  BY <2>3, <3>1, <3>2, <3>3, <3>4
  <2>4. ASSUME NEW e \in Entry, Spawner(e)
        PROVE  entry' \in [Entry -> EntryRecord]
    BY <1>0, <2>4, SpawnerIs DEF Touches
  <2>5. ASSUME EvictorTeardown
        PROVE  entry' \in [Entry -> EntryRecord]
    <3>1. PICK e \in victims["evictor"] : TeardownEntry("evictor", e)
      BY <2>5 DEF EvictorTeardown
    <3>2. e \in Made /\ "evictor" \in Worker
      BY DEF IInv, TypeOK, Worker
    <3>. QED  BY <3>1, <3>2, TeardownTouches DEF Touches
  <2>6. ASSUME ShutdownTeardown
        PROVE  entry' \in [Entry -> EntryRecord]
    BY <2>6, ShutdownTouches DEF Touches
  <2>7. ASSUME \/ \E w \in Worker : FinishTeardown(w)
               \/ Evict \/ CancelContext \/ ClosePool \/ UNCHANGED vars
        PROVE  entry' \in [Entry -> EntryRecord]
    BY <1>0, <2>7 DEF FinishTeardown, Evict, CancelContext, ClosePool, vars
  <2>. QED  BY <1>2, <2>2, <2>3, <2>4, <2>5, <2>6, <2>7, NextCases
<1>. QED  BY <1>1, <1>2

LEMMA SpawnerStep ==
  ASSUME IInv, [Next]_vars
  PROVE  spawner' \in [Entry -> SpawnerRecord]
<1>0. spawner \in [Entry -> SpawnerRecord]
  BY DEF IInv, TypeOK
<1>1. CASE Creates
  BY <1>1, CreatesMakes DEF Makes
<1>2. ASSUME NEW c \in Caller, Quiet(c) \/ Validate(c) \/ ReleaseOne(c) \/ Abandon(c) \/ CallerTeardown(c)
      PROVE  spawner' = spawner
  BY <1>2, QuietIs DEF Validate, ReleaseOne, Abandon, CallerTeardown
<1>3. ASSUME NEW e \in Entry, Spawner(e)
      PROVE  spawner' \in [Entry -> SpawnerRecord]
  BY <1>3, SpawnerIs
<1>4. CASE \/ \E w \in Worker : FinishTeardown(w)
           \/ Evict \/ EvictorTeardown \/ CancelContext \/ ClosePool \/ ShutdownTeardown
           \/ UNCHANGED vars
  BY <1>0, <1>4 DEF FinishTeardown, Evict, EvictorTeardown, CancelContext, ClosePool,
              ShutdownTeardown, vars
<1>. QED  BY <1>0, <1>1, <1>2, <1>3, <1>4, NextCases

LEMMA FlagsStep ==
  ASSUME IInv, [Next]_vars
  PROVE  closed' \in BOOLEAN /\ cancelled' \in BOOLEAN /\ served' \in [Caller -> Nat]
<1>0. closed \in BOOLEAN /\ cancelled \in BOOLEAN /\ served \in [Caller -> Nat]
  BY DEF IInv, TypeOK
<1>1. CASE Creates
  BY <1>0, <1>1 DEF Creates, Adopt, LoadVersion, Commit
<1>2. ASSUME NEW c \in Caller, Quiet(c) \/ Validate(c) \/ ReleaseOne(c) \/ Abandon(c) \/ CallerTeardown(c)
      PROVE  closed' \in BOOLEAN /\ cancelled' \in BOOLEAN /\ served' \in [Caller -> Nat]
  <2>1. CASE Begin(c)
    BY <1>0, <2>1 DEF Begin
  <2>2. CASE ~Begin(c)
    BY <1>0, <1>2, <2>2 DEF Quiet, Reject, ResolveLatest, LookUp, Fetch, Redundant, Validate,
                            ReleaseOne, Abandon, CallerTeardown
  <2>. QED  BY <2>1, <2>2
<1>3. ASSUME NEW e \in Entry, Spawner(e)
      PROVE  UNCHANGED <<closed, cancelled, served>>
  BY <1>3, SpawnerIs
<1>4. CASE \/ \E w \in Worker : FinishTeardown(w)
           \/ Evict \/ EvictorTeardown \/ CancelContext \/ ClosePool \/ ShutdownTeardown
           \/ UNCHANGED vars
  BY <1>0, <1>4 DEF FinishTeardown, Evict, EvictorTeardown, CancelContext, ClosePool,
                    ShutdownTeardown, vars
<1>. QED  BY <1>0, <1>1, <1>2, <1>3, <1>4, NextCases

LEMMA ProcessStep ==
  ASSUME IInv, [Next]_vars
  PROVE  /\ process' \in [Entry -> {"none", "alive", "killed"}]
         /\ registry' \in [Artifact -> Entry \cup {None}]
<1>0. /\ process \in [Entry -> {"none", "alive", "killed"}]
      /\ registry \in [Artifact -> Entry \cup {None}]
  BY DEF IInv, TypeOK
<1>1. CASE Creates
  <2>1. CASE Adopt
    <3>1. Fresh \in Entry
      BY <2>1, AdoptMakes DEF Makes
    <3>. QED  BY <1>0, <2>1, <3>1 DEF Adopt
  <2>2. ASSUME NEW c \in Caller, LoadVersion(c) \/ Commit(c)
        PROVE  UNCHANGED <<process, registry>>
    BY <2>2 DEF LoadVersion, Commit
  <2>. QED  BY <1>0, <1>1, <2>1, <2>2 DEF Creates
<1>2. ASSUME NEW c \in Caller, Quiet(c) \/ Validate(c) \/ ReleaseOne(c) \/ Abandon(c) \/ CallerTeardown(c)
      PROVE  UNCHANGED <<process, registry>>
  BY <1>2, QuietIs DEF Validate, ReleaseOne, Abandon, CallerTeardown
<1>3. ASSUME NEW e \in Entry, Spawner(e)
      PROVE  /\ process' \in [Entry -> {"none", "alive", "killed"}]
             /\ registry' \in [Artifact -> Entry \cup {None}]
  BY <1>0, <1>3 DEF Spawner, FetchBinary, StartProcess, RegisterProvider, Publish
<1>4. CASE \/ Evict \/ EvictorTeardown \/ CancelContext \/ ClosePool \/ ShutdownTeardown
           \/ UNCHANGED vars
  BY <1>0, <1>4 DEF Evict, EvictorTeardown, CancelContext, ClosePool, ShutdownTeardown, vars
<1>5. ASSUME NEW w \in Worker, FinishTeardown(w)
      PROVE  /\ process' \in [Entry -> {"none", "alive", "killed"}]
             /\ registry' \in [Artifact -> Entry \cup {None}]
  BY <1>0, <1>5 DEF FinishTeardown
<1>. QED  BY <1>0, <1>1, <1>2, <1>3, <1>4, <1>5, NextCases

\* Only Validate and ReleaseOne change what a request holds.
LEMMA AcquiredStays ==
  ASSUME IInv, [Next]_vars,
         ~ \E c \in Caller : Validate(c) \/ (ReleaseOne(c) /\ acquired[c] # <<>>)
  PROVE  acquired' = acquired
<1>1. CASE Creates
  BY <1>1, CreatesMakes DEF Makes
<1>2. ASSUME NEW c \in Caller, Quiet(c) \/ Validate(c) \/ ReleaseOne(c) \/ Abandon(c) \/ CallerTeardown(c)
      PROVE  acquired' = acquired
  BY <1>2, QuietIs DEF ReleaseOne, Abandon, CallerTeardown
<1>3. ASSUME NEW e \in Entry, Spawner(e)
      PROVE  acquired' = acquired
  BY <1>3, SpawnerIs
<1>4. CASE \/ \E w \in Worker : FinishTeardown(w)
           \/ Evict \/ EvictorTeardown \/ CancelContext \/ ClosePool \/ ShutdownTeardown
           \/ UNCHANGED vars
  BY <1>4 DEF FinishTeardown, Evict, EvictorTeardown, CancelContext, ClosePool,
              ShutdownTeardown, vars
<1>. QED  BY <1>1, <1>2, <1>3, <1>4, NextCases

LEMMA AcquiredStep ==
  ASSUME IInv, [Next]_vars
  PROVE  acquired' \in [Caller -> Seq(Made')]
<1>0. acquired \in [Caller -> Seq(Made)] /\ Made \subseteq Made'
  BY MadeStays DEF IInv, TypeOK
<1>1. ASSUME NEW s \in Seq(Made)
      PROVE  s \in Seq(Made')
  BY <1>0
<1>2. acquired \in [Caller -> Seq(Made')]
  BY <1>0, <1>1
<1>3. ASSUME NEW c \in Caller, Validate(c)
      PROVE  acquired' \in [Caller -> Seq(Made')]
  <2>1. acquired' = [acquired EXCEPT ![c] = Append(@, caller[c].ptr)]
    BY <1>3 DEF Validate
  <2>2. caller[c].ptr \in Made'
    BY <1>0, <1>3 DEF Validate, IInv, TypeOK
  <2>3. acquired[c] \in Seq(Made')
    BY <1>2
  <2>4. Append(acquired[c], caller[c].ptr) \in Seq(Made')
    BY <2>2, <2>3
  <2>. QED  BY <1>2, <2>1, <2>4
<1>4. ASSUME NEW c \in Caller, ReleaseOne(c), acquired[c] # <<>>
      PROVE  acquired' \in [Caller -> Seq(Made')]
  <2>1. acquired' = [acquired EXCEPT ![c] = Tail(@)]
    BY <1>4 DEF ReleaseOne
  <2>2. acquired[c] \in Seq(Made')
    BY <1>2
  <2>3. Tail(acquired[c]) \in Seq(Made')
    BY <1>4, <2>2
  <2>. QED  BY <1>2, <2>1, <2>3
<1>. QED  BY <1>2, <1>3, <1>4, AcquiredStays

LEMMA TeardownStep ==
  ASSUME IInv, [Next]_vars
  PROVE  teardown' \in [Worker -> TeardownRecord]
<1>0. teardown \in [Worker -> TeardownRecord]
  BY DEF IInv, TypeOK
<1>1. CASE Creates
  BY <1>0, <1>1, CreatesMakes DEF Makes
<1>2. ASSUME NEW c \in Caller, Quiet(c) \/ Validate(c) \/ Abandon(c)
      PROVE  teardown' = teardown
  BY <1>2, QuietIs DEF Validate, Abandon
<1>3. ASSUME NEW c \in Caller, ReleaseOne(c)
      PROVE  teardown' \in [Worker -> TeardownRecord]
  <2>1. CASE acquired[c] = <<>>
    BY <1>0, <1>3, <2>1 DEF ReleaseOne
  <2>2. CASE acquired[c] # <<>>
    <3>1. PICK k \in Entry \cup {None} : teardown' = [teardown EXCEPT ![c].kill = k]
      BY <1>3, <2>2, HeadIsMade DEF ReleaseOne, IInv
    <3>2. c \in Worker
      BY DEF Worker
    <3>. QED  BY <1>0, <3>1, <3>2 DEF TeardownRecord
  <2>. QED  BY <2>1, <2>2
<1>4. ASSUME NEW c \in Caller, CallerTeardown(c)
      PROVE  teardown' \in [Worker -> TeardownRecord]
  <2>1. caller[c].ptr \in Made /\ c \in Worker
    BY <1>4 DEF CallerTeardown, IInv, TypeOK, Worker
  <2>. QED  BY <1>4, <2>1, TeardownTouches DEF CallerTeardown
<1>5. ASSUME NEW e \in Entry, Spawner(e)
      PROVE  teardown' = teardown
  BY <1>5, SpawnerIs
<1>6. CASE EvictorTeardown
  <2>1. PICK e \in victims["evictor"] : TeardownEntry("evictor", e)
    BY <1>6 DEF EvictorTeardown
  <2>2. e \in Made /\ "evictor" \in Worker
    BY DEF IInv, TypeOK, Worker
  <2>. QED  BY <2>1, <2>2, TeardownTouches
<1>7. CASE ShutdownTeardown
  BY <1>7, ShutdownTouches
<1>8. CASE Evict \/ CancelContext \/ ClosePool \/ UNCHANGED vars
  BY <1>0, <1>8 DEF Evict, CancelContext, ClosePool, vars
<1>9. ASSUME NEW w \in Worker, FinishTeardown(w)
      PROVE  teardown' \in [Worker -> TeardownRecord]
  BY <1>0, <1>9 DEF FinishTeardown, NoTeardown, TeardownRecord
<1>. QED  BY <1>0, <1>1, <1>2, <1>3, <1>4, <1>5, <1>6, <1>7, <1>8, <1>9, NextCases

\* A stored entry was made.
LEMMA StoredAreMade ==
  ASSUME IInv, NEW chosen \in SUBSET Stored
  PROVE  {store[a] : a \in chosen} \subseteq Made
BY DEF IInv, StoreInv, Stored

LEMMA VictimsStep ==
  ASSUME IInv, [Next]_vars
  PROVE  /\ victims' \in [{"evictor", "shutdown"} -> SUBSET Made']
         /\ displaced' \subseteq Made'
<1>0. victims \in [{"evictor", "shutdown"} -> SUBSET Made'] /\ displaced \subseteq Made'
      /\ Made \subseteq Made'
  BY MadeStays DEF IInv, TypeOK
<1>1. CASE Creates
  BY <1>0, <1>1, CreatesMakes DEF Makes
<1>2. ASSUME NEW c \in Caller, Quiet(c) \/ Validate(c) \/ ReleaseOne(c) \/ CallerTeardown(c)
      PROVE  UNCHANGED <<victims, displaced>>
  BY <1>2, QuietIs DEF Validate, ReleaseOne, CallerTeardown
<1>3. ASSUME NEW c \in Caller, Abandon(c)
      PROVE  victims' = victims /\ displaced' \subseteq Made'
  <2>1. Key(caller[c].ptr) \in Artifact
    BY <1>3, AbandonKey
  <2>2. store[Key(caller[c].ptr)] # None => store[Key(caller[c].ptr)] \in Made
    BY <2>1 DEF IInv, StoreInv
  <2>. QED  BY <1>0, <1>3, <2>2 DEF Abandon
<1>4. ASSUME NEW e \in Entry, Spawner(e)
      PROVE  UNCHANGED <<victims, displaced>>
  BY <1>4, SpawnerIs
<1>5. CASE Evict
  <2>1. PICK chosen \in SUBSET Stored :
          victims' = [victims EXCEPT !["evictor"] = {store[a] : a \in chosen}]
    BY <1>5 DEF Evict
  <2>2. {store[a] : a \in chosen} \subseteq Made'
    BY <1>0, StoredAreMade
  <2>. QED  BY <1>0, <1>5, <2>1, <2>2 DEF Evict
<1>6. CASE ClosePool
  <2>1. {store[a] : a \in Stored} \subseteq Made'
    BY <1>0, StoredAreMade
  <2>. QED  BY <1>0, <1>6, <2>1 DEF ClosePool
<1>7. CASE EvictorTeardown \/ ShutdownTeardown
  BY <1>0, <1>7 DEF EvictorTeardown, ShutdownTeardown
<1>8. CASE CancelContext \/ (\E w \in Worker : FinishTeardown(w)) \/ UNCHANGED vars
  BY <1>0, <1>8 DEF CancelContext, FinishTeardown, vars
<1>. QED  BY <1>0, <1>1, <1>2, <1>3, <1>4, <1>5, <1>6, <1>7, <1>8, NextCases

-----------------------------------------------------------------------------
(* Entries in order, and the goroutine that spawns one. *)

LEMMA LeavesIdle ==
  ASSUME IInv, [Next]_vars, NEW c \in Caller, caller[c].pc = "idle", caller'[c] # caller[c]
  PROVE  StartedUp
<1>1. ASSUME NEW d \in Caller, Quiet(d)
      PROVE  StartedUp
  <2>1. d = c
    BY <1>1, QuietMoves
  <2>. QED  BY <1>1, <2>1 DEF Quiet, Begin, Reject, ResolveLatest, LookUp, LookingUp, Fetch, Redundant
<1>2. ASSUME NEW d \in Caller, Validate(d) \/ ReleaseOne(d) \/ Abandon(d) \/ CallerTeardown(d)
      PROVE  FALSE
  <2>1. d = c
    BY <1>2, ValidateMoves, ReleaseMoves, AbandonMoves, CallerTeardownMoves DEF Plain
  <2>. QED  BY <1>2, <2>1 DEF Validate, ReleaseOne, Abandon, CallerTeardown
<1>3. CASE Creates
  <2>1. CASE Adopt
    BY <2>1 DEF Adopt
  <2>2. ASSUME NEW d \in Caller, LoadVersion(d) \/ Commit(d)
        PROVE  FALSE
    <3>1. d = c
      BY <2>2, LoadVersionMoves, CommitMoves DEF Plain
    <3>. QED  BY <2>2, <3>1 DEF LoadVersion, LookingUp, Commit
  <2>. QED  BY <1>3, <2>1, <2>2 DEF Creates
<1>4. ASSUME NEW e \in Entry, Spawner(e)
      PROVE  caller' = caller
  BY <1>4, SpawnerIs
<1>5. CASE \/ \E w \in Worker : FinishTeardown(w)
           \/ Evict \/ EvictorTeardown \/ CancelContext \/ ClosePool \/ ShutdownTeardown
           \/ UNCHANGED vars
  BY <1>5 DEF FinishTeardown, Evict, EvictorTeardown, CancelContext, ClosePool,
              ShutdownTeardown, vars
<1>. QED  BY <1>1, <1>2, <1>3, <1>4, <1>5, NextCases

LEMMA MadeStep ==
  ASSUME IInv, [Next]_vars
  PROVE  MadeInv'
<1>0. /\ Made = 1..Cardinality(Made) /\ Cardinality(Made) \in Nat
      /\ \A e \in Made : e \in DOMAIN Preloaded => Key(e) = Preloaded[e]
  BY MadeFinite DEF IInv, MadeInv
<1>1. /\ Made' = 1..Cardinality(Made') /\ Cardinality(Made') \in Nat
      /\ \A e \in Made' : e \in DOMAIN Preloaded => Key(e)' = Preloaded[e]
  <2>1. CASE Creates
    <3>1. PICK e, p, v : Makes(e, p, v)
      BY <2>1, CreatesMakes
    <3>2. /\ Made' = Made \cup {e} /\ Cardinality(Made') = Cardinality(Made) + 1
          /\ Key(e)' = <<p, v>>
          /\ \A f \in Made : Key(f)' = Key(f)
      BY <3>1, MadeGrows, MadeStays
    <3>3. e = Cardinality(Made) + 1 /\ (e \in DOMAIN Preloaded => Preloaded[e] = <<p, v>>)
      BY <3>1 DEF Makes, Fresh
    <3>4. 1..Cardinality(Made) + 1 = 1..Cardinality(Made) \cup {Cardinality(Made) + 1}
      BY <1>0
    <3>5. \A f \in Made' : f \in DOMAIN Preloaded => Key(f)' = Preloaded[f]
      BY <1>0, <3>2, <3>3
    <3>6. Made' = 1..Cardinality(Made')
      BY <1>0, <3>2, <3>3, <3>4
    <3>7. Cardinality(Made') \in Nat
      BY <1>0, <3>2
    <3>. QED  BY <3>5, <3>6, <3>7
  <2>2. CASE ~Creates
    <3>1. Made' = Made /\ Cardinality(Made') = Cardinality(Made)
      BY <2>2, KeepsStep, KeepsMade
    <3>2. \A f \in Made : Key(f)' = Key(f)
      BY MadeStays
    <3>. QED  BY <1>0, <3>1, <3>2
  <2>. QED  BY <2>1, <2>2
<1>2. StartedUp => StartedUp'
  <2>1. Cardinality(Made) <= Cardinality(Made') /\ Cardinality(Made) \in Nat
        /\ Cardinality(Made') \in Nat /\ Len(Preloaded) \in Nat
    BY <1>0, <1>1, MadeStays, VersionPoolAssumption
  <2>. QED  BY <2>1 DEF StartedUp
<1>3. \A c \in Caller : caller'[c].pc # "idle" => StartedUp'
  BY <1>2, LeavesIdle DEF IInv, MadeInv
<1>. QED  BY <1>1, <1>3 DEF MadeInv

\* Only the spawner of an entry moves it on.
LEMMA StatesStay ==
  ASSUME IInv, [Next]_vars, ~Creates, ~ \E e \in Entry : Spawner(e)
  PROVE  spawner' = spawner /\ \A f \in Entry : entry'[f].state = entry[f].state
<1>1. ASSUME NEW c \in Caller, Quiet(c) \/ Abandon(c)
      PROVE  UNCHANGED <<spawner, entry>>
  BY <1>1, QuietIs DEF Abandon
<1>2. ASSUME NEW c \in Caller, Validate(c)
      PROVE  spawner' = spawner /\ \A f \in Entry : entry'[f].state = entry[f].state
  BY <1>2, ValidateTouches DEF Validate, Touches, OnlyEntry
<1>3. ASSUME NEW c \in Caller, ReleaseOne(c)
      PROVE  spawner' = spawner /\ \A f \in Entry : entry'[f].state = entry[f].state
  <2>1. CASE acquired[c] = <<>>
    BY <1>3, <2>1 DEF ReleaseOne
  <2>2. CASE acquired[c] # <<>>
    BY <1>3, <2>2, ReleaseTouches DEF ReleaseOne, Touches, OnlyEntry
  <2>. QED  BY <2>1, <2>2
<1>4. ASSUME NEW w \in Worker, NEW e \in Made, TeardownEntry(w, e)
      PROVE  \A f \in Entry : entry'[f].state = entry[f].state
  BY <1>4, TeardownTouches DEF Touches, OnlyEntry
<1>5. ASSUME NEW c \in Caller, CallerTeardown(c)
      PROVE  spawner' = spawner /\ \A f \in Entry : entry'[f].state = entry[f].state
  <2>1. caller[c].ptr \in Made /\ c \in Worker
    BY <1>5 DEF CallerTeardown, IInv, TypeOK, Worker
  <2>. QED  BY <1>4, <1>5, <2>1 DEF CallerTeardown
<1>6. CASE EvictorTeardown
  <2>1. PICK e \in victims["evictor"] : TeardownEntry("evictor", e)
    BY <1>6 DEF EvictorTeardown
  <2>2. e \in Made /\ "evictor" \in Worker
    BY DEF IInv, TypeOK, Worker
  <2>. QED  BY <1>4, <1>6, <2>1, <2>2 DEF EvictorTeardown
<1>7. CASE ShutdownTeardown
  BY <1>7, ShutdownTouches DEF ShutdownTeardown, Touches, OnlyEntry
<1>8. CASE \/ \E w \in Worker : FinishTeardown(w)
           \/ Evict \/ CancelContext \/ ClosePool \/ UNCHANGED vars
  BY <1>8 DEF FinishTeardown, Evict, CancelContext, ClosePool, vars
<1>. QED  BY <1>1, <1>2, <1>3, <1>5, <1>6, <1>7, <1>8, NextCases

LEMMA SpawnerInv ==
  ASSUME IInv, NEW e \in Entry, Spawner(e)
  PROVE  EntryInv(e)'
<1>0. /\ spawner \in [Entry -> SpawnerRecord] /\ spawner[e] \in SpawnerRecord
      /\ entry \in [Entry -> EntryRecord] /\ EntryInv(e)
  BY DEF IInv, TypeOK
<1>1. CASE SpawnFails(e)
  <2>1. spawner[e].pc \in Spawns
    BY <1>1, SpawnerIs
  <2>. QED  BY <1>1, <2>1, SpawnFailsTouches DEF EntryInv, Spawns
<1>2. CASE Publish(e)
  BY <1>2, PublishTouches DEF EntryInv, Spawns
<1>3. CASE /\ FetchBinary(e) \/ StartProcess(e) \/ RegisterProvider(e)
           /\ ~SpawnFails(e)
  <2>1. entry' = entry /\ spawner[e].pc \in Spawns /\ entry[e].state = "starting"
    BY <1>0, <1>3 DEF FetchBinary, StartProcess, RegisterProvider, Spawns, EntryInv
  <2>2. spawner'[e].pc \in {"start", "register", "publish"}
    BY <1>0, <1>3 DEF FetchBinary, StartProcess, RegisterProvider, SpawnerAt, SpawnerRecord
  <2>. QED  BY <2>1, <2>2 DEF EntryInv, Spawns
<1>. QED  BY <1>1, <1>2, <1>3 DEF Spawner

LEMMA EntryInvStep ==
  ASSUME IInv, [Next]_vars, NEW e \in Entry
  PROVE  EntryInv(e)'
<1>0. EntryInv(e)
  BY DEF IInv
<1>1. CASE Creates
  <2>1. PICK f, p, v : Makes(f, p, v)
    BY <1>1, CreatesMakes
  <2>. QED  BY <1>0, <2>1 DEF Makes, OnlyEntry, OnlySpawner, EntryInv
<1>2. ASSUME NEW f \in Entry, Spawner(f)
      PROVE  EntryInv(e)'
  <2>1. CASE f = e
    BY <1>2, <2>1, SpawnerInv
  <2>2. CASE f # e
    BY <1>0, <1>2, <2>2, SpawnerIs DEF OnlySpawner, Touches, OnlyEntry, EntryInv
  <2>. QED  BY <2>1, <2>2
<1>3. CASE ~Creates /\ ~ \E f \in Entry : Spawner(f)
  BY <1>0, <1>3, StatesStay DEF EntryInv
<1>. QED  BY <1>1, <1>2, <1>3

-----------------------------------------------------------------------------
(* Who holds an entry. *)

HoldsIn(a, e) == UNION {{c} \X {i \in DOMAIN a[c] : a[c][i] = e} : c \in Caller}

LEMMA HoldsAre == \A e : Holds(e) = HoldsIn(acquired, e)
BY DEF Holds, HoldsIn

LEMMA HoldsMember ==
  ASSUME NEW a, NEW e
  PROVE  /\ \A y \in HoldsIn(a, e) :
              \E c \in Caller : \E i \in DOMAIN a[c] : a[c][i] = e /\ y = <<c, i>>
         /\ \A c \in Caller : \A i \in DOMAIN a[c] : a[c][i] = e => <<c, i>> \in HoldsIn(a, e)
         /\ \A c, i : <<c, i>> \in HoldsIn(a, e) => c \in Caller /\ i \in DOMAIN a[c] /\ a[c][i] = e
BY DEF HoldsIn

\* Another entry at the end of a request's list.
LEMMA HoldsAppend ==
  ASSUME acquired \in [Caller -> Seq(Made)], NEW c \in Caller, NEW x \in Made,
         acquired' = [acquired EXCEPT ![c] = Append(@, x)]
  PROVE  /\ HoldsIn(acquired', x) = HoldsIn(acquired, x) \cup {<<c, Len(acquired[c]) + 1>>}
         /\ <<c, Len(acquired[c]) + 1>> \notin HoldsIn(acquired, x)
         /\ \A e : e # x => HoldsIn(acquired', e) = HoldsIn(acquired, e)
<1>. DEFINE n == Len(acquired[c]) + 1
<1>1. /\ Len(acquired[c]) \in Nat /\ DOMAIN acquired[c] = 1..Len(acquired[c]) /\ acquired[c] \in Seq(Made)
  OBVIOUS
<1>2. /\ DOMAIN Append(acquired[c], x) = 1..n /\ Append(acquired[c], x)[n] = x
      /\ \A i \in 1..Len(acquired[c]) : Append(acquired[c], x)[i] = acquired[c][i]
  BY <1>1
<1>3. acquired'[c] = Append(acquired[c], x) /\ \A d \in Caller : d # c => acquired'[d] = acquired[d]
  OBVIOUS
<1>4. n \notin DOMAIN acquired[c] /\ DOMAIN acquired'[c] = DOMAIN acquired[c] \cup {n}
  BY <1>1, <1>2, <1>3
<1>5. acquired'[c][n] = x /\ \A i \in DOMAIN acquired[c] : acquired'[c][i] = acquired[c][i]
  BY <1>1, <1>2, <1>3
<1>. HIDE DEF n
<1>6. ASSUME NEW e
      PROVE  HoldsIn(acquired', e) = HoldsIn(acquired, e) \cup IF e = x THEN {<<c, n>>} ELSE {}
  <2>1. ASSUME NEW d \in Caller
        PROVE  {i \in DOMAIN acquired'[d] : acquired'[d][i] = e}
                 = {i \in DOMAIN acquired[d] : acquired[d][i] = e} \cup IF d = c /\ e = x THEN {n} ELSE {}
    BY <1>3, <1>4, <1>5
  <2>. QED  BY <2>1 DEF HoldsIn
<1>7. <<c, n>> \notin HoldsIn(acquired, x)
  BY <1>4, HoldsMember
<1>8. HoldsIn(acquired', x) = HoldsIn(acquired, x) \cup {<<c, n>>}
  BY <1>6
<1>9. \A e : e # x => HoldsIn(acquired', e) = HoldsIn(acquired, e)
  BY <1>6
<1>. QED  BY <1>7, <1>8, <1>9 DEF n

\* The first entry of a request's list goes, the others move up.
LEMMA HoldsTail ==
  ASSUME acquired \in [Caller -> Seq(Made)], NEW c \in Caller, acquired[c] # <<>>,
         acquired' = [acquired EXCEPT ![c] = Tail(@)],
         NEW e, IsFiniteSet(HoldsIn(acquired, e))
  PROVE  /\ IsFiniteSet(HoldsIn(acquired', e))
         /\ Cardinality(HoldsIn(acquired', e)) = Cardinality(HoldsIn(acquired, e)) - IF e = Head(acquired[c]) THEN 1 ELSE 0
<1>. DEFINE A == HoldsIn(acquired, e) \ {<<c, 1>>}
            B == HoldsIn(acquired', e)
            up(y) == IF y[1] = c THEN <<c, y[2] - 1>> ELSE y
            g == [y \in A |-> up(y)]
            n == Len(acquired[c])
<1>1. /\ n \in Nat /\ n # 0 /\ DOMAIN acquired[c] = 1..n /\ acquired[c] \in Seq(Made) /\ Head(acquired[c]) = acquired[c][1]
  OBVIOUS
<1>2. /\ DOMAIN Tail(acquired[c]) = 1..n - 1 /\ \A i \in 1..n - 1 : Tail(acquired[c])[i] = acquired[c][i + 1]
  BY <1>1
<1>3. acquired'[c] = Tail(acquired[c]) /\ \A d \in Caller : d # c => acquired'[d] = acquired[d]
  OBVIOUS
<1>4. DOMAIN acquired'[c] = 1..n - 1 /\ \A i \in 1..n - 1 : acquired'[c][i] = acquired[c][i + 1]
  BY <1>2, <1>3
<1>5. ASSUME NEW y \in A
      PROVE  \/ \E i \in 2..n : y = <<c, i>> /\ acquired[c][i] = e /\ up(y) = <<c, i - 1>>
             \/ \E d \in Caller \ {c} : \E i \in DOMAIN acquired[d] :
                  y = <<d, i>> /\ acquired[d][i] = e /\ up(y) = y
  <2>1. PICK d, i : d \in Caller /\ i \in DOMAIN acquired[d] /\ acquired[d][i] = e /\ y = <<d, i>>
    BY HoldsMember
  <2>2. CASE d = c
    <3>1. i \in 2..n
      BY <1>1, <2>1, <2>2
    <3>. QED  BY <2>1, <2>2, <3>1
  <2>3. CASE d # c
    BY <2>1, <2>3
  <2>. QED  BY <2>2, <2>3
<1>6. ASSUME NEW y \in A
      PROVE  up(y) \in B
  <2>1. CASE \E i \in 2..n : y = <<c, i>> /\ acquired[c][i] = e /\ up(y) = <<c, i - 1>>
    <3>1. PICK i \in 2..n : y = <<c, i>> /\ acquired[c][i] = e /\ up(y) = <<c, i - 1>>
      BY <2>1
    <3>2. i - 1 \in 1..n - 1 /\ i - 1 + 1 = i
      BY <1>1
    <3>3. acquired'[c][i - 1] = e /\ i - 1 \in DOMAIN acquired'[c]
      BY <1>4, <3>1, <3>2
    <3>. QED  BY <3>1, <3>3, HoldsMember
  <2>2. CASE \E d \in Caller \ {c} : \E i \in DOMAIN acquired[d] :
               y = <<d, i>> /\ acquired[d][i] = e /\ up(y) = y
    <3>1. PICK d, i : d \in Caller \ {c} /\ i \in DOMAIN acquired[d] /\ y = <<d, i>> /\ acquired[d][i] = e /\ up(y) = y
      BY <2>2
    <3>2. acquired'[d] = acquired[d]
      BY <1>3, <3>1
    <3>3. i \in DOMAIN acquired'[d] /\ acquired'[d][i] = e
      BY <3>1, <3>2
    <3>4. <<d, i>> \in B
      BY <3>1, <3>3, HoldsMember
    <3>. HIDE DEF up, B
    <3>. QED  BY <3>1, <3>4
  <2>. QED  BY <1>5, <2>1, <2>2
<1>7. ASSUME NEW y \in A, NEW z \in A, up(y) = up(z)
      PROVE  y = z
  <2>. DEFINE Mine(w) == \E i \in 2..n : w = <<c, i>> /\ acquired[c][i] = e /\ up(w) = <<c, i - 1>>
              Other(w) == \E d \in Caller \ {c} : \E i \in DOMAIN acquired[d] :
                            w = <<d, i>> /\ acquired[d][i] = e /\ up(w) = w
  <2>1. (Mine(y) \/ Other(y)) /\ (Mine(z) \/ Other(z))
    BY <1>5
  <2>. HIDE DEF up
  <2>2. CASE Mine(y) /\ Mine(z)
    <3>1. PICK i \in 2..n, j \in 2..n :
            y = <<c, i>> /\ z = <<c, j>> /\ up(y) = <<c, i - 1>> /\ up(z) = <<c, j - 1>>
      BY <2>2
    <3>2. i - 1 = j - 1
      BY <1>7, <3>1
    <3>3. i = j
      BY <1>1, <3>2
    <3>. QED  BY <3>1, <3>3
  <2>3. CASE Other(y) /\ Other(z)
    BY <1>7, <2>3
  <2>4. CASE Mine(y) /\ Other(z)
    BY <1>7, <2>4
  <2>5. CASE Other(y) /\ Mine(z)
    BY <1>7, <2>5
  <2>. QED  BY <2>1, <2>2, <2>3, <2>4, <2>5
<1>8. ASSUME NEW z \in B
      PROVE  \E y \in A : up(y) = z
  <2>1. PICK d, i : d \in Caller /\ i \in DOMAIN acquired'[d] /\ acquired'[d][i] = e /\ z = <<d, i>>
    <3>1. z \in HoldsIn(acquired', e)
      OBVIOUS
    <3>2. PICK d \in Caller : z \in {d} \X {i \in DOMAIN acquired'[d] : acquired'[d][i] = e}
      BY <3>1, Zenon DEF HoldsIn
    <3>. QED  BY <3>2
  <2>2. CASE d = c
    <3>1. i \in 1..n - 1 /\ i + 1 \in 1..n /\ i + 1 # 1 /\ i + 1 - 1 = i
      BY <1>1, <1>4, <2>1, <2>2
    <3>2. acquired[c][i + 1] = e
      BY <1>4, <2>1, <2>2, <3>1
    <3>3. <<c, i + 1>> \in A
      BY <1>1, <3>1, <3>2, HoldsMember
    <3>4. up(<<c, i + 1>>) = <<c, i>>
      BY <3>1
    <3>. HIDE DEF up, A
    <3>. QED  BY <2>1, <2>2, <3>3, <3>4
  <2>3. CASE d # c
    <3>1. i \in DOMAIN acquired[d] /\ acquired[d][i] = e
      BY <1>3, <2>1, <2>3
    <3>2. <<d, i>> \in A
      BY <2>1, <2>3, <3>1, HoldsMember
    <3>3. up(<<d, i>>) = <<d, i>>
      BY <2>3
    <3>. HIDE DEF up, A
    <3>. QED  BY <2>1, <3>2, <3>3
  <2>. QED  BY <2>2, <2>3
<1>9. ExistsBijection(A, B)
  <2>. HIDE DEF A, B, up
  <2>1. g \in Bijection(A, B)
    BY <1>6, <1>7, <1>8 DEF Bijection, Injection, Surjection, IsInjective
  <2>. QED  BY <2>1 DEF ExistsBijection
<1>10. IsFiniteSet(A) /\ IsFiniteSet(B) /\ Cardinality(B) = Cardinality(A)
  <2>1. IsFiniteSet(A)
    BY FS_Subset
  <2>. HIDE DEF A, B
  <2>. QED  BY <1>9, <2>1, FS_Bijection
<1>11. Cardinality(A) = Cardinality(HoldsIn(acquired, e)) - IF e = Head(acquired[c]) THEN 1 ELSE 0
  <2>1. CASE e = Head(acquired[c])
    <3>1. <<c, 1>> \in HoldsIn(acquired, e)
      BY <1>1, <2>1, HoldsMember
    <3>. QED  BY <2>1, <3>1, FS_RemoveElement
  <2>2. CASE e # Head(acquired[c])
    <3>1. <<c, 1>> \notin HoldsIn(acquired, e)
      BY <1>1, <2>2, HoldsMember
    <3>2. A = HoldsIn(acquired, e)
      BY <3>1
    <3>3. Cardinality(HoldsIn(acquired, e)) \in Nat /\ Cardinality(A) = Cardinality(HoldsIn(acquired, e))
      BY <3>2, FS_CardinalityType
    <3>. HIDE DEF A
    <3>. QED  BY <2>2, <3>3
  <2>. QED  BY <2>1, <2>2
<1>. QED  BY <1>10, <1>11

-----------------------------------------------------------------------------
(* References. *)

Holding == \E c \in Caller : Validate(c) \/ (ReleaseOne(c) /\ acquired[c] # <<>>)

\* Other steps leave the counts, and defer a kill only of an entry in use.
LEMMA RefsStay ==
  ASSUME IInv, [Next]_vars, ~Creates, ~Holding
  PROVE  \A f \in Entry :
           /\ entry'[f].refs = entry[f].refs
           /\ entry'[f].pendingKill => entry[f].pendingKill \/ entry[f].refs > 0
<1>. DEFINE Same == \A f \in Entry :
                      /\ entry'[f].refs = entry[f].refs
                      /\ entry'[f].pendingKill => entry[f].pendingKill \/ entry[f].refs > 0
<1>1. ASSUME UNCHANGED entry
      PROVE  Same
  BY <1>1
<1>2. ASSUME NEW e, OnlyEntry(e), entry'[e].refs = entry[e].refs,
             entry'[e].pendingKill = entry[e].pendingKill
      PROVE  Same
  BY <1>2 DEF OnlyEntry
<1>3. ASSUME NEW w \in Worker, NEW e \in Made, TeardownEntry(w, e)
      PROVE  Same
  <2>1. /\ OnlyEntry(e) /\ entry'[e].refs = entry[e].refs
        /\ entry'[e].pendingKill => entry[e].pendingKill \/ entry[e].refs > 0
    BY <1>3, TeardownTouches DEF Touches, Deferred
  <2>. QED  BY <2>1 DEF OnlyEntry
<1>. HIDE DEF Same
<1>4. ASSUME NEW c \in Caller, Quiet(c) \/ Abandon(c)
      PROVE  Same
  BY <1>1, <1>4, QuietIs DEF Abandon
<1>5. ASSUME NEW c \in Caller, Validate(c) \/ ReleaseOne(c)
      PROVE  Same
  BY <1>1, <1>5 DEF Holding, ReleaseOne
<1>6. ASSUME NEW c \in Caller, CallerTeardown(c)
      PROVE  Same
  <2>1. caller[c].ptr \in Made /\ c \in Worker
    BY <1>6 DEF CallerTeardown, IInv, TypeOK, Worker
  <2>. QED  BY <1>3, <1>6, <2>1 DEF CallerTeardown
<1>7. ASSUME NEW e \in Entry, Spawner(e)
      PROVE  Same
  BY <1>1, <1>2, <1>7, SpawnerIs DEF Touches
<1>8. CASE EvictorTeardown
  <2>1. PICK e \in victims["evictor"] : TeardownEntry("evictor", e)
    BY <1>8 DEF EvictorTeardown
  <2>2. e \in Made /\ "evictor" \in Worker
    BY DEF IInv, TypeOK, Worker
  <2>3. Same
    BY <1>3, <2>1, <2>2
  <2>. QED  BY <2>3 DEF Same
<1>9. CASE ShutdownTeardown
  <2>1. Same
    BY <1>2, <1>9, ShutdownTouches DEF Touches
  <2>. QED  BY <2>1 DEF Same
<1>10. CASE \/ \E w \in Worker : FinishTeardown(w)
            \/ Evict \/ CancelContext \/ ClosePool \/ UNCHANGED vars
  BY <1>10 DEF FinishTeardown, Evict, CancelContext, ClosePool, vars
<1>11. Same
  BY <1>4, <1>5, <1>6, <1>7, <1>8, <1>9, <1>10, NextCases DEF Same
<1>. QED  BY <1>11 DEF Same

LEMMA HeldStep ==
  ASSUME IInv, [Next]_vars, NEW e \in Entry
  PROVE  /\ IsFiniteSet(HoldsIn(acquired', e))
         /\ entry'[e].refs = Cardinality(HoldsIn(acquired', e))
         /\ entry'[e].pendingKill => entry'[e].refs > 0
<1>. DEFINE before == HoldsIn(acquired, e)
            Goal == /\ IsFiniteSet(HoldsIn(acquired', e))
                    /\ entry'[e].refs = Cardinality(HoldsIn(acquired', e))
                    /\ entry'[e].pendingKill => entry'[e].refs > 0
<1>0. /\ IsFiniteSet(before) /\ entry[e].refs = Cardinality(before) /\ Cardinality(before) \in Nat
      /\ entry[e].pendingKill => entry[e].refs > 0
      /\ acquired \in [Caller -> Seq(Made)]
  BY HoldsAre, FS_CardinalityType DEF IInv, TypeOK, HoldInv, CountsAreExact, RefsAreHeld
<1>1. ASSUME Creates
      PROVE  Goal
  <2>1. PICK f, p, v : Makes(f, p, v)
    BY <1>1, CreatesMakes
  <2>2. acquired' = acquired
    BY <2>1 DEF Makes
  <2>3. CASE e = f
    <3>1. entry'[e].refs = 0 /\ ~entry'[e].pendingKill /\ e \notin Made
      BY <2>1, <2>3 DEF Makes
    <3>2. before = {}
      <4>1. \A c \in Caller : \A i \in DOMAIN acquired[c] : acquired[c][i] \in Made
        BY <1>0
      <4>. QED  BY <3>1, <4>1, HoldsMember
    <3>. QED  BY <2>2, <3>1, <3>2, FS_EmptySet
  <2>4. CASE e # f
    <3>1. entry'[e] = entry[e]
      BY <2>1, <2>4 DEF Makes, OnlyEntry
    <3>. QED  BY <1>0, <2>2, <3>1
  <2>. QED  BY <2>3, <2>4
<1>2. ASSUME NEW c \in Caller, Validate(c)
      PROVE  Goal
  <2>. DEFINE x == caller[c].ptr
  <2>1. /\ acquired' = [acquired EXCEPT ![c] = Append(@, x)]
        /\ Touches(x) /\ entry'[x].refs = entry[x].refs + 1
    BY <1>2, ValidateTouches DEF Validate
  <2>2. x \in Made
    BY <2>1 DEF Touches
  <2>. HIDE DEF x
  <2>3. /\ HoldsIn(acquired', x) = HoldsIn(acquired, x) \cup {<<c, Len(acquired[c]) + 1>>}
        /\ <<c, Len(acquired[c]) + 1>> \notin HoldsIn(acquired, x)
        /\ \A d : d # x => HoldsIn(acquired', d) = HoldsIn(acquired, d)
    <3>1. acquired \in [Caller -> Seq(Made)]
      BY <1>0
    <3>. QED  BY <2>1, <2>2, <3>1, HoldsAppend
  <2>4. CASE e = x
    <3>1. /\ IsFiniteSet(HoldsIn(acquired', e))
          /\ Cardinality(HoldsIn(acquired', e)) = Cardinality(before) + 1
      BY <1>0, <2>3, <2>4, FS_AddElement
    <3>2. entry'[e].refs = entry[e].refs + 1
      BY <2>1, <2>4
    <3>3. entry'[e].refs = Cardinality(HoldsIn(acquired', e)) /\ entry'[e].refs > 0
      BY <1>0, <3>1, <3>2
    <3>. QED  BY <3>1, <3>3
  <2>5. CASE e # x
    <3>1. entry'[e] = entry[e] /\ HoldsIn(acquired', e) = before
      BY <2>1, <2>3, <2>5 DEF Touches, OnlyEntry
    <3>. QED  BY <1>0, <3>1
  <2>. QED  BY <2>4, <2>5
<1>3. ASSUME NEW c \in Caller, ReleaseOne(c), acquired[c] # <<>>
      PROVE  Goal
  <2>. DEFINE x == Released(c)
  <2>1. acquired' = [acquired EXCEPT ![c] = Tail(@)]
    BY <1>3 DEF ReleaseOne
  <2>2. /\ Touches(x) /\ entry'[x].refs = entry[x].refs - 1 /\ entry[x].refs \in Nat \ {0}
        /\ entry'[x].pendingKill = (entry[x].pendingKill /\ ~Drains(x))
    BY <1>3, ReleaseTouches
  <2>3. x = Head(acquired[c])
    BY DEF Released
  <2>. HIDE DEF x
  <2>4. /\ IsFiniteSet(HoldsIn(acquired', e))
        /\ Cardinality(HoldsIn(acquired', e))
             = Cardinality(before) - IF e = Head(acquired[c]) THEN 1 ELSE 0
    <3>1. IsFiniteSet(HoldsIn(acquired, e)) /\ acquired \in [Caller -> Seq(Made)]
      BY <1>0
    <3>. QED  BY <1>3, <2>1, <3>1, HoldsTail
  <2>5. CASE e = x
    <3>1. Cardinality(HoldsIn(acquired', e)) = Cardinality(before) - 1
      BY <2>3, <2>4, <2>5
    <3>2. entry'[e].refs = Cardinality(HoldsIn(acquired', e))
      BY <1>0, <2>2, <2>5, <3>1
    <3>3. entry'[e].pendingKill => entry'[e].refs > 0
      <4>1. ASSUME entry'[x].pendingKill
            PROVE  ~(entry[x].refs <= 1)
        BY <2>2, <4>1, Zenon DEF Drains
      <4>2. ASSUME ~(entry[x].refs <= 1)
            PROVE  entry'[x].refs > 0
        BY <2>2, <4>2
      <4>. QED  BY <2>5, <4>1, <4>2
    <3>. QED  BY <2>4, <3>2, <3>3
  <2>6. CASE e # x
    <3>1. Cardinality(HoldsIn(acquired', e)) = Cardinality(before)
      BY <1>0, <2>3, <2>4, <2>6
    <3>2. entry'[e] = entry[e]
      BY <2>2, <2>6 DEF Touches, OnlyEntry
    <3>. QED  BY <1>0, <2>4, <3>1, <3>2
  <2>. QED  BY <2>5, <2>6
<1>4. ASSUME ~Creates, ~Holding
      PROVE  Goal
  <2>1. acquired' = acquired
    BY <1>4, AcquiredStays DEF Holding
  <2>. QED  BY <1>0, <1>4, <2>1, RefsStay
<1>. HIDE DEF Goal
<1>5. Goal
  BY <1>1, <1>2, <1>3, <1>4 DEF Holding
<1>. QED  BY <1>5 DEF Goal

-----------------------------------------------------------------------------
(* Pins. *)

LEMMA PinsNow ==
  ASSUME IInv
  PROVE  /\ IsFiniteSet(Committing) /\ IsFiniteSet(PinHolders)
         /\ Cardinality(Committing) \in Nat /\ Cardinality(PinHolders) \in Nat
         /\ pins = Cardinality(Committing) + Cardinality(PinHolders)
<1>1. IsFiniteSet(Entry) /\ PinHolders \subseteq Entry
  BY Nones, FS_Interval DEF PinHolders
<1>2. IsFiniteSet(PinHolders)
  BY <1>1, FS_Subset
<1>3. IsFiniteSet(Committing)
  BY DEF IInv, CommittingInv
<1>4. pins = Cardinality(Committing) + Cardinality(PinHolders)
  BY DEF IInv, CountsAreExact, PinsAreAccounted, Committing, PinHolders
<1>. QED  BY <1>2, <1>3, <1>4, FS_CardinalityType

\* Taking something into a finite set, or out of it, counts one.
LEMMA CountOne ==
  ASSUME NEW S, NEW x, IsFiniteSet(S)
  PROVE  /\ IsFiniteSet(S \cup {x}) /\ IsFiniteSet(S \ {x})
         /\ x \notin S => Cardinality(S \cup {x}) = Cardinality(S) + 1
         /\ x \in S => Cardinality(S \ {x}) = Cardinality(S) - 1
<1>1. Cardinality(S) \in Nat
  BY FS_CardinalityType
<1>2. IsFiniteSet(S \cup {x}) /\ (x \notin S => Cardinality(S \cup {x}) = Cardinality(S) + 1)
  BY FS_AddElement
<1>3. IsFiniteSet(S \ {x}) /\ (x \in S => Cardinality(S \ {x}) = Cardinality(S) - 1)
  BY FS_RemoveElement
<1>. QED  BY <1>2, <1>3

PinsOK ==
  /\ IsFiniteSet(Committing)
  /\ pins = Cardinality(Committing) + Cardinality(PinHolders)

LEMMA PinsStay ==
  ASSUME IInv, Committing' = Committing, PinHolders' = PinHolders, pins' = pins
  PROVE  PinsOK'
BY PinsNow DEF PinsOK

LEMMA CommittingAfter ==
  ASSUME NEW c \in Caller, \A d \in Caller : d # c => caller'[d] = caller[d]
  PROVE  /\ caller'[c].pc = "commit" => Committing' = Committing \cup {c}
         /\ caller'[c].pc # "commit" => Committing' = Committing \ {c}
BY DEF Committing

LEMMA PinHoldersAfter ==
  ASSUME NEW e \in Entry, OnlySpawner(e)
  PROVE  /\ spawner'[e].pin => PinHolders' = PinHolders \cup {e}
         /\ ~spawner'[e].pin => PinHolders' = PinHolders \ {e}
BY DEF PinHolders, OnlySpawner

LEMMA QuietPins ==
  ASSUME IInv, [Next]_vars, NEW c \in Caller, Quiet(c)
  PROVE  PinsOK'
<1>1. PinHolders' = PinHolders
  BY QuietIs DEF PinHolders
<1>2. /\ caller'[c].pc = "commit" => Committing' = Committing \cup {c}
      /\ caller'[c].pc # "commit" => Committing' = Committing \ {c}
  BY QuietMoves, CommittingAfter
<1>3. /\ IsFiniteSet(Committing \cup {c}) /\ IsFiniteSet(Committing \ {c})
      /\ c \notin Committing => Cardinality(Committing \cup {c}) = Cardinality(Committing) + 1
      /\ c \in Committing => Cardinality(Committing \ {c}) = Cardinality(Committing) - 1
  BY PinsNow, CountOne
<1>4. c \in Committing <=> caller[c].pc = "commit"
  BY DEF Committing
<1>5. CASE caller[c].pc # "commit" /\ caller'[c].pc # "commit" /\ pins' = pins
  <2>1. Committing' = Committing
    BY <1>2, <1>4, <1>5
  <2>. QED  BY <1>1, <1>5, <2>1, PinsStay
<1>6. CASE caller[c].pc # "commit" /\ caller'[c].pc = "commit" /\ pins' = pins + 1
  <2>1. IsFiniteSet(Committing') /\ Cardinality(Committing') = Cardinality(Committing) + 1
    BY <1>2, <1>3, <1>4, <1>6
  <2>. QED  BY <1>1, <1>6, <2>1, PinsNow DEF PinsOK
<1>7. CASE caller[c].pc = "commit" /\ caller'[c].pc # "commit" /\ pins' = pins - 1
  <2>1. IsFiniteSet(Committing') /\ Cardinality(Committing') = Cardinality(Committing) - 1
    BY <1>2, <1>3, <1>4, <1>7
  <2>. QED  BY <1>1, <1>7, <2>1, PinsNow DEF PinsOK
<1>. QED  BY <1>5, <1>6, <1>7, QuietMoves

\* A new entry has no pin yet, and takes over that of the request that fetched it.
LEMMA CreatesPins ==
  ASSUME IInv, [Next]_vars, Creates
  PROVE  PinsOK'
<1>0. Fresh \in Entry /\ Fresh \notin PinHolders /\ OnlySpawner(Fresh)
  <2>1. Fresh \in Entry /\ Fresh \notin Made /\ OnlySpawner(Fresh)
    BY AdoptMakes, LoadVersionMakes, CommitMakes DEF Creates, Makes
  <2>2. entry[Fresh].state = "unused" /\ EntryInv(Fresh)
    BY <2>1 DEF Made, IInv
  <2>. QED  BY <2>1, <2>2 DEF EntryInv, PinHolders
<1>1. CASE Adopt
  <2>1. Committing' = Committing /\ pins' = pins
    BY <1>1 DEF Adopt, Committing
  <2>2. PinHolders' = PinHolders
    BY <1>0, <1>1, AdoptMakes, PinHoldersAfter
  <2>. QED  BY <2>1, <2>2, PinsStay
<1>2. ASSUME NEW c \in Caller, LoadVersion(c)
      PROVE  PinsOK'
  <2>1. Committing' = Committing
    BY <1>2, LoadVersionMoves, CommittingAfter DEF Plain, Committing
  <2>2. PinHolders' = PinHolders
    BY <1>0, <1>2, LoadVersionMakes, PinHoldersAfter
  <2>. QED  BY <1>2, <2>1, <2>2, PinsStay DEF LoadVersion
<1>3. ASSUME NEW c \in Caller, Commit(c)
      PROVE  PinsOK'
  <2>1. Committing' = Committing \ {c} /\ c \in Committing
    BY <1>3, CommitMoves, CommittingAfter DEF Committing
  <2>2. PinHolders' = PinHolders \cup {Fresh}
    BY <1>0, <1>3, CommitMakes, PinHoldersAfter
  <2>3. IsFiniteSet(Committing') /\ Cardinality(Committing') = Cardinality(Committing) - 1
    BY <2>1, PinsNow, CountOne
  <2>4. Cardinality(PinHolders') = Cardinality(PinHolders) + 1
    BY <1>0, <2>2, PinsNow, CountOne
  <2>5. pins' = pins
    BY <1>3 DEF Commit
  <2>. QED  BY <2>3, <2>4, <2>5, PinsNow DEF PinsOK
<1>. QED  BY <1>1, <1>2, <1>3 DEF Creates

LEMMA SpawnerPins ==
  ASSUME IInv, NEW e \in Entry, Spawner(e)
  PROVE  PinsOK'
<1>0. /\ Committing' = Committing /\ OnlySpawner(e)
      /\ spawner \in [Entry -> SpawnerRecord] /\ spawner[e].pin \in BOOLEAN
      /\ (e \in PinHolders <=> spawner[e].pin)
  BY SpawnerIs DEF Committing, PinHolders, IInv, TypeOK, SpawnerRecord
<1>1. ASSUME ~spawner'[e].pin, pins' = Unpinned(e)
      PROVE  PinsOK'
  <2>1. PinHolders' = PinHolders \ {e}
    BY <1>0, <1>1, PinHoldersAfter
  <2>2. CASE spawner[e].pin
    <3>1. Cardinality(PinHolders') = Cardinality(PinHolders) - 1
      BY <1>0, <2>1, <2>2, PinsNow, CountOne
    <3>. QED  BY <1>0, <1>1, <2>2, <3>1, PinsNow DEF PinsOK, Unpinned
  <2>3. CASE ~spawner[e].pin
    <3>1. PinHolders' = PinHolders
      BY <1>0, <2>1, <2>3
    <3>2. pins' = pins
      BY <1>1, <2>3, PinsNow DEF Unpinned
    <3>. QED  BY <1>0, <3>1, <3>2, PinsStay
  <2>. QED  BY <1>0, <2>2, <2>3
<1>2. CASE SpawnFails(e)
  <2>1. spawner[e].pc \in Spawns
    BY SpawnerIs
  <2>. QED  BY <1>1, <1>2, <2>1, SpawnFailsTouches
<1>3. CASE Publish(e)
  BY <1>1, <1>3, PublishTouches
<1>4. CASE FetchBinary(e) /\ ~SpawnFails(e)
  <2>1. /\ spawner' = [spawner EXCEPT ![e].pc = "start", ![e].pin = TRUE] /\ pins' = pins + 1
        /\ spawner[e].pc = "fetch"
    BY <1>4 DEF FetchBinary
  <2>2. e \notin PinHolders
    BY <1>0, <2>1 DEF IInv, EntryInv
  <2>3. spawner'[e].pin
    BY <1>0, <2>1 DEF SpawnerRecord
  <2>4. Cardinality(PinHolders') = Cardinality(PinHolders) + 1
    BY <1>0, <2>2, <2>3, PinHoldersAfter, PinsNow, CountOne
  <2>. QED  BY <1>0, <2>1, <2>4, PinsNow DEF PinsOK
<1>5. CASE (StartProcess(e) \/ RegisterProvider(e)) /\ ~SpawnFails(e)
  <2>1. pins' = pins /\ spawner'[e].pin = spawner[e].pin
    BY <1>0, <1>5 DEF StartProcess, RegisterProvider, SpawnerAt, SpawnerRecord
  <2>2. PinHolders' = PinHolders
    BY <1>0, <2>1, PinHoldersAfter
  <2>. QED  BY <1>0, <2>1, <2>2, PinsStay
<1>. QED  BY <1>2, <1>3, <1>4, <1>5 DEF Spawner

LEMMA PinsStep ==
  ASSUME IInv, [Next]_vars
  PROVE  PinsOK'
<1>1. CASE Creates
  BY <1>1, CreatesPins
<1>2. ASSUME NEW c \in Caller, Quiet(c)
      PROVE  PinsOK'
  BY <1>2, QuietPins
<1>3. ASSUME NEW c \in Caller, Validate(c) \/ ReleaseOne(c) \/ Abandon(c) \/ CallerTeardown(c)
      PROVE  PinsOK'
  <2>1. Plain(c)
    BY <1>3, ValidateMoves, ReleaseMoves, AbandonMoves, CallerTeardownMoves
  <2>2. Committing' = Committing
    BY <2>1, CommittingAfter DEF Plain, Committing
  <2>3. UNCHANGED <<spawner, pins>>
    BY <1>3 DEF Validate, ReleaseOne, Abandon, CallerTeardown
  <2>4. PinHolders' = PinHolders
    BY <2>3 DEF PinHolders
  <2>. QED  BY <2>2, <2>3, <2>4, PinsStay
<1>4. ASSUME NEW e \in Entry, Spawner(e)
      PROVE  PinsOK'
  BY <1>4, SpawnerPins
<1>5. CASE \/ \E w \in Worker : FinishTeardown(w)
           \/ Evict \/ EvictorTeardown \/ CancelContext \/ ClosePool \/ ShutdownTeardown
           \/ UNCHANGED vars
  <2>1. UNCHANGED <<caller, spawner, pins>>
    BY <1>5 DEF FinishTeardown, Evict, EvictorTeardown, CancelContext, ClosePool,
                ShutdownTeardown, vars
  <2>2. Committing' = Committing /\ PinHolders' = PinHolders
    BY <2>1 DEF Committing, PinHolders
  <2>. QED  BY <2>1, <2>2, PinsStay
<1>. QED  BY <1>1, <1>2, <1>3, <1>4, <1>5, NextCases

-----------------------------------------------------------------------------
(* Who knows of a running plugin. *)

\* The context stays cancelled, and a lost place is not regained.
LEMMA LostStays ==
  ASSUME IInv, [Next]_vars
  PROVE  (cancelled => cancelled') /\ displaced \subseteq displaced'
<1>1. CASE Creates
  <2>1. cancelled' = cancelled /\ displaced' = displaced
    BY <1>1, CreatesMakes DEF Makes
  <2>. QED  BY <2>1
<1>2. ASSUME NEW c \in Caller, Quiet(c) \/ Validate(c) \/ ReleaseOne(c) \/ Abandon(c) \/ CallerTeardown(c)
      PROVE  cancelled' = cancelled /\ displaced \subseteq displaced'
  BY <1>2, QuietIs DEF Validate, ReleaseOne, Abandon, CallerTeardown
<1>3. ASSUME NEW e \in Entry, Spawner(e)
      PROVE  UNCHANGED <<cancelled, displaced>>
  BY <1>3, SpawnerIs
<1>4. CASE \/ \E w \in Worker : FinishTeardown(w)
           \/ Evict \/ EvictorTeardown \/ CancelContext \/ ClosePool \/ ShutdownTeardown
           \/ UNCHANGED vars
  BY <1>4 DEF FinishTeardown, Evict, EvictorTeardown, CancelContext, ClosePool,
              ShutdownTeardown, vars
<1>. QED  BY <1>1, <1>2, <1>3, <1>4, NextCases

\* A request that is to tear an entry down does nothing else.
LEMMA TeardownStays ==
  ASSUME IInv, [Next]_vars, NEW c \in Caller, caller[c].pc = "teardown", ~CallerTeardown(c)
  PROVE  caller'[c] = caller[c]
<1>1. ASSUME NEW d \in Caller, Quiet(d)
      PROVE  caller'[c] = caller[c]
  <2>1. ~Quiet(c)
    BY DEF Quiet, Begin, Reject, ResolveLatest, LookUp, LookingUp, Fetch, Redundant
  <2>. QED  BY <1>1, <2>1, QuietMoves
<1>2. ASSUME NEW d \in Caller, Validate(d) \/ ReleaseOne(d) \/ Abandon(d) \/ CallerTeardown(d)
      PROVE  caller'[c] = caller[c]
  <2>1. d # c
    BY <1>2 DEF Validate, ReleaseOne, Abandon
  <2>. QED  BY <1>2, <2>1, ValidateMoves, ReleaseMoves, AbandonMoves, CallerTeardownMoves DEF Plain
<1>3. CASE Creates
  <2>1. CASE Adopt
    BY <2>1 DEF Adopt
  <2>2. ASSUME NEW d \in Caller, LoadVersion(d) \/ Commit(d)
        PROVE  caller'[c] = caller[c]
    <3>1. d # c
      BY <2>2 DEF LoadVersion, LookingUp, Commit
    <3>. QED  BY <2>2, <3>1, LoadVersionMoves, CommitMoves DEF Plain
  <2>. QED  BY <1>3, <2>1, <2>2 DEF Creates
<1>4. ASSUME NEW e \in Entry, Spawner(e)
      PROVE  caller' = caller
  BY <1>4, SpawnerIs
<1>5. CASE \/ \E w \in Worker : FinishTeardown(w)
           \/ Evict \/ EvictorTeardown \/ CancelContext \/ ClosePool \/ ShutdownTeardown
           \/ UNCHANGED vars
  BY <1>5 DEF FinishTeardown, Evict, EvictorTeardown, CancelContext, ClosePool,
              ShutdownTeardown, vars
<1>. QED  BY <1>1, <1>2, <1>3, <1>4, <1>5, NextCases

\* What a step keeps of an entry that it does not tear down.
Alike(e) ==
  /\ InStore(e) => InStore(e)'
  /\ e \in victims["evictor"] => e \in victims'["evictor"]
  /\ entry'[e].state = "starting" => entry[e].state = "starting"
  /\ entry'[e].client => entry[e].client
  /\ entry'[e].client /\ entry[e].pendingKill => entry'[e].pendingKill
  /\ \A c \in Caller : caller[c].pc = "teardown" /\ caller[c].ptr = e => ~CallerTeardown(c)

LEMMA AliveAlike ==
  ASSUME IInv, [Next]_vars, NEW e \in Entry, AliveAt(e), Alike(e)
  PROVE  AliveAt(e)'
<1>1. ASSUME NEW c \in Caller, caller[c].pc = "teardown", caller[c].ptr = e
      PROVE  caller'[c] = caller[c]
  BY <1>1, TeardownStays DEF Alike
<1>2. (entry[e].state = "starting") => InStore(e)
  BY DEF AliveAt
<1>3. entry'[e].state = "starting" => InStore(e)'
  BY <1>2 DEF Alike
<1>4. ASSUME entry'[e].client
      PROVE  Known(e)'
  <2>1. Known(e)
    BY <1>4 DEF AliveAt, Alike
  <2>. QED  BY <1>1, <1>4, <2>1 DEF Alike, Known
<1>. QED  BY <1>3, <1>4 DEF AliveAt

\* A teardown takes the client, or leaves it to the last user.
LEMMA AliveTeardown ==
  ASSUME IInv, [Next]_vars, NEW w \in Worker, NEW x \in Made, TeardownEntry(w, x),
         UNCHANGED store,
         NEW e \in Entry, AliveAt(e),
         e # x => (e \in victims["evictor"] => e \in victims'["evictor"]),
         e # x => \A c \in Caller : caller[c].pc = "teardown" /\ caller[c].ptr = e => ~CallerTeardown(c)
  PROVE  AliveAt(e)'
<1>1. /\ OnlyEntry(x) /\ entry'[x].state = entry[x].state
      /\ entry'[x].client = Deferred(x)
      /\ entry'[x].pendingKill = (entry[x].pendingKill \/ Deferred(x))
  BY TeardownTouches DEF Touches
<1>2. InStore(e)' <=> InStore(e)
  BY DEF InStore
<1>3. CASE e = x
  <2>1. entry'[e].state = "starting" => InStore(e)'
    BY <1>1, <1>2, <1>3 DEF AliveAt
  <2>2. entry'[e].client => entry'[e].pendingKill
    BY <1>1, <1>3, Zenon
  <2>. QED  BY <2>1, <2>2 DEF AliveAt, Known
<1>4. CASE e # x
  <2>1. entry'[e] = entry[e]
    BY <1>1, <1>4 DEF OnlyEntry
  <2>2. Alike(e)
    BY <1>2, <1>4, <2>1 DEF Alike
  <2>. QED  BY <2>2, AliveAlike
<1>. QED  BY <1>3, <1>4

\* A step that leaves store and victims, and touches an entry or none.
LEMMA AliveTouched ==
  ASSUME IInv, [Next]_vars, ~ \E c \in Caller : CallerTeardown(c),
         UNCHANGED <<store, victims>>, NEW e \in Entry, AliveAt(e),
         entry'[e].state = "starting" => entry[e].state = "starting",
         entry'[e].client => entry[e].client,
         entry'[e].client /\ entry[e].pendingKill => entry'[e].pendingKill
  PROVE  AliveAt(e)'
<1>1. InStore(e) => InStore(e)'
  BY DEF InStore
<1>2. Alike(e)
  BY <1>1 DEF Alike
<1>. QED  BY <1>2, AliveAlike

LEMMA AliveCreates ==
  ASSUME IInv, [Next]_vars, Creates, NEW e \in Entry, AliveAt(e)
  PROVE  AliveAt(e)'
<1>1. PICK f, p, v : Makes(f, p, v)
  BY CreatesMakes
<1>2. /\ store' = [store EXCEPT ![<<p, v>>] = f] /\ store[<<p, v>>] = None
      /\ store \in [Artifact -> Entry \cup {None}] /\ <<p, v>> \in Artifact
      /\ OnlyEntry(f) /\ UNCHANGED victims
  BY <1>1 DEF Makes, Insert, IInv, TypeOK, Artifact
<1>3. CASE e = f
  <2>1. store'[<<p, v>>] = e
    BY <1>2, <1>3
  <2>2. InStore(e)'
    BY <1>2, <2>1 DEF InStore
  <2>. QED  BY <2>2 DEF AliveAt, Known
<1>4. CASE e # f
  <2>1. entry'[e] = entry[e]
    BY <1>2, <1>4 DEF OnlyEntry
  <2>2. InStore(e) => InStore(e)'
    <3>1. ASSUME NEW a \in Artifact, store[a] = e
          PROVE  store'[a] = e
      BY <1>2, <3>1, Nones
    <3>. QED  BY <3>1 DEF InStore
  <2>3. ~ \E c \in Caller : CallerTeardown(c)
    <3>1. ASSUME NEW c \in Caller, CallerTeardown(c)
          PROVE  store' = store
      BY <3>1 DEF CallerTeardown
    <3>2. store' # store
      <4>1. store'[<<p, v>>] = f /\ f \in Entry
        BY <1>1, <1>2 DEF Makes
      <4>. QED  BY <1>2, <4>1, Nones
    <3>. QED  BY <3>1, <3>2
  <2>4. Alike(e)
    BY <1>2, <2>1, <2>2, <2>3 DEF Alike
  <2>. QED  BY <1>4, <2>4, AliveAlike
<1>. QED  BY <1>3, <1>4

\* Whatever is under a dead entry's plugin and version goes, and is displaced.
LEMMA AliveAbandon ==
  ASSUME IInv, [Next]_vars, NEW c \in Caller, Abandon(c),
         NEW e \in Entry, AliveAt(e), e \notin displaced'
  PROVE  AliveAt(e)'
<1>. DEFINE x == caller[c].ptr
<1>0. caller[c].pc = "wait" /\ UNCHANGED <<entry, victims>>
  BY DEF Abandon
<1>1. ~CallerTeardown(c)
  BY <1>0 DEF CallerTeardown
<1>2. ~ \E d \in Caller : CallerTeardown(d)
  <2>1. ASSUME NEW d \in Caller, CallerTeardown(d)
        PROVE  FALSE
    <3>1. d # c
      BY <1>1, <2>1
    <3>2. caller'[c] = caller[c]
      BY <2>1, <3>1, CallerTeardownMoves DEF Plain
    <3>3. caller'[c].pc # "wait"
      BY AbandonMoves, FailsMoves DEF Abandon
    <3>. QED  BY <1>0, <3>2, <3>3
  <2>. QED  BY <2>1
<1>3. CASE entry[x].state = "dead" /\ entry[x].refs = 0
  <2>1. /\ store' = [store EXCEPT ![Key(x)] = None]
        /\ displaced' = displaced \cup ({store[Key(x)]} \ {None, x})
    BY <1>3 DEF Abandon, Forget, Key
  <2>2. caller'[c].pc = "teardown" /\ caller'[c].ptr = x
    BY <1>3, AbandonMoves
  <2>3. CASE e = x
    <3>1. Known(e)'
      BY <2>2, <2>3 DEF Known
    <3>2. entry'[e].state # "starting"
      BY <1>0, <1>3, <2>3
    <3>. QED  BY <3>1, <3>2 DEF AliveAt
  <2>4. CASE e # x
    <3>1. ASSUME NEW a \in Artifact, store[a] = e
          PROVE  store'[a] = e
      <4>1. a # Key(x)
        BY <2>1, <2>4, <3>1, Nones
      <4>. QED  BY <2>1, <3>1, <4>1 DEF IInv, TypeOK
    <3>2. InStore(e) => InStore(e)'
      BY <3>1 DEF InStore
    <3>3. Alike(e)
      BY <1>0, <1>2, <3>2 DEF Alike
    <3>. QED  BY <3>3, AliveAlike
  <2>. QED  BY <2>3, <2>4
<1>4. CASE ~(entry[x].state = "dead" /\ entry[x].refs = 0)
  <2>1. UNCHANGED store
    BY <1>4 DEF Abandon
  <2>. QED  BY <1>0, <1>2, <2>1, AliveTouched
<1>. QED  BY <1>3, <1>4

LEMMA AliveEvict ==
  ASSUME IInv, [Next]_vars, Evict, NEW e \in Entry, AliveAt(e)
  PROVE  AliveAt(e)'
<1>1. PICK chosen \in SUBSET Stored :
        /\ \A a \in chosen : Evictable(store[a], "dead") \/ Evictable(store[a], "ready")
        /\ victims' = [victims EXCEPT !["evictor"] = {store[a] : a \in chosen}]
        /\ store' = [a \in Artifact |-> IF a \in chosen THEN None ELSE store[a]]
  BY DEF Evict
<1>2. /\ UNCHANGED <<entry, caller>> /\ victims["evictor"] = {}
      /\ victims \in [{"evictor", "shutdown"} -> SUBSET Made]
  BY DEF Evict, IInv, TypeOK
<1>3. ASSUME NEW a \in Artifact, store[a] = e
      PROVE  InStore(e)' \/ (e \in victims'["evictor"] /\ entry[e].state # "starting")
  <2>1. CASE a \in chosen
    <3>1. e \in victims'["evictor"]
      BY <1>1, <1>2, <1>3, <2>1
    <3>2. entry[e].state # "starting"
      BY <1>1, <1>3, <2>1 DEF Evictable
    <3>. QED  BY <3>1, <3>2
  <2>2. CASE a \notin chosen
    <3>1. store'[a] = e
      BY <1>1, <1>3, <2>2
    <3>. QED  BY <3>1 DEF InStore
  <2>. QED  BY <2>1, <2>2
<1>4. InStore(e) => InStore(e)' \/ (e \in victims'["evictor"] /\ entry[e].state # "starting")
  BY <1>3 DEF InStore
<1>. QED  BY <1>2, <1>4 DEF AliveAt, Known

LEMMA AliveSpawner ==
  ASSUME IInv, [Next]_vars, NEW f \in Entry, Spawner(f), NEW e \in Entry, AliveAt(e)
  PROVE  AliveAt(e)'
<1>0. UNCHANGED <<store, victims, caller>>
  BY SpawnerIs
<1>1. InStore(e)' <=> InStore(e)
  BY <1>0 DEF InStore
<1>2. CASE e = f /\ entry[e].state = "starting"
  <2>1. InStore(e)'
    BY <1>1, <1>2 DEF AliveAt
  <2>. QED  BY <2>1 DEF AliveAt, Known
<1>3. CASE e # f \/ entry[e].state # "starting"
  <2>1. entry'[e] = entry[e]
    BY <1>3, SpawnerIs DEF Touches, OnlyEntry
  <2>. QED  BY <1>0, <1>1, <2>1 DEF AliveAt, Known
<1>. QED  BY <1>2, <1>3

LEMMA AliveStep ==
  ASSUME IInv, [Next]_vars
  PROVE  AliveInv'
<1>. SUFFICES ASSUME NEW e \in Entry, ~cancelled', e \notin displaced'
              PROVE  AliveAt(e)'
  BY DEF AliveInv
<1>0. AliveAt(e) /\ ~cancelled
  BY LostStays DEF IInv, AliveInv
<1>1. CASE Creates
  BY <1>0, <1>1, AliveCreates
<1>2. ASSUME NEW c \in Caller, Quiet(c)
      PROVE  AliveAt(e)'
  <2>1. ~ \E d \in Caller : CallerTeardown(d)
    <3>1. ASSUME NEW d \in Caller, CallerTeardown(d)
          PROVE  FALSE
      <4>1. caller[d].pc = "teardown" /\ caller'[d].pc = "release"
        BY <3>1, FailsMoves DEF CallerTeardown
      <4>2. ~Quiet(d)
        BY <4>1 DEF Quiet, Begin, Reject, ResolveLatest, LookUp, LookingUp, Fetch, Redundant
      <4>3. caller'[d] = caller[d]
        BY <1>2, <4>2, QuietMoves
      <4>. QED  BY <4>1, <4>3
    <3>. QED  BY <3>1
  <2>. QED  BY <1>0, <1>2, <2>1, QuietIs, AliveTouched
<1>3. ASSUME NEW c \in Caller, Validate(c) \/ ReleaseOne(c)
      PROVE  AliveAt(e)'
  <2>1. ~ \E d \in Caller : CallerTeardown(d)
    <3>1. ASSUME NEW d \in Caller, CallerTeardown(d)
          PROVE  FALSE
      <4>1. caller[d].pc = "teardown" /\ caller'[d].pc = "release"
        BY <3>1, FailsMoves DEF CallerTeardown
      <4>2. d # c
        BY <1>3, <4>1 DEF Validate, ReleaseOne
      <4>3. caller'[d] = caller[d]
        BY <1>3, <4>2, ValidateMoves, ReleaseMoves DEF Plain
      <4>. QED  BY <4>1, <4>3
    <3>. QED  BY <3>1
  <2>2. UNCHANGED <<store, victims>>
    BY <1>3 DEF Validate, ReleaseOne
  <2>3. /\ entry'[e].state = "starting" => entry[e].state = "starting"
        /\ entry'[e].client => entry[e].client
        /\ entry'[e].client /\ entry[e].pendingKill => entry'[e].pendingKill
    <3>1. CASE Validate(c)
      BY <3>1, ValidateTouches DEF Touches, OnlyEntry
    <3>2. CASE ReleaseOne(c) /\ acquired[c] = <<>>
      BY <3>2 DEF ReleaseOne
    <3>3. CASE ReleaseOne(c) /\ acquired[c] # <<>>
      BY <3>3, ReleaseTouches DEF Touches, OnlyEntry
    <3>. QED  BY <1>3, <3>1, <3>2, <3>3
  <2>. QED  BY <1>0, <2>1, <2>2, <2>3, AliveTouched
<1>4. ASSUME NEW c \in Caller, Abandon(c)
      PROVE  AliveAt(e)'
  BY <1>0, <1>4, AliveAbandon
<1>5. ASSUME NEW c \in Caller, CallerTeardown(c)
      PROVE  AliveAt(e)'
  <2>1. /\ caller[c].ptr \in Made /\ c \in Worker /\ TeardownEntry(c, caller[c].ptr)
        /\ UNCHANGED <<store, victims>>
    BY <1>5 DEF CallerTeardown, IInv, TypeOK, Worker
  <2>2. ASSUME NEW d \in Caller, CallerTeardown(d)
        PROVE  d = c
    <3>1. caller[d].pc = "teardown" /\ caller'[d].pc = "release"
      BY <2>2, FailsMoves DEF CallerTeardown
    <3>. QED  BY <1>5, <3>1, CallerTeardownMoves DEF Plain
  <2>. QED  BY <1>0, <2>1, <2>2, AliveTeardown
<1>6. ASSUME NEW f \in Entry, Spawner(f)
      PROVE  AliveAt(e)'
  BY <1>0, <1>6, AliveSpawner
<1>7. CASE Evict
  BY <1>0, <1>7, AliveEvict
<1>8. CASE EvictorTeardown
  <2>1. PICK x \in victims["evictor"] :
          /\ TeardownEntry("evictor", x)
          /\ victims' = [victims EXCEPT !["evictor"] = @ \ {x}]
    BY <1>8 DEF EvictorTeardown
  <2>2. /\ x \in Made /\ "evictor" \in Worker /\ UNCHANGED <<store, caller>>
        /\ e # x => (e \in victims["evictor"] => e \in victims'["evictor"])
    BY <1>8, <2>1 DEF EvictorTeardown, IInv, TypeOK, Worker
  <2>3. ASSUME NEW c \in Caller, CallerTeardown(c)
        PROVE  FALSE
    <3>1. caller[c].pc = "teardown" /\ caller'[c].pc = "release"
      BY <2>3, FailsMoves DEF CallerTeardown
    <3>. QED  BY <2>2, <3>1
  <2>4. AliveAt(e)'
    BY <1>0, <2>1, <2>2, <2>3, AliveTeardown
  <2>. QED  BY <2>4
<1>9. CASE ShutdownTeardown
  <2>1. PICK x \in victims["shutdown"] :
          /\ Touches(x) /\ entry'[x].state = entry[x].state
          /\ ~entry'[x].client
          /\ victims' = [victims EXCEPT !["shutdown"] = @ \ {x}]
    BY <1>9, ShutdownTouches
  <2>2. /\ UNCHANGED <<store, caller>> /\ victims'["evictor"] = victims["evictor"]
    BY <1>9, <2>1 DEF ShutdownTeardown, IInv, TypeOK
  <2>3. InStore(e)' <=> InStore(e)
    BY <2>2 DEF InStore
  <2>4. CASE e = x
    BY <1>0, <2>1, <2>3, <2>4 DEF AliveAt
  <2>5. CASE e # x
    <3>1. entry'[e] = entry[e]
      BY <2>1, <2>5 DEF Touches, OnlyEntry
    <3>. QED  BY <1>0, <2>2, <2>3, <3>1 DEF AliveAt, Known
  <2>. QED  BY <2>4, <2>5
<1>10. CASE (\E w \in Worker : FinishTeardown(w)) \/ UNCHANGED vars
  <2>1. UNCHANGED <<store, entry, victims, caller>>
    BY <1>10 DEF FinishTeardown, vars
  <2>. QED  BY <1>0, <2>1 DEF AliveAt, Known, InStore
<1>11. CASE CancelContext \/ ClosePool
  BY <1>0, <1>11 DEF CancelContext, ClosePool
<1>. QED  BY <1>1, <1>2, <1>3, <1>4, <1>5, <1>6, <1>7, <1>8, <1>9, <1>10, <1>11, NextCases

-----------------------------------------------------------------------------
(* The invariant holds. *)

LEMMA TypeStep ==
  ASSUME IInv, [Next]_vars
  PROVE  TypeOK'
<1>1. /\ index' \in [Plugin -> Seq(Version)] /\ store' \in [Artifact -> Entry \cup {None}]
  BY ShapeStep DEF ShapeInv
<1>2. pins' \in Nat
  <2>1. /\ IsFiniteSet(Committing') /\ IsFiniteSet(PinHolders')
        /\ pins' = Cardinality(Committing') + Cardinality(PinHolders')
    <3>1. IsFiniteSet(Entry) /\ PinHolders' \subseteq Entry
      BY Nones, FS_Interval DEF PinHolders
    <3>. QED  BY <3>1, FS_Subset, PinsStep DEF PinsOK
  <2>. QED  BY <2>1, FS_CardinalityType
<1>3. /\ caller' \in [Caller -> CallerRecord]
      /\ \A c \in Caller :
           /\ caller'[c].at \in DOMAIN Wants[c]
           /\ (caller'[c].ptr # None) <=> caller'[c].pc \in {"wait", "teardown"}
           /\ caller'[c].ptr # None => caller'[c].ptr \in Made'
           /\ caller'[c].version # None => caller'[c].pc \in {"look up", "fetch", "commit"}
           /\ caller'[c].pc = "commit" => caller'[c].version # None
  BY CallersStep DEF CallersOK, CallerOK
<1>. QED  BY <1>1, <1>2, <1>3, FlagsStep, EntryStep, ProcessStep, SpawnerStep, AcquiredStep,
             TeardownStep, VictimsStep DEF TypeOK

LEMMA HoldsStep ==
  ASSUME IInv, [Next]_vars
  PROVE  RefsAreHeld' /\ HoldInv'
<1>1. \A e : Holds(e)' = HoldsIn(acquired', e)
  BY DEF Holds, HoldsIn
<1>. QED  BY <1>1, HeldStep DEF RefsAreHeld, HoldInv

LEMMA InitIInv == Init => IInv
<1>. SUFFICES ASSUME Init
              PROVE  IInv
  OBVIOUS
<1>. USE DEF Init
<1>0. Made = {} /\ Cardinality(Made) = 0
  <2>1. Made = {}
    BY DEF Made, NoEntry
  <2>. QED  BY <2>1, FS_EmptySet
<1>1. Stored = {} /\ Cardinality(Stored) = 0 /\ IsFiniteSet(Stored)
  <2>1. Stored = {}
    BY DEF Stored
  <2>. QED  BY <2>1, FS_EmptySet
<1>2. TypeOK
  <2>1. \A c \in Caller : 1 \in DOMAIN Wants[c]
    <3>1. ASSUME NEW c \in Caller
          PROVE  1 \in DOMAIN Wants[c]
      <4>1. Wants[c] \in Seq(Dependency) /\ Wants[c] # <<>>
        BY VersionPoolAssumption
      <4>. QED  BY <4>1
    <3>. QED  BY <3>1
  <2>2. entry \in [Entry -> EntryRecord] /\ spawner \in [Entry -> SpawnerRecord]
    BY DEF NoEntry, EntryRecord, SpawnerRecord
  <2>3. caller \in [Caller -> CallerRecord] /\ teardown \in [Worker -> TeardownRecord]
    BY DEF CallerRecord, TeardownRecord, NoTeardown
  <2>4. \A c \in Caller :
          /\ caller[c].at \in DOMAIN Wants[c]
          /\ (caller[c].ptr # None) <=> caller[c].pc \in {"wait", "teardown"}
          /\ caller[c].ptr # None => caller[c].ptr \in Made
          /\ caller[c].version # None => caller[c].pc \in {"look up", "fetch", "commit"}
          /\ caller[c].pc = "commit" => caller[c].version # None
    BY <2>1
  <2>5. index \in [Plugin -> Seq(Version)] /\ store \in [Artifact -> Entry \cup {None}]
        /\ registry \in [Artifact -> Entry \cup {None}] /\ acquired \in [Caller -> Seq(Made)]
    OBVIOUS
  <2>6. /\ closed \in BOOLEAN /\ cancelled \in BOOLEAN /\ pins \in Nat
        /\ process \in [Entry -> {"none", "alive", "killed"}] /\ served \in [Caller -> Nat]
        /\ victims \in [{"evictor", "shutdown"} -> SUBSET Made] /\ displaced \subseteq Made
    OBVIOUS
  <2>. QED  BY <1>0, <2>2, <2>3, <2>4, <2>5, <2>6 DEF TypeOK
<1>3. PoolIsConsistent /\ StoreInv /\ CapacityInv
  <2>1. IndexMatchesStore
    BY DEF IndexMatchesStore, Descending, Range, Artifact
  <2>2. WithinCapacity
    BY <1>1, VersionPoolAssumption DEF WithinCapacity
  <2>3. StoreInv
    BY DEF StoreInv
  <2>4. CapacityInv
    BY <1>0, <1>1 DEF CapacityInv
  <2>. QED  BY <2>1, <2>2, <2>3, <2>4 DEF PoolIsConsistent
<1>4. \A e \in Entry : Holds(e) = {} /\ IsFiniteSet(Holds(e)) /\ Cardinality(Holds(e)) = 0
  <2>1. \A e \in Entry : Holds(e) = {}
    BY DEF Holds
  <2>. QED  BY <2>1, FS_EmptySet
<1>5. RefsAreHeld /\ HoldInv
  BY <1>4 DEF RefsAreHeld, HoldInv, NoEntry
<1>6. PinsAreAccounted /\ CommittingInv
  <2>1. Committing = {} /\ PinHolders = {}
    BY DEF Committing, PinHolders
  <2>2. Cardinality(Committing) = 0 /\ Cardinality(PinHolders) = 0 /\ IsFiniteSet(Committing)
    BY <2>1, FS_EmptySet
  <2>. QED  BY <2>2 DEF PinsAreAccounted, CommittingInv, Committing, PinHolders
<1>7. MadeInv
  BY <1>0 DEF MadeInv
<1>8. \A e \in Entry : EntryInv(e)
  BY DEF EntryInv, NoEntry, Spawns
<1>9. AliveInv
  BY DEF AliveInv, AliveAt, NoEntry
<1>. QED  BY <1>2, <1>3, <1>5, <1>6, <1>7, <1>8, <1>9 DEF IInv, CountsAreExact

LEMMA NextIInv == IInv /\ [Next]_vars => IInv'
<1>. SUFFICES ASSUME IInv, [Next]_vars
              PROVE  IInv'
  OBVIOUS
<1>1. PoolIsConsistent' /\ StoreInv' /\ CapacityInv'
  BY ShapeStep DEF ShapeInv, PoolIsConsistent
<1>2. PinsAreAccounted' /\ CommittingInv'
  BY PinsStep DEF PinsOK, PinsAreAccounted, CommittingInv, Committing, PinHolders
<1>. QED  BY <1>1, <1>2, TypeStep, HoldsStep, MadeStep, EntryInvStep, AliveStep
          DEF IInv, CountsAreExact

\* The inductive invariant: with the three properties below, entries are made in
\* order and under their own key, a spawner has its entry starting and no pin but
\* one it is to use, and whoever knows of a running plugin is named.
THEOREM Invariance == Spec => []IInv
BY InitIInv, NextIInv, PTL DEF Spec

\* Entries, spawners, requests and teardowns have their types in every pool, and a
\* request has an entry exactly while it waits for one or tears it down.
THEOREM TypeCorrect == Spec => []TypeOK
<1>1. IInv => TypeOK
  BY DEF IInv
<1>. QED  BY Invariance, <1>1, PTL

\* However requests that fetch outside the lock, failed spawns and evictions
\* interleave, the index lists exactly the stored versions, in descending order, and
\* the pool is never overfull.
THEOREM IndexAgrees == Spec => []PoolIsConsistent
<1>1. IInv => PoolIsConsistent
  BY DEF IInv
<1>. QED  BY Invariance, <1>1, PTL

\* References and pins are counted without loss on every path of a request and of
\* a spawn, whatever the number of callers.
THEOREM CountsHold == Spec => []CountsAreExact
<1>1. IInv => CountsAreExact
  BY DEF IInv
<1>. QED  BY Invariance, <1>1, PTL

\* Until Shutdown no running plugin is lost, except one whose place a failed request
\* cleared, taking it for its own.
THEOREM NoPluginLost == Spec => []AliveIsReachable
<1>1. IInv => AliveIsReachable
  <2>. SUFFICES ASSUME IInv, NEW e \in Entry, entry[e].client, ~cancelled, e \notin displaced
                PROVE  \/ store[Key(e)] = e
                       \/ e \in victims["evictor"]
                       \/ entry[e].pendingKill
                       \/ \E c \in Caller : caller[c].pc = "teardown" /\ caller[c].ptr = e
    BY DEF AliveIsReachable
  <2>1. Known(e)
    BY DEF IInv, AliveInv, AliveAt
  <2>2. ASSUME NEW a \in Artifact, store[a] = e
        PROVE  store[Key(e)] = e
    BY <2>2, Nones DEF IInv, StoreInv
  <2>. QED  BY <2>1, <2>2 DEF Known, InStore
<1>. QED  BY Invariance, <1>1, PTL
=============================================================================
