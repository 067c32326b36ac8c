---------------------------- MODULE ListesProofs ----------------------------
(***************************************************************************)
(* Facts about the list operators of Listes.tla, for lists of any length   *)
(* and any elements.                                                       *)
(***************************************************************************)
EXTENDS Listes, FiniteSetTheorems, TLAPS

(* In a finite chain, counting predecessors reaches every number up to the   *)
(* size of the set: the CHOOSE of TrierParEntite and the one of Extraire    *)
(* find the entry they look for.                                            *)
LEMMA RangAtteint ==
  ASSUME NEW S, IsFiniteSet(S), NEW av \in [S -> SUBSET S],
         \A a \in S : a \in av[a],
         \A a, b \in S : \/ a = b
                         \/ av[a] \subseteq av[b] /\ b \notin av[a]
                         \/ av[b] \subseteq av[a] /\ a \notin av[b],
         NEW n \in 1..Cardinality(S)
  PROVE  \E a \in S : Cardinality(av[a]) = n
<1> DEFINE f == [a \in S |-> Cardinality(av[a])]
<1>1. Cardinality(S) \in Nat
  BY FS_CardinalityType
<1>2. /\ IsFiniteSet(1..Cardinality(S))
      /\ Cardinality(1..Cardinality(S)) = Cardinality(S)
  BY <1>1, FS_Interval
<1>3. ASSUME NEW a \in S
      PROVE  /\ IsFiniteSet(av[a])
             /\ Cardinality(av[a]) \in 1..Cardinality(S)
  <2>1. IsFiniteSet(av[a]) /\ Cardinality(av[a]) <= Cardinality(S)
    BY FS_Subset
  <2>2. Cardinality(av[a]) \in Nat
    BY <2>1, FS_CardinalityType
  <2>3. Cardinality(av[a]) # 0
    BY <2>1, FS_EmptySet
  <2>4. QED
    BY <1>1, <2>1, <2>2, <2>3
<1>4. ASSUME NEW a \in S, NEW b \in S, av[a] \subseteq av[b], b \notin av[a]
      PROVE  Cardinality(av[a]) # Cardinality(av[b])
  BY <1>3, <1>4, FS_Subset
<1>5. f \in [S -> 1..Cardinality(S)]
  BY <1>3
<1>6. ASSUME NEW a \in S, NEW b \in S, f[a] = f[b]
      PROVE  a = b
  BY <1>4, <1>6
<1>7. f \in Injection(S, 1..Cardinality(S))
  BY <1>5, <1>6 DEF Injection, IsInjective
<1>8. f \in Surjection(S, 1..Cardinality(S))
  <2> HIDE DEF f
  <2>1. QED
    BY <1>2, <1>7, FS_Injection
<1>9. QED
  BY <1>8 DEF Surjection

(* A non-empty set of positions has a first and a last one.                 *)
LEMMA Premier ==
  ASSUME NEW n \in Nat, NEW S \in SUBSET (1..n), S # {}
  PROVE  \E a \in S : \A b \in S : a <= b
<1> DEFINE av == [a \in S |-> {k \in S : k <= a}]
<1>1. IsFiniteSet(S)
  <2>1. IsFiniteSet(1..n)
    BY FS_Interval
  <2>2. QED
    BY <2>1, FS_Subset
<1>2. Cardinality(S) \in Nat /\ Cardinality(S) # 0
  BY <1>1, FS_CardinalityType, FS_EmptySet
<1>3. \E a \in S : Cardinality(av[a]) = 1
  <2>1. av \in [S -> SUBSET S] /\ \A a \in S : a \in av[a]
    OBVIOUS
  <2>2. ASSUME NEW a \in S, NEW b \in S
        PROVE  \/ a = b
               \/ av[a] \subseteq av[b] /\ b \notin av[a]
               \/ av[b] \subseteq av[a] /\ a \notin av[b]
    <3>1. a \in Nat /\ b \in Nat /\ \A k \in S : k \in Nat
      OBVIOUS
    <3>2. ASSUME NEW x \in S, NEW y \in S, x < y
          PROVE  av[x] \subseteq av[y] /\ y \notin av[x]
      <4>1. \A k \in S : k <= x => k <= y
        BY <3>1, <3>2
      <4>2. ~(y <= x)
        BY <3>1, <3>2
      <4>3. QED
        BY <4>1, <4>2
    <3>3. a = b \/ a < b \/ b < a
      BY <3>1
    <3>4. QED
      BY <3>2, <3>3
  <2>3. 1 \in 1..Cardinality(S)
    BY <1>2
  <2> HIDE DEF av
  <2>4. \A a, b \in S : \/ a = b
                        \/ av[a] \subseteq av[b] /\ b \notin av[a]
                        \/ av[b] \subseteq av[a] /\ a \notin av[b]
    BY <2>2
  <2>5. \A m \in 1..Cardinality(S) : \E a \in S : Cardinality(av[a]) = m
    BY <1>1, <2>1, <2>4, RangAtteint
  <2>6. QED
    BY <2>3, <2>5
<1>4. PICK a \in S : Cardinality(av[a]) = 1
  BY <1>3
<1>5. IsFiniteSet(av[a])
  BY <1>1, FS_Subset
<1>6. PICK x : av[a] = {x}
  BY <1>4, <1>5, FS_Singleton
<1>7. \A k \in S : k <= a => k = a
  BY <1>6
<1>8. QED
  BY <1>7

LEMMA Dernier ==
  ASSUME NEW n \in Nat, NEW S \in SUBSET (1..n), S # {}
  PROVE  \E a \in S : \A b \in S : b <= a
<1> DEFINE T == {i \in 1..n : n + 1 - i \in S}
<1>1. T \in SUBSET (1..n) /\ T # {}
  <2>1. PICK x \in S : TRUE
    OBVIOUS
  <2>2. n + 1 - x \in 1..n /\ n + 1 - (n + 1 - x) = x
    OBVIOUS
  <2>3. QED
    BY <2>2
<1>2. PICK a \in T : \A b \in T : a <= b
  <2> HIDE DEF T
  <2>1. QED
    BY <1>1, Premier
<1>3. \A b \in S : n + 1 - b \in T
  OBVIOUS
<1>4. \A b \in S : b <= n + 1 - a
  BY <1>2, <1>3
<1>5. QED
  BY <1>2, <1>4

(* Fewer predecessors, smaller rank. *)
LEMMA RangCroissant ==
  ASSUME NEW B, IsFiniteSet(B), NEW A \in SUBSET B, NEW b \in B, b \notin A
  PROVE  Cardinality(A) < Cardinality(B)
  BY FS_Subset, FS_CardinalityType

-----------------------------------------------------------------------------

(* Extracting positions gives a list of as many elements.                  *)
LEMMA ExtraireType ==
  ASSUME NEW X, NEW s \in Seq(X), NEW I \in SUBSET (1..Len(s))
  PROVE  /\ Extraire(s, I) \in Seq(X)
         /\ Len(Extraire(s, I)) = Cardinality(I)
         /\ Len(Extraire(s, I)) <= Len(s)
<1> DEFINE av == [i \in I |-> {k \in I : k <= i}]
           N  == Cardinality(I)
<1>1. Len(s) \in Nat /\ I \subseteq 1..Len(s) /\ \A i \in 1..Len(s) : s[i] \in X
  OBVIOUS
<1>2. IsFiniteSet(I) /\ N \in Nat /\ N <= Len(s)
  <2>1. IsFiniteSet(1..Len(s)) /\ Cardinality(1..Len(s)) = Len(s)
    <3>1. ASSUME NEW n \in Nat
          PROVE  IsFiniteSet(1..n) /\ Cardinality(1..n) = n
      BY FS_Interval
    <3>2. QED
      BY <1>1, <3>1
  <2>2. IsFiniteSet(I) /\ Cardinality(I) <= Cardinality(1..Len(s))
    BY <2>1, FS_Subset
  <2>3. QED
    BY <2>1, <2>2, FS_CardinalityType
<1>3. /\ \A a \in I : a \in av[a]
      /\ \A a, b \in I : \/ a = b
                         \/ av[a] \subseteq av[b] /\ b \notin av[a]
                         \/ av[b] \subseteq av[a] /\ a \notin av[b]
      /\ av \in [I -> SUBSET I]
  <2>1. \A i \in I : i \in Nat
    BY <1>1
  <2>2. \A a \in I : a <= a
    BY <2>1
  <2>3. ASSUME NEW a \in I, NEW b \in I, a < b
        PROVE  av[a] \subseteq av[b] /\ b \notin av[a]
    <3>1. ~(b <= a) /\ \A k \in I : k <= a => k <= b
      BY <2>1, <2>3
    <3>2. QED
      BY <3>1
  <2>4. \A a, b \in I : a = b \/ a < b \/ b < a
    BY <2>1
  <2>5. QED
    BY <2>2, <2>3, <2>4
<1>4. \A n \in 1..N : \E i \in I : Cardinality(av[i]) = n
  <2> HIDE DEF av
  <2>1. QED
    BY <1>2, <1>3, RangAtteint
<1>5. \A n \in 1..N : (CHOOSE i \in I : Cardinality({k \in I : k <= i}) = n) \in I
  BY <1>4
<1>6. Extraire(s, I) \in [1..N -> X]
  <2>1. \A n \in 1..N : s[CHOOSE i \in I : Cardinality({k \in I : k <= i}) = n] \in X
    BY <1>1, <1>5
  <2>2. QED
    BY <2>1 DEF Extraire
<1> HIDE DEF N
<1>7. Extraire(s, I) \in Seq(X) /\ Len(Extraire(s, I)) = N
  BY <1>2, <1>6
<1>8. QED
  BY <1>2, <1>7 DEF N

(* s tells where in j each extracted element was: the positions of S, in    *)
(* their order.                                                             *)
Extrait(j, S, s) ==
  /\ s \in [1..Len(Extraire(j, S)) -> S]
  /\ \A n \in 1..Len(Extraire(j, S)) : Extraire(j, S)[n] = j[s[n]]
  /\ \A n, m \in 1..Len(Extraire(j, S)) : n < m => s[n] < s[m]
  /\ \A i \in S : \E n \in 1..Len(Extraire(j, S)) : s[n] = i

(* The elements come in their order, each once.                             *)
LEMMA ExtraireOrdre ==
  ASSUME NEW X, NEW j \in Seq(X), NEW S \in SUBSET (1..Len(j))
  PROVE  \E s : Extrait(j, S, s)
<1> DEFINE N  == Cardinality(S)
           av == [i \in S |-> {k \in S : k <= i}]
           s  == [n \in 1..N |-> CHOOSE i \in S : Cardinality({k \in S : k <= i}) = n]
<1>1. S \in SUBSET (1..Len(j)) /\ Len(j) \in Nat /\ \A i \in S : i \in Nat
  OBVIOUS
<1>2. Extraire(j, S) =
        [n \in 1..N |-> j[CHOOSE i \in S : Cardinality({k \in S : k <= i}) = n]]
  BY DEF Extraire
<1>3. IsFiniteSet(S) /\ N \in Nat
  <2>1. IsFiniteSet(1..Len(j))
    BY <1>1, FS_Interval
  <2>2. QED
    BY <1>1, <2>1, FS_Subset, FS_CardinalityType
<1>4. /\ av \in [S -> SUBSET S]
      /\ \A i \in S : av[i] = {k \in S : k <= i} /\ i \in av[i]
  BY <1>1
<1>5. ASSUME NEW i \in S, NEW k \in S, i < k
      PROVE  av[i] \subseteq av[k] /\ k \notin av[i]
  <2>1. \A x \in S : x <= i => x <= k
    BY <1>1, <1>5
  <2>2. ~(k <= i)
    BY <1>1, <1>5
  <2>3. QED
    BY <2>1, <2>2
<1>6. \A i, k \in S : i = k \/ i < k \/ k < i
  BY <1>1
<1>7. \A i, k \in S : \/ i = k
                      \/ av[i] \subseteq av[k] /\ k \notin av[i]
                      \/ av[k] \subseteq av[i] /\ i \notin av[k]
  BY <1>5, <1>6
<1> HIDE DEF av
<1>8. \A n \in 1..N : \E i \in S : Cardinality(av[i]) = n
  BY <1>3, <1>4, <1>7, RangAtteint
<1>9. ASSUME NEW i \in S, NEW k \in S, i < k
      PROVE  Cardinality(av[i]) < Cardinality(av[k])
  <2>1. IsFiniteSet(av[k]) /\ av[i] \in SUBSET av[k] /\ k \in av[k] /\ k \notin av[i]
    BY <1>3, <1>4, <1>5, <1>9, FS_Subset
  <2>2. QED
    BY <2>1, RangCroissant
<1>10. \A i \in S : Cardinality(av[i]) \in 1..N
  <2> SUFFICES ASSUME NEW i \in S PROVE Cardinality(av[i]) \in 1..N
    OBVIOUS
  <2>1. av[i] \in SUBSET S /\ av[i] # {}
    BY <1>4
  <2>2. IsFiniteSet(av[i]) /\ Cardinality(av[i]) <= N
    BY <1>3, <2>1, FS_Subset
  <2>3. Cardinality(av[i]) \in Nat /\ Cardinality(av[i]) # 0
    BY <2>1, <2>2, FS_CardinalityType, FS_EmptySet
  <2>4. QED
    BY <1>3, <2>2, <2>3
<1>11. \A n \in 1..N : s[n] \in S /\ Cardinality(av[s[n]]) = n
  BY <1>4, <1>8
<1> HIDE DEF N
<1>12. Len(Extraire(j, S)) = N /\ \A n \in 1..N : Extraire(j, S)[n] = j[s[n]]
  BY <1>2, <1>3
<1>13. s \in [1..N -> S]
  BY <1>11
<1> HIDE DEF s
<1>14. \A n, m \in 1..N : n < m => s[n] < s[m]
  <2> SUFFICES ASSUME NEW n \in 1..N, NEW m \in 1..N, n < m PROVE s[n] < s[m]
    OBVIOUS
  <2>0. n \in Nat /\ m \in Nat /\ ~(n = m) /\ ~(m < n)
    BY <1>3
  <2>1. s[n] # s[m]
    BY <1>11, <2>0
  <2>2. ~(s[m] < s[n])
    BY <1>9, <1>11, <2>0
  <2>3. QED
    BY <1>6, <1>11, <2>1, <2>2
<1>15. \A i \in S : \E n \in 1..N : s[n] = i
  <2> SUFFICES ASSUME NEW i \in S PROVE s[Cardinality(av[i])] = i
    BY <1>10
  <2>1. /\ s[Cardinality(av[i])] \in S
        /\ Cardinality(av[s[Cardinality(av[i])]]) = Cardinality(av[i])
        /\ Cardinality(av[i]) \in 1..N
    BY <1>10, <1>11
  <2>4. ~(Cardinality(av[i]) < Cardinality(av[i]))
    BY <1>3, <2>1
  <2>2. ~(i < s[Cardinality(av[i])]) /\ ~(s[Cardinality(av[i])] < i)
    BY <1>9, <2>1, <2>4
  <2>3. QED
    BY <1>6, <2>1, <2>2
<1>16. QED
  BY <1>12, <1>13, <1>14, <1>15 DEF Extrait

-----------------------------------------------------------------------------

(* The stable sort is a list of the same elements, as many.                 *)
LEMMA TriType ==
  ASSUME NEW X, NEW j \in Seq(X), \A x \in X : x.entite \in Nat
  PROVE  TrierParEntite(j) \in Seq(X) /\ Len(TrierParEntite(j)) = Len(j)
<1> DEFINE S  == DOMAIN j
           av == [i \in S |-> {k \in S : \/ j[k].entite < j[i].entite
                                         \/ j[k].entite = j[i].entite /\ k <= i}]
<1>1. S = 1..Len(j) /\ Len(j) \in Nat
  OBVIOUS
<1>2. IsFiniteSet(S) /\ Cardinality(S) = Len(j)
  BY <1>1, FS_Interval
<1>3. \A i \in S : j[i].entite \in Nat
  <2>1. \A i \in S : j[i] \in X
    BY <1>1
  <2>2. QED
    BY <2>1
<1>4. \A a \in S : a \in av[a]
  BY <1>1
<1>5. ASSUME NEW a \in S, NEW b \in S
      PROVE  \/ a = b
             \/ av[a] \subseteq av[b] /\ b \notin av[a]
             \/ av[b] \subseteq av[a] /\ a \notin av[b]
  BY <1>1, <1>3
<1>6. av \in [S -> SUBSET S]
  OBVIOUS
<1>7. \A n \in 1..Len(j) : \E i \in S : Cardinality(av[i]) = n
  <2> HIDE DEF av, S
  <2>1. QED
    BY <1>2, <1>4, <1>5, <1>6, RangAtteint
<1>8. \A n \in S : \E i \in S : Rang(j, i) = n
  BY <1>1, <1>7 DEF Rang
<1>9. \A n \in S : j[CHOOSE i \in S : Rang(j, i) = n] \in X
  BY <1>8
<1>10. QED
  BY <1>1, <1>9 DEF TrierParEntite

(* Entry i of j comes before entry k once j is sorted.                      *)
Avant(j, i, k) ==
  \/ j[i].entite < j[k].entite
  \/ j[i].entite = j[k].entite /\ i < k

(* s tells where in j each entry of the sorted list was: all of them, once. *)
Permute(j, s) ==
  /\ s \in [1..Len(j) -> 1..Len(j)]
  /\ \A n \in 1..Len(j) : TrierParEntite(j)[n] = j[s[n]]
  /\ \A n, m \in 1..Len(j) : n < m => Avant(j, s[n], s[m])
  /\ \A i \in 1..Len(j) : \E n \in 1..Len(j) : s[n] = i

(* The sort puts the entries of j in order, each of them once.              *)
LEMMA TriOrdre ==
  ASSUME NEW X, NEW j \in Seq(X), \A x \in X : x.entite \in Nat
  PROVE  \E s : Permute(j, s)
<1> DEFINE S  == 1..Len(j)
           av == [i \in S |-> {k \in S : \/ j[k].entite < j[i].entite
                                         \/ j[k].entite = j[i].entite /\ k <= i}]
           s  == [n \in S |-> CHOOSE i \in S : Rang(j, i) = n]
<1>1. DOMAIN j = S /\ Len(j) \in Nat
  OBVIOUS
<1>2. IsFiniteSet(S) /\ Cardinality(S) = Len(j)
  <2>1. ASSUME NEW n \in Nat PROVE IsFiniteSet(1..n) /\ Cardinality(1..n) = n
    BY FS_Interval
  <2>2. QED
    BY <1>1, <2>1
<1>3. \A i \in S : j[i].entite \in Nat
  <2>1. \A i \in S : j[i] \in X
    BY <1>1
  <2>2. QED
    BY <2>1
<1>4. \A i \in S : Rang(j, i) = Cardinality(av[i])
  BY <1>1 DEF Rang
<1>5. \A i \in S : i \in av[i]
  BY <1>1
<1>6. \A i, k \in S : Avant(j, i, k) => av[i] \subseteq av[k] /\ k \notin av[i]
  BY <1>1, <1>3 DEF Avant
<1>7. \A i, k \in S : i = k \/ Avant(j, i, k) \/ Avant(j, k, i)
  BY <1>1, <1>3 DEF Avant
<1>8. av \in [S -> SUBSET S]
  OBVIOUS
<1> HIDE DEF av
<1>9. ASSUME NEW i \in S, NEW k \in S, Avant(j, i, k)
      PROVE  Rang(j, i) < Rang(j, k)
  <2>1. IsFiniteSet(av[k]) /\ av[i] \in SUBSET av[k] /\ k \in av[k] /\ k \notin av[i]
    BY <1>2, <1>5, <1>6, <1>8, <1>9, FS_Subset
  <2>2. QED
    BY <1>4, <2>1, RangCroissant
<1>10. \A i \in S : Rang(j, i) \in S
  <2> SUFFICES ASSUME NEW i \in S PROVE Cardinality(av[i]) \in 1..Len(j)
    BY <1>4
  <2>1. av[i] \in SUBSET S /\ av[i] # {}
    BY <1>5, <1>8
  <2>2. IsFiniteSet(av[i]) /\ Cardinality(av[i]) <= Len(j)
    BY <1>2, <2>1, FS_Subset
  <2>3. Cardinality(av[i]) \in Nat /\ Cardinality(av[i]) # 0
    BY <2>1, <2>2, FS_CardinalityType, FS_EmptySet
  <2>4. QED
    BY <1>1, <2>2, <2>3
<1>11. \A n \in S : \E i \in S : Rang(j, i) = n
  <2> SUFFICES ASSUME NEW n \in S PROVE \E i \in S : Cardinality(av[i]) = n
    BY <1>4
  <2>1. \A a, b \in S : \/ a = b
                        \/ av[a] \subseteq av[b] /\ b \notin av[a]
                        \/ av[b] \subseteq av[a] /\ a \notin av[b]
    BY <1>6, <1>7
  <2>2. n \in 1..Cardinality(S)
    BY <1>2
  <2> HIDE DEF S, s
  <2>3. \A m \in 1..Cardinality(S) : \E a \in S : Cardinality(av[a]) = m
    BY <1>2, <1>5, <1>8, <2>1, RangAtteint
  <2>4. QED
    BY <2>2, <2>3
<1>12. \A n \in S : s[n] \in S /\ Rang(j, s[n]) = n
  BY <1>11
<1>13. \A n \in S : TrierParEntite(j)[n] = j[s[n]]
  BY <1>1 DEF TrierParEntite
<1>14. s \in [S -> S]
  BY <1>12
<1> HIDE DEF s
<1>15. \A n, m \in S : n < m => Avant(j, s[n], s[m])
  <2> SUFFICES ASSUME NEW n \in S, NEW m \in S, n < m PROVE Avant(j, s[n], s[m])
    OBVIOUS
  <2>1. s[n] # s[m]
    BY <1>12
  <2>2. ~Avant(j, s[m], s[n])
    BY <1>1, <1>9, <1>12
  <2>3. QED
    BY <1>7, <1>12, <2>1, <2>2
<1>16. \A i \in S : \E n \in S : s[n] = i
  <2> SUFFICES ASSUME NEW i \in S PROVE s[Rang(j, i)] = i
    BY <1>10
  <2>1. s[Rang(j, i)] \in S /\ Rang(j, s[Rang(j, i)]) = Rang(j, i)
    BY <1>10, <1>12
  <2>2. ~Avant(j, i, s[Rang(j, i)]) /\ ~Avant(j, s[Rang(j, i)], i)
    BY <1>1, <1>9, <1>10, <2>1
  <2>3. QED
    BY <1>7, <2>1, <2>2
<1>17. QED
  BY <1>13, <1>14, <1>15, <1>16 DEF Permute

(* List b holds every element of a.                                           *)
Inclus(a, b) == \A i \in 1..Len(a) : \E k \in 1..Len(b) : b[k] = a[i]

(* Lists of the same elements, each once, which put any two of them in the  *)
(* same order are the same list.                                            *)
SansDoublon(a) == \A i, k \in 1..Len(a) : a[i] = a[k] => i = k

OrdreSuivi(a, b) ==
  \A i, k \in 1..Len(a) : \A l, n \in 1..Len(b) :
    i < k /\ b[l] = a[i] /\ b[n] = a[k] => l < n

LEMMA MemeOrdre ==
  ASSUME NEW X, NEW a \in Seq(X), NEW b \in Seq(X),
         SansDoublon(a), SansDoublon(b), Inclus(a, b), Inclus(b, a), OrdreSuivi(a, b)
  PROVE  a = b
<1> DEFINE D == {i \in 1..Len(a) : i \in 1..Len(b) /\ a[i] # b[i]}
<1>1. Len(a) \in Nat /\ Len(b) \in Nat
  OBVIOUS
<1>2. D = {}
  <2> SUFFICES ASSUME D # {} PROVE FALSE
    OBVIOUS
  <2>1. PICK m \in D : \A x \in D : m <= x
    <3>1. D \in SUBSET (1..Len(a))
      OBVIOUS
    <3> HIDE DEF D
    <3>2. QED
      BY <1>1, <3>1, Premier
  <2>2. m \in 1..Len(a) /\ m \in 1..Len(b) /\ a[m] # b[m] /\ m \in Nat
    BY <2>1
  <2>3. ASSUME NEW x \in 1..Len(a), x \in 1..Len(b), x < m PROVE a[x] = b[x]
    <3>1. ~(m <= x)
      BY <2>2, <2>3
    <3>2. QED
      BY <2>1, <2>3, <3>1
  <2>4. PICK k \in 1..Len(b) : b[k] = a[m]
    BY <2>2 DEF Inclus
  <2>5. PICK l \in 1..Len(a) : a[l] = b[m]
    BY <2>2 DEF Inclus
  <2> HIDE DEF D
  <2>6. k \in Nat /\ l \in Nat /\ k # m /\ l # m
    BY <2>2, <2>4, <2>5
  <2>7. ~(k < m)
    <3> SUFFICES ASSUME k < m PROVE FALSE
      OBVIOUS
    <3>1. k \in 1..Len(a)
      BY <1>1, <2>2, <2>4
    <3>2. a[k] = a[m]
      BY <2>3, <2>4, <3>1
    <3>3. QED
      BY <2>2, <2>6, <3>1, <3>2 DEF SansDoublon
  <2>8. ~(l < m)
    <3> SUFFICES ASSUME l < m PROVE FALSE
      OBVIOUS
    <3>1. l \in 1..Len(b)
      BY <1>1, <2>2, <2>5
    <3>2. b[l] = b[m]
      BY <2>3, <2>5, <3>1
    <3>3. QED
      BY <2>2, <2>6, <3>1, <3>2 DEF SansDoublon
  <2>9. m < l /\ m < k
    BY <2>2, <2>6, <2>7, <2>8
  <2>10. k < m
    BY <2>2, <2>4, <2>5, <2>9 DEF OrdreSuivi
  <2>11. QED
    BY <2>7, <2>10
<1>3. \A i \in 1..Len(a) : i \in 1..Len(b) => a[i] = b[i]
  BY <1>2
<1> HIDE DEF D
<1>4. ~(Len(a) < Len(b))
  <2> SUFFICES ASSUME Len(a) < Len(b) PROVE FALSE
    OBVIOUS
  <2>1. Len(b) \in 1..Len(b)
    BY <1>1
  <2>2. PICK k \in 1..Len(a) : a[k] = b[Len(b)]
    BY <2>1 DEF Inclus
  <2>3. k \in 1..Len(b) /\ k # Len(b)
    BY <1>1, <2>2
  <2>4. b[k] = b[Len(b)]
    BY <1>3, <2>2, <2>3
  <2>5. QED
    BY <2>1, <2>3, <2>4 DEF SansDoublon
<1>5. ~(Len(b) < Len(a))
  <2> SUFFICES ASSUME Len(b) < Len(a) PROVE FALSE
    OBVIOUS
  <2>1. Len(a) \in 1..Len(a)
    BY <1>1
  <2>2. PICK k \in 1..Len(b) : b[k] = a[Len(a)]
    BY <2>1 DEF Inclus
  <2>3. k \in 1..Len(a) /\ k # Len(a)
    BY <1>1, <2>2
  <2>4. a[k] = a[Len(a)]
    BY <1>3, <2>2, <2>3
  <2>5. QED
    BY <2>1, <2>3, <2>4 DEF SansDoublon
<1>6. Len(a) = Len(b)
  BY <1>1, <1>4, <1>5
<1>7. \A i \in 1..Len(a) : a[i] = b[i]
  BY <1>3, <1>6
<1>8. QED
  BY <1>6, <1>7

(* A strictly sorted list is determined by the elements it holds.           *)
LEMMA TrieUnique ==
  ASSUME NEW X, NEW a \in Seq(X), NEW b \in Seq(X), \A x \in X : x.entite \in Nat,
         StrictementTrie(a), StrictementTrie(b),
         Inclus(a, b), Inclus(b, a)
  PROVE  a = b
<1>1. ASSUME NEW s \in Seq(X), StrictementTrie(s)
      PROVE  /\ Len(s) \in Nat /\ \A i \in 1..Len(s) : s[i].entite \in Nat
             /\ \A i, k \in 1..Len(s) : i < k => s[i].entite < s[k].entite
             /\ \A i, k \in 1..Len(s) : s[i].entite < s[k].entite => i < k
             /\ SansDoublon(s)
  <2>1. Len(s) \in Nat /\ \A i \in 1..Len(s) : s[i] \in X
    OBVIOUS
  <2>2. \A i \in 1..Len(s) : s[i].entite \in Nat /\ i \in Nat
    BY <2>1
  <2>3. \A i, k \in 1..Len(s) : i < k => s[i].entite < s[k].entite
    <3>1. DOMAIN s = 1..Len(s)
      OBVIOUS
    <3>2. QED
      BY <1>1, <3>1 DEF StrictementTrie
  <2>4. ASSUME NEW i \in 1..Len(s), NEW k \in 1..Len(s)
        PROVE  /\ i < k \/ i = k \/ k < i
               /\ s[i].entite < s[k].entite => i < k
               /\ s[i] = s[k] => i = k
    <3>1. i < k \/ i = k \/ k < i
      BY <2>2
    <3>2. /\ ~(s[i].entite < s[k].entite /\ s[k].entite < s[i].entite)
          /\ ~(s[i].entite < s[i].entite)
      BY <2>2
    <3>3. QED
      BY <2>3, <3>1, <3>2
  <2>5. QED
    BY <2>1, <2>2, <2>3, <2>4 DEF SansDoublon
<1>2. /\ SansDoublon(a) /\ SansDoublon(b)
      /\ \A i, k \in 1..Len(a) : i < k => a[i].entite < a[k].entite
      /\ \A i, k \in 1..Len(b) : b[i].entite < b[k].entite => i < k
  BY <1>1
<1>3. OrdreSuivi(a, b)
  <2> SUFFICES ASSUME NEW i \in 1..Len(a), NEW k \in 1..Len(a),
                      NEW l \in 1..Len(b), NEW n \in 1..Len(b),
                      i < k, b[l] = a[i], b[n] = a[k]
               PROVE  l < n
    BY DEF OrdreSuivi
  <2>1. a[i].entite < a[k].entite
    BY <1>2
  <2>2. QED
    BY <1>2, <2>1
<1>4. QED
  BY <1>2, <1>3, MemeOrdre
=============================================================================
