----------------------------- MODULE SlotProofs -----------------------------
(* Facts about the slot operators of Slot.tla, for any entities, poses and *)
(* compaction threshold; then Compaction is right for every journal:       *)
(* reversing, sorting stably and keeping the first entry of each run gives *)
(* each entity its last pose, once, in entity order, and doing so on the   *)
(* way changes nothing.                                                    *)
EXTENDS Compaction, ListesProofs

LEMMA EntreesNaturelles == \A x \in Entrees : x.entite \in Nat
BY EntitesAssumption DEF Entrees

(* Keeping the first entry of each run leaves a journal, no longer.         *)
LEMMA DedupType ==
  ASSUME NEW j \in Seq(Entrees)
  PROVE  /\ Dedupliquer(j) \in Seq(Entrees)
         /\ Len(Dedupliquer(j)) <= Len(j)
<1>1. Tetes(j) \in SUBSET (1..Len(j))
  BY DEF Tetes
<1>2. QED
  BY <1>1, ExtraireType DEF Dedupliquer

LEMMA DedupOrdre ==
  ASSUME NEW j \in Seq(Entrees)
  PROVE  \E s : Extrait(j, Tetes(j), s)
<1>1. Tetes(j) \in SUBSET (1..Len(j))
  BY DEF Tetes
<1>2. QED
  BY <1>1, ExtraireOrdre

(* compacter keeps a journal a journal, and never lengthens it.             *)
LEMMA CompactionType ==
  ASSUME NEW j \in Seq(Entrees)
  PROVE  /\ JournalCompacte(j) \in Seq(Entrees)
         /\ Len(JournalCompacte(j)) <= Len(j)
<1>1. Inverser(j) \in Seq(Entrees) /\ Len(Inverser(j)) = Len(j)
  BY DEF Inverser
<1>2. QED
  BY <1>1, TriType, EntreesNaturelles, DedupType DEF JournalCompacte

LEMMA CompacterType ==
  ASSUME NEW s \in Slots
  PROVE  /\ Compacter(s) \in Slots
         /\ Compacter(s).tick = s.tick /\ Compacter(s).etat = s.etat
BY CompactionType DEF Compacter, Slots

LEMMA RecyclerType ==
  ASSUME NEW t \in Nat
  PROVE  /\ Recycler(t) \in Slots
         /\ Recycler(t).tick = t /\ Recycler(t).etat = "Ouvert"
<1>1. <<>> \in Seq(Entrees) /\ "Ouvert" \in Etats /\ 0 \in Nat
  BY DEF Etats
<1>2. QED
  BY <1>1 DEF Recycler, Slots

LEMMA InscrireType ==
  ASSUME NEW s \in Slots, NEW e \in Entites, NEW p \in Poses
  PROVE  /\ Inscrire(s, e, p) \in Slots
         /\ Inscrire(s, e, p).tick = s.tick /\ Inscrire(s, e, p).etat = s.etat
<1>1. [entite |-> e, pose |-> p] \in Entrees
  BY DEF Entrees
<1>2. Append(s.journal, [entite |-> e, pose |-> p]) \in Seq(Entrees)
  BY <1>1 DEF Slots
<1>3. s.depuis + 1 \in Nat
  BY DEF Slots
<1>4. QED
  BY <1>2, <1>3 DEF Inscrire, Slots

(* ecrire on a slot: a refused write changes nothing; an accepted one       *)
(* leaves the slot open at the written tick, which never goes back.         *)
LEMMA EcrireSlot ==
  ASSUME NEW s \in Slots, NEW t \in Nat, NEW e \in Entites, NEW p \in Poses
  PROVE  LET n == SlotEcrit(s, t, e, p)
         IN  /\ n \in Slots
             /\ EcritureRefusee(s, t) => n = s
             /\ ~EcritureRefusee(s, t) => /\ n.etat = "Ouvert" /\ n.tick = t
                                          /\ s.etat = "Vide" \/ s.tick <= t
                                          /\ ~LisibleA(s, t)
<1>1. CASE Recyclable(s, t)
  <2>1. SlotEcrit(s, t, e, p) = Inscrire(Recycler(t), e, p)
    BY <1>1 DEF SlotEcrit
  <2>2. ~EcritureRefusee(s, t) /\ ~LisibleA(s, t) /\ (s.etat = "Vide" \/ s.tick <= t)
    BY <1>1 DEF EcritureRefusee, Recyclable, LisibleA, Slots
  <2>3. QED
    BY <2>1, <2>2, RecyclerType, InscrireType
<1>2. CASE EcritureRefusee(s, t)
  <2>1. SlotEcrit(s, t, e, p) = s
    BY <1>2 DEF SlotEcrit, EcritureRefusee
  <2>2. QED
    BY <1>2, <2>1
<1>3. CASE ~Recyclable(s, t) /\ ~EcritureRefusee(s, t)
  <2>1. s.tick = t /\ s.etat = "Ouvert"
    BY <1>3 DEF Recyclable, EcritureRefusee, Slots, Etats
  <2>2. SlotEcrit(s, t, e, p) =
          Inscrire(IF s.depuis >= Seuil THEN Compacter(s) ELSE s, e, p)
    BY <1>3 DEF SlotEcrit
  <2>3. QED
    BY <1>3, <2>1, <2>2, CompacterType, InscrireType DEF LisibleA
<1>4. QED
  BY <1>1, <1>2, <1>3

(* sceller on a slot: once past the tick it changes nothing and returns the *)
(* empty journal; otherwise the slot ends sealed at that tick, holding what *)
(* is returned; and sealing again changes nothing.                          *)
LEMMA ScellerSlot ==
  ASSUME NEW s \in Slots, NEW t \in Nat
  PROVE  LET n == SlotScelle(s, t)
         IN  /\ n \in Slots
             /\ ContenuScelle(s, t) \in Seq(Entrees)
             /\ Depasse(s, t)  => n = s /\ ContenuScelle(s, t) = <<>>
             /\ ~Depasse(s, t) => /\ LisibleA(n, t)
                                  /\ ContenuScelle(s, t) = n.journal
                                  /\ s.etat = "Vide" \/ s.tick <= t
             /\ LisibleA(s, t) => n = s
<1>1. CASE Depasse(s, t)
  <2>1. ~Recyclable(s, t)
    BY <1>1 DEF Recyclable, Depasse, Slots
  <2>2. SlotScelle(s, t) = s
    BY <1>1, <2>1 DEF SlotScelle
  <2>3. <<>> \in Seq(Entrees)
    OBVIOUS
  <2>4. QED
    BY <1>1, <2>2, <2>3 DEF ContenuScelle
<1>2. CASE ~Depasse(s, t) /\ Recyclable(s, t)
  <2>1. SlotScelle(s, t) = [Compacter(Recycler(t)) EXCEPT !.etat = "Scelle"]
    BY <1>2, RecyclerType DEF SlotScelle
  <2> DEFINE c == Compacter(Recycler(t))
  <2>a. c \in Slots /\ c.tick = t
    BY RecyclerType, CompacterType
  <2>2. /\ SlotScelle(s, t) \in Slots
        /\ LisibleA(SlotScelle(s, t), t)
    <3> HIDE DEF c
    <3>1. /\ [c EXCEPT !.etat = "Scelle"] \in Slots
          /\ LisibleA([c EXCEPT !.etat = "Scelle"], t)
      BY <2>a DEF Slots, Etats, LisibleA
    <3>2. QED
      BY <2>1, <3>1 DEF c
  <2>3. ~LisibleA(s, t) /\ (s.etat = "Vide" \/ s.tick <= t)
    BY <1>2 DEF LisibleA, Recyclable, Depasse, Slots
  <2>4. QED
    BY <1>2, <2>2, <2>3 DEF ContenuScelle, Slots
<1>3. CASE ~Depasse(s, t) /\ ~Recyclable(s, t)
  <2>1. s.tick = t /\ s.etat \in {"Ouvert", "Scelle"}
    BY <1>3 DEF Depasse, Recyclable, Slots, Etats
  <2>2. SlotScelle(s, t) = IF s.etat = "Scelle" THEN s
                           ELSE [Compacter(s) EXCEPT !.etat = "Scelle"]
    BY <1>3 DEF SlotScelle
  <2> DEFINE c == Compacter(s)
  <2>a. c \in Slots /\ c.tick = t
    BY <2>1, CompacterType
  <2>3. SlotScelle(s, t) \in Slots /\ LisibleA(SlotScelle(s, t), t)
    <3> HIDE DEF c
    <3>1. /\ [c EXCEPT !.etat = "Scelle"] \in Slots
          /\ LisibleA([c EXCEPT !.etat = "Scelle"], t)
      BY <2>a DEF Slots, Etats, LisibleA
    <3>2. s.etat = "Scelle" => LisibleA(s, t)
      BY <2>1 DEF LisibleA
    <3>3. QED
      BY <2>2, <3>1, <3>2 DEF c
  <2>4. LisibleA(s, t) => SlotScelle(s, t) = s
    BY <2>2 DEF LisibleA
  <2>5. QED
    BY <1>3, <2>1, <2>3, <2>4 DEF ContenuScelle, Slots
<1>4. QED
  BY <1>1, <1>2, <1>3

LEMMA ViderSlot ==
  ASSUME NEW s \in Slots
  PROVE  SlotVidange(s) \in Slots /\ SlotVidange(s).etat = "Vide"
<1>1. <<>> \in Seq(Entrees) /\ "Vide" \in Etats /\ 0 \in Nat
  BY DEF Etats
<1>2. s.depuis \in Nat
  BY DEF Slots
<1>3. QED
  BY <1>1, <1>2 DEF SlotVidange, Slots

LEMMA SlotVideType == SlotVide \in Slots /\ SlotVide.etat = "Vide"
BY DEF SlotVide, Slots, Etats

(* What compaction computes: the last entry of each entity, and no other.   *)

(* The last entry of e in j, and that there is none.                        *)
DerniereDe(j, e, d) ==
  /\ d \in 1..Len(j) /\ j[d].entite = e
  /\ \A k \in 1..Len(j) : j[k].entite = e => k <= d

(* The only entry of e in j. *)
SeuleDe(j, e, d) ==
  /\ d \in 1..Len(j) /\ j[d].entite = e
  /\ \A k \in 1..Len(j) : j[k].entite = e => k = d

Absente(j, e) == \A k \in 1..Len(j) : j[k].entite # e

LEMMA DerniereOuAbsente ==
  ASSUME NEW j \in Seq(Entrees), NEW e
  PROVE  Absente(j, e) \/ \E d : DerniereDe(j, e, d)
<1> DEFINE I == {k \in 1..Len(j) : j[k].entite = e}
<1>1. CASE I = {}
  BY <1>1 DEF Absente
<1>2. CASE I # {}
  <2>1. Len(j) \in Nat /\ I \in SUBSET (1..Len(j))
    OBVIOUS
  <2>2. PICK d \in I : \A k \in I : k <= d
    <3> HIDE DEF I
    <3>1. QED
      BY <1>2, <2>1, Dernier
  <2>3. QED
    BY <2>2 DEF DerniereDe
<1>3. QED
  BY <1>1, <1>2

LEMMA PoseDerniere ==
  ASSUME NEW j \in Seq(Entrees), NEW e \in Entites
  PROVE  /\ Absente(j, e) => DernierePose(j)[e] = Sans
         /\ \A d : DerniereDe(j, e, d) => DernierePose(j)[e] = j[d].pose
<1> DEFINE I == {i \in DOMAIN j : j[i].entite = e}
<1>1. DOMAIN j = 1..Len(j) /\ Len(j) \in Nat
  OBVIOUS
<1>2. DernierePose(j)[e] =
        IF I = {} THEN Sans ELSE j[CHOOSE i \in I : \A k \in I : k <= i].pose
  BY DEF DernierePose
<1>3. Absente(j, e) => I = {}
  BY <1>1 DEF Absente
<1>4. ASSUME NEW d, DerniereDe(j, e, d)
      PROVE  DernierePose(j)[e] = j[d].pose
  <2>1. d \in I /\ \A k \in I : k <= d
    BY <1>1, <1>4 DEF DerniereDe
  <2>2. (CHOOSE i \in I : \A k \in I : k <= i) \in I
        /\ \A k \in I : k <= (CHOOSE i \in I : \A x \in I : x <= i)
    BY <2>1
  <2>3. \A x, y \in I : x <= y /\ y <= x => x = y
    BY <1>1
  <2>4. (CHOOSE i \in I : \A k \in I : k <= i) = d
    BY <2>1, <2>2, <2>3
  <2>5. QED
    BY <1>2, <2>1, <2>4
<1>5. QED
  BY <1>2, <1>3, <1>4

(* Compacting orders a journal by entity, and keeps the last entry of each  *)
(* entity and no other.                                                     *)
LEMMA CompactionOrdonne ==
  ASSUME NEW j \in Seq(Entrees)
  PROVE  /\ StrictementTrie(JournalCompacte(j))
         /\ \A e, d : DerniereDe(j, e, d) =>
              \E x : SeuleDe(JournalCompacte(j), e, x) /\ JournalCompacte(j)[x] = j[d]
         /\ \A e : Absente(j, e) => Absente(JournalCompacte(j), e)
<1> DEFINE r == Inverser(j)
           t == TrierParEntite(r)
           c == Dedupliquer(t)
           L == Len(j)
<1>1. /\ r \in Seq(Entrees) /\ Len(r) = L /\ L \in Nat
      /\ \A i \in 1..L : r[i] = j[L + 1 - i]
  BY DEF Inverser
<1>2. JournalCompacte(j) = c
  BY DEF JournalCompacte
<1> HIDE DEF r
<1>3. t \in Seq(Entrees) /\ Len(t) = L
  BY <1>1, EntreesNaturelles, TriType
<1>4. PICK s \in [1..L -> 1..L] :
        /\ \A n \in 1..L : t[n] = r[s[n]]
        /\ \A n, m \in 1..L : n < m => Avant(r, s[n], s[m])
        /\ \A i \in 1..L : \E n \in 1..L : s[n] = i
  <2>1. PICK f : Permute(r, f)
    BY <1>1, EntreesNaturelles, TriOrdre
  <2>2. Len(r) = L
    BY <1>1
  <2> HIDE DEF t, L
  <2>3. /\ f \in [1..L -> 1..L]
        /\ \A n, m \in 1..L : n < m => Avant(r, f[n], f[m])
        /\ \A i \in 1..L : \E n \in 1..L : f[n] = i
    BY <2>1, <2>2 DEF Permute
  <2>4. \A n \in 1..L : t[n] = r[f[n]]
    BY <2>1, <2>2 DEF t, Permute
  <2>5. QED
    BY <2>3, <2>4
<1> HIDE DEF t
<1>5. c \in Seq(Entrees) /\ Len(c) \in Nat /\ DOMAIN c = 1..Len(c)
  BY <1>3, DedupType
<1>6. PICK u :
        /\ u \in [1..Len(c) -> Tetes(t)]
        /\ \A n \in 1..Len(c) : c[n] = t[u[n]]
        /\ \A n, m \in 1..Len(c) : n < m => u[n] < u[m]
        /\ \A i \in Tetes(t) : \E n \in 1..Len(c) : u[n] = i
  BY <1>3, DedupOrdre DEF Extrait, Dedupliquer
<1> HIDE DEF c, L
<1>7. /\ \A i \in 1..L : t[i].entite \in Nat
      /\ \A n, m \in 1..L : n < m => t[n].entite <= t[m].entite
  <2>1. \A i \in 1..L : t[i] \in Entrees
    BY <1>3
  <2>2. \A i \in 1..L : t[i].entite \in Nat
    BY <2>1, EntitesAssumption DEF Entrees
  <2>3. ASSUME NEW n \in 1..L, NEW m \in 1..L, n < m
        PROVE  t[n].entite < t[m].entite \/ t[n].entite = t[m].entite
    <3>1. Avant(r, s[n], s[m]) /\ t[n] = r[s[n]] /\ t[m] = r[s[m]]
      BY <1>4, <2>3
    <3>2. QED
      BY <3>1 DEF Avant
  <2>4. QED
    BY <2>2, <2>3
<1>8. Tetes(t) = {i \in 1..L : i = 1 \/ t[i].entite # t[i - 1].entite}
  BY <1>3 DEF Tetes
<1>9. StrictementTrie(c)
  <2> SUFFICES ASSUME NEW i \in 1..Len(c), NEW k \in 1..Len(c), i < k
               PROVE  c[i].entite < c[k].entite
    BY <1>5 DEF StrictementTrie
  <2>1. /\ u[i] \in 1..L /\ u[k] \in 1..L /\ u[i] < u[k]
        /\ t[u[k]].entite # t[u[k] - 1].entite \/ u[k] = 1
    BY <1>6, <1>8
  <2>2. u[k] - 1 \in 1..L /\ u[k] - 1 < u[k] /\ u[k] # 1
    <3>1. ASSUME NEW a \in 1..L, NEW b \in 1..L, a < b
          PROVE  b - 1 \in 1..L /\ b - 1 < b /\ b # 1
      BY <1>1, <3>1
    <3>2. QED
      BY <2>1, <3>1
  <2>3. t[u[k] - 1].entite < t[u[k]].entite
    BY <1>7, <2>1, <2>2
  <2>4. u[i] = u[k] - 1 \/ u[i] < u[k] - 1
    <3>1. ASSUME NEW a \in 1..L, NEW b \in 1..L, a < b
          PROVE  a = b - 1 \/ a < b - 1
      BY <1>1, <3>1
    <3>2. QED
      BY <2>1, <3>1
  <2>5. t[u[i]].entite <= t[u[k] - 1].entite
    BY <1>7, <2>1, <2>2, <2>4
  <2>6. t[u[i]].entite < t[u[k]].entite
    <3>1. /\ t[u[i]].entite \in Nat /\ t[u[k]].entite \in Nat
          /\ t[u[k] - 1].entite \in Nat
      BY <1>7, <2>1, <2>2
    <3>2. QED
      BY <2>3, <2>5, <3>1
  <2>7. QED
    BY <1>6, <2>6
<1>10. ASSUME NEW e, NEW d, DerniereDe(j, e, d)
       PROVE  \E x : SeuleDe(c, e, x) /\ c[x] = j[d]
  <2>1. /\ d \in 1..L /\ L + 1 - d \in 1..L /\ r[L + 1 - d] = j[d] /\ j[d].entite = e
        /\ \A q \in 1..L : q < L + 1 - d => r[q].entite # e
    <3>1. d \in 1..L /\ L + 1 - d \in 1..L /\ L + 1 - (L + 1 - d) = d
      BY <1>1, <1>10 DEF DerniereDe, L
    <3>2. ASSUME NEW q \in 1..L, q < L + 1 - d PROVE r[q].entite # e
      <4>0. L \in Nat /\ d \in 1..L
        BY <1>1, <3>1
      <4>1. L + 1 - q \in 1..L /\ ~(L + 1 - q <= d)
        BY <3>2, <4>0
      <4>2. QED
        BY <1>1, <1>10, <3>2, <4>1 DEF DerniereDe, L
    <3>3. QED
      BY <1>1, <1>10, <3>1, <3>2 DEF DerniereDe
  <2>2. PICK n \in 1..L : s[n] = L + 1 - d
    BY <1>4, <2>1
  <2>3. t[n] = j[d] /\ t[n].entite = e
    BY <1>4, <2>1, <2>2
  <2>4. ASSUME NEW m \in 1..L, m < n PROVE t[m].entite # e
    <3>1. s[m] \in 1..L /\ Avant(r, s[m], s[n])
      BY <1>4, <2>4
    <3>2. r[s[m]].entite = e => s[m] < L + 1 - d
      <4>1. r[s[m]] = t[m] /\ r[s[n]].entite = e /\ r[s[n]].entite \in Nat
        BY <1>4, <1>7, <2>3
      <4>2. r[s[m]].entite = e => ~(r[s[m]].entite < r[s[n]].entite)
        BY <4>1
      <4>3. r[s[m]].entite = e => s[m] < s[n]
        BY <3>1, <4>2 DEF Avant
      <4>4. QED
        BY <2>2, <4>3
    <3>3. QED
      BY <1>4, <2>1, <3>1, <3>2
  <2>5. n \in Tetes(t)
    <3>1. n = 1 \/ (n - 1 \in 1..L /\ n - 1 < n)
      BY <1>1
    <3>2. QED
      BY <1>8, <2>3, <2>4, <3>1
  <2>6. PICK x \in 1..Len(c) : u[x] = n
    BY <1>6, <2>5
  <2>7. c[x] = j[d] /\ c[x].entite = e
    BY <1>6, <2>3, <2>6
  <2>8. ASSUME NEW k \in 1..Len(c), c[k].entite = e PROVE k = x
    <3>1. c[k].entite \in Nat
      BY <1>6, <1>7, <1>8
    <3>2. ~(k < x) /\ ~(x < k)
      BY <1>5, <1>9, <2>7, <2>8, <3>1 DEF StrictementTrie
    <3>3. QED
      BY <1>5, <3>2
  <2>9. QED
    BY <2>7, <2>8 DEF SeuleDe
<1>11. ASSUME NEW e, Absente(j, e) PROVE Absente(c, e)
  <2> SUFFICES ASSUME NEW x \in 1..Len(c) PROVE c[x].entite # e
    BY DEF Absente
  <2>1. u[x] \in 1..L
    BY <1>6, <1>8
  <2>2. s[u[x]] \in 1..L /\ c[x] = r[s[u[x]]]
    BY <1>4, <1>6, <2>1
  <2>3. L + 1 - s[u[x]] \in 1..L /\ c[x] = j[L + 1 - s[u[x]]]
    <3>1. ASSUME NEW i \in 1..L PROVE L + 1 - i \in 1..L /\ r[i] = j[L + 1 - i]
      BY <1>1
    <3>2. QED
      BY <2>2, <3>1
  <2>4. QED
    BY <1>11, <2>3 DEF Absente, L
<1>12. QED
  BY <1>2, <1>9, <1>10, <1>11

(* Compacting a journal is last-writer-wins: whatever the journal, what is  *)
(* left of it is in entity order and gives every entity its last pose.      *)
LEMMA CompactionLWW ==
  ASSUME NEW j \in Seq(Entrees)
  PROVE  /\ StrictementTrie(JournalCompacte(j))
         /\ DernierePose(JournalCompacte(j)) = DernierePose(j)
<1> DEFINE c == JournalCompacte(j)
<1>1. c \in Seq(Entrees)
  BY CompactionType
<1>2. ASSUME NEW e \in Entites PROVE DernierePose(c)[e] = DernierePose(j)[e]
  <2>1. CASE Absente(j, e)
    BY <1>1, <2>1, CompactionOrdonne, PoseDerniere
  <2>2. ASSUME NEW d, DerniereDe(j, e, d) PROVE DernierePose(c)[e] = DernierePose(j)[e]
    <3>1. PICK x : SeuleDe(c, e, x) /\ c[x] = j[d]
      BY <2>2, CompactionOrdonne
    <3>2. DerniereDe(c, e, x)
      BY <3>1 DEF SeuleDe, DerniereDe
    <3> HIDE DEF c
    <3>3. QED
      BY <1>1, <2>2, <3>1, <3>2, PoseDerniere
  <2>3. QED
    BY <2>1, <2>2, DerniereOuAbsente
<1>3. DernierePose(c) = DernierePose(j)
  BY <1>2 DEF DernierePose
<1>4. QED
  BY <1>3, CompactionOrdonne

(* Compacting on the way is invisible: two journals whose last entries are  *)
(* the same compact to the same journal, and a compaction, as an append,    *)
(* keeps the last entries.                                                  *)
MemesDernieres(a, b) ==
  \A e : /\ Absente(a, e) <=> Absente(b, e)
         /\ \A d, k : DerniereDe(a, e, d) /\ DerniereDe(b, e, k) => a[d] = b[k]

(* What a compacted journal holds, the compaction of a journal with the same *)
(* last entries holds.                                                       *)
LEMMA MemesEntrees ==
  ASSUME NEW a \in Seq(Entrees), NEW b \in Seq(Entrees), MemesDernieres(a, b)
  PROVE  Inclus(JournalCompacte(a), JournalCompacte(b))
<1> SUFFICES ASSUME NEW i \in 1..Len(JournalCompacte(a))
             PROVE  \E k \in 1..Len(JournalCompacte(b)) :
                      JournalCompacte(b)[k] = JournalCompacte(a)[i]
  BY DEF Inclus
<1> DEFINE ca == JournalCompacte(a)
           cb == JournalCompacte(b)
           e  == ca[i].entite
<1>1. /\ \A d : DerniereDe(a, e, d) => \E x : SeuleDe(ca, e, x) /\ ca[x] = a[d]
      /\ \A d : DerniereDe(b, e, d) => \E x : SeuleDe(cb, e, x) /\ cb[x] = b[d]
      /\ Absente(a, e) => Absente(ca, e)
  BY CompactionOrdonne
<1> HIDE DEF ca, cb, e
<1>2. ~Absente(ca, e)
  BY DEF Absente, ca, e
<1>3. ~Absente(a, e) /\ ~Absente(b, e)
  BY <1>1, <1>2 DEF MemesDernieres
<1>4. PICK d : DerniereDe(a, e, d)
  BY <1>3, DerniereOuAbsente
<1>5. PICK k : DerniereDe(b, e, k)
  BY <1>3, DerniereOuAbsente
<1>6. PICK x : SeuleDe(ca, e, x) /\ ca[x] = a[d]
  BY <1>1, <1>4
<1>7. PICK y : SeuleDe(cb, e, y) /\ cb[y] = b[k]
  BY <1>1, <1>5
<1>8. x = i
  BY <1>6 DEF SeuleDe, ca, e
<1>9. a[d] = b[k]
  BY <1>4, <1>5 DEF MemesDernieres
<1>10. y \in 1..Len(cb) /\ cb[y] = ca[i]
  BY <1>6, <1>7, <1>8, <1>9 DEF SeuleDe
<1>11. QED
  BY <1>10 DEF ca, cb

LEMMA CompactionUnique ==
  ASSUME NEW a \in Seq(Entrees), NEW b \in Seq(Entrees), MemesDernieres(a, b)
  PROVE  JournalCompacte(a) = JournalCompacte(b)
<1>1. MemesDernieres(b, a)
  BY DEF MemesDernieres
<1>2. JournalCompacte(a) \in Seq(Entrees) /\ JournalCompacte(b) \in Seq(Entrees)
  BY CompactionType
<1>3. StrictementTrie(JournalCompacte(a)) /\ StrictementTrie(JournalCompacte(b))
  BY CompactionOrdonne
<1>4. /\ Inclus(JournalCompacte(a), JournalCompacte(b))
      /\ Inclus(JournalCompacte(b), JournalCompacte(a))
  BY <1>1, MemesEntrees
<1>5. QED
  BY <1>2, <1>3, <1>4, EntreesNaturelles, TrieUnique

LEMMA DerniereAjout ==
  ASSUME NEW a \in Seq(Entrees), NEW x \in Entrees, NEW e
  PROVE  /\ x.entite = e => /\ ~Absente(Append(a, x), e)
                            /\ \A d : DerniereDe(Append(a, x), e, d) => Append(a, x)[d] = x
         /\ x.entite # e => /\ Absente(Append(a, x), e) <=> Absente(a, e)
                            /\ \A d : DerniereDe(Append(a, x), e, d) =>
                                 DerniereDe(a, e, d) /\ Append(a, x)[d] = a[d]
<1> DEFINE A == Append(a, x)
           L == Len(a)
<1>1. /\ L \in Nat /\ Len(A) = L + 1 /\ A[L + 1] = x
      /\ \A i \in 1..L : A[i] = a[i]
  OBVIOUS
<1>2. /\ L + 1 \in 1..(L + 1)
      /\ \A i \in 1..L : i \in 1..(L + 1)
      /\ \A i \in 1..(L + 1) : i \in 1..L \/ i = L + 1
      /\ \A i \in 1..(L + 1) : L + 1 <= i => i = L + 1
  BY <1>1
<1> HIDE DEF A, L
<1>3. CASE x.entite = e
  <2>1. ~Absente(A, e)
    BY <1>1, <1>2, <1>3 DEF Absente
  <2>2. ASSUME NEW d, DerniereDe(A, e, d) PROVE A[d] = x
    BY <1>1, <1>2, <1>3, <2>2 DEF DerniereDe
  <2>3. QED
    BY <1>3, <2>1, <2>2 DEF A
<1>4. CASE x.entite # e
  <2>1. Absente(A, e) <=> Absente(a, e)
    BY <1>1, <1>2, <1>4 DEF Absente, L
  <2>2. ASSUME NEW d, DerniereDe(A, e, d) PROVE DerniereDe(a, e, d) /\ A[d] = a[d]
    <3>1. d \in 1..L /\ A[d] = a[d]
      BY <1>1, <1>2, <1>4, <2>2 DEF DerniereDe
    <3>2. \A k \in 1..L : a[k].entite = e => k <= d
      BY <1>1, <1>2, <2>2 DEF DerniereDe
    <3>3. QED
      BY <2>2, <3>1, <3>2 DEF DerniereDe, L
  <2>3. QED
    BY <1>4, <2>1, <2>2 DEF A
<1>5. QED
  BY <1>3, <1>4

LEMMA MemesAjout ==
  ASSUME NEW a \in Seq(Entrees), NEW b \in Seq(Entrees), NEW x \in Entrees,
         MemesDernieres(a, b)
  PROVE  MemesDernieres(Append(a, x), Append(b, x))
<1> SUFFICES ASSUME NEW e
             PROVE  /\ Absente(Append(a, x), e) <=> Absente(Append(b, x), e)
                    /\ \A d, k : DerniereDe(Append(a, x), e, d)
                                   /\ DerniereDe(Append(b, x), e, k)
                                   => Append(a, x)[d] = Append(b, x)[k]
  BY DEF MemesDernieres
<1> DEFINE A == Append(a, x)
           B == Append(b, x)
<1>1. /\ x.entite = e => /\ ~Absente(A, e)
                         /\ \A d : DerniereDe(A, e, d) => A[d] = x
      /\ x.entite # e => /\ Absente(A, e) <=> Absente(a, e)
                         /\ \A d : DerniereDe(A, e, d) => DerniereDe(a, e, d) /\ A[d] = a[d]
  BY DerniereAjout
<1>2. /\ x.entite = e => /\ ~Absente(B, e)
                         /\ \A d : DerniereDe(B, e, d) => B[d] = x
      /\ x.entite # e => /\ Absente(B, e) <=> Absente(b, e)
                         /\ \A d : DerniereDe(B, e, d) => DerniereDe(b, e, d) /\ B[d] = b[d]
  BY DerniereAjout
<1>3. /\ Absente(a, e) <=> Absente(b, e)
      /\ \A d, k : DerniereDe(a, e, d) /\ DerniereDe(b, e, k) => a[d] = b[k]
  BY DEF MemesDernieres
<1> HIDE DEF A, B
<1>4. /\ Absente(A, e) <=> Absente(B, e)
      /\ \A d, k : DerniereDe(A, e, d) /\ DerniereDe(B, e, k) => A[d] = B[k]
  BY <1>1, <1>2, <1>3
<1>5. QED
  BY <1>4 DEF A, B

LEMMA MemesCompacte ==
  ASSUME NEW a \in Seq(Entrees), NEW b \in Seq(Entrees), MemesDernieres(a, b)
  PROVE  MemesDernieres(JournalCompacte(a), b)
<1> DEFINE c == JournalCompacte(a)
<1>1. /\ \A e, d : DerniereDe(a, e, d) => \E x : SeuleDe(c, e, x) /\ c[x] = a[d]
      /\ \A e : Absente(a, e) => Absente(c, e)
  BY CompactionOrdonne
<1> HIDE DEF c
<1> SUFFICES ASSUME NEW e
             PROVE  /\ Absente(c, e) <=> Absente(b, e)
                    /\ \A d, k : DerniereDe(c, e, d) /\ DerniereDe(b, e, k) => c[d] = b[k]
  BY DEF MemesDernieres, c
<1>2. /\ Absente(a, e) <=> Absente(b, e)
      /\ \A d, k : DerniereDe(a, e, d) /\ DerniereDe(b, e, k) => a[d] = b[k]
  BY DEF MemesDernieres
<1>3. CASE Absente(a, e)
  <2>1. Absente(c, e) /\ Absente(b, e)
    BY <1>1, <1>2, <1>3
  <2>2. QED
    BY <2>1 DEF Absente, DerniereDe
<1>4. ASSUME NEW d, DerniereDe(a, e, d)
      PROVE  /\ Absente(c, e) <=> Absente(b, e)
             /\ \A l, k : DerniereDe(c, e, l) /\ DerniereDe(b, e, k) => c[l] = b[k]
  <2>1. PICK x : SeuleDe(c, e, x) /\ c[x] = a[d]
    BY <1>1, <1>4
  <2>2. ~Absente(c, e) /\ \A l : DerniereDe(c, e, l) => l = x
    BY <2>1 DEF SeuleDe, Absente, DerniereDe
  <2>3. ~Absente(b, e)
    BY <1>2, <1>4 DEF Absente, DerniereDe
  <2>4. QED
    BY <1>2, <1>4, <2>1, <2>2, <2>3
<1>5. QED
  BY <1>3, <1>4, DerniereOuAbsente

(* One slot receiving writes.                                               *)

(* The inductive invariant: the slot holds the last entries of the writes,  *)
(* and Seuil writes are spent for each compaction.                          *)
CInv ==
  /\ slot \in Slots /\ slot.tick = 0 /\ slot.etat # "Scelle"
  /\ slot.etat = "Vide" => slot.depuis = 0 /\ slot.journal = <<>>
  /\ brut \in Seq(Entrees)
  /\ MemesDernieres(slot.journal, brut)
  /\ passes \in Nat /\ passes * Seuil + slot.depuis <= Len(brut)

LEMMA InitCInv == CInit => CInv
<1> SUFFICES ASSUME CInit PROVE CInv
  OBVIOUS
<1>1. slot \in Slots /\ slot.tick = 0 /\ slot.etat = "Vide"
      /\ slot.depuis = 0 /\ slot.journal = <<>>
  BY SlotVideType DEF CInit, SlotVide
<1>2. brut = <<>> /\ passes = 0 /\ <<>> \in Seq(Entrees) /\ Len(<<>>) = 0
  BY DEF CInit
<1>3. MemesDernieres(<<>>, <<>>)
  BY <1>2 DEF MemesDernieres, DerniereDe
<1>4. passes * Seuil + slot.depuis <= Len(brut)
  BY <1>1, <1>2, SeuilAssumption
<1>5. QED
  BY <1>1, <1>2, <1>3, <1>4 DEF CInv

(* What ecrire makes of the slot: an append, after a compaction once Seuil  *)
(* entries have been pushed since the last one.                             *)
LEMMA EcritureSlot ==
  ASSUME slot \in Slots, slot.tick = 0, slot.etat # "Scelle",
         slot.etat = "Vide" => slot.depuis = 0 /\ slot.journal = <<>>,
         NEW e \in Entites, NEW p \in Poses
  PROVE  LET n == SlotEcrit(slot, 0, e, p)
             x == [entite |-> e, pose |-> p]
         IN  /\ n \in Slots /\ n.tick = 0 /\ n.etat = "Ouvert"
             /\ \/ /\ n.journal = Append(slot.journal, x)
                   /\ n.depuis = slot.depuis + 1
                \/ /\ slot.depuis >= Seuil
                   /\ n.journal = Append(JournalCompacte(slot.journal), x)
                   /\ n.depuis = 1
<1> DEFINE n == SlotEcrit(slot, 0, e, p)
           x == [entite |-> e, pose |-> p]
<1>1. ~EcritureRefusee(slot, 0) /\ (Recyclable(slot, 0) <=> slot.etat = "Vide")
  BY DEF EcritureRefusee, Recyclable, Slots
<1>2. n \in Slots /\ n.tick = 0 /\ n.etat = "Ouvert"
  <2>1. 0 \in Nat
    OBVIOUS
  <2>2. QED
    BY <1>1, <2>1, EcrireSlot
<1>3. CASE slot.etat = "Vide"
  <2>1. n = Inscrire(Recycler(0), e, p)
    BY <1>1, <1>3 DEF SlotEcrit
  <2>2. n.journal = Append(<<>>, x) /\ n.depuis = 0 + 1
    BY <2>1 DEF Inscrire, Recycler
  <2>3. QED
    BY <1>2, <1>3, <2>2
<1>4. CASE slot.etat # "Vide" /\ slot.depuis >= Seuil
  <2>1. n = Inscrire(Compacter(slot), e, p)
    BY <1>1, <1>4 DEF SlotEcrit
  <2>2. Compacter(slot).journal = JournalCompacte(slot.journal) /\ Compacter(slot).depuis = 0
        /\ Compacter(slot) \in Slots
    BY CompacterType DEF Compacter, Slots
  <2>3. n.journal = Append(JournalCompacte(slot.journal), x) /\ n.depuis = 0 + 1
    BY <2>1, <2>2 DEF Inscrire, Slots
  <2>4. QED
    BY <1>2, <1>4, <2>3
<1>5. CASE slot.etat # "Vide" /\ ~(slot.depuis >= Seuil)
  <2>1. n = Inscrire(slot, e, p)
    BY <1>1, <1>5 DEF SlotEcrit
  <2>2. n.journal = Append(slot.journal, x) /\ n.depuis = slot.depuis + 1
    BY <2>1 DEF Inscrire, Slots
  <2>3. QED
    BY <1>2, <2>2
<1>6. QED
  BY <1>3, <1>4, <1>5

LEMMA PousserCInv ==
  ASSUME CInv, NEW e \in Entites, NEW p \in Poses, Pousser(e, p)
  PROVE  CInv'
<1> DEFINE x == [entite |-> e, pose |-> p]
<1>1. /\ slot \in Slots /\ slot.tick = 0 /\ slot.etat # "Scelle"
      /\ slot.etat = "Vide" => slot.depuis = 0 /\ slot.journal = <<>>
      /\ brut \in Seq(Entrees) /\ MemesDernieres(slot.journal, brut)
      /\ passes \in Nat /\ passes * Seuil + slot.depuis <= Len(brut)
  BY DEF CInv
<1>2. /\ slot' = SlotEcrit(slot, 0, e, p) /\ brut' = Append(brut, x)
      /\ passes' = IF slot'.depuis > slot.depuis THEN passes ELSE passes + 1
  BY DEF Pousser
<1>3. /\ slot' \in Slots /\ slot'.tick = 0 /\ slot'.etat = "Ouvert"
      /\ \/ /\ slot'.journal = Append(slot.journal, x)
            /\ slot'.depuis = slot.depuis + 1
         \/ /\ slot.depuis >= Seuil
            /\ slot'.journal = Append(JournalCompacte(slot.journal), x)
            /\ slot'.depuis = 1
  BY <1>1, <1>2, EcritureSlot
<1>4. x \in Entrees /\ slot.journal \in Seq(Entrees) /\ slot.depuis \in Nat
  BY <1>1 DEF Entrees, Slots
<1> HIDE DEF x
<1>5. brut' \in Seq(Entrees) /\ Len(brut') = Len(brut) + 1 /\ Len(brut) \in Nat
  BY <1>1, <1>2, <1>4
<1>6. MemesDernieres(slot'.journal, brut')
  <2>1. JournalCompacte(slot.journal) \in Seq(Entrees)
        /\ MemesDernieres(JournalCompacte(slot.journal), brut)
    BY <1>1, <1>4, CompactionType, MemesCompacte
  <2>2. /\ MemesDernieres(Append(slot.journal, x), brut')
        /\ MemesDernieres(Append(JournalCompacte(slot.journal), x), brut')
    BY <1>1, <1>2, <1>4, <2>1, MemesAjout
  <2>3. QED
    BY <1>3, <2>2
<1>7. passes' \in Nat /\ passes' * Seuil + slot'.depuis <= Len(brut')
  <2>1. \A a, s \in Nat : a * s \in Nat /\ (a + 1) * s = a * s + s
    OBVIOUS
  <2>2. passes * Seuil \in Nat /\ (passes + 1) * Seuil = passes * Seuil + Seuil
        /\ Seuil \in Nat /\ Seuil >= 1
    BY <1>1, <2>1, SeuilAssumption
  <2>3. CASE slot'.depuis = slot.depuis + 1
    <3>1. passes' = passes
      BY <1>2, <1>4, <2>3
    <3>2. QED
      BY <1>1, <1>4, <1>5, <2>2, <2>3, <3>1
  <2>4. CASE slot.depuis >= Seuil /\ slot'.depuis = 1
    <3>1. passes' = passes + 1
      BY <1>2, <1>4, <2>2, <2>4
    <3> DEFINE v == passes * Seuil
    <3>2. v \in Nat /\ v + slot.depuis <= Len(brut) /\ passes' * Seuil = v + Seuil
      BY <1>1, <2>2, <3>1
    <3> HIDE DEF v
    <3>3. passes' * Seuil + slot'.depuis <= Len(brut')
      BY <1>4, <1>5, <2>2, <2>4, <3>2
    <3>4. QED
      BY <1>1, <3>1, <3>3
  <2>5. QED
    BY <1>3, <2>3, <2>4
<1>8. QED
  BY <1>3, <1>5, <1>6, <1>7 DEF CInv

(* CInv speaks of nothing but the slot and its two counters.                *)
LEMMA ImmobileCInv ==
  ASSUME CInv, slot' = slot, brut' = brut, passes' = passes
  PROVE  CInv'
BY DEF CInv

LEMMA InductifCompaction == CSpec => []CInv
<1>1. ASSUME CInv, CNext PROVE CInv'
  <2>1. PICK e \in Entites, p \in Poses : Pousser(e, p)
    BY <1>1 DEF CNext
  <2>2. QED
    BY <1>1, <2>1, PousserCInv
<1>2. ASSUME CInv, cvars' = cvars PROVE CInv'
  BY <1>2, ImmobileCInv DEF cvars
<1>3. CInv /\ [CNext]_cvars => CInv'
  BY <1>1, <1>2
<1>4. QED
  BY <1>3, InitCInv, PTL DEF CSpec

(* Sealing keeps, for every entity, the last pose written and no other, in  *)
(* entity order: for every number of entities, poses and writes             *)
(* (lib.rs:104-105, engine.rs:101-110).                                     *)
THEOREM SceauFidele == CSpec => []SceauLWW
<1>1. CInv => SceauLWW
  BY CompactionLWW DEF CInv, SceauLWW
<1>2. QED
  BY <1>1, InductifCompaction, PTL

(* Compacting on the way, at whatever threshold and however often, changes  *)
(* nothing of what sealing gives (engine.rs:13-18).                         *)
THEOREM SceauIndifferent == CSpec => []CompactionTransparente
<1>1. CInv => CompactionTransparente
  <2> SUFFICES ASSUME CInv PROVE SlotScelle(slot, 0).journal = JournalCompacte(brut)
    BY DEF CompactionTransparente
  <2>1. /\ slot \in Slots /\ slot.tick = 0 /\ slot.etat \in Etats /\ slot.etat # "Scelle"
        /\ slot.etat = "Vide" => slot.journal = <<>>
        /\ slot.journal \in Seq(Entrees) /\ brut \in Seq(Entrees)
    BY DEF CInv, Slots
  <2> DEFINE o == IF Recyclable(slot, 0) THEN Recycler(0) ELSE slot
  <2>2. o \in Slots /\ o.journal = slot.journal /\ o.etat # "Scelle"
    <3>1. Recyclable(slot, 0) <=> slot.etat = "Vide"
      BY <2>1 DEF Recyclable
    <3>2. /\ Recycler(0) \in Slots /\ Recycler(0).journal = <<>>
          /\ Recycler(0).etat # "Scelle"
      BY RecyclerType DEF Recycler
    <3>3. QED
      BY <2>1, <3>1, <3>2
  <2>3. ~Depasse(slot, 0)
    BY <2>1 DEF Depasse
  <2>4. SlotScelle(slot, 0) = [Compacter(o) EXCEPT !.etat = "Scelle"]
    BY <2>2, <2>3 DEF SlotScelle
  <2> HIDE DEF o
  <2>5. Compacter(o).journal = JournalCompacte(o.journal) /\ Compacter(o) \in Slots
    BY <2>2, CompacterType DEF Compacter, Slots
  <2>6. SlotScelle(slot, 0).journal = JournalCompacte(slot.journal)
    BY <2>2, <2>4, <2>5 DEF Slots
  <2>7. MemesDernieres(slot.journal, brut)
    BY DEF CInv
  <2>8. QED
    BY <2>1, <2>6, <2>7, CompactionUnique
<1>2. QED
  BY <1>1, InductifCompaction, PTL

(* Writing stays linear in the number of writes, however little each        *)
(* compaction shortens the journal (engine.rs:67-75).                       *)
THEOREM EcrituresLineaires == CSpec => []CoutAmorti
<1>1. CInv => CoutAmorti
  <2> SUFFICES ASSUME CInv PROVE passes * Seuil <= Len(brut)
    BY DEF CoutAmorti
  <2>1. /\ slot.depuis \in Nat /\ passes \in Nat /\ Len(brut) \in Nat
        /\ passes * Seuil + slot.depuis <= Len(brut)
    BY DEF CInv, Slots
  <2>2. \A a, s \in Nat : a * s \in Nat
    OBVIOUS
  <2>3. passes * Seuil \in Nat
    BY <2>1, <2>2, SeuilAssumption
  <2> DEFINE v == passes * Seuil
  <2> HIDE DEF v
  <2>4. v \in Nat /\ v + slot.depuis <= Len(brut)
    BY <2>1, <2>3 DEF v
  <2>5. v <= Len(brut)
    BY <2>1, <2>4
  <2>6. QED
    BY <2>5 DEF v
<1>2. QED
  BY <1>1, InductifCompaction, PTL
=============================================================================
