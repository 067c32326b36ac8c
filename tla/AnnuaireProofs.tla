--------------------------- MODULE AnnuaireProofs ---------------------------
(***************************************************************************)
(* The hysteresis of the directory holds for any entities, places, ticks   *)
(* and delay.                                                              *)
(***************************************************************************)
EXTENDS Annuaire, Integers, TLAPS

(* The clock of an entity is its last migration since it was registered.    *)
Horloge ==
  \A e \in Entites :
    entrees[e].derniere =
      IF migrations[e] = <<>> THEN {} ELSE {migrations[e][Len(migrations[e])]}

(* Every refusal since then announced the same tick.                        *)
Promesse ==
  \A e \in Entites : \A promis \in refus[e], t \in entrees[e].derniere :
    promis = t + Delai

AnnuaireInv == TypeOK /\ Horloge /\ Espacement /\ Promesse

(* Appending t to a spaced sequence, at least Delai after its last tick.    *)
LEMMA Prolonger ==
  ASSUME NEW d \in Nat, d > 0, NEW m \in Seq(Nat), NEW t \in Nat,
         \A i, j \in DOMAIN m : i < j => m[j] >= m[i] + d * (j - i),
         m = <<>> \/ t >= m[Len(m)] + d
  PROVE  \A i, j \in DOMAIN Append(m, t) :
           i < j => Append(m, t)[j] >= Append(m, t)[i] + d * (j - i)
<1> DEFINE n == Append(m, t)
           l == Len(m)
<1>1. /\ l \in Nat /\ DOMAIN m = 1..l /\ DOMAIN n = 1..(l + 1)
      /\ n[l + 1] = t /\ \A i \in 1..l : n[i] = m[i] /\ m[i] \in Nat
  OBVIOUS
<1> HIDE DEF n, l
<1>2. SUFFICES ASSUME NEW i \in 1..(l + 1), NEW j \in 1..(l + 1), i < j
               PROVE  n[j] >= n[i] + d * (j - i)
  BY <1>1 DEF n
<1>3. CASE j \in 1..l
  <2>1. i \in 1..l
    BY <1>1, <1>2, <1>3
  <2>2. m[j] >= m[i] + d * (j - i)
    BY <1>1, <1>2, <1>3, <2>1
  <2>3. n[i] = m[i] /\ n[j] = m[j]
    BY <1>1, <1>3, <2>1
  <2>4. QED
    BY <2>2, <2>3
<1>4. CASE j = l + 1 /\ i = l
  <2>1. d * (j - i) = d
    BY <1>1, <1>4
  <2>2. l > 0 /\ t >= m[l] + d
    BY <1>2, <1>4 DEF l
  <2>3. QED
    BY <1>1, <1>4, <2>1, <2>2
<1>5. CASE j = l + 1 /\ i < l
  <2>1. l \in 1..l /\ i \in 1..l
    BY <1>1, <1>2, <1>5
  <2>2. m[l] >= m[i] + d * (l - i)
    BY <1>1, <1>5, <2>1
  <2>3. t >= m[l] + d
    BY <2>1 DEF l
  <2>4. d * (j - i) = d * (l - i) + d
    <3>1. ASSUME NEW x \in Int PROVE d * (x + 1) = d * x + d
      OBVIOUS
    <3>2. j - i = (l - i) + 1 /\ l - i \in Int
      BY <1>1, <1>5
    <3>3. QED
      BY <3>1, <3>2
  <2>5. d * (l - i) \in Int
    BY <1>1, <1>2
  <2>6. QED
    BY <1>1, <1>5, <2>1, <2>2, <2>3, <2>4, <2>5
<1>6. QED
  BY <1>1, <1>2, <1>3, <1>4, <1>5

LEMMA AnnuaireInit == Init => AnnuaireInv
<1> SUFFICES ASSUME Init PROVE AnnuaireInv
  OBVIOUS
<1>1. TypeOK
  <2>1. <<>> \in Seq(Ticks) /\ {} \in SUBSET Nat
    OBVIOUS
  <2>2. QED
    BY <2>1 DEF Init, TypeOK
<1>2. Horloge /\ Espacement /\ Promesse
  BY DEF Init, Horloge, Espacement, Promesse, Inconnue
<1>3. QED
  BY <1>1, <1>2 DEF AnnuaireInv

LEMMA InscrireInv ==
  ASSUME AnnuaireInv, NEW e \in Entites, NEW dest \in Lieux, Inscrire(e, dest)
  PROVE  AnnuaireInv'
<1>1. TypeOK'
  <2>1. <<>> \in Seq(Ticks) /\ {} \in SUBSET Nat
        /\ [lieu |-> dest, derniere |-> {}] \in Connues
    BY DEF Connues
  <2>2. QED
    BY <2>1 DEF AnnuaireInv, TypeOK, Inscrire
<1>2. ASSUME NEW x \in Entites
      PROVE  /\ migrations'[x] = IF x = e THEN <<>> ELSE migrations[x]
             /\ x # e => entrees'[x] = entrees[x]
             /\ entrees'[e].derniere = {}
             /\ refus'[x] = IF x = e THEN {} ELSE refus[x]
  BY DEF AnnuaireInv, TypeOK, Inscrire
<1>3. Horloge'
  BY <1>2 DEF AnnuaireInv, Horloge
<1>4. Espacement'
  BY <1>2 DEF AnnuaireInv, Espacement
<1>5. Promesse'
  BY <1>2 DEF AnnuaireInv, Promesse
<1>6. QED
  BY <1>1, <1>3, <1>4, <1>5 DEF AnnuaireInv

LEMMA RefuserInv ==
  ASSUME AnnuaireInv, NEW e \in Entites, NEW dest \in Lieux, NEW at \in Ticks,
         Refuser(e, dest, at)
  PROVE  AnnuaireInv'
<1> DEFINE promis == {at + (Delai - Ecoule(t, at)) :
                        t \in {d \in entrees[e].derniere : d <= at}}
<1>1. entrees' = entrees /\ migrations' = migrations
  BY DEF Refuser
<1>2. promis \subseteq Nat
  <2> SUFFICES ASSUME NEW t \in entrees[e].derniere, t <= at
               PROVE  at + (Delai - Ecoule(t, at)) \in Nat
    OBVIOUS
  <2>1. t \in Nat /\ at \in Nat /\ entrees[e].derniere = {t}
    BY TicksAssumption DEF AnnuaireInv, TypeOK, Connues, Inconnue
  <2>2. Ecoule(t, at) < Delai /\ Ecoule(t, at) \in Nat
    BY <2>1 DEF Refuser, Retenue, Ecoule
  <2>3. QED
    BY <2>1, <2>2, DelaiAssumption
<1>3. refus' \in [Entites -> SUBSET Nat]
  <2>1. refus' = [refus EXCEPT ![e] = @ \cup promis]
    BY DEF Refuser
  <2> HIDE DEF promis
  <2>2. QED
    BY <1>2, <2>1 DEF AnnuaireInv, TypeOK
<1>4. ASSUME NEW x \in Entites, NEW p \in refus'[x], NEW t \in entrees[x].derniere
      PROVE  p = t + Delai
  <2>1. CASE p \in refus[x]
    BY <2>1 DEF AnnuaireInv, Promesse
  <2>2. CASE p \notin refus[x]
    <3>1. refus' = [refus EXCEPT ![e] = @ \cup promis]
      BY DEF Refuser
    <3>2. x = e /\ p \in promis
      <4> HIDE DEF promis
      <4>1. QED
        BY <1>4, <2>2, <3>1 DEF AnnuaireInv, TypeOK
    <3>3. PICK d \in entrees[e].derniere : d <= at /\ p = at + (Delai - Ecoule(d, at))
      BY <3>2
    <3>4. d = t /\ t \in Nat /\ at \in Nat
      BY <1>4, <3>2, <3>3, TicksAssumption DEF AnnuaireInv, TypeOK, Connues, Inconnue
    <3>5. Ecoule(t, at) = at - t
      BY <3>3, <3>4 DEF Ecoule
    <3>6. QED
      BY <3>3, <3>4, <3>5, DelaiAssumption
  <2>3. QED
    BY <2>1, <2>2
<1>5. Promesse'
  BY <1>1, <1>4 DEF Promesse
<1>6. QED
  BY <1>1, <1>3, <1>5 DEF AnnuaireInv, TypeOK, Horloge, Espacement

LEMMA AccepterInv ==
  ASSUME AnnuaireInv, NEW e \in Entites, NEW dest \in Lieux, NEW at \in Ticks,
         Accepter(e, dest, at)
  PROVE  AnnuaireInv'
<1> DEFINE m == migrations[e]
<1>1. m \in Seq(Ticks) /\ m \in Seq(Nat) /\ at \in Nat
  <2>1. m \in Seq(Ticks)
    BY DEF AnnuaireInv, TypeOK
  <2> HIDE DEF m
  <2>2. at \in Nat
    BY TicksAssumption
  <2>3. Len(m) \in Nat /\ m \in [1..Len(m) -> Ticks]
    BY <2>1
  <2>4. m \in [1..Len(m) -> Nat]
    BY <2>3, TicksAssumption
  <2>5. m \in Seq(Nat)
    BY <2>3, <2>4
  <2>6. QED
    BY <2>1, <2>2, <2>5
<1>2. ASSUME NEW x \in Entites
      PROVE  /\ migrations'[x] = IF x = e THEN Append(m, at) ELSE migrations[x]
             /\ x # e => entrees'[x] = entrees[x]
             /\ entrees'[e].derniere = {at}
  <2>1. /\ migrations' = [migrations EXCEPT ![e] = Append(m, at)]
        /\ entrees' = [entrees EXCEPT ![e] = [lieu |-> dest, derniere |-> {at}]]
    BY DEF Accepter
  <2> HIDE DEF m
  <2>2. QED
    BY <2>1 DEF AnnuaireInv, TypeOK
<1>3. TypeOK'
  <2>1. [lieu |-> dest, derniere |-> {at}] \in Connues /\ {} \in SUBSET Nat
    BY DEF Connues
  <2>2. Append(m, at) \in Seq(Ticks)
    BY <1>1
  <2>3. entrees' \in [Entites -> Connues \cup {Inconnue}]
    BY <2>1 DEF AnnuaireInv, TypeOK, Accepter
  <2>4. migrations' \in [Entites -> Seq(Ticks)]
    BY <2>2 DEF AnnuaireInv, TypeOK, Accepter
  <2>5. refus' \in [Entites -> SUBSET Nat]
    BY <2>1 DEF AnnuaireInv, TypeOK, Accepter
  <2>6. QED
    BY <2>3, <2>4, <2>5 DEF TypeOK
<1>4. Append(m, at) # <<>> /\ Append(m, at)[Len(Append(m, at))] = at
  <2> HIDE DEF m
  <2>1. QED
    BY <1>1
<1>5. Horloge'
  <2> SUFFICES ASSUME NEW x \in Entites
               PROVE  entrees'[x].derniere =
                        IF migrations'[x] = <<>> THEN {}
                        ELSE {migrations'[x][Len(migrations'[x])]}
    BY DEF Horloge
  <2>1. CASE x = e
    <3> HIDE DEF m
    <3>1. migrations'[x] = Append(m, at) /\ entrees'[x].derniere = {at}
      BY <1>2, <2>1
    <3> DEFINE p == Append(m, at)
    <3>2. p # <<>> /\ p[Len(p)] = at
      BY <1>4
    <3> HIDE DEF p
    <3>3. migrations'[x] = p
      BY <3>1 DEF p
    <3>4. QED
      BY <3>1, <3>2, <3>3
  <2>2. CASE x # e
    BY <1>2, <2>2 DEF AnnuaireInv, Horloge
  <2>3. QED
    BY <2>1, <2>2
<1>p. Promesse'
  <2>1. ASSUME NEW x \in Entites
        PROVE  refus'[x] = IF x = e THEN {} ELSE refus[x]
    BY DEF AnnuaireInv, TypeOK, Accepter
  <2>2. QED
    BY <1>2, <2>1 DEF AnnuaireInv, Promesse
<1>6. CASE Delai = 0
  BY <1>3, <1>5, <1>p, <1>6 DEF AnnuaireInv, Espacement
<1>7. CASE Delai > 0
  <2>1. m = <<>> \/ at >= m[Len(m)] + Delai
    <3>1. SUFFICES ASSUME m # <<>> PROVE at >= m[Len(m)] + Delai
      OBVIOUS
    <3>2. entrees[e].derniere = {m[Len(m)]}
      BY <3>1 DEF AnnuaireInv, Horloge
    <3>3. ~(Ecoule(m[Len(m)], at) < Delai)
      BY <3>2 DEF Accepter, Retenue
    <3>4. m[Len(m)] \in Nat
      <4> HIDE DEF m
      <4>1. QED
        BY <1>1, <3>1
    <3>5. QED
      BY <1>1, <1>7, <3>3, <3>4, DelaiAssumption DEF Ecoule
  <2>2. \A i, j \in DOMAIN m : i < j => m[j] >= m[i] + Delai * (j - i)
    BY <1>7 DEF AnnuaireInv, Espacement
  <2>3. \A i, j \in DOMAIN Append(m, at) :
          i < j => Append(m, at)[j] >= Append(m, at)[i] + Delai * (j - i)
    <3> HIDE DEF m
    <3>1. QED
      BY <1>1, <1>7, <2>1, <2>2, Prolonger, DelaiAssumption
  <2>4. Espacement'
    <3> HIDE DEF m
    <3>1. QED
      BY <1>2, <2>3 DEF AnnuaireInv, Espacement
  <2>5. QED
    BY <1>3, <1>5, <1>p, <2>4 DEF AnnuaireInv
<1>8. QED
  BY <1>6, <1>7, DelaiAssumption

LEMMA AnnuairePas ==
  ASSUME AnnuaireInv, [Next]_vars
  PROVE  AnnuaireInv'
<1>1. ASSUME UNCHANGED vars PROVE AnnuaireInv'
  BY <1>1 DEF vars, AnnuaireInv, TypeOK, Horloge, Espacement, Promesse
<1>2. ASSUME NEW e \in Entites, NEW dest \in Lieux, NEW at \in Ticks,
             Migrer(e, dest, at)
      PROVE  AnnuaireInv'
  BY <1>1, <1>2, InscrireInv, RefuserInv, AccepterInv
     DEF Migrer, MigrerInconnue, MigrerSurPlace
<1>3. QED
  BY <1>1, <1>2, InscrireInv DEF Next

LEMMA AnnuaireInvariant == Spec => []AnnuaireInv
<1>1. Init => AnnuaireInv
  BY AnnuaireInit
<1>2. AnnuaireInv /\ [Next]_vars => AnnuaireInv'
  BY AnnuairePas
<1>3. QED
  BY <1>1, <1>2, PTL DEF Spec

(* Two migrations of one entity are Delai ticks apart per migration between *)
(* them, whatever the ticks callers name (directory.rs:208-261).            *)
THEOREM MigrationsEspacees == Spec => []Espacement
<1>1. AnnuaireInv => Espacement
  BY DEF AnnuaireInv
<1>2. QED
  BY <1>1, AnnuaireInvariant, PTL

(* A refused migration is no longer refused at the tick its refusal         *)
(* announced, nor later (directory.rs:75-78).                               *)
THEOREM RefusNonRenouvele == Spec => []RefusTenu
<1>1. ASSUME AnnuaireInv, NEW e \in Entites, NEW promis \in refus[e],
             NEW at \in Ticks, at >= promis
      PROVE  ~Retenue(e, at)
  <2> SUFFICES ASSUME NEW t \in entrees[e].derniere, Ecoule(t, at) < Delai
               PROVE  FALSE
    BY DEF Retenue
  <2>1. t \in Nat /\ at \in Nat
    BY <1>1, TicksAssumption DEF AnnuaireInv, TypeOK, Connues, Inconnue
  <2>2. at >= t + Delai
    BY <1>1 DEF AnnuaireInv, Promesse
  <2>3. QED
    BY <2>1, <2>2, DelaiAssumption DEF Ecoule
<1>2. AnnuaireInv => RefusTenu
  BY <1>1 DEF RefusTenu
<1>3. QED
  BY <1>2, AnnuaireInvariant, PTL
=============================================================================
