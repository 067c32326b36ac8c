---------------------------- MODULE MoteurProofs ----------------------------
(***************************************************************************)
(* Theorems about ChronotopeEngine for any rooms, cells, ring size, ticks, *)
(* threads and calls: its types; the finality of seals; the store contract *)
(* it implements; the length of its journals; and, with its observers,     *)
(* what waits in their channels.                                           *)
(***************************************************************************)
EXTENDS Observation, MoteurContrat, SlotProofs

(* Two keys addressed to the same slot. *)
MemeSlot(j, k) ==
  j.salle = k.salle /\ j.cellule = k.cellule /\ Indice(j.tick) = Indice(k.tick)

LEMMA IndiceType ==
  ASSUME NEW t \in Nat
  PROVE  Indice(t) \in Indices
BY AnneauAssumption DEF Indice, Indices

LEMMA NouvelAnneauType == NouvelAnneau \in [Indices -> Slots]
BY SlotVideType DEF NouvelAnneau

LEMMA CleType ==
  ASSUME NEW o \in Ecritures \cup Scellements
  PROVE  /\ Cle(o) \in Cles /\ o.tick \in Ticks /\ o.tick \in Nat
         /\ Cle(o).salle = o.salle /\ Cle(o).cellule = o.cellule
         /\ Cle(o).tick = o.tick
BY TicksAssumption DEF Ecritures, Scellements, Cle, Cles

(* Every key has a slot. *)
LEMMA SlotDeType ==
  ASSUME TypeOK, NEW k \in Cles
  PROVE  /\ <<k.salle, k.cellule>> \in Positions
         /\ k.tick \in Nat
         /\ Indice(k.tick) \in Indices
         /\ Ring(k.salle, k.cellule) \in [Indices -> Slots]
         /\ SlotDe(k) \in Slots
<1>1. k.salle \in Salles /\ k.cellule \in Cellules /\ k.tick \in Nat
  BY TicksAssumption DEF Cles
<1>2. <<k.salle, k.cellule>> \in Positions
  BY <1>1 DEF Positions
<1>3. Indice(k.tick) \in Indices
  BY <1>1, IndiceType
<1>4. Ring(k.salle, k.cellule) \in [Indices -> Slots]
  BY <1>2, NouvelAnneauType DEF Ring, TypeOK
<1>5. QED
  BY <1>1, <1>2, <1>3, <1>4 DEF SlotDe

(* avec_slot changes the slot of the keys addressed there, and no other.    *)
LEMMA AvecSlotEffet ==
  ASSUME TypeOK, NEW k \in Cles, NEW s \in Slots, AvecSlot(k, s)
  PROVE  /\ salles' \in SUBSET Salles
         /\ anneaux' \in SUBSET (salles' \X Cellules)
         /\ slots' \in [Positions -> [Indices -> Slots]]
         /\ salles' = salles
         /\ \A j \in Cles : SlotDe(j)' = IF MemeSlot(j, k) THEN s ELSE SlotDe(j)
<1> DEFINE rc  == <<k.salle, k.cellule>>
           neuf == [Ring(k.salle, k.cellule) EXCEPT ![Indice(k.tick)] = s]
<1>1. /\ k.salle \in salles
      /\ anneaux' = anneaux \cup {rc}
      /\ slots' = [slots EXCEPT ![rc] = neuf]
      /\ salles' = salles
  BY DEF AvecSlot
<1>2. /\ rc \in Positions /\ k.cellule \in Cellules
      /\ Ring(k.salle, k.cellule) \in [Indices -> Slots]
      /\ Indice(k.tick) \in Indices
  BY SlotDeType DEF Cles
<1>3. neuf \in [Indices -> Slots]
  BY <1>2
<1>4. slots' \in [Positions -> [Indices -> Slots]]
  <2> HIDE DEF neuf, rc
  <2>1. QED
    BY <1>1, <1>3 DEF TypeOK
<1>5. anneaux' \in SUBSET (salles' \X Cellules)
  BY <1>1, <1>2 DEF TypeOK
<1>6. ASSUME NEW j \in Cles
      PROVE  SlotDe(j)' = IF MemeSlot(j, k) THEN s ELSE SlotDe(j)
  <2> DEFINE jc == <<j.salle, j.cellule>>
  <2>1. jc \in Positions /\ Indice(j.tick) \in Indices
    BY SlotDeType
  <2>2. CASE jc = rc
    <3>1. j.salle = k.salle /\ j.cellule = k.cellule
      BY <2>2
    <3>2. Ring(j.salle, j.cellule)' = neuf
      <4>1. jc \in anneaux'
        BY <1>1, <2>2
      <4>2. slots'[jc] = neuf
        <5> HIDE DEF neuf, rc, jc
        <5>1. QED
          BY <1>1, <1>2, <2>1, <2>2 DEF TypeOK
      <4>3. QED
        BY <4>1, <4>2 DEF Ring
    <3>3. SlotDe(j)' = neuf[Indice(j.tick)]
      BY <3>2 DEF SlotDe, Indice
    <3>4. QED
      BY <1>2, <2>1, <3>1, <3>3 DEF MemeSlot, SlotDe
  <2>3. CASE jc # rc
    <3>1. ~MemeSlot(j, k)
      BY <2>3 DEF MemeSlot
    <3>2. (jc \in anneaux') = (jc \in anneaux)
      BY <1>1, <2>3
    <3>3. slots'[jc] = slots[jc]
      <4> HIDE DEF neuf, rc, jc
      <4>1. QED
        BY <1>1, <2>1, <2>3 DEF TypeOK
    <3>4. Ring(j.salle, j.cellule)' = Ring(j.salle, j.cellule)
      BY <3>2, <3>3 DEF Ring
    <3>5. QED
      BY <3>1, <3>4 DEF SlotDe, Indice
  <2>4. QED
    BY <2>2, <2>3
<1>7. salles' \in SUBSET Salles
  BY <1>1 DEF TypeOK
<1>8. QED
  BY <1>1, <1>4, <1>5, <1>6, <1>7
-----------------------------------------------------------------------------
(* Type correctness. *)

LEMMA TypeInit == Init => TypeOK
<1> SUFFICES ASSUME Init PROVE TypeOK
  OBVIOUS
<1>1. slots \in [Positions -> [Indices -> Slots]]
  BY NouvelAnneauType DEF Init
<1>2. rendu \in [Fils -> Rendus]
  BY DEF Init, Rendus
<1>3. aLire \in [Fils -> Seq(Cellules)] /\ aVider \in [Fils -> SUBSET (salles \X Cellules)]
  BY DEF Init
<1>4. pc \in [Fils -> Pcs] /\ appel \in [Fils -> Appels \cup {Aucun}]
  BY DEF Init, Pcs
<1>5. QED
  BY <1>1, <1>2, <1>3, <1>4 DEF Init, TypeOK

(* The part of TypeOK about the threads, which a step of one thread keeps   *)
(* when that thread's own locals are right after it.                        *)
FilOK(f) ==
  /\ pc[f] \in {"creer", "reprendre"} => appel[f] \in Ecritures \cup Scellements
  /\ pc[f] = "diffuser" => appel[f] \in Scellements
  /\ pc[f] = "lire" => appel[f] \in Lectures /\ rendu[f].nature = "lire"
  /\ pc[f] # "vider" => aVider[f] = {}

LEMMA UnFilBouge ==
  ASSUME TypeOK, NEW f \in Fils, NEW p \in Pcs, NEW a \in Appels \cup {Aucun},
         NEW l \in Seq(Cellules), NEW v \in SUBSET (salles' \X Cellules),
         NEW r \in Rendus,
         salles \subseteq salles',
         pc' = [pc EXCEPT ![f] = p], appel' = [appel EXCEPT ![f] = a],
         aLire' = [aLire EXCEPT ![f] = l], aVider' = [aVider EXCEPT ![f] = v],
         rendu' = [rendu EXCEPT ![f] = r],
         p \in {"creer", "reprendre"} => a \in Ecritures \cup Scellements,
         p = "diffuser" => a \in Scellements,
         p = "lire" => a \in Lectures /\ r.nature = "lire",
         p # "vider" => v = {}
  PROVE  /\ pc'     \in [Fils -> Pcs]
         /\ appel'  \in [Fils -> Appels \cup {Aucun}]
         /\ aLire'  \in [Fils -> Seq(Cellules)]
         /\ aVider' \in [Fils -> SUBSET (salles' \X Cellules)]
         /\ rendu'  \in [Fils -> Rendus]
         /\ \A g \in Fils : FilOK(g)'
<1>1. \A g \in Fils : aVider[g] \in SUBSET (salles' \X Cellules)
  BY DEF TypeOK
<1>2. aVider' \in [Fils -> SUBSET (salles' \X Cellules)]
  BY <1>1 DEF TypeOK
<1>3. ASSUME NEW g \in Fils PROVE FilOK(g)'
  <2>1. CASE g = f
    BY <2>1 DEF TypeOK, FilOK
  <2>2. CASE g # f
    BY <2>2 DEF TypeOK, FilOK
  <2>3. QED
    BY <2>1, <2>2
<1>4. QED
  BY <1>2, <1>3 DEF TypeOK

LEMMA TypeSalleAbsente ==
  ASSUME TypeOK, NEW f \in Fils, NEW o \in Appels, SalleAbsente(f, o)
  PROVE  TypeOK'
<1>1. /\ Aucun \in Rendus /\ "creer" \in Pcs
      /\ o \in Ecritures \cup Scellements /\ pc[f] # "vider"
  BY DEF Rendus, Pcs, SalleAbsente, Tente
<1>2. /\ aLire' = [aLire EXCEPT ![f] = aLire[f]] /\ aLire[f] \in Seq(Cellules)
      /\ aVider' = [aVider EXCEPT ![f] = aVider[f]] /\ aVider[f] = {}
      /\ salles' = salles
  BY <1>1 DEF SalleAbsente, memoire, TypeOK
<1>3. /\ pc'    \in [Fils -> Pcs]     /\ appel'  \in [Fils -> Appels \cup {Aucun}]
      /\ aLire' \in [Fils -> Seq(Cellules)]
      /\ aVider' \in [Fils -> SUBSET (salles' \X Cellules)]
      /\ rendu' \in [Fils -> Rendus]  /\ \A g \in Fils : FilOK(g)'
  BY <1>1, <1>2, UnFilBouge DEF SalleAbsente
<1>4. QED
  BY <1>3 DEF SalleAbsente, memoire, TypeOK, FilOK

LEMMA TypeEcrire ==
  ASSUME TypeOK, NEW f \in Fils, NEW o \in Appels, Ecrire(f, o)
  PROVE  TypeOK'
<1> DEFINE k == Cle(o)
           n == SlotEcrit(SlotDe(k), o.tick, o.entite, o.pose)
           r == [nature |-> "ecrire", cle |-> k, ok |-> ~EcritureRefusee(SlotDe(k), o.tick)]
<1>1. o \in Ecritures /\ o.entite \in Entites /\ o.pose \in Poses /\ pc[f] # "vider"
  BY DEF Ecrire, Ecritures, Tente
<1>2. k \in Cles /\ o.tick \in Nat
  BY <1>1, CleType
<1>3. n \in Slots
  BY <1>1, <1>2, SlotDeType, EcrireSlot
<1>4. /\ salles' \in SUBSET Salles /\ salles' = salles
      /\ anneaux' \in SUBSET (salles' \X Cellules)
      /\ slots' \in [Positions -> [Indices -> Slots]]
  <2>1. AvecSlot(k, n)
    BY DEF Ecrire
  <2> HIDE DEF k, n
  <2>2. QED
    BY <1>2, <1>3, <2>1, AvecSlotEffet
<1>5. r \in Rendus
  BY <1>2 DEF Rendus
<1>6. /\ aLire' = [aLire EXCEPT ![f] = aLire[f]] /\ aLire[f] \in Seq(Cellules)
      /\ aVider' = [aVider EXCEPT ![f] = aVider[f]] /\ aVider[f] = {}
      /\ pc' = [pc EXCEPT ![f] = "libre"] /\ "libre" \in Pcs
      /\ appel' = [appel EXCEPT ![f] = Aucun]
      /\ rendu' = [rendu EXCEPT ![f] = r]
  BY <1>1 DEF Ecrire, TypeOK, Pcs
<1>7. /\ pc'    \in [Fils -> Pcs]     /\ appel'  \in [Fils -> Appels \cup {Aucun}]
      /\ aLire' \in [Fils -> Seq(Cellules)]
      /\ aVider' \in [Fils -> SUBSET (salles' \X Cellules)]
      /\ rendu' \in [Fils -> Rendus]  /\ \A g \in Fils : FilOK(g)'
  <2> HIDE DEF r
  <2>1. QED
    BY <1>4, <1>5, <1>6, UnFilBouge
<1>8. QED
  BY <1>4, <1>7 DEF TypeOK, FilOK

LEMMA TypeSceller ==
  ASSUME TypeOK, NEW f \in Fils, NEW o \in Appels, Sceller(f, o)
  PROVE  TypeOK'
<1> DEFINE k == Cle(o)
           n == SlotScelle(SlotDe(k), o.tick)
           r == [nature |-> "sceller", cle |-> k,
                 contenu |-> ContenuScelle(SlotDe(k), o.tick)]
<1>1. o \in Scellements /\ pc[f] # "vider"
  BY DEF Sceller, Tente
<1>2. k \in Cles /\ o.tick \in Nat
  BY <1>1, CleType
<1>3. n \in Slots /\ ContenuScelle(SlotDe(k), o.tick) \in Seq(Entrees)
  BY <1>2, SlotDeType, ScellerSlot
<1>4. /\ salles' \in SUBSET Salles /\ salles' = salles
      /\ anneaux' \in SUBSET (salles' \X Cellules)
      /\ slots' \in [Positions -> [Indices -> Slots]]
  <2>1. AvecSlot(k, n)
    BY DEF Sceller
  <2> HIDE DEF k, n
  <2>2. QED
    BY <1>2, <1>3, <2>1, AvecSlotEffet
<1>5. r \in Rendus
  BY <1>2, <1>3 DEF Rendus
<1>6. /\ aLire' = [aLire EXCEPT ![f] = aLire[f]] /\ aLire[f] \in Seq(Cellules)
      /\ aVider' = [aVider EXCEPT ![f] = aVider[f]] /\ aVider[f] = {}
      /\ pc' = [pc EXCEPT ![f] = "diffuser"] /\ "diffuser" \in Pcs
      /\ appel' = [appel EXCEPT ![f] = o]
      /\ rendu' = [rendu EXCEPT ![f] = r]
  BY <1>1 DEF Sceller, TypeOK, Pcs
<1>7. /\ pc'    \in [Fils -> Pcs]     /\ appel'  \in [Fils -> Appels \cup {Aucun}]
      /\ aLire' \in [Fils -> Seq(Cellules)]
      /\ aVider' \in [Fils -> SUBSET (salles' \X Cellules)]
      /\ rendu' \in [Fils -> Rendus]  /\ \A g \in Fils : FilOK(g)'
  <2> HIDE DEF r
  <2>1. QED
    BY <1>1, <1>4, <1>5, <1>6, UnFilBouge
<1>8. QED
  BY <1>4, <1>7 DEF TypeOK, FilOK

LEMMA TypeCreerSalle ==
  ASSUME TypeOK, NEW f \in Fils, CreerSalle(f)
  PROVE  TypeOK'
<1>1. /\ appel[f] \in Ecritures \cup Scellements /\ appel[f].salle \in Salles
      /\ pc[f] = "creer" /\ aVider[f] = {} /\ "reprendre" \in Pcs
  BY DEF CreerSalle, TypeOK, Ecritures, Scellements, Pcs
<1>2. /\ salles' \in SUBSET Salles /\ salles \subseteq salles'
      /\ anneaux' \in SUBSET (salles' \X Cellules)
      /\ slots' = slots
  BY <1>1 DEF CreerSalle, TypeOK, memoire
<1>3. /\ pc' = [pc EXCEPT ![f] = "reprendre"]
      /\ appel' = [appel EXCEPT ![f] = appel[f]]
      /\ aLire' = [aLire EXCEPT ![f] = aLire[f]] /\ aLire[f] \in Seq(Cellules)
      /\ aVider' = [aVider EXCEPT ![f] = aVider[f]]
      /\ rendu' = [rendu EXCEPT ![f] = rendu[f]] /\ rendu[f] \in Rendus
      /\ appel[f] \in Appels \cup {Aucun}
  BY DEF CreerSalle, TypeOK
<1>4. /\ pc'    \in [Fils -> Pcs]     /\ appel'  \in [Fils -> Appels \cup {Aucun}]
      /\ aLire' \in [Fils -> Seq(Cellules)]
      /\ aVider' \in [Fils -> SUBSET (salles' \X Cellules)]
      /\ rendu' \in [Fils -> Rendus]  /\ \A g \in Fils : FilOK(g)'
  BY <1>1, <1>2, <1>3, UnFilBouge
<1>5. QED
  BY <1>2, <1>4 DEF TypeOK, FilOK

(* Steps that only end a call: Diffuser, FinirLire, FinirVider.             *)
LEMMA TypeFin ==
  ASSUME TypeOK, NEW f \in Fils, NEW r \in Rendus,
         pc' = [pc EXCEPT ![f] = "libre"], appel' = [appel EXCEPT ![f] = Aucun],
         rendu' = [rendu EXCEPT ![f] = r], aVider[f] = {},
         UNCHANGED <<memoire, aLire, aVider>>
  PROVE  TypeOK'
<1>1. /\ aLire' = [aLire EXCEPT ![f] = aLire[f]] /\ aLire[f] \in Seq(Cellules)
      /\ aVider' = [aVider EXCEPT ![f] = aVider[f]]
      /\ "libre" \in Pcs /\ salles' = salles
  BY DEF TypeOK, memoire, Pcs
<1>2. /\ pc'    \in [Fils -> Pcs]     /\ appel'  \in [Fils -> Appels \cup {Aucun}]
      /\ aLire' \in [Fils -> Seq(Cellules)]
      /\ aVider' \in [Fils -> SUBSET (salles' \X Cellules)]
      /\ rendu' \in [Fils -> Rendus]  /\ \A g \in Fils : FilOK(g)'
  BY <1>1, UnFilBouge
<1>3. QED
  BY <1>2 DEF TypeOK, FilOK, memoire

LEMMA TypeDiffuser ==
  ASSUME TypeOK, NEW f \in Fils, Diffuser(f)
  PROVE  TypeOK'
<1>1. aVider[f] = {} /\ Aucun \in Rendus
  BY DEF Diffuser, TypeOK, Rendus
<1>2. QED
  BY <1>1, TypeFin DEF Diffuser

LEMMA TypeFinirLire ==
  ASSUME TypeOK, NEW f \in Fils, FinirLire(f)
  PROVE  TypeOK'
<1>1. aVider[f] = {} /\ Aucun \in Rendus
  BY DEF FinirLire, TypeOK, Rendus
<1>2. QED
  BY <1>1, TypeFin DEF FinirLire

LEMMA TypeFinirVider ==
  ASSUME TypeOK, NEW f \in Fils, FinirVider(f)
  PROVE  TypeOK'
<1>1. /\ aVider[f] = {} /\ rendu[f] \in Rendus
      /\ rendu' = [rendu EXCEPT ![f] = rendu[f]]
  BY DEF FinirVider, TypeOK
<1>2. QED
  BY <1>1, TypeFin DEF FinirVider

LEMMA TypeCommencerLire ==
  ASSUME TypeOK, NEW f \in Fils, NEW o \in Appels, CommencerLire(f, o)
  PROVE  TypeOK'
<1> DEFINE r == [nature |-> "lire", lus |-> <<>>]
<1>0. r \in Rendus
  <2>1. <<>> \in Seq([cle : Cles, contenu : Seq(Entrees)])
    OBVIOUS
  <2>2. QED
    BY <2>1 DEF Rendus
<1>1. /\ r.nature = "lire" /\ "lire" \in Pcs
      /\ o \in Lectures /\ o.cellules \in Seq(Cellules)
      /\ pc[f] = "libre" /\ aVider[f] = {}
  BY DEF CommencerLire, Pcs, Lectures, TypeOK
<1>2. /\ aVider' = [aVider EXCEPT ![f] = aVider[f]] /\ salles' = salles
      /\ pc' = [pc EXCEPT ![f] = "lire"] /\ appel' = [appel EXCEPT ![f] = o]
      /\ aLire' = [aLire EXCEPT ![f] = o.cellules]
      /\ rendu' = [rendu EXCEPT ![f] = r]
  BY DEF CommencerLire, TypeOK, memoire
<1>3. /\ pc'    \in [Fils -> Pcs]     /\ appel'  \in [Fils -> Appels \cup {Aucun}]
      /\ aLire' \in [Fils -> Seq(Cellules)]
      /\ aVider' \in [Fils -> SUBSET (salles' \X Cellules)]
      /\ rendu' \in [Fils -> Rendus]  /\ \A g \in Fils : FilOK(g)'
  <2> HIDE DEF r
  <2>1. QED
    BY <1>0, <1>1, <1>2, UnFilBouge
<1>4. QED
  BY <1>3 DEF TypeOK, FilOK, CommencerLire, memoire

LEMMA TypeLireCellule ==
  ASSUME TypeOK, NEW f \in Fils, LireCellule(f)
  PROVE  TypeOK'
<1> DEFINE k  == [salle |-> appel[f].salle, cellule |-> Head(aLire[f]),
                  tick |-> appel[f].tick]
           lu == [cle |-> k, contenu |-> SlotDe(k).journal]
           Lus == Seq([cle : Cles, contenu : Seq(Entrees)])
<1>1. /\ pc[f] = "lire" /\ appel[f] \in Lectures /\ appel[f] \in Appels \cup {Aucun}
      /\ aLire[f] \in Seq(Cellules) /\ aLire[f] # <<>> /\ aVider[f] = {}
      /\ rendu[f] \in Rendus /\ rendu[f].nature = "lire"
  BY DEF LireCellule, TypeOK
<1>2. k \in Cles
  BY <1>1 DEF Lectures, Cles
<1>3. lu \in [cle : Cles, contenu : Seq(Entrees)]
  <2>1. SlotDe(k).journal \in Seq(Entrees)
    BY <1>2, SlotDeType DEF Slots
  <2>2. QED
    BY <1>2, <2>1
<1>4. rendu[f] \in [nature : {"lire"}, lus : Lus]
  BY <1>1 DEF Rendus, Aucun
<1>5. PICK r \in Rendus : r.nature = "lire" /\ rendu' = [rendu EXCEPT ![f] = r]
  <2> DEFINE r == [nature |-> "lire", lus |-> Append(rendu[f].lus, lu)]
  <2>1. rendu' = [rendu EXCEPT ![f] = r] \/ rendu' = rendu
    BY DEF LireCellule
  <2>2. CASE rendu' = rendu
    BY <1>1, <2>2 DEF TypeOK
  <2>3. CASE rendu' = [rendu EXCEPT ![f] = r]
    <3> HIDE DEF lu
    <3>1. rendu[f].lus \in Lus
      BY <1>4
    <3>2. r \in Rendus
      <4>1. Append(rendu[f].lus, lu) \in Lus
        BY <1>3, <3>1
      <4>2. QED
        BY <4>1 DEF Rendus
    <3>3. QED
      BY <2>3, <3>2
  <2>4. QED
    BY <2>1, <2>2, <2>3
<1>6. /\ aLire' = [aLire EXCEPT ![f] = Tail(aLire[f])]
      /\ Tail(aLire[f]) \in Seq(Cellules)
      /\ pc' = [pc EXCEPT ![f] = "lire"] /\ "lire" \in Pcs
      /\ appel' = [appel EXCEPT ![f] = appel[f]]
      /\ aVider' = [aVider EXCEPT ![f] = aVider[f]] /\ salles' = salles
  BY <1>1 DEF LireCellule, TypeOK, memoire, Pcs
<1>7. /\ pc'    \in [Fils -> Pcs]     /\ appel'  \in [Fils -> Appels \cup {Aucun}]
      /\ aLire' \in [Fils -> Seq(Cellules)]
      /\ aVider' \in [Fils -> SUBSET (salles' \X Cellules)]
      /\ rendu' \in [Fils -> Rendus]  /\ \A g \in Fils : FilOK(g)'
  BY <1>1, <1>5, <1>6, UnFilBouge
<1>8. QED
  BY <1>7 DEF TypeOK, FilOK, LireCellule, memoire

LEMMA TypeCommencerVider ==
  ASSUME TypeOK, NEW f \in Fils, NEW o \in Appels, CommencerVider(f, o)
  PROVE  TypeOK'
<1>1. /\ Aucun \in Rendus /\ "vider" \in Pcs /\ aLire[f] \in Seq(Cellules)
      /\ aLire' = [aLire EXCEPT ![f] = aLire[f]] /\ salles' = salles
  BY DEF CommencerVider, TypeOK, memoire, Rendus, Pcs
<1>2. /\ pc'    \in [Fils -> Pcs]     /\ appel'  \in [Fils -> Appels \cup {Aucun}]
      /\ aLire' \in [Fils -> Seq(Cellules)]
      /\ aVider' \in [Fils -> SUBSET (salles' \X Cellules)]
      /\ rendu' \in [Fils -> Rendus]  /\ \A g \in Fils : FilOK(g)'
  BY <1>1, UnFilBouge DEF CommencerVider
<1>3. QED
  BY <1>2 DEF TypeOK, FilOK, CommencerVider, memoire

LEMMA TypeViderCellule ==
  ASSUME TypeOK, NEW f \in Fils, ViderCellule(f)
  PROVE  TypeOK'
<1>1. PICK rc \in aVider[f] :
        /\ slots' = IF rc \in anneaux
                    THEN [slots EXCEPT ![rc] = [i \in Indices |-> SlotVidange(slots[rc][i])]]
                    ELSE slots
        /\ aVider' = [aVider EXCEPT ![f] = @ \ {rc}]
  BY DEF ViderCellule
<1>2. /\ pc[f] = "vider" /\ salles' = salles /\ anneaux' = anneaux
      /\ pc' = [pc EXCEPT ![f] = "vider"] /\ appel' = [appel EXCEPT ![f] = appel[f]]
      /\ appel[f] \in Appels \cup {Aucun}
      /\ aLire' = [aLire EXCEPT ![f] = aLire[f]] /\ aLire[f] \in Seq(Cellules)
      /\ rendu' = [rendu EXCEPT ![f] = rendu[f]] /\ rendu[f] \in Rendus
      /\ aVider[f] \ {rc} \in SUBSET (salles' \X Cellules) /\ "vider" \in Pcs
  BY DEF ViderCellule, TypeOK, Pcs
<1>3. rc \in Positions
  BY DEF TypeOK, Positions
<1>4. [i \in Indices |-> SlotVidange(slots[rc][i])] \in [Indices -> Slots]
  BY <1>3, ViderSlot DEF TypeOK
<1>5. slots' \in [Positions -> [Indices -> Slots]]
  BY <1>1, <1>4 DEF TypeOK
<1>6. /\ pc'    \in [Fils -> Pcs]     /\ appel'  \in [Fils -> Appels \cup {Aucun}]
      /\ aLire' \in [Fils -> Seq(Cellules)]
      /\ aVider' \in [Fils -> SUBSET (salles' \X Cellules)]
      /\ rendu' \in [Fils -> Rendus]  /\ \A g \in Fils : FilOK(g)'
  BY <1>1, <1>2, UnFilBouge
<1>7. QED
  BY <1>2, <1>5, <1>6 DEF TypeOK, FilOK

LEMMA TypePas ==
  ASSUME TypeOK, [Next]_vars
  PROVE  TypeOK'
<1>1. ASSUME NEW f \in Fils, NEW o \in Appels,
             \/ SalleAbsente(f, o) \/ Ecrire(f, o) \/ Sceller(f, o)
             \/ CommencerLire(f, o) \/ CommencerVider(f, o)
      PROVE  TypeOK'
  BY <1>1, TypeSalleAbsente, TypeEcrire, TypeSceller, TypeCommencerLire,
     TypeCommencerVider
<1>2. ASSUME NEW f \in Fils,
             \/ CreerSalle(f) \/ Diffuser(f) \/ LireCellule(f) \/ FinirLire(f)
             \/ ViderCellule(f) \/ FinirVider(f)
      PROVE  TypeOK'
  BY <1>2, TypeCreerSalle, TypeDiffuser, TypeLireCellule, TypeFinirLire,
     TypeViderCellule, TypeFinirVider
<1>3. CASE UNCHANGED vars
  BY <1>3 DEF vars, TypeOK
<1>4. QED
  BY <1>1, <1>2, <1>3 DEF Next

(* Every state the engine reaches is well typed, and every thread inside a  *)
(* call holds what the code of that call assumes (Moteur's TypeOK).         *)
THEOREM MoteurType == Spec => []TypeOK
<1>1. Init => TypeOK
  BY TypeInit
<1>2. TypeOK /\ [Next]_vars => TypeOK'
  BY TypePas
<1>3. QED
  BY <1>1, <1>2, PTL DEF Spec

-----------------------------------------------------------------------------
(* Seals are final.                                                         *)

(* Whatever is sealed in a slot is what the first sceller of its key made.  *)
ScelleConnu ==
  \A k \in Cles : LisibleA(SlotDe(k), k.tick) => sceaux[k] = {SlotDe(k).journal}

SceauInv == TypeOK /\ SceauDefinitif /\ ScelleConnu

(* What a step may do to a key that is neither sealed nor emptied by it.    *)
Suivi(k) == ~VideACePas(k) /\ \A f \in Fils : ~ScelleACePas(f, k)

LEMMA SuivreStable ==
  ASSUME NEW k \in Cles, Suivi(k)
  PROVE  Suivre(k) = sceaux[k]
BY DEF Suivre, Suivi

LEMMA MemeSlotDe ==
  ASSUME NEW j \in Cles, NEW k \in Cles, MemeSlot(j, k)
  PROVE  SlotDe(j) = SlotDe(k)
BY DEF MemeSlot, SlotDe

(* A step that changes neither a slot nor a history keeps the invariant.    *)
LEMMA SceauInchange ==
  ASSUME SceauInv, TypeOK',
         \A k \in Cles : SlotDe(k)' = SlotDe(k) /\ sceaux'[k] = sceaux[k]
  PROVE  SceauInv'
<1>1. ASSUME NEW k \in Cles, NEW c \in sceaux'[k]
      PROVE  LET s == SlotDe(k)'
             IN  \/ LisibleA(s, k.tick) /\ s.journal = c
                 \/ Depasse(s, k.tick)
  BY <1>1 DEF SceauInv, SceauDefinitif
<1>2. ASSUME NEW k \in Cles, LisibleA(SlotDe(k)', k.tick)
      PROVE  sceaux'[k] = {SlotDe(k)'.journal}
  BY <1>2 DEF SceauInv, ScelleConnu
<1>3. SceauDefinitif' /\ ScelleConnu'
  BY <1>1, <1>2 DEF SceauDefinitif, ScelleConnu, LisibleA, Depasse
<1>4. QED
  BY <1>3 DEF SceauInv

(* The keys a step seals or empties, action by action.                      *)
LEMMA SuiviHorsSceau ==
  ASSUME TypeOK, NEW f \in Fils, NEW k \in Cles,
         \/ \E o \in Appels : \/ SalleAbsente(f, o) \/ Ecrire(f, o)
                              \/ CommencerLire(f, o) \/ CommencerVider(f, o)
         \/ CreerSalle(f) \/ Diffuser(f) \/ LireCellule(f)
         \/ FinirLire(f) \/ FinirVider(f)
  PROVE  Suivi(k)
<1>1. \A g \in Fils : aVider[g] \ aVider'[g] = {}
  <2>1. CASE \E o \in Appels : CommencerVider(f, o)
    BY <2>1 DEF CommencerVider, TypeOK
  <2>2. CASE aVider' = aVider
    BY <2>2
  <2>3. QED
    BY <2>1, <2>2 DEF SalleAbsente, Ecrire, CommencerLire, CreerSalle, Diffuser,
                      LireCellule, FinirLire, FinirVider
<1>2. \A g \in Fils : pc'[g] = "diffuser" => pc[g] = "diffuser"
  BY DEF TypeOK, SalleAbsente, Ecrire, CommencerLire, CommencerVider, CreerSalle,
         Diffuser, LireCellule, FinirLire, FinirVider
<1>3. QED
  BY <1>1, <1>2 DEF Suivi, VideACePas, ScelleACePas

LEMMA SuiviSceller ==
  ASSUME TypeOK, NEW f \in Fils, NEW o \in Appels, Sceller(f, o), NEW k \in Cles
  PROVE  /\ ~VideACePas(k)
         /\ \A g \in Fils : ScelleACePas(g, k) <=> g = f /\ k = Cle(o)
         /\ rendu'[f].contenu = ContenuScelle(SlotDe(Cle(o)), o.tick)
<1>1. aVider' = aVider /\ pc[f] # "diffuser"
  BY DEF Sceller, Tente
<1>2. /\ pc' = [pc EXCEPT ![f] = "diffuser"] /\ appel' = [appel EXCEPT ![f] = o]
      /\ rendu'[f] = [nature |-> "sceller", cle |-> Cle(o),
                      contenu |-> ContenuScelle(SlotDe(Cle(o)), o.tick)]
  BY DEF Sceller, TypeOK
<1>3. ASSUME NEW g \in Fils
      PROVE  ScelleACePas(g, k) <=> g = f /\ k = Cle(o)
  BY <1>1, <1>2 DEF ScelleACePas, TypeOK
<1>4. QED
  BY <1>1, <1>2, <1>3 DEF VideACePas
-----------------------------------------------------------------------------

LEMMA SceauInit == HInit => SceauInv
<1> SUFFICES ASSUME HInit PROVE SceauInv
  OBVIOUS
<1>1. TypeOK
  BY TypeInit DEF HInit
<1>2. SceauDefinitif
  BY DEF HInit, SceauDefinitif
<1>3. ASSUME NEW k \in Cles PROVE ~LisibleA(SlotDe(k), k.tick)
  <2>1. SlotDe(k) = SlotVide
    BY <1>1, SlotDeType DEF HInit, Init, SlotDe, Ring, NouvelAnneau
  <2>2. QED
    BY <2>1, SlotVideType DEF LisibleA
<1>4. QED
  BY <1>1, <1>2, <1>3 DEF SceauInv, ScelleConnu

(* An accepted write recycles the slot of an older tick, or joins one that  *)
(* is open at its own: it never touches a sealed slot it does not outdate.  *)
LEMMA SceauEcrire ==
  ASSUME SceauInv, NEW f \in Fils, NEW o \in Appels, Ecrire(f, o), TypeOK',
         sceaux' = [k \in Cles |-> Suivre(k)]
  PROVE  SceauInv'
<1> DEFINE k == Cle(o)
           s == SlotDe(k)
           n == SlotEcrit(s, o.tick, o.entite, o.pose)
<1>1. /\ o \in Ecritures /\ o.entite \in Entites /\ o.pose \in Poses
      /\ TypeOK /\ AvecSlot(k, n)
  BY DEF Ecrire, Ecritures, SceauInv
<1>2. k \in Cles /\ o.tick \in Nat /\ k.tick = o.tick
  BY <1>1, CleType
<1>3. s \in Slots
  BY <1>1, <1>2, SlotDeType
<1>4. /\ n \in Slots
      /\ EcritureRefusee(s, o.tick) => n = s
      /\ ~EcritureRefusee(s, o.tick) => /\ n.etat = "Ouvert" /\ n.tick = o.tick
                                        /\ s.etat = "Vide" \/ s.tick <= o.tick
                                        /\ ~LisibleA(s, o.tick)
  BY <1>1, <1>2, <1>3, EcrireSlot
<1>5. \A j \in Cles : SlotDe(j)' = IF MemeSlot(j, k) THEN n ELSE SlotDe(j)
  <2> HIDE DEF k, n
  <2>1. QED
    BY <1>1, <1>2, <1>4, AvecSlotEffet
<1>6. \A j \in Cles : sceaux'[j] = sceaux[j]
  BY <1>1, SuiviHorsSceau, SuivreStable
<1>7. \A j \in Cles : MemeSlot(j, k) => SlotDe(j) = s
  BY <1>2, MemeSlotDe
<1>8. CASE EcritureRefusee(s, o.tick)
  <2>1. \A j \in Cles : SlotDe(j)' = SlotDe(j)
    BY <1>4, <1>5, <1>7, <1>8
  <2>2. QED
    BY <1>6, <2>1, SceauInchange
<1>9. CASE ~EcritureRefusee(s, o.tick)
  <2> HIDE DEF k, s, n
  <2>1. /\ n.etat = "Ouvert" /\ n.tick = o.tick
        /\ s.etat = "Vide" \/ s.tick <= o.tick
        /\ ~LisibleA(s, o.tick)
    BY <1>4, <1>9
  <2>2. ASSUME NEW j \in Cles, NEW c \in sceaux'[j]
        PROVE  \/ LisibleA(SlotDe(j)', j.tick) /\ SlotDe(j)'.journal = c
               \/ Depasse(SlotDe(j)', j.tick)
    <3>1. \/ LisibleA(SlotDe(j), j.tick) /\ SlotDe(j).journal = c
          \/ Depasse(SlotDe(j), j.tick)
      BY <1>6, <2>2 DEF SceauInv, SceauDefinitif
    <3>2. CASE ~MemeSlot(j, k)
      BY <1>5, <3>1, <3>2
    <3>3. CASE MemeSlot(j, k)
      <4>1. SlotDe(j)' = n /\ SlotDe(j) = s /\ j.tick \in Nat
        BY <1>1, <1>5, <1>7, <3>3, SlotDeType
      <4>2. Depasse(n, j.tick)
        BY <1>2, <1>3, <1>4, <2>1, <3>1, <4>1 DEF LisibleA, Depasse, Slots
      <4>3. QED
        BY <4>1, <4>2
    <3>4. QED
      BY <3>2, <3>3
  <2>3. ASSUME NEW j \in Cles, LisibleA(SlotDe(j)', j.tick)
        PROVE  sceaux'[j] = {SlotDe(j)'.journal}
    <3>1. ~MemeSlot(j, k)
      BY <1>5, <2>1, <2>3 DEF LisibleA
    <3>2. QED
      BY <1>5, <1>6, <2>3, <3>1 DEF SceauInv, ScelleConnu
  <2>4. SceauDefinitif' /\ ScelleConnu'
    BY <2>2, <2>3 DEF SceauDefinitif, ScelleConnu, LisibleA, Depasse
  <2>5. QED
    BY <2>4 DEF SceauInv
<1>10. QED
  BY <1>8, <1>9

(* Sealing either finds the slot past the tick, or leaves it sealed with    *)
(* what it returns: the same as before when it was sealed already.          *)
LEMMA SceauSceller ==
  ASSUME SceauInv, NEW f \in Fils, NEW o \in Appels, Sceller(f, o), TypeOK',
         sceaux' = [k \in Cles |-> Suivre(k)]
  PROVE  SceauInv'
<1> DEFINE k == Cle(o)
           s == SlotDe(k)
           n == SlotScelle(s, o.tick)
           c == ContenuScelle(s, o.tick)
<1>1. o \in Scellements /\ TypeOK /\ AvecSlot(k, n)
  BY DEF Sceller, SceauInv
<1>2. k \in Cles /\ o.tick \in Nat /\ k.tick = o.tick
  BY <1>1, CleType
<1>3. s \in Slots
  BY <1>1, <1>2, SlotDeType
<1>4. /\ n \in Slots
      /\ Depasse(s, o.tick)  => n = s
      /\ ~Depasse(s, o.tick) => /\ LisibleA(n, o.tick) /\ c = n.journal
                                /\ s.etat = "Vide" \/ s.tick <= o.tick
      /\ LisibleA(s, o.tick) => n = s
  BY <1>2, <1>3, ScellerSlot
<1>5. \A j \in Cles : SlotDe(j)' = IF MemeSlot(j, k) THEN n ELSE SlotDe(j)
  <2> HIDE DEF k, n
  <2>1. QED
    BY <1>1, <1>2, <1>4, AvecSlotEffet
<1>6. \A j \in Cles : j # k => sceaux'[j] = sceaux[j]
  BY <1>1, SuiviSceller, SuivreStable DEF Suivi
<1>7. sceaux'[k] = IF sceaux[k] = {} THEN {c} ELSE sceaux[k]
  <2>1. {g \in Fils : ScelleACePas(g, k)} = {f} /\ rendu'[f].contenu = c /\ ~VideACePas(k)
    BY <1>1, <1>2, SuiviSceller
  <2> HIDE DEF k, c
  <2>2. Suivre(k) = IF sceaux[k] = {} THEN {c} ELSE sceaux[k]
    BY <2>1 DEF Suivre
  <2>3. QED
    BY <1>2, <2>2
<1>8. \A j \in Cles : MemeSlot(j, k) => SlotDe(j) = s
  BY <1>2, MemeSlotDe
<1>9. \A j \in Cles : MemeSlot(j, k) /\ j.tick = o.tick => j = k
  <2> HIDE DEF k
  <2>1. QED
    BY <1>2 DEF MemeSlot, Cles
<1>10. MemeSlot(k, k)
  BY DEF MemeSlot
<1> HIDE DEF k, s, n, c
<1>11. ASSUME NEW j \in Cles, NEW x \in sceaux'[j]
       PROVE  \/ LisibleA(SlotDe(j)', j.tick) /\ SlotDe(j)'.journal = x
              \/ Depasse(SlotDe(j)', j.tick)
  <2>1. ASSUME x \in sceaux[j]
        PROVE  \/ LisibleA(SlotDe(j), j.tick) /\ SlotDe(j).journal = x
               \/ Depasse(SlotDe(j), j.tick)
    BY <2>1 DEF SceauInv, SceauDefinitif
  <2>2. CASE ~MemeSlot(j, k)
    BY <1>5, <1>6, <1>10, <1>11, <2>1, <2>2
  <2>3. CASE MemeSlot(j, k) /\ j # k
    <3>1. /\ SlotDe(j)' = n /\ SlotDe(j) = s /\ j.tick # o.tick /\ j.tick \in Nat
          /\ x \in sceaux[j]
      BY <1>1, <1>5, <1>6, <1>8, <1>9, <1>11, <2>3, SlotDeType
    <3>2. CASE Depasse(s, o.tick)
      BY <1>4, <2>1, <3>1, <3>2
    <3>3. CASE ~Depasse(s, o.tick)
      BY <1>2, <1>3, <1>4, <2>1, <3>1, <3>3 DEF LisibleA, Depasse, Slots
    <3>4. QED
      BY <3>2, <3>3
  <2>4. CASE j = k
    <3>1. SlotDe(j)' = n /\ SlotDe(j) = s /\ j.tick = o.tick
      BY <1>2, <1>5, <1>8, <1>10, <2>4
    <3>2. CASE Depasse(s, o.tick)
      BY <1>4, <3>1, <3>2
    <3>3. CASE ~Depasse(s, o.tick) /\ sceaux[k] = {}
      BY <1>4, <1>7, <1>11, <2>4, <3>1, <3>3
    <3>4. CASE ~Depasse(s, o.tick) /\ sceaux[k] # {}
      BY <1>4, <1>7, <1>11, <2>1, <2>4, <3>1, <3>4
    <3>5. QED
      BY <3>2, <3>3, <3>4
  <2>5. QED
    BY <2>2, <2>3, <2>4
<1>12. ASSUME NEW j \in Cles, LisibleA(SlotDe(j)', j.tick)
       PROVE  sceaux'[j] = {SlotDe(j)'.journal}
  <2>1. LisibleA(SlotDe(j), j.tick) => sceaux[j] = {SlotDe(j).journal}
    BY DEF SceauInv, ScelleConnu
  <2>2. CASE ~MemeSlot(j, k)
    BY <1>5, <1>6, <1>10, <1>12, <2>1, <2>2
  <2>3. CASE MemeSlot(j, k) /\ j # k
    <3>1. SlotDe(j)' = n /\ SlotDe(j) = s /\ j.tick # o.tick
      BY <1>5, <1>8, <1>9, <2>3
    <3>2. CASE Depasse(s, o.tick)
      BY <1>4, <1>6, <1>12, <2>1, <2>3, <3>1, <3>2
    <3>3. CASE ~Depasse(s, o.tick)
      BY <1>4, <1>12, <3>1, <3>3 DEF LisibleA
    <3>4. QED
      BY <3>2, <3>3
  <2>4. CASE j = k
    <3>1. SlotDe(j)' = n /\ SlotDe(j) = s /\ j.tick = o.tick
      BY <1>2, <1>5, <1>8, <1>10, <2>4
    <3>2. ~Depasse(s, o.tick)
      BY <1>3, <1>4, <1>12, <3>1, <1>2 DEF LisibleA, Depasse, Slots
    <3>3. CASE sceaux[k] = {}
      BY <1>4, <1>7, <2>4, <3>1, <3>2, <3>3
    <3>4. CASE sceaux[k] # {}
      <4>1. LisibleA(s, o.tick)
        BY <1>2, <2>4, <3>1, <3>2, <3>4 DEF SceauInv, SceauDefinitif
      <4>2. QED
        BY <1>4, <1>7, <2>1, <2>4, <3>1, <3>4, <4>1
    <3>5. QED
      BY <3>3, <3>4
  <2>5. QED
    BY <2>2, <2>3, <2>4
<1>13. SceauDefinitif' /\ ScelleConnu'
  BY <1>11, <1>12 DEF SceauDefinitif, ScelleConnu, LisibleA, Depasse
<1>14. QED
  BY <1>13 DEF SceauInv

(* A room created has no ring.                                              *)
LEMMA CreerSalleSlots ==
  ASSUME TypeOK, NEW f \in Fils, CreerSalle(f)
  PROVE  anneaux' = anneaux /\ slots' = slots
<1> DEFINE r == appel[f].salle
<1>1. CASE r \in salles
  BY <1>1 DEF CreerSalle, memoire
<1>2. CASE r \notin salles
  <2>1. anneaux' = anneaux \ ({r} \X Cellules) /\ slots' = slots
    BY <1>2 DEF CreerSalle
  <2> HIDE DEF r
  <2>2. anneaux \subseteq salles \X Cellules
    BY DEF TypeOK
  <2>3. \A rc \in anneaux : rc \notin {r} \X Cellules
    BY <1>2, <2>2
  <2>4. QED
    BY <2>1, <2>3
<1>3. QED
  BY <1>1, <1>2

(* The slots of every key stay what they were.                              *)
LEMMA SceauCreerSalle ==
  ASSUME SceauInv, NEW f \in Fils, CreerSalle(f), TypeOK',
         sceaux' = [k \in Cles |-> Suivre(k)]
  PROVE  SceauInv'
<1>1. anneaux' = anneaux /\ slots' = slots
  BY CreerSalleSlots DEF SceauInv
<1>2. \A k \in Cles : SlotDe(k)' = SlotDe(k)
  BY <1>1 DEF SlotDe, Ring, Indice, NouvelAnneau
<1>3. \A k \in Cles : sceaux'[k] = sceaux[k]
  BY SuiviHorsSceau, SuivreStable DEF SceauInv
<1>4. QED
  BY <1>2, <1>3, SceauInchange

(* Emptying a cell forgets its keys, and only those.                        *)
LEMMA SceauViderCellule ==
  ASSUME SceauInv, NEW f \in Fils, ViderCellule(f), TypeOK',
         sceaux' = [k \in Cles |-> Suivre(k)]
  PROVE  SceauInv'
<1>1. PICK rc \in aVider[f] :
        /\ slots' = IF rc \in anneaux
                    THEN [slots EXCEPT ![rc] = [i \in Indices |-> SlotVidange(slots[rc][i])]]
                    ELSE slots
        /\ aVider' = [aVider EXCEPT ![f] = @ \ {rc}]
  BY DEF ViderCellule
<1>2. /\ anneaux' = anneaux /\ pc' = pc /\ TypeOK
      /\ rc \in Positions
  BY DEF ViderCellule, SceauInv, TypeOK, Positions
<1>3. ASSUME NEW g \in Fils
      PROVE  aVider[g] \ aVider'[g] = IF g = f THEN {rc} ELSE {}
  <2>1. aVider'[g] = IF g = f THEN aVider[f] \ {rc} ELSE aVider[g]
    BY <1>1, <1>2 DEF TypeOK
  <2>2. rc \in aVider[f]
    OBVIOUS
  <2>3. QED
    BY <2>1, <2>2, Zenon
<1>4. ASSUME NEW k \in Cles, <<k.salle, k.cellule>> = rc
      PROVE  /\ sceaux'[k] = {}
             /\ ~LisibleA(SlotDe(k)', k.tick)
  <2>1. VideACePas(k)
    BY <1>3, <1>4 DEF VideACePas
  <2>2. sceaux'[k] = {}
    BY <2>1 DEF Suivre
  <2>3. Indice(k.tick) \in Indices
    BY <1>2, SlotDeType
  <2>4. CASE rc \in anneaux
    <3>1. SlotDe(k)' = slots'[rc][Indice(k.tick)]
      BY <1>2, <1>4, <2>4 DEF SlotDe, Ring, Indice
    <3>2. slots'[rc][Indice(k.tick)] = SlotVidange(slots[rc][Indice(k.tick)])
      BY <1>1, <1>2, <2>3, <2>4 DEF TypeOK
    <3>3. QED
      BY <2>2, <3>1, <3>2 DEF SlotVidange, LisibleA
  <2>5. CASE rc \notin anneaux
    <3>1. SlotDe(k)' = SlotVide
      BY <1>2, <1>4, <2>3, <2>5 DEF SlotDe, Ring, Indice, NouvelAnneau
    <3>2. QED
      BY <2>2, <3>1, SlotVideType DEF LisibleA
  <2>6. QED
    BY <2>4, <2>5
<1>5. ASSUME NEW k \in Cles, <<k.salle, k.cellule>> # rc
      PROVE  SlotDe(k)' = SlotDe(k) /\ sceaux'[k] = sceaux[k]
  <2>1. Suivi(k)
    BY <1>2, <1>3, <1>5 DEF Suivi, VideACePas, ScelleACePas
  <2>2. <<k.salle, k.cellule>> \in Positions
    BY <1>2, SlotDeType
  <2> DEFINE kc == <<k.salle, k.cellule>>
  <2>3. slots'[kc] = slots[kc]
    <3> HIDE DEF kc
    <3>1. kc \in Positions /\ kc # rc
      BY <2>2, <1>5 DEF kc
    <3>2. QED
      BY <1>1, <1>2, <3>1 DEF TypeOK
  <2>4. SlotDe(k)' = SlotDe(k)
    BY <1>2, <2>3 DEF SlotDe, Ring, Indice, NouvelAnneau
  <2>5. QED
    BY <2>1, <2>4, SuivreStable
<1>6. ASSUME NEW k \in Cles, NEW x \in sceaux'[k]
      PROVE  \/ LisibleA(SlotDe(k)', k.tick) /\ SlotDe(k)'.journal = x
             \/ Depasse(SlotDe(k)', k.tick)
  BY <1>4, <1>5, <1>6 DEF SceauInv, SceauDefinitif
<1>7. ASSUME NEW k \in Cles, LisibleA(SlotDe(k)', k.tick)
      PROVE  sceaux'[k] = {SlotDe(k)'.journal}
  BY <1>4, <1>5, <1>7 DEF SceauInv, ScelleConnu
<1>8. SceauDefinitif' /\ ScelleConnu'
  BY <1>6, <1>7 DEF SceauDefinitif, ScelleConnu, LisibleA, Depasse
<1>9. QED
  BY <1>8 DEF SceauInv

(* Every other action leaves the slots alone.                               *)
LEMMA SceauAutres ==
  ASSUME SceauInv, NEW f \in Fils, TypeOK',
         \/ \E o \in Appels : \/ SalleAbsente(f, o) \/ CommencerLire(f, o)
                              \/ CommencerVider(f, o)
         \/ Diffuser(f) \/ LireCellule(f) \/ FinirLire(f) \/ FinirVider(f),
         sceaux' = [k \in Cles |-> Suivre(k)]
  PROVE  SceauInv'
<1>1. anneaux' = anneaux /\ slots' = slots
  BY DEF SalleAbsente, CommencerLire, CommencerVider, Diffuser, LireCellule,
         FinirLire, FinirVider, memoire
<1>2. \A k \in Cles : SlotDe(k)' = SlotDe(k)
  BY <1>1 DEF SlotDe, Ring, Indice, NouvelAnneau
<1>3. \A k \in Cles : sceaux'[k] = sceaux[k]
  BY SuiviHorsSceau, SuivreStable DEF SceauInv
<1>4. QED
  BY <1>2, <1>3, SceauInchange

LEMMA SceauPas ==
  ASSUME SceauInv, [HNext]_hvars
  PROVE  SceauInv'
<1>1. TypeOK'
  BY TypePas DEF SceauInv, HNext, hvars
<1>2. CASE UNCHANGED hvars
  <2>1. \A k \in Cles : SlotDe(k)' = SlotDe(k) /\ sceaux'[k] = sceaux[k]
    BY <1>2 DEF hvars, vars, SlotDe, Ring, Indice, NouvelAnneau
  <2>2. QED
    BY <1>1, <2>1, SceauInchange
<1>3. CASE HNext
  <2>1. Next /\ sceaux' = [k \in Cles |-> Suivre(k)]
    BY <1>3 DEF HNext
  <2>2. PICK f \in Fils :
          \/ \E o \in Appels : \/ SalleAbsente(f, o) \/ Ecrire(f, o) \/ Sceller(f, o)
                               \/ CommencerLire(f, o) \/ CommencerVider(f, o)
          \/ CreerSalle(f) \/ Diffuser(f) \/ LireCellule(f) \/ FinirLire(f)
          \/ ViderCellule(f) \/ FinirVider(f)
    BY <2>1 DEF Next
  <2>3. QED
    BY <1>1, <2>1, <2>2, SceauEcrire, SceauSceller, SceauCreerSalle,
       SceauViderCellule, SceauAutres
<1>4. QED
  BY <1>2, <1>3

LEMMA SceauInvariant == HSpec => []SceauInv
<1>1. HInit => SceauInv
  BY SceauInit
<1>2. SceauInv /\ [HNext]_hvars => SceauInv'
  BY SceauPas
<1>3. QED
  BY <1>1, <1>2, PTL DEF HSpec
-----------------------------------------------------------------------------

(* A sealed chronotope stays sealed with the journal of its first sceller   *)
(* until its slot goes on to a later tick (engine.rs:278-338).              *)
THEOREM SceauEstDefinitif == HSpec => []SceauDefinitif
<1>1. SceauInv => SceauDefinitif
  BY DEF SceauInv
<1>2. QED
  BY <1>1, SceauInvariant, PTL

(* An acknowledged write finds its key never sealed.                        *)
LEMMA AccepteNonScelle ==
  ASSUME SceauInv, NEW f \in Fils, NEW o \in Appels, Ecrire(f, o), rendu'[f].ok
  PROVE  sceaux[Cle(o)] = {}
<1> DEFINE k == Cle(o)
           s == SlotDe(k)
<1>1. /\ o \in Ecritures /\ o.entite \in Entites /\ o.pose \in Poses /\ TypeOK
      /\ ~EcritureRefusee(s, o.tick)
  BY DEF Ecrire, Ecritures, SceauInv, TypeOK
<1>2. k \in Cles /\ o.tick \in Nat /\ k.tick = o.tick
  BY <1>1, CleType
<1>3. s \in Slots
  BY <1>1, <1>2, SlotDeType
<1>4. (s.etat = "Vide" \/ s.tick <= o.tick) /\ ~LisibleA(s, o.tick)
  BY <1>1, <1>2, <1>3, EcrireSlot
<1>5. ~Depasse(s, o.tick)
  BY <1>2, <1>3, <1>4 DEF Depasse, Slots
<1>6. QED
  BY <1>2, <1>4, <1>5 DEF SceauInv, SceauDefinitif

(* What a lire adds to its answer was sealed under that key.                *)
LEMMA LuScelle ==
  ASSUME SceauInv, HNext, NEW f \in Fils,
         pc[f] = "lire", pc'[f] = "lire", Len(rendu'[f].lus) > Len(rendu[f].lus)
  PROVE  LET lu == rendu'[f].lus[Len(rendu'[f].lus)]
         IN  sceaux[lu.cle] = {lu.contenu}
<1> DEFINE k  == [salle |-> appel[f].salle, cellule |-> Head(aLire[f]),
                  tick |-> appel[f].tick]
           lu == [cle |-> k, contenu |-> SlotDe(k).journal]
           avant == rendu[f].lus
<1>1. /\ TypeOK /\ appel[f] \in Lectures /\ aLire[f] \in Seq(Cellules)
      /\ rendu[f] \in Rendus /\ rendu[f].nature = "lire"
      /\ rendu \in [Fils -> Rendus] /\ pc \in [Fils -> Pcs]
  BY DEF SceauInv, TypeOK
<1>2. avant \in Seq([cle : Cles, contenu : Seq(Entrees)])
  BY <1>1 DEF Rendus, Aucun
<1>3. rendu'[f] # rendu[f]
  <2>1. Len(avant) \in Nat
    BY <1>2
  <2>2. QED
    BY <2>1
<1>4. LireCellule(f)
  <2>1. PICK g \in Fils :
          \/ \E o \in Appels : \/ SalleAbsente(g, o) \/ Ecrire(g, o) \/ Sceller(g, o)
                               \/ CommencerLire(g, o) \/ CommencerVider(g, o)
          \/ CreerSalle(g) \/ Diffuser(g) \/ LireCellule(g) \/ FinirLire(g)
          \/ ViderCellule(g) \/ FinirVider(g)
    BY DEF HNext, Next
  <2>2. CASE g # f
    BY <1>1, <1>3, <2>1, <2>2 DEF SalleAbsente, Ecrire, Sceller, CommencerLire,
       CommencerVider, CreerSalle, Diffuser, LireCellule, FinirLire, ViderCellule,
       FinirVider
  <2>3. CASE g = f
    BY <1>1, <1>3, <2>1, <2>3 DEF SalleAbsente, Ecrire, Sceller, Tente, CommencerLire,
       CommencerVider, CreerSalle, Diffuser, FinirLire, ViderCellule, FinirVider
  <2>4. QED
    BY <2>2, <2>3
<1>5. /\ aLire[f] # <<>>
      /\ rendu' = [rendu EXCEPT ![f] = [nature |-> "lire", lus |-> Append(avant, lu)]]
      /\ LisibleA(SlotDe(k), k.tick)
  BY <1>3, <1>4 DEF LireCellule
<1>6. k \in Cles
  BY <1>1, <1>5 DEF Lectures, Cles
<1>7. sceaux[k] = {lu.contenu}
  BY <1>5, <1>6 DEF SceauInv, ScelleConnu
<1>8. rendu'[f].lus = Append(avant, lu)
  BY <1>1, <1>5
<1>9. rendu'[f].lus[Len(rendu'[f].lus)] = lu
  <2> HIDE DEF lu, avant
  <2>1. QED
    BY <1>2, <1>8
<1>10. QED
  BY <1>7, <1>9

(* Sealing again hands over the first journal, or nothing once past.        *)
LEMMA RenduScelle ==
  ASSUME SceauInv, HNext, NEW f \in Fils, NEW k \in Cles,
         ScelleACePas(f, k), sceaux[k] # {}
  PROVE  \/ sceaux[k] = {rendu'[f].contenu}
         \/ rendu'[f].contenu = <<>> /\ Depasse(SlotDe(k), k.tick)
<1>0. TypeOK
  BY DEF SceauInv
<1>1. PICK g \in Fils, o \in Appels : Sceller(g, o)
  <2>1. PICK g \in Fils :
          \/ \E o \in Appels : \/ SalleAbsente(g, o) \/ Ecrire(g, o) \/ Sceller(g, o)
                               \/ CommencerLire(g, o) \/ CommencerVider(g, o)
          \/ CreerSalle(g) \/ Diffuser(g) \/ LireCellule(g) \/ FinirLire(g)
          \/ ViderCellule(g) \/ FinirVider(g)
    BY DEF HNext, Next
  <2>2. ~ViderCellule(g)
    BY DEF ViderCellule, ScelleACePas
  <2>3. QED
    BY <1>0, <2>1, <2>2, SuiviHorsSceau DEF Suivi
<1>2. /\ g = f /\ k = Cle(o)
      /\ rendu'[f].contenu = ContenuScelle(SlotDe(k), o.tick)
  BY <1>0, <1>1, SuiviSceller
<1>3. o \in Scellements /\ o.tick \in Nat /\ k.tick = o.tick
  <2>1. o \in Scellements
    BY <1>1 DEF Sceller
  <2>2. QED
    BY <1>2, <2>1, CleType
<1> DEFINE s == SlotDe(k)
<1>4. s \in Slots
  BY <1>0, SlotDeType
<1>5. /\ Depasse(s, o.tick)  => ContenuScelle(s, o.tick) = <<>>
      /\ ~Depasse(s, o.tick) => ContenuScelle(s, o.tick) = SlotScelle(s, o.tick).journal
      /\ LisibleA(s, o.tick) => SlotScelle(s, o.tick) = s
  BY <1>3, <1>4, ScellerSlot
<1>6. CASE Depasse(s, o.tick)
  BY <1>2, <1>3, <1>5, <1>6
<1>7. CASE ~Depasse(s, o.tick)
  <2>1. LisibleA(s, k.tick)
    BY <1>3, <1>7 DEF SceauInv, SceauDefinitif
  <2>2. sceaux[k] = {s.journal}
    BY <2>1 DEF SceauInv, ScelleConnu
  <2>3. QED
    BY <1>2, <1>3, <1>5, <1>7, <2>1, <2>2
<1>8. QED
  BY <1>6, <1>7
-----------------------------------------------------------------------------

(* After a seal no write to that key is ever acknowledged, even once its    *)
(* slot serves another tick (store.rs:36).                                  *)
THEOREM EcritureApresSceau == HSpec => RefusApresSceau
<1>1. SceauInv /\ [HNext]_hvars =>
        [\A f \in Fils, o \in Appels :
           Ecrire(f, o) /\ rendu'[f].ok => sceaux[Cle(o)] = {}]_hvars
  BY AccepteNonScelle
<1>2. QED
  BY <1>1, SceauInvariant, PTL DEF HSpec, RefusApresSceau

(* A lire returns sealed chronotopes only, whole, with the journal of their *)
(* first sceller, although cells are recycled while it goes (store.rs:39).  *)
THEOREM LectureScellee == HSpec => LectureFidele
<1>1. SceauInv /\ [HNext]_hvars =>
        [\A f \in Fils :
           /\ pc[f] = "lire" /\ pc'[f] = "lire"
           /\ Len(rendu'[f].lus) > Len(rendu[f].lus)
           => LET lu == rendu'[f].lus[Len(rendu'[f].lus)]
              IN  sceaux[lu.cle] = {lu.contenu}]_hvars
  BY LuScelle
<1>2. QED
  BY <1>1, SceauInvariant, PTL DEF HSpec, LectureFidele

(* The observers of a key are only ever given its first sealed journal, or  *)
(* nothing once its slot is past (engine.rs:313-337).                       *)
THEOREM SceauRenduFidele == HSpec => SceauRendu
<1>1. SceauInv /\ [HNext]_hvars =>
        [\A f \in Fils, k \in Cles :
           ScelleACePas(f, k) /\ sceaux[k] # {}
           => \/ sceaux[k] = {rendu'[f].contenu}
              \/ rendu'[f].contenu = <<>> /\ Depasse(SlotDe(k), k.tick)]_hvars
  BY RenduScelle
<1>2. QED
  BY <1>1, SceauInvariant, PTL DEF HSpec, SceauRendu

-----------------------------------------------------------------------------
(* What the operations of a slot do to the poses it holds.                  *)

LEMMA PoseVide == DernierePose(<<>>) = [e \in Entites |-> Sans]
BY DEF DernierePose

LEMMA PoseAjout ==
  ASSUME NEW j \in Seq(Entrees), NEW e \in Entites, NEW p \in Poses
  PROVE  DernierePose(Append(j, [entite |-> e, pose |-> p]))
           = [DernierePose(j) EXCEPT ![e] = p]
<1> DEFINE x == [entite |-> e, pose |-> p]
           A == Append(j, x)
<1>1. x \in Entrees /\ x.entite = e /\ x.pose = p
  BY DEF Entrees
<1>2. A \in Seq(Entrees)
  BY <1>1
<1> HIDE DEF x
<1>3. \A g : /\ x.entite = g => /\ ~Absente(A, g)
                                /\ \A d : DerniereDe(A, g, d) => A[d] = x
             /\ x.entite # g => /\ Absente(A, g) <=> Absente(j, g)
                                /\ \A d : DerniereDe(A, g, d) =>
                                     DerniereDe(j, g, d) /\ A[d] = j[d]
  BY <1>1, DerniereAjout
<1> HIDE DEF A
<1>4. ASSUME NEW g \in Entites
      PROVE  DernierePose(A)[g] = IF g = e THEN p ELSE DernierePose(j)[g]
  <2>1. CASE g = e
    <3>1. PICK d : DerniereDe(A, g, d)
      BY <1>1, <1>2, <1>3, <2>1, DerniereOuAbsente
    <3>2. A[d] = x
      BY <1>1, <1>3, <2>1, <3>1
    <3>3. DernierePose(A)[g] = A[d].pose
      BY <1>2, <3>1, PoseDerniere
    <3>4. QED
      BY <1>1, <2>1, <3>2, <3>3
  <2>2. CASE g # e /\ Absente(j, g)
    <3>1. Absente(A, g)
      BY <1>1, <1>3, <2>2
    <3>2. QED
      BY <1>2, <2>2, <3>1, PoseDerniere
  <2>3. CASE g # e /\ ~Absente(j, g)
    <3>1. PICK d : DerniereDe(A, g, d)
      BY <1>1, <1>2, <1>3, <2>3, DerniereOuAbsente
    <3>2. DerniereDe(j, g, d) /\ A[d] = j[d]
      BY <1>1, <1>3, <2>3, <3>1
    <3>3. DernierePose(A)[g] = A[d].pose /\ DernierePose(j)[g] = j[d].pose
      BY <1>2, <3>1, <3>2, PoseDerniere
    <3>4. QED
      BY <2>3, <3>2, <3>3
  <2>4. QED
    BY <2>1, <2>2, <2>3
<1>5. /\ DernierePose(A) = [g \in Entites |-> DernierePose(A)[g]]
      /\ DernierePose(j) = [g \in Entites |-> DernierePose(j)[g]]
  BY DEF DernierePose
<1>6. QED
  BY <1>4, <1>5 DEF A, x

(* What the slot holds of tick t. *)
Tenu(s, t) == IF Recyclable(s, t) THEN <<>> ELSE s.journal

LEMMA EcrirePose ==
  ASSUME NEW s \in Slots, NEW t \in Nat, NEW e \in Entites, NEW p \in Poses,
         ~EcritureRefusee(s, t)
  PROVE  DernierePose(SlotEcrit(s, t, e, p).journal)
           = [DernierePose(Tenu(s, t)) EXCEPT ![e] = p]
<1> DEFINE x == [entite |-> e, pose |-> p]
<1>1. CASE Recyclable(s, t)
  <2>1. SlotEcrit(s, t, e, p).journal = Append(<<>>, x)
    BY <1>1 DEF SlotEcrit, Inscrire, Recycler
  <2>2. <<>> \in Seq(Entrees) /\ Tenu(s, t) = <<>>
    BY <1>1 DEF Tenu
  <2>3. DernierePose(Append(<<>>, x)) = [DernierePose(<<>>) EXCEPT ![e] = p]
    BY <2>2, PoseAjout
  <2>4. QED
    BY <2>1, <2>2, <2>3
<1>2. CASE ~Recyclable(s, t)
  <2> DEFINE c == IF s.depuis >= Seuil THEN Compacter(s) ELSE s
  <2>1. c \in Slots
    BY CompacterType
  <2>2. SlotEcrit(s, t, e, p) = Inscrire(c, e, p)
    BY <1>2 DEF SlotEcrit
  <2>3. c.journal \in Seq(Entrees) /\ DernierePose(c.journal) = DernierePose(s.journal)
    <3>1. s.journal \in Seq(Entrees)
      BY DEF Slots
    <3>2. Compacter(s).journal = JournalCompacte(s.journal)
      BY DEF Compacter, Slots
    <3>3. QED
      BY <3>1, <3>2, CompactionType, CompactionLWW
  <2> HIDE DEF c
  <2>4. SlotEcrit(s, t, e, p).journal = Append(c.journal, x)
    BY <2>1, <2>2 DEF Inscrire, Slots
  <2>5. Tenu(s, t) = s.journal
    BY <1>2 DEF Tenu
  <2>6. QED
    BY <2>3, <2>4, <2>5, PoseAjout
<1>3. QED
  BY <1>1, <1>2

LEMMA ScellerPose ==
  ASSUME NEW s \in Slots, NEW t \in Nat, ~Depasse(s, t)
  PROVE  DernierePose(SlotScelle(s, t).journal) = DernierePose(Tenu(s, t))
<1> DEFINE o == IF Recyclable(s, t) THEN Recycler(t) ELSE s
<1>1. o \in Slots /\ o.journal = Tenu(s, t)
  BY RecyclerType DEF Tenu, Recycler
<1>2. SlotScelle(s, t) = IF o.etat = "Scelle" THEN o ELSE [Compacter(o) EXCEPT !.etat = "Scelle"]
  BY DEF SlotScelle
<1> HIDE DEF o
<1>3. o.journal \in Seq(Entrees)
  BY <1>1 DEF Slots
<1>4. CASE o.etat = "Scelle"
  BY <1>1, <1>2, <1>4
<1>5. CASE o.etat # "Scelle"
  <2>1. Compacter(o).journal = JournalCompacte(o.journal) /\ Compacter(o) \in Slots
    BY <1>1, CompacterType DEF Compacter, Slots
  <2>2. SlotScelle(s, t).journal = JournalCompacte(o.journal)
    BY <1>2, <1>5, <2>1 DEF Slots
  <2>3. QED
    BY <1>1, <1>3, <2>2, CompactionLWW
<1>6. QED
  BY <1>4, <1>5

-----------------------------------------------------------------------------
(* Two ticks of the same slot are at least Anneau apart.                    *)
LEMMA MemeIndice ==
  ASSUME NEW a \in Nat, NEW b \in Nat, a < b, Indice(a) = Indice(b)
  PROVE  a + Anneau <= b
<1> DEFINE q == a \div Anneau
           r == b \div Anneau
           m == a % Anneau
<1>1. /\ q \in Nat /\ r \in Nat /\ m \in Nat /\ Anneau \in Nat /\ Anneau >= 1
      /\ a = Anneau * q + m /\ b = Anneau * r + m
  BY AnneauAssumption DEF Indice
<1> HIDE DEF q, r, m
<1>2. q < r
  <2>1. \A x, y \in Nat : y <= x => Anneau * y <= Anneau * x
    BY <1>1
  <2>2. Anneau * q \in Nat /\ Anneau * r \in Nat
    BY <1>1
  <2>3. ~(r <= q)
    BY <1>1, <2>1, <2>2
  <2>4. QED
    BY <1>1, <2>3
<1>3. Anneau * q + Anneau <= Anneau * r
  <2>1. \A x, y \in Nat : x < y => Anneau * x + Anneau <= Anneau * y
    BY <1>1
  <2>2. QED
    BY <1>1, <1>2, <2>1
<1>4. Anneau * q \in Nat /\ Anneau * r \in Nat
  BY <1>1
<1>5. QED
  BY <1>1, <1>3, <1>4

(* A slot leaves the register of a tick in one of four states.              *)
LEMMA RegistreCas ==
  ASSUME NEW s \in Slots, NEW t \in Nat
  PROVE  /\ Recyclable(s, t) => RegistreDe(s, t) = Contrat!Vierge
         /\ Depasse(s, t)    => RegistreDe(s, t) = Contrat!Expiree
         /\ ~Recyclable(s, t) /\ ~Depasse(s, t) =>
              /\ RegistreDe(s, t) = [etat |-> s.etat, contenu |-> DernierePose(s.journal)]
              /\ s.tick = t /\ s.etat \in {"Ouvert", "Scelle"}
         /\ Depasse(s, t) => ~Recyclable(s, t)
<1>1. Contrat!Rien = DernierePose(<<>>)
  BY PoseVide DEF Contrat!Rien
<1>2. Depasse(s, t) => ~Recyclable(s, t)
  BY DEF Depasse, Recyclable, Slots
<1>3. Recyclable(s, t) => RegistreDe(s, t) = Contrat!Vierge
  BY <1>1 DEF RegistreDe, Contrat!Vierge
<1>4. Depasse(s, t) => RegistreDe(s, t) = Contrat!Expiree
  BY <1>1, <1>2 DEF RegistreDe, Contrat!Expiree
<1>5. ~Recyclable(s, t) /\ ~Depasse(s, t) =>
        /\ RegistreDe(s, t) = [etat |-> s.etat, contenu |-> DernierePose(s.journal)]
        /\ s.tick = t /\ s.etat \in {"Ouvert", "Scelle"}
  BY DEF RegistreDe, Recyclable, Depasse, Slots, Etats
<1>6. QED
  BY <1>2, <1>3, <1>4, <1>5

LEMMA ContratCles == Contrat!Cles = Cles
BY DEF Contrat!Cles, Cles

(* Changing the slot of k for tick k.tick changes the register of k, and     *)
(* costs those of the same cell that are at least Anneau ticks older.       *)
LEMMA UtiliserSlot ==
  ASSUME TypeOK, NEW k \in Cles, NEW n \in Slots, AvecSlot(k, n),
         n.etat # "Vide", n.tick = k.tick,
         SlotDe(k).etat = "Vide" \/ SlotDe(k).tick <= k.tick
  PROVE  Contrat!Utiliser(k, RegistreDe(n, k.tick))
<1> DEFINE perdus == {a \in Cles : MemeSlot(a, k) /\ a.tick < k.tick}
           s == SlotDe(k)
<1>1. /\ \A a \in Cles : SlotDe(a)' = IF MemeSlot(a, k) THEN n ELSE SlotDe(a)
      /\ \A a \in Cles : SlotDe(a) \in Slots /\ a.tick \in Nat
      /\ k.tick \in Nat
  BY AvecSlotEffet, SlotDeType
<1>2. \A a \in Cles : MemeSlot(a, k) => SlotDe(a) = s
  BY DEF MemeSlot, SlotDe
<1> HIDE DEF s
<1>3. perdus \in SUBSET Contrat!Perimables(k)
  <2> SUFFICES ASSUME NEW a \in Cles, MemeSlot(a, k), a.tick < k.tick
               PROVE  a \in Contrat!Perimables(k)
    OBVIOUS
  <2>1. a.tick + Anneau <= k.tick
    BY <1>1, MemeIndice DEF MemeSlot
  <2>2. QED
    BY <2>1, ContratCles DEF Contrat!Perimables, MemeSlot
<1>4. ASSUME NEW a \in Cles
      PROVE  RegistreDe(SlotDe(a)', a.tick) =
               IF a = k THEN RegistreDe(n, k.tick)
               ELSE IF a \in perdus THEN Contrat!Expiree
               ELSE RegistreDe(SlotDe(a), a.tick)
  <2>1. CASE a = k
    BY <1>1, <2>1 DEF MemeSlot
  <2>2. CASE ~MemeSlot(a, k)
    BY <1>1, <2>2 DEF MemeSlot
  <2>3. CASE a # k /\ MemeSlot(a, k) /\ a.tick < k.tick
    <3>1. Depasse(n, a.tick)
      BY <2>3 DEF Depasse
    <3>2. RegistreDe(n, a.tick) = Contrat!Expiree
      BY <1>1, <3>1, RegistreCas
    <3>3. QED
      BY <1>1, <2>3, <3>2
  <2>4. CASE a # k /\ MemeSlot(a, k) /\ ~(a.tick < k.tick)
    <3>1. k.tick < a.tick
      <4>1. a.tick # k.tick
        BY <2>4 DEF MemeSlot, Cles
      <4>2. QED
        BY <1>1, <2>4, <4>1
    <3>2. Recyclable(n, a.tick)
      BY <3>1 DEF Recyclable
    <3>3. s \in Slots /\ Recyclable(s, a.tick)
      BY <1>1, <3>1 DEF Recyclable, Slots, s
    <3>4. RegistreDe(n, a.tick) = RegistreDe(s, a.tick)
      BY <1>1, <3>2, <3>3, RegistreCas
    <3>5. QED
      BY <1>1, <1>2, <2>4, <3>4
  <2>5. QED
    BY <2>1, <2>2, <2>3, <2>4
<1>5. Registres' = [a \in Cles |-> IF a = k THEN RegistreDe(n, k.tick)
                                   ELSE IF a \in perdus THEN Contrat!Expiree
                                   ELSE Registres[a]]
  <2>1. Registres' = [a \in Cles |-> RegistreDe(SlotDe(a)', a.tick)]
    BY DEF Registres, RegistreDe, Recyclable, Depasse, DernierePose
  <2>2. \A a \in Cles : Registres[a] = RegistreDe(SlotDe(a), a.tick)
    BY DEF Registres
  <2> HIDE DEF perdus
  <2>3. QED
    BY <1>4, <2>1, <2>2
<1>6. QED
  BY <1>3, <1>5, ContratCles DEF Contrat!Utiliser

LEMMA RegistresStables ==
  ASSUME \A k \in Cles : SlotDe(k)' = SlotDe(k)
  PROVE  Registres' = Registres
<1>1. Registres' = [a \in Cles |-> RegistreDe(SlotDe(a)', a.tick)]
  BY DEF Registres, RegistreDe, Recyclable, Depasse, DernierePose
<1>2. QED
  BY <1>1 DEF Registres

LEMMA MemoireStable ==
  ASSUME anneaux' = anneaux, slots' = slots
  PROVE  Registres' = Registres
<1>1. \A k \in Cles : SlotDe(k)' = SlotDe(k)
  BY DEF SlotDe, Ring, Indice, NouvelAnneau
<1>2. QED
  BY <1>1, RegistresStables

LEMMA RepondreFil ==
  ASSUME TypeOK, NEW f \in Fils, NEW r, rendu' = [rendu EXCEPT ![f] = r]
  PROVE  Contrat!Repondre(f, Reponse(r))
<1>1. \A g \in Fils : rendu'[g] = IF g = f THEN r ELSE rendu[g]
  BY DEF TypeOK
<1>2. Reponses' = [g \in Fils |-> Reponse(rendu'[g])]
  BY DEF Reponses, Reponse, DernierePose
<1>3. Reponses' = [Reponses EXCEPT ![f] = Reponse(r)]
  <2>1. \A g \in Fils : Reponse(rendu'[g]) = IF g = f THEN Reponse(r) ELSE Reponse(rendu[g])
    BY <1>1
  <2>2. /\ [Reponses EXCEPT ![f] = Reponse(r)]
             = [g \in Fils |-> IF g = f THEN Reponse(r) ELSE Reponses[g]]
        /\ \A g \in Fils : Reponses[g] = Reponse(rendu[g])
    BY DEF Reponses
  <2>3. QED
    BY <1>2, <2>1, <2>2
<1>4. QED
  BY <1>3 DEF Contrat!Repondre

-----------------------------------------------------------------------------
(* Each action of the engine, and what it is to the contract.               *)

(* A call without a result, or that ends, forgets the last answer.          *)
LEMMA OublierFil ==
  ASSUME TypeOK, NEW f \in Fils, rendu' = [rendu EXCEPT ![f] = Aucun],
         anneaux' = anneaux, slots' = slots
  PROVE  Contrat!Oublier(f)
<1>1. Reponse(Aucun) = Contrat!Aucun
  BY DEF Reponse, Aucun, Contrat!Aucun
<1>2. QED
  BY <1>1, RepondreFil, MemoireStable DEF Contrat!Oublier

LEMMA EcrireContrat ==
  ASSUME TypeOK, NEW f \in Fils, NEW o \in Appels, Ecrire(f, o)
  PROVE  \E k \in Cles : \/ \E e \in Entites, p \in Poses : Contrat!Accepter(f, k, e, p)
                         \/ Contrat!Refuser(f, k)
<1> DEFINE k == Cle(o)
           s == SlotDe(k)
           n == SlotEcrit(s, o.tick, o.entite, o.pose)
           r == [nature |-> "ecrire", cle |-> k, ok |-> ~EcritureRefusee(s, o.tick)]
<1>1. o \in Ecritures /\ o.entite \in Entites /\ o.pose \in Poses
  BY DEF Ecrire, Ecritures
<1>2. k \in Cles /\ o.tick \in Nat /\ k.tick = o.tick
  BY <1>1, CleType
<1>3. s \in Slots
  BY <1>2, SlotDeType
<1>4. AvecSlot(k, n) /\ rendu' = [rendu EXCEPT ![f] = r]
  BY DEF Ecrire
<1>5. Reponse(r) = r
  BY DEF Reponse
<1>6. Contrat!Repondre(f, r)
  <2> HIDE DEF r
  <2>1. QED
    BY <1>4, <1>5, RepondreFil
<1>7. Registres[k] = RegistreDe(s, k.tick)
  BY <1>2 DEF Registres
<1> HIDE DEF k, s
<1>8. CASE EcritureRefusee(s, o.tick)
  <2>1. n = s
    BY <1>1, <1>2, <1>3, <1>8, EcrireSlot
  <2>2. Registres' = Registres
    <3>1. \A a \in Cles : SlotDe(a)' = IF MemeSlot(a, k) THEN s ELSE SlotDe(a)
      BY <1>2, <1>3, <1>4, <2>1, AvecSlotEffet
    <3>2. \A a \in Cles : MemeSlot(a, k) => SlotDe(a) = s
      BY DEF MemeSlot, SlotDe, s
    <3>3. QED
      BY <3>1, <3>2, RegistresStables
  <2>3. Registres[k].etat \in {"Scelle", "Expire"}
    <3>1. ~Recyclable(s, o.tick) /\ (Depasse(s, o.tick) \/ s.etat = "Scelle")
      BY <1>3, <1>8 DEF EcritureRefusee, Recyclable, Depasse
    <3>2. CASE Depasse(s, o.tick)
      BY <1>2, <1>3, <1>7, <3>2, RegistreCas DEF Contrat!Expiree
    <3>3. CASE ~Depasse(s, o.tick)
      BY <1>2, <1>3, <1>7, <3>1, <3>3, RegistreCas
    <3>4. QED
      BY <3>2, <3>3
  <2>4. Contrat!Repondre(f, [nature |-> "ecrire", cle |-> k, ok |-> FALSE])
    BY <1>6, <1>8 DEF k, s
  <2>5. Contrat!Refuser(f, k)
    BY <2>2, <2>3, <2>4 DEF Contrat!Refuser
  <2>6. QED
    BY <1>2, <2>5
<1>9. CASE ~EcritureRefusee(s, o.tick)
  <2>1. /\ n \in Slots /\ n.etat = "Ouvert" /\ n.tick = o.tick
        /\ s.etat = "Vide" \/ s.tick <= o.tick
    BY <1>1, <1>2, <1>3, <1>9, EcrireSlot
  <2>2. Contrat!Utiliser(k, RegistreDe(n, k.tick))
    <3> HIDE DEF n
    <3>1. QED
      BY <1>2, <1>4, <2>1, UtiliserSlot DEF s
  <2>3. Registres[k].etat \in {"Vierge", "Ouvert"}
        /\ Registres[k].contenu = DernierePose(Tenu(s, o.tick))
    <3>1. CASE Recyclable(s, o.tick)
      BY <1>2, <1>3, <1>7, <3>1 DEF RegistreDe, Tenu
    <3>2. CASE ~Recyclable(s, o.tick)
      <4>1. ~Depasse(s, o.tick) /\ s.etat # "Scelle"
        BY <1>9, <3>2 DEF EcritureRefusee, Depasse
      <4>2. QED
        BY <1>2, <1>3, <1>7, <3>2, <4>1, RegistreCas DEF Tenu
    <3>3. QED
      BY <3>1, <3>2
  <2>4. RegistreDe(n, k.tick) =
          [etat |-> "Ouvert", contenu |-> [Registres[k].contenu EXCEPT ![o.entite] = o.pose]]
    <3>1. ~Recyclable(n, k.tick) /\ ~Depasse(n, k.tick)
      BY <1>2, <2>1 DEF Recyclable, Depasse
    <3>2. RegistreDe(n, k.tick) = [etat |-> "Ouvert", contenu |-> DernierePose(n.journal)]
      BY <2>1, <3>1 DEF RegistreDe
    <3>3. DernierePose(n.journal) = [DernierePose(Tenu(s, o.tick)) EXCEPT ![o.entite] = o.pose]
      BY <1>1, <1>2, <1>3, <1>9, EcrirePose
    <3>4. QED
      BY <2>3, <3>2, <3>3
  <2>5. Contrat!Repondre(f, [nature |-> "ecrire", cle |-> k, ok |-> TRUE])
    BY <1>6, <1>9 DEF k, s
  <2>6. Contrat!Accepter(f, k, o.entite, o.pose)
    BY <2>2, <2>3, <2>4, <2>5 DEF Contrat!Accepter
  <2>7. QED
    BY <1>1, <1>2, <2>6
<1>10. QED
  BY <1>8, <1>9

LEMMA ScellerContrat ==
  ASSUME TypeOK, NEW f \in Fils, NEW o \in Appels, Sceller(f, o)
  PROVE  \E k \in Cles : Contrat!Sceller(f, k)
<1> DEFINE k == Cle(o)
           s == SlotDe(k)
           n == SlotScelle(s, o.tick)
           c == ContenuScelle(s, o.tick)
           r == [nature |-> "sceller", cle |-> k, contenu |-> c]
<1>1. o \in Scellements
  BY DEF Sceller
<1>2. k \in Cles /\ o.tick \in Nat /\ k.tick = o.tick
  BY <1>1, CleType
<1>3. s \in Slots
  BY <1>2, SlotDeType
<1>4. AvecSlot(k, n) /\ rendu' = [rendu EXCEPT ![f] = r]
  BY DEF Sceller
<1>5. Reponse(r) = [nature |-> "sceller", cle |-> k, contenu |-> DernierePose(c)]
  BY DEF Reponse
<1>6. Contrat!Repondre(f, [nature |-> "sceller", cle |-> k, contenu |-> DernierePose(c)])
  <2>1. Contrat!Repondre(f, Reponse(r))
    <3> HIDE DEF r
    <3>1. QED
      BY <1>4, RepondreFil
  <2>2. QED
    BY <1>5, <2>1
<1>7. Registres[k] = RegistreDe(s, k.tick)
  BY <1>2 DEF Registres
<1> HIDE DEF k, s, r
<1>8. CASE Depasse(s, o.tick)
  <2>1. n = s /\ c = <<>>
    BY <1>2, <1>3, <1>8, ScellerSlot
  <2>2. Registres' = Registres
    <3>1. \A a \in Cles : SlotDe(a)' = IF MemeSlot(a, k) THEN s ELSE SlotDe(a)
      BY <1>2, <1>3, <1>4, <2>1, AvecSlotEffet
    <3>2. \A a \in Cles : MemeSlot(a, k) => SlotDe(a) = s
      BY DEF MemeSlot, SlotDe, s
    <3>3. QED
      BY <3>1, <3>2, RegistresStables
  <2>3. Registres[k].etat = "Expire" /\ Registres[k].contenu = DernierePose(c)
    <3>1. ~Recyclable(s, o.tick)
      BY <1>2, <1>3, <1>8, RegistreCas
    <3>2. QED
      BY <1>2, <1>7, <1>8, <2>1, <3>1 DEF RegistreDe
  <2>4. Contrat!Sceller(f, k)
    <3> HIDE DEF c
    <3>1. QED
      BY <1>6, <2>2, <2>3 DEF Contrat!Sceller
  <2>5. QED
    BY <1>2, <2>4
<1>9. CASE ~Depasse(s, o.tick)
  <2>1. /\ n \in Slots /\ n.etat = "Scelle" /\ n.tick = o.tick /\ c = n.journal
        /\ s.etat = "Vide" \/ s.tick <= o.tick
    BY <1>2, <1>3, <1>9, ScellerSlot DEF LisibleA
  <2>2. Contrat!Utiliser(k, RegistreDe(n, k.tick))
    <3> HIDE DEF n
    <3>1. QED
      BY <1>2, <1>4, <2>1, UtiliserSlot DEF s
  <2>3. /\ Registres[k].etat # "Expire" /\ Registres[k].contenu = DernierePose(Tenu(s, o.tick))
        /\ Registres[k] = [etat |-> Registres[k].etat, contenu |-> Registres[k].contenu]
    BY <1>2, <1>3, <1>7, <1>9, RegistreCas DEF RegistreDe, Tenu
  <2>4. DernierePose(n.journal) = DernierePose(Tenu(s, o.tick))
    BY <1>2, <1>3, <1>9, ScellerPose
  <2>5. RegistreDe(n, k.tick) = [Registres[k] EXCEPT !.etat = "Scelle"]
    <3>1. ~Recyclable(n, k.tick) /\ ~Depasse(n, k.tick)
      BY <1>2, <2>1 DEF Recyclable, Depasse
    <3>2. RegistreDe(n, k.tick) = [etat |-> "Scelle", contenu |-> DernierePose(n.journal)]
      BY <2>1, <3>1 DEF RegistreDe
    <3> HIDE DEF n
    <3>3. QED
      BY <2>3, <2>4, <3>2
  <2>6. Contrat!Repondre(f, [nature |-> "sceller", cle |-> k, contenu |-> Registres[k].contenu])
    BY <1>6, <2>1, <2>3, <2>4
  <2>7. Contrat!Sceller(f, k)
    <3> HIDE DEF n, c
    <3>1. QED
      BY <2>2, <2>3, <2>5, <2>6 DEF Contrat!Sceller
  <2>8. QED
    BY <1>2, <2>7
<1>10. QED
  BY <1>8, <1>9

LEMMA CommencerLireContrat ==
  ASSUME TypeOK, NEW f \in Fils, NEW o \in Appels, CommencerLire(f, o)
  PROVE  \E r \in Salles, C \in SUBSET Cellules, t \in Ticks :
           Contrat!Regarder(f, [salle : {r}, cellule : C, tick : {t}])
<1> DEFINE a == [nature |-> "lire", lus |-> <<>>]
           K == [salle : {o.salle}, cellule : {}, tick : {o.tick}]
<1>1. o.salle \in Salles /\ o.tick \in Ticks /\ {} \in SUBSET Cellules
  BY DEF CommencerLire, Lectures
<1>2. Reponse(a) = [nature |-> "lire", lus |-> {}]
  <2>1. Reponse(a) = [nature |-> "lire",
                      lus |-> {[cle |-> a.lus[i].cle, contenu |-> DernierePose(a.lus[i].contenu)] :
                                 i \in DOMAIN a.lus}]
    BY DEF Reponse
  <2>2. DOMAIN a.lus = {}
    OBVIOUS
  <2>3. QED
    BY <2>1, <2>2
<1>3. Contrat!Repondre(f, Reponse(a)) /\ Registres' = Registres
  <2>1. rendu' = [rendu EXCEPT ![f] = a] /\ anneaux' = anneaux /\ slots' = slots
    BY DEF CommencerLire, memoire
  <2> HIDE DEF a
  <2>2. QED
    BY <2>1, RepondreFil, MemoireStable
<1>4. {} = {} \cup {[cle |-> k, contenu |-> Registres[k].contenu] :
                      k \in {c \in K : Registres[c].etat = "Scelle"}}
  OBVIOUS
<1> HIDE DEF a
<1>5. Contrat!Regarder(f, K)
  BY <1>2, <1>3, <1>4 DEF Contrat!Regarder
<1>6. QED
  BY <1>1, <1>5

(* A look at a cell: what is sealed at the tick of the lire joins it.       *)
LEMMA LireCelluleContrat ==
  ASSUME TypeOK, NEW f \in Fils, LireCellule(f)
  PROVE  \/ \E r \in Salles, C \in SUBSET Cellules, t \in Ticks :
              Contrat!Regarder(f, [salle : {r}, cellule : C, tick : {t}])
         \/ UNCHANGED Contrat!vars
<1> DEFINE k  == [salle |-> appel[f].salle, cellule |-> Head(aLire[f]),
                  tick |-> appel[f].tick]
           lu == [cle |-> k, contenu |-> SlotDe(k).journal]
           l  == rendu[f].lus
           K  == [salle : {appel[f].salle}, cellule : {Head(aLire[f])}, tick : {appel[f].tick}]
           v(x) == [cle |-> x.cle, contenu |-> DernierePose(x.contenu)]
<1>1. /\ appel[f].salle \in Salles /\ Head(aLire[f]) \in Cellules /\ appel[f].tick \in Ticks
      /\ rendu[f].nature = "lire" /\ rendu[f] \in Rendus
  BY DEF LireCellule, TypeOK, Lectures
<1>2. k \in Cles /\ K = {k}
  <2>1. k \in Cles
    BY <1>1 DEF Cles
  <2>2. ASSUME NEW a, NEW b, NEW c
        PROVE  [salle : {a}, cellule : {b}, tick : {c}] = {[salle |-> a, cellule |-> b, tick |-> c]}
    <3>1. ASSUME NEW x \in [salle : {a}, cellule : {b}, tick : {c}]
          PROVE  x = [salle |-> a, cellule |-> b, tick |-> c]
      OBVIOUS
    <3>2. [salle |-> a, cellule |-> b, tick |-> c] \in [salle : {a}, cellule : {b}, tick : {c}]
      OBVIOUS
    <3> DEFINE R == [salle : {a}, cellule : {b}, tick : {c}]
               x == [salle |-> a, cellule |-> b, tick |-> c]
    <3>3. x \in R /\ \A y \in R : y = x
      BY <3>1, <3>2
    <3> HIDE DEF R, x
    <3>4. R = {x}
      BY <3>3
    <3>5. QED
      BY <3>4 DEF R, x
  <2>3. QED
    BY <2>1, <2>2
<1>3. Registres' = Registres
  BY MemoireStable DEF LireCellule, memoire
<1>4. CASE rendu' = rendu
  <2>1. Reponses' = Reponses
    BY <1>4 DEF Reponses, Reponse, DernierePose
  <2>2. QED
    BY <1>3, <2>1 DEF Contrat!vars
<1>5. CASE rendu' # rendu
  <2>1. /\ LisibleA(SlotDe(k), k.tick)
        /\ rendu' = [rendu EXCEPT ![f] = [nature |-> "lire", lus |-> Append(l, lu)]]
    BY <1>5 DEF LireCellule
  <2>2. l \in Seq([cle : Cles, contenu : Seq(Entrees)])
    BY <1>1 DEF Rendus, Aucun
  <2>3. lu \in [cle : Cles, contenu : Seq(Entrees)]
    <3>1. SlotDe(k).journal \in Seq(Entrees)
      BY <1>2, SlotDeType DEF Slots
    <3>2. QED
      BY <1>2, <3>1
  <2>4. Registres[k].etat = "Scelle" /\ Registres[k].contenu = DernierePose(lu.contenu)
    <3>1. Registres[k] = RegistreDe(SlotDe(k), k.tick) /\ SlotDe(k) \in Slots /\ k.tick \in Nat
      BY <1>2, SlotDeType DEF Registres
    <3>2. SlotDe(k).etat = "Scelle" /\ SlotDe(k).tick = k.tick
      BY <2>1 DEF LisibleA
    <3>3. ~Recyclable(SlotDe(k), k.tick) /\ ~Depasse(SlotDe(k), k.tick)
      BY <3>1, <3>2 DEF Recyclable, Depasse
    <3>4. QED
      BY <3>1, <3>2, <3>3, RegistreCas
  <2> HIDE DEF lu, l, k
  <2> DEFINE b == [nature |-> "lire", lus |-> Append(l, lu)]
  <2>5. Contrat!Repondre(f, Reponse(b))
    <3>1. rendu' = [rendu EXCEPT ![f] = b]
      BY <2>1
    <3> HIDE DEF b
    <3>2. QED
      BY <3>1, RepondreFil
  <2>6. Reponse(b) = [nature |-> "lire", lus |-> {v(l[i]) : i \in DOMAIN l} \cup {v(lu)}]
    <3>1. Reponse(b) = [nature |-> "lire", lus |-> {v(b.lus[i]) : i \in DOMAIN b.lus}]
      BY DEF Reponse
    <3>2. /\ DOMAIN b.lus = DOMAIN l \cup {Len(l) + 1} /\ b.lus[Len(l) + 1] = lu
          /\ \A i \in DOMAIN l : b.lus[i] = l[i]
      BY <2>2, <2>3
    <3> HIDE DEF b
    <3>3. {v(b.lus[i]) : i \in DOMAIN b.lus} = {v(l[i]) : i \in DOMAIN l} \cup {v(lu)}
      BY <3>2
    <3>4. QED
      BY <3>1, <3>3
  <2>7. Reponses[f] = [nature |-> "lire", lus |-> {v(l[i]) : i \in DOMAIN l}]
    BY <1>1 DEF Reponses, Reponse, l
  <2>8. {v(lu)} = {[cle |-> a, contenu |-> Registres[a].contenu] :
                     a \in {c \in K : Registres[c].etat = "Scelle"}}
    <3>1. {c \in K : Registres[c].etat = "Scelle"} = {k}
      BY <1>2, <2>4 DEF k
    <3>2. v(lu) = [cle |-> k, contenu |-> Registres[k].contenu]
      BY <2>4 DEF lu
    <3>3. QED
      BY <3>1, <3>2
  <2>9. Contrat!Regarder(f, K)
    <3> DEFINE d == {v(l[i]) : i \in DOMAIN l}
    <3>1. /\ Reponses[f].nature = "lire" /\ Reponses[f].lus = d
          /\ Reponse(b) = [nature |-> "lire", lus |-> d \cup {v(lu)}]
      BY <2>6, <2>7
    <3> HIDE DEF d, b, v, K
    <3>2. QED
      BY <1>3, <2>5, <2>8, <3>1 DEF Contrat!Regarder
  <2>10. QED
    BY <1>1, <2>9
<1>6. QED
  BY <1>4, <1>5

(* Emptying a cell empties the registers of its keys.                       *)
LEMMA ViderCelluleContrat ==
  ASSUME TypeOK, NEW f \in Fils, ViderCellule(f)
  PROVE  \/ \E C \in SUBSET (Salles \X Cellules) : Contrat!Vider(C)
         \/ UNCHANGED Contrat!vars
<1>1. PICK rc \in aVider[f] :
        slots' = IF rc \in anneaux
                 THEN [slots EXCEPT ![rc] = [i \in Indices |-> SlotVidange(slots[rc][i])]]
                 ELSE slots
  BY DEF ViderCellule
<1>2. rc \in Positions /\ anneaux' = anneaux /\ rendu' = rendu
  BY DEF ViderCellule, TypeOK, Positions
<1>3. Reponses' = Reponses
  BY <1>2 DEF Reponses, Reponse, DernierePose
<1>4. CASE rc \notin anneaux
  <2>1. Registres' = Registres
    BY <1>1, <1>2, <1>4, MemoireStable
  <2>2. QED
    BY <1>3, <2>1 DEF Contrat!vars
<1>5. CASE rc \in anneaux
  <2>1. ASSUME NEW k \in Cles, <<k.salle, k.cellule>> # rc
        PROVE  SlotDe(k)' = SlotDe(k)
    <3>1. slots'[<<k.salle, k.cellule>>] = slots[<<k.salle, k.cellule>>]
      BY <1>1, <1>5, <2>1, SlotDeType DEF TypeOK
    <3>2. QED
      BY <1>2, <3>1 DEF SlotDe, Ring, Indice, NouvelAnneau
  <2>2. ASSUME NEW k \in Cles, <<k.salle, k.cellule>> = rc
        PROVE  RegistreDe(SlotDe(k)', k.tick) = Contrat!Vierge
    <3> DEFINE i == Indice(k.tick)
    <3>1. i \in Indices
      BY SlotDeType
    <3>2. SlotDe(k)' = slots'[rc][i]
      BY <1>2, <1>5, <2>2 DEF SlotDe, Ring, Indice
    <3>3. slots'[rc] = [x \in Indices |-> SlotVidange(slots[rc][x])]
      BY <1>1, <1>2, <1>5 DEF TypeOK
    <3>4. slots[rc][i] \in Slots
      BY <1>2, <3>1 DEF TypeOK
    <3>5. SlotVidange(slots[rc][i]) \in Slots /\ SlotVidange(slots[rc][i]).etat = "Vide"
      BY <3>4, ViderSlot
    <3>6. SlotDe(k)' = SlotVidange(slots[rc][i])
      BY <3>1, <3>2, <3>3
    <3>7. k.tick \in Nat
      BY SlotDeType
    <3>8. QED
      BY <3>5, <3>6, <3>7, RegistreCas DEF Recyclable
  <2>3. Registres' = [k \in Cles |-> RegistreDe(SlotDe(k)', k.tick)]
    BY DEF Registres, RegistreDe, Recyclable, Depasse, DernierePose
  <2>4. Registres' = [k \in Cles |-> IF <<k.salle, k.cellule>> \in {rc}
                                     THEN Contrat!Vierge ELSE Registres[k]]
    <3>1. ASSUME NEW k \in Cles
          PROVE  RegistreDe(SlotDe(k)', k.tick) =
                   IF <<k.salle, k.cellule>> \in {rc} THEN Contrat!Vierge ELSE Registres[k]
      BY <2>1, <2>2 DEF Registres
    <3>2. QED
      BY <2>3, <3>1
  <2>5. Contrat!Vider({rc})
    BY <1>3, <2>4, ContratCles DEF Contrat!Vider
  <2>6. {rc} \in SUBSET (Salles \X Cellules)
    BY <1>2 DEF Positions
  <2>7. QED
    BY <2>5, <2>6
<1>6. QED
  BY <1>4, <1>5

(* A room that is created had no cell: nothing changes.                     *)
LEMMA CreerSalleContrat ==
  ASSUME TypeOK, NEW f \in Fils, CreerSalle(f)
  PROVE  UNCHANGED Contrat!vars
<1>1. anneaux' = anneaux /\ slots' = slots /\ rendu' = rendu
  BY CreerSalleSlots DEF CreerSalle
<1>2. Reponses' = Reponses
  BY <1>1 DEF Reponses, Reponse, DernierePose
<1>3. QED
  BY <1>1, <1>2, MemoireStable DEF Contrat!vars

LEMMA InchangeContrat ==
  ASSUME anneaux' = anneaux, slots' = slots, rendu' = rendu
  PROVE  UNCHANGED Contrat!vars
<1>1. Reponses' = Reponses
  BY DEF Reponses, Reponse, DernierePose
<1>2. QED
  BY <1>1, MemoireStable DEF Contrat!vars

LEMMA ContratInit == Init => Contrat!Init
<1> SUFFICES ASSUME Init PROVE Contrat!Init
  OBVIOUS
<1>1. ASSUME NEW k \in Cles PROVE RegistreDe(SlotDe(k), k.tick) = Contrat!Vierge
  <2>1. k.tick \in Nat /\ Indice(k.tick) \in Indices
    BY TicksAssumption, IndiceType DEF Cles
  <2>2. SlotDe(k) = SlotVide
    BY <2>1 DEF Init, SlotDe, Ring, NouvelAnneau
  <2>3. Recyclable(SlotVide, k.tick)
    BY SlotVideType DEF Recyclable
  <2>4. QED
    BY <2>1, <2>2, <2>3, SlotVideType, RegistreCas
<1>2. Registres = [k \in Cles |-> Contrat!Vierge]
  BY <1>1 DEF Registres
<1>3. Reponse(Aucun) = Contrat!Aucun
  BY DEF Reponse, Aucun, Contrat!Aucun
<1>4. Reponses = [f \in Fils |-> Contrat!Aucun]
  BY <1>3 DEF Reponses, Init
<1>5. QED
  BY <1>2, <1>4, ContratCles DEF Contrat!Init

LEMMA ContratPas ==
  ASSUME TypeOK, [Next]_vars
  PROVE  [Contrat!Next]_(Contrat!vars)
<1>1. ASSUME NEW f \in Fils, NEW o \in Appels, SalleAbsente(f, o) \/ CommencerVider(f, o)
      PROVE  Contrat!Oublier(f)
  BY <1>1, OublierFil DEF SalleAbsente, CommencerVider, memoire
<1>2. ASSUME NEW f \in Fils, Diffuser(f) \/ FinirLire(f)
      PROVE  Contrat!Oublier(f)
  BY <1>2, OublierFil DEF Diffuser, FinirLire, memoire
<1>3. ASSUME NEW f \in Fils, FinirVider(f)
      PROVE  UNCHANGED Contrat!vars
  BY <1>3, InchangeContrat DEF FinirVider, memoire
<1>4. ASSUME UNCHANGED vars PROVE UNCHANGED Contrat!vars
  BY <1>4, InchangeContrat DEF vars
<1>5. ASSUME NEW f \in Fils, NEW o \in Appels,
             \/ SalleAbsente(f, o) \/ Ecrire(f, o) \/ Sceller(f, o)
             \/ CommencerLire(f, o) \/ CommencerVider(f, o)
      PROVE  Contrat!Next
  <2>1. CASE SalleAbsente(f, o) \/ CommencerVider(f, o)
    BY <1>1, <2>1 DEF Contrat!Next
  <2>2. CASE Ecrire(f, o)
    BY <2>2, EcrireContrat, ContratCles DEF Contrat!Next
  <2>3. CASE Sceller(f, o)
    BY <2>3, ScellerContrat, ContratCles DEF Contrat!Next
  <2>4. CASE CommencerLire(f, o)
    BY <2>4, CommencerLireContrat DEF Contrat!Next
  <2>5. QED
    BY <1>5, <2>1, <2>2, <2>3, <2>4
<1>6. ASSUME NEW f \in Fils,
             \/ CreerSalle(f) \/ Diffuser(f) \/ LireCellule(f) \/ FinirLire(f)
             \/ ViderCellule(f) \/ FinirVider(f)
      PROVE  Contrat!Next \/ UNCHANGED Contrat!vars
  <2>1. CASE CreerSalle(f)
    BY <2>1, CreerSalleContrat
  <2>2. CASE Diffuser(f) \/ FinirLire(f)
    BY <1>2, <2>2 DEF Contrat!Next
  <2>3. CASE LireCellule(f)
    BY <2>3, LireCelluleContrat DEF Contrat!Next
  <2>4. CASE ViderCellule(f)
    BY <2>4, ViderCelluleContrat DEF Contrat!Next
  <2>5. CASE FinirVider(f)
    BY <1>3, <2>5
  <2>6. QED
    BY <1>6, <2>1, <2>2, <2>3, <2>4, <2>5
<1>7. QED
  BY <1>4, <1>5, <1>6 DEF Next

(* The engine keeps the store contract, for every number of rooms, cells,   *)
(* slots, ticks, entities and threads: every answer and every change of a   *)
(* step is one an atomic last-writer-wins register per key could give, and  *)
(* a register is lost only to a use of its cell at least Anneau ticks later *)
(* (store.rs:19-46, engine.rs:24-30).                                       *)
THEOREM MoteurRespecteContrat == Spec => RespecteContrat
<1>1. Init => Contrat!Init
  BY ContratInit
<1>2. TypeOK /\ [Next]_vars => [Contrat!Next]_(Contrat!vars)
  BY ContratPas
<1>3. QED
  BY <1>1, <1>2, MoteurType, PTL DEF Spec, RespecteContrat, Contrat!Spec

-----------------------------------------------------------------------------
(* The memory of a slot: entities present after the last compaction, plus   *)
(* the entries pushed since, which a compaction cuts at Seuil.              *)

Borne(s) ==
  /\ Len(s.journal) <= Cardinality(Entites) + s.depuis
  /\ s.depuis <= Seuil

LEMMA CompactionBornee ==
  ASSUME NEW j \in Seq(Entrees)
  PROVE  Len(JournalCompacte(j)) <= Cardinality(Entites)
<1> DEFINE c == JournalCompacte(j)
           g == [i \in 1..Len(c) |-> c[i].entite]
<1>1. c \in Seq(Entrees) /\ StrictementTrie(c)
  BY CompactionType, CompactionOrdonne
<1> HIDE DEF c
<1>2. /\ Len(c) \in Nat /\ DOMAIN c = 1..Len(c)
      /\ \A i \in 1..Len(c) : c[i] \in Entrees
  BY <1>1
<1>3. \A i \in 1..Len(c) : c[i].entite \in Entites /\ c[i].entite \in Nat
  BY <1>2, EntitesAssumption DEF Entrees
<1>4. g \in [1..Len(c) -> Entites]
  BY <1>3
<1>5. ASSUME NEW x \in 1..Len(c), NEW y \in 1..Len(c), x # y PROVE g[x] # g[y]
  <2>1. x < y \/ y < x
    BY <1>2, <1>5
  <2>2. c[x].entite < c[y].entite \/ c[y].entite < c[x].entite
    BY <1>1, <1>2, <2>1 DEF StrictementTrie
  <2>3. QED
    BY <1>3, <2>2
<1> HIDE DEF g
<1>6. ~(Cardinality(Entites) < Cardinality(1..Len(c)))
  <2>1. IsFiniteSet(1..Len(c))
    BY <1>2, FS_Interval
  <2>2. QED
    BY <1>4, <1>5, <2>1, EntitesFinies, FS_PigeonHole
<1>7. Cardinality(1..Len(c)) = Len(c)
  <2>1. ASSUME NEW n \in Nat PROVE Cardinality(1..n) = n
    BY FS_Interval
  <2>2. QED
    BY <1>2, <2>1
<1>8. Cardinality(Entites) \in Nat
  BY EntitesFinies, FS_CardinalityType
<1>9. QED
  BY <1>2, <1>6, <1>7, <1>8 DEF c

LEMMA CompacterBorne ==
  ASSUME NEW s \in Slots
  PROVE  Borne(Compacter(s)) /\ Compacter(s).depuis = 0
<1>1. s.journal \in Seq(Entrees)
  BY DEF Slots
<1>2. Compacter(s).journal = JournalCompacte(s.journal) /\ Compacter(s).depuis = 0
  BY DEF Compacter, Slots
<1>3. Cardinality(Entites) \in Nat
  BY EntitesFinies, FS_CardinalityType
<1>4. QED
  BY <1>1, <1>2, <1>3, CompactionBornee, SeuilAssumption DEF Borne

LEMMA VideBorne ==
  ASSUME NEW s \in Slots, s.journal = <<>>, s.depuis <= Seuil
  PROVE  Borne(s)
<1>1. s.depuis \in Nat /\ Len(s.journal) = 0
  BY DEF Slots
<1>2. Cardinality(Entites) \in Nat
  BY EntitesFinies, FS_CardinalityType
<1>3. QED
  BY <1>1, <1>2 DEF Borne

LEMMA InscrireBorne ==
  ASSUME NEW s \in Slots, NEW e \in Entites, NEW p \in Poses, Borne(s), s.depuis < Seuil
  PROVE  Borne(Inscrire(s, e, p))
<1> DEFINE x == [entite |-> e, pose |-> p]
<1>1. /\ Inscrire(s, e, p).journal = Append(s.journal, x)
      /\ Inscrire(s, e, p).depuis = s.depuis + 1
  BY DEF Inscrire, Slots
<1>2. s.journal \in Seq(Entrees) /\ s.depuis \in Nat /\ x \in Entrees
  BY DEF Slots, Entrees
<1> HIDE DEF x
<1>3. Len(Append(s.journal, x)) = Len(s.journal) + 1 /\ Len(s.journal) \in Nat
  BY <1>2
<1>4. Cardinality(Entites) \in Nat /\ Seuil \in Nat
  BY EntitesFinies, FS_CardinalityType, SeuilAssumption
<1>5. QED
  BY <1>1, <1>2, <1>3, <1>4 DEF Borne

LEMMA RecyclerBorne ==
  ASSUME NEW t \in Nat
  PROVE  Borne(Recycler(t)) /\ Recycler(t).depuis = 0
<1>1. Recycler(t).journal = <<>> /\ Recycler(t).depuis = 0 /\ 0 <= Seuil
  BY SeuilAssumption DEF Recycler
<1>2. QED
  BY <1>1, RecyclerType, VideBorne

LEMMA EcrireBorne ==
  ASSUME NEW s \in Slots, NEW t \in Nat, NEW e \in Entites, NEW p \in Poses, Borne(s)
  PROVE  Borne(SlotEcrit(s, t, e, p))
<1>1. CASE Recyclable(s, t)
  <2>1. SlotEcrit(s, t, e, p) = Inscrire(Recycler(t), e, p)
    BY <1>1 DEF SlotEcrit
  <2>2. 0 < Seuil
    BY SeuilAssumption
  <2>3. QED
    BY <2>1, <2>2, RecyclerBorne, RecyclerType, InscrireBorne
<1>2. CASE ~Recyclable(s, t) /\ EcritureRefusee(s, t)
  BY <1>2 DEF SlotEcrit
<1>3. CASE ~Recyclable(s, t) /\ ~EcritureRefusee(s, t)
  <2> DEFINE c == IF s.depuis >= Seuil THEN Compacter(s) ELSE s
  <2>1. SlotEcrit(s, t, e, p) = Inscrire(c, e, p)
    BY <1>3 DEF SlotEcrit
  <2>2. c \in Slots /\ Borne(c) /\ c.depuis < Seuil
    <3>1. s.depuis \in Nat /\ Seuil \in Nat /\ 0 < Seuil
      BY SeuilAssumption DEF Slots
    <3>2. QED
      BY <3>1, CompacterType, CompacterBorne
  <2> HIDE DEF c
  <2>3. QED
    BY <2>1, <2>2, InscrireBorne
<1>4. QED
  BY <1>1, <1>2, <1>3

LEMMA ScellerBorne ==
  ASSUME NEW s \in Slots, NEW t \in Nat, Borne(s)
  PROVE  Borne(SlotScelle(s, t))
<1> DEFINE o == IF Recyclable(s, t) THEN Recycler(t) ELSE s
<1>1. o \in Slots /\ Borne(o)
  BY RecyclerType, RecyclerBorne
<1>2. SlotScelle(s, t) = o \/ SlotScelle(s, t) = [Compacter(o) EXCEPT !.etat = "Scelle"]
  BY DEF SlotScelle
<1> HIDE DEF o
<1>3. Compacter(o) \in Slots /\ Borne(Compacter(o))
  BY <1>1, CompacterType, CompacterBorne
<1>4. Borne([Compacter(o) EXCEPT !.etat = "Scelle"])
  BY <1>3 DEF Borne, Slots
<1>5. QED
  BY <1>1, <1>2, <1>4

(* The inductive invariant, slot by slot. *)
SlotsBornes == \A rc \in Positions, i \in Indices : Borne(slots[rc][i])

LEMMA SlotVideBorne == Borne(SlotVide)
<1>1. SlotVide.journal = <<>> /\ SlotVide.depuis <= Seuil
  BY SeuilAssumption DEF SlotVide
<1>2. QED
  BY <1>1, SlotVideType, VideBorne

LEMMA BorneSlotDe ==
  ASSUME TypeOK, SlotsBornes, NEW k \in Cles
  PROVE  Borne(SlotDe(k))
<1> DEFINE kc == <<k.salle, k.cellule>>
           i  == Indice(k.tick)
<1>1. kc \in Positions /\ i \in Indices
  BY SlotDeType
<1>2. SlotDe(k) = SlotVide \/ SlotDe(k) = slots[kc][i]
  BY <1>1 DEF SlotDe, Ring, NouvelAnneau
<1>3. QED
  BY <1>1, <1>2, SlotVideBorne DEF SlotsBornes

LEMMA BorneAvecSlot ==
  ASSUME TypeOK, SlotsBornes, NEW k \in Cles, NEW n \in Slots, Borne(n), AvecSlot(k, n)
  PROVE  SlotsBornes'
<1> DEFINE kc == <<k.salle, k.cellule>>
           R == Ring(k.salle, k.cellule)
<1>1. /\ kc \in Positions /\ Indice(k.tick) \in Indices /\ R \in [Indices -> Slots]
      /\ slots \in [Positions -> [Indices -> Slots]]
      /\ slots' = [slots EXCEPT ![kc] = [R EXCEPT ![Indice(k.tick)] = n]]
  BY SlotDeType DEF AvecSlot, TypeOK
<1>2. \A i \in Indices : Borne(R[i])
  <2>1. Borne(SlotVide)
    BY SlotVideBorne
  <2>2. \A i \in Indices : R[i] = SlotVide \/ R[i] = slots[kc][i]
    BY DEF Ring, NouvelAnneau
  <2>3. QED
    BY <1>1, <2>1, <2>2 DEF SlotsBornes
<1> HIDE DEF kc, R
<1>3. ASSUME NEW rc \in Positions, NEW i \in Indices PROVE Borne(slots'[rc][i])
  BY <1>1, <1>2 DEF SlotsBornes
<1>4. QED
  BY <1>3 DEF SlotsBornes, Borne, Indices, Positions

LEMMA BorneVider ==
  ASSUME TypeOK, SlotsBornes, NEW f \in Fils, ViderCellule(f)
  PROVE  SlotsBornes'
<1>1. PICK rc \in aVider[f] :
        slots' = IF rc \in anneaux
                 THEN [slots EXCEPT ![rc] = [i \in Indices |-> SlotVidange(slots[rc][i])]]
                 ELSE slots
  BY DEF ViderCellule
<1>2. slots \in [Positions -> [Indices -> Slots]] /\ rc \in Positions
  BY DEF TypeOK, Positions
<1>3. ASSUME NEW i \in Indices PROVE Borne(SlotVidange(slots[rc][i]))
  <2>1. slots[rc][i] \in Slots /\ Borne(slots[rc][i])
    BY <1>2 DEF SlotsBornes
  <2>2. /\ SlotVidange(slots[rc][i]).journal = <<>>
        /\ SlotVidange(slots[rc][i]).depuis = slots[rc][i].depuis
    BY DEF SlotVidange
  <2>3. QED
    BY <2>1, <2>2, ViderSlot, VideBorne DEF Borne
<1>4. ASSUME NEW x \in Positions, NEW i \in Indices PROVE Borne(slots'[x][i])
  <2>1. slots'[x][i] = slots[x][i] \/ (x = rc /\ slots'[x][i] = SlotVidange(slots[rc][i]))
    BY <1>1, <1>2
  <2>2. QED
    BY <1>3, <2>1 DEF SlotsBornes
<1>5. QED
  BY <1>4 DEF SlotsBornes, Borne, Indices, Positions

LEMMA BornePas ==
  ASSUME TypeOK, SlotsBornes, [Next]_vars
  PROVE  SlotsBornes'
<1>1. ASSUME NEW f \in Fils, NEW o \in Appels, Ecrire(f, o)
      PROVE  SlotsBornes'
  <2> DEFINE k == Cle(o)
             n == SlotEcrit(SlotDe(k), o.tick, o.entite, o.pose)
  <2>1. o \in Ecritures /\ o.entite \in Entites /\ o.pose \in Poses /\ AvecSlot(k, n)
    BY <1>1 DEF Ecrire, Ecritures
  <2>2. k \in Cles /\ o.tick \in Nat /\ SlotDe(k) \in Slots
    BY <2>1, CleType, SlotDeType
  <2>3. Borne(SlotDe(k))
    BY <2>2, BorneSlotDe
  <2>4. n \in Slots /\ Borne(n)
    BY <2>1, <2>2, <2>3, EcrireSlot, EcrireBorne
  <2> HIDE DEF k, n
  <2>5. QED
    BY <2>1, <2>2, <2>4, BorneAvecSlot
<1>2. ASSUME NEW f \in Fils, NEW o \in Appels, Sceller(f, o)
      PROVE  SlotsBornes'
  <2> DEFINE k == Cle(o)
             n == SlotScelle(SlotDe(k), o.tick)
  <2>1. o \in Scellements /\ AvecSlot(k, n)
    BY <1>2 DEF Sceller
  <2>2. k \in Cles /\ o.tick \in Nat /\ SlotDe(k) \in Slots
    BY <2>1, CleType, SlotDeType
  <2>3. Borne(SlotDe(k))
    BY <2>2, BorneSlotDe
  <2>4. n \in Slots /\ Borne(n)
    BY <2>2, <2>3, ScellerSlot, ScellerBorne
  <2> HIDE DEF k, n
  <2>5. QED
    BY <2>1, <2>2, <2>4, BorneAvecSlot
<1>3. ASSUME slots' = slots PROVE SlotsBornes'
  BY <1>3 DEF SlotsBornes, Borne, Indices, Positions
<1>4. ASSUME NEW f \in Fils, NEW o \in Appels,
             \/ SalleAbsente(f, o) \/ CommencerLire(f, o) \/ CommencerVider(f, o)
      PROVE  slots' = slots
  BY <1>4 DEF SalleAbsente, CommencerLire, CommencerVider, memoire
<1>5. ASSUME NEW f \in Fils,
             CreerSalle(f) \/ Diffuser(f) \/ LireCellule(f) \/ FinirLire(f) \/ FinirVider(f)
      PROVE  slots' = slots
  BY <1>5 DEF CreerSalle, Diffuser, LireCellule, FinirLire, FinirVider, memoire
<1>6. ASSUME UNCHANGED vars PROVE slots' = slots
  BY <1>6 DEF vars
<1>7. QED
  BY <1>1, <1>2, <1>3, <1>4, <1>5, <1>6, BorneVider DEF Next

(* A journal never holds more than one entry per entity and Seuil more,     *)
(* whatever is written and however often (engine.rs:67-75).                 *)
THEOREM JournauxBornes == Spec => []JournalBorne
<1>1. Init => SlotsBornes
  <2> SUFFICES ASSUME Init, NEW rc \in Positions, NEW i \in Indices
               PROVE  Borne(slots[rc][i])
    BY DEF SlotsBornes
  <2>1. slots[rc][i] = SlotVide
    BY DEF Init, NouvelAnneau
  <2>2. QED
    BY <2>1, SlotVideBorne
<1>2. TypeOK /\ SlotsBornes /\ [Next]_vars => SlotsBornes'
  BY BornePas
<1>3. TypeOK /\ SlotsBornes => JournalBorne
  <2> SUFFICES ASSUME TypeOK, SlotsBornes, NEW rc \in Positions, NEW i \in Indices
               PROVE  Len(slots[rc][i].journal) <= Cardinality(Entites) + Seuil
    BY DEF JournalBorne
  <2>1. slots[rc][i] \in Slots /\ Borne(slots[rc][i])
    BY DEF TypeOK, SlotsBornes
  <2>2. Len(slots[rc][i].journal) \in Nat /\ slots[rc][i].depuis \in Nat
    BY <2>1 DEF Slots
  <2>3. Cardinality(Entites) \in Nat /\ Seuil \in Nat
    BY EntitesFinies, FS_CardinalityType, SeuilAssumption
  <2>4. QED
    BY <2>1, <2>2, <2>3 DEF Borne
<1>4. QED
  BY <1>1, <1>2, <1>3, MoteurType, PTL DEF Spec
-----------------------------------------------------------------------------
(* The observers.                                                           *)

(* A cell that a vider does not reach keeps its slots.                      *)
LEMMA ViderAutres ==
  ASSUME TypeOK, NEW f \in Fils, ViderCellule(f), NEW k \in Cles, ~VideACePas(k)
  PROVE  SlotDe(k)' = SlotDe(k)
<1> DEFINE kc == <<k.salle, k.cellule>>
<1>1. PICK rc \in aVider[f] :
        /\ slots' = IF rc \in anneaux
                    THEN [slots EXCEPT ![rc] = [i \in Indices |-> SlotVidange(slots[rc][i])]]
                    ELSE slots
        /\ aVider' = [aVider EXCEPT ![f] = aVider[f] \ {rc}]
  BY DEF ViderCellule
<1>2. anneaux' = anneaux /\ kc \in Positions
  BY DEF ViderCellule, Positions, Cles
<1>3. kc # rc
  <2>1. aVider'[f] = aVider[f] \ {rc}
    BY <1>1 DEF TypeOK
  <2>2. rc \in aVider[f] \ aVider'[f]
    BY <2>1, Zenon
  <2>3. QED
    BY <2>2 DEF VideACePas
<1> HIDE DEF kc
<1>4. slots'[kc] = slots[kc]
  BY <1>1, <1>2, <1>3 DEF TypeOK
<1>5. QED
  BY <1>2, <1>4 DEF SlotDe, Ring, Indice, NouvelAnneau, kc

(* A slot that has gone on to a later tick does not come back, unless its   *)
(* cell is emptied.                                                         *)
LEMMA DepasseTient ==
  ASSUME TypeOK, Next, NEW k \in Cles, ~VideACePas(k), Depasse(SlotDe(k), k.tick)
  PROVE  Depasse(SlotDe(k)', k.tick)
<1> DEFINE d == SlotDe(k)
<1>1. d \in Slots /\ k.tick \in Nat
  BY SlotDeType
<1>2. ASSUME NEW n \in Slots, NEW j \in Cles, AvecSlot(j, n),
             n = SlotDe(j) \/ (n.etat # "Vide" /\ n.tick = j.tick
                              /\ (SlotDe(j).etat = "Vide" \/ SlotDe(j).tick <= j.tick))
      PROVE  Depasse(SlotDe(k)', k.tick)
  <2>1. SlotDe(k)' = IF MemeSlot(k, j) THEN n ELSE SlotDe(k)
    BY <1>2, AvecSlotEffet
  <2>2. MemeSlot(k, j) => SlotDe(k) = SlotDe(j)
    BY MemeSlotDe
  <2>3. j.tick \in Nat
    BY SlotDeType
  <2>4. CASE ~MemeSlot(k, j) \/ n = SlotDe(j)
    BY <2>1, <2>2, <2>4
  <2>5. CASE MemeSlot(k, j) /\ n # SlotDe(j)
    BY <1>1, <1>2, <2>1, <2>2, <2>3, <2>5 DEF Depasse, Slots
  <2>6. QED
    BY <2>4, <2>5
<1>3. ASSUME NEW f \in Fils, NEW o \in Appels, Ecrire(f, o)
      PROVE  Depasse(SlotDe(k)', k.tick)
  <2> DEFINE j == Cle(o)
             n == SlotEcrit(SlotDe(j), o.tick, o.entite, o.pose)
  <2>1. o \in Ecritures /\ o.entite \in Entites /\ o.pose \in Poses /\ AvecSlot(j, n)
    BY <1>3 DEF Ecrire, Ecritures
  <2>2. j \in Cles /\ o.tick \in Nat /\ j.tick = o.tick /\ SlotDe(j) \in Slots
    BY <2>1, CleType, SlotDeType
  <2>3. /\ n \in Slots
        /\ n = SlotDe(j) \/ (n.etat # "Vide" /\ n.tick = j.tick
                             /\ (SlotDe(j).etat = "Vide" \/ SlotDe(j).tick <= j.tick))
    BY <2>1, <2>2, EcrireSlot
  <2> HIDE DEF j, n
  <2>4. QED
    BY <1>2, <2>1, <2>2, <2>3
<1>4. ASSUME NEW f \in Fils, NEW o \in Appels, Sceller(f, o)
      PROVE  Depasse(SlotDe(k)', k.tick)
  <2> DEFINE j == Cle(o)
             n == SlotScelle(SlotDe(j), o.tick)
  <2>1. o \in Scellements /\ AvecSlot(j, n)
    BY <1>4 DEF Sceller
  <2>2. j \in Cles /\ o.tick \in Nat /\ j.tick = o.tick /\ SlotDe(j) \in Slots
    BY <2>1, CleType, SlotDeType
  <2>3. /\ n \in Slots
        /\ n = SlotDe(j) \/ (n.etat # "Vide" /\ n.tick = j.tick
                             /\ (SlotDe(j).etat = "Vide" \/ SlotDe(j).tick <= j.tick))
    BY <2>2, ScellerSlot DEF LisibleA
  <2> HIDE DEF j, n
  <2>4. QED
    BY <1>2, <2>1, <2>2, <2>3
<1>5. ASSUME anneaux' = anneaux, slots' = slots
      PROVE  Depasse(SlotDe(k)', k.tick)
  BY <1>5 DEF SlotDe, Ring, Indice, NouvelAnneau
<1>6. ASSUME NEW f \in Fils, CreerSalle(f)
      PROVE  Depasse(SlotDe(k)', k.tick)
  BY <1>5, <1>6, CreerSalleSlots
<1>7. ASSUME NEW f \in Fils, ViderCellule(f)
      PROVE  Depasse(SlotDe(k)', k.tick)
  BY <1>7, ViderAutres
<1>8. ASSUME NEW f \in Fils,
             \/ \E o \in Appels : \/ SalleAbsente(f, o) \/ CommencerLire(f, o)
                                  \/ CommencerVider(f, o)
             \/ Diffuser(f) \/ LireCellule(f) \/ FinirLire(f) \/ FinirVider(f)
      PROVE  Depasse(SlotDe(k)', k.tick)
  BY <1>5, <1>8 DEF SalleAbsente, CommencerLire, CommencerVider, Diffuser, LireCellule,
                    FinirLire, FinirVider, memoire
<1>9. QED
  BY <1>3, <1>4, <1>6, <1>7, <1>8 DEF Next

(* What a diffuser still holds or has put in a channel: the first content   *)
(* of its key, or nothing for a key that the ring has left behind.          *)
EmisScelle ==
  \A f \in Fils : \A n \in 1..envois[f] : \A e \in emis[f][n] :
    /\ e.cle \in Cles
    /\ \/ sceaux[e.cle] = {e.contenu}
       \/ e.contenu = <<>> /\ Depasse(SlotDe(e.cle), e.cle.tick)

OInv ==
  /\ SceauInv
  /\ sceaux = [k \in Cles |-> sceaux[k]]
  /\ envois \in [Fils -> Nat]
  /\ emis = [f \in Fils |-> [n \in 1..envois[f] |-> emis[f][n]]]
  /\ EmisScelle

(* A step of the whole is one of the engine, or leaves it alone.            *)
LEMMA PasMoteur ==
  ASSUME ONext
  PROVE  Next \/ UNCHANGED vars
<1>1. ASSUME NEW f \in Fils, NEW o \in Appels, ScellerEtDiffuser(f, o)
      PROVE  Next
  BY <1>1 DEF ScellerEtDiffuser, Next
<1>2. ASSUME NEW f \in Fils, AvancerDiffusion(f)
      PROVE  Next \/ UNCHANGED vars
  BY <1>2 DEF AvancerDiffusion, Next
<1>3. ASSUME NEW f \in Fils, SansDiffuseur(f)
      PROVE  Next
  BY <1>3 DEF SansDiffuseur, Next
<1>4. ASSUME NEW o \in Observateurs, Observer(o)
      PROVE  UNCHANGED vars
  BY <1>4 DEF Observer
<1>5. QED
  BY <1>1, <1>2, <1>3, <1>4 DEF ONext

LEMMA PasHistoire ==
  ASSUME OInv, [ONext]_ovars
  PROVE  [HNext]_hvars
<1>1. CASE UNCHANGED ovars
  BY <1>1 DEF ovars
<1>2. CASE ONext
  <2>1. sceaux' = [k \in Cles |-> Suivre(k)]
    BY <1>2 DEF ONext
  <2>2. CASE Next
    BY <2>1, <2>2 DEF HNext
  <2>3. CASE UNCHANGED vars
    <3>1. \A k \in Cles : Suivre(k) = sceaux[k]
      BY <2>3, SuivreStable DEF Suivi, VideACePas, ScelleACePas, vars
    <3>2. sceaux' = sceaux
      BY <2>1, <3>1 DEF OInv
    <3>3. QED
      BY <2>3, <3>2 DEF hvars
  <2>4. QED
    BY <1>2, <2>2, <2>3, PasMoteur
<1>3. QED
  BY <1>1, <1>2

(* What was handed over stays what it was, or is forgotten.                 *)
LEMMA EmisTient ==
  ASSUME OInv, ONext, NEW e, e.cle \in Cles, ~VideACePas(e.cle),
         \/ sceaux[e.cle] = {e.contenu}
         \/ e.contenu = <<>> /\ Depasse(SlotDe(e.cle), e.cle.tick)
  PROVE  \/ sceaux'[e.cle] = {e.contenu}
         \/ e.contenu = <<>> /\ Depasse(SlotDe(e.cle)', e.cle.tick)
<1> DEFINE k == e.cle
<1>1. sceaux'[k] = Suivre(k) /\ TypeOK
  BY DEF ONext, OInv, SceauInv
<1>2. CASE sceaux[k] = {e.contenu}
  BY <1>1, <1>2 DEF Suivre
<1>3. CASE e.contenu = <<>> /\ Depasse(SlotDe(k), k.tick)
  <2>1. CASE Next
    BY <1>1, <1>3, <2>1, DepasseTient
  <2>2. CASE UNCHANGED vars
    <3>1. SlotDe(k)' = SlotDe(k)
      BY <2>2 DEF vars, SlotDe, Ring, Indice, NouvelAnneau
    <3>2. QED
      BY <1>3, <3>1
  <2>3. QED
    BY <2>1, <2>2, PasMoteur
<1>4. QED
  BY <1>2, <1>3

(* What a sealing thread hands over.                                        *)
LEMMA EmisNouveau ==
  ASSUME OInv, ONext, NEW f \in Fils, NEW o \in Appels, Sceller(f, o)
  PROVE  /\ Cle(appel'[f]) = Cle(o) /\ Cle(o) \in Cles
         /\ \/ sceaux'[Cle(o)] = {rendu'[f].contenu}
            \/ /\ rendu'[f].contenu = <<>>
               /\ Depasse(SlotDe(Cle(o))', Cle(o).tick)
<1> DEFINE k == Cle(o)
           c == rendu'[f].contenu
<1>1. TypeOK /\ SceauInv /\ appel'[f] = o /\ o \in Scellements /\ Next
  BY DEF OInv, SceauInv, TypeOK, Sceller, Next
<1>2. k \in Cles
  BY <1>1, CleType
<1>3. ~VideACePas(k) /\ \A g \in Fils : ScelleACePas(g, k) <=> g = f
  BY <1>1, <1>2, SuiviSceller
<1>4. sceaux'[k] = Suivre(k)
  BY <1>2 DEF ONext
<1>5. CASE sceaux[k] = {}
  <2>1. {g \in Fils : ScelleACePas(g, k)} = {f}
    BY <1>3
  <2> HIDE DEF k
  <2>2. Suivre(k) = {c}
    BY <1>3, <1>5, <2>1 DEF Suivre
  <2>3. QED
    BY <1>1, <1>2, <1>4, <2>2 DEF k
<1>6. CASE sceaux[k] # {}
  <2>1. HNext
    BY <1>1 DEF HNext, ONext
  <2>2. \/ sceaux[k] = {c}
        \/ c = <<>> /\ Depasse(SlotDe(k), k.tick)
    BY <1>1, <1>2, <1>3, <1>6, <2>1, RenduScelle
  <2>3. CASE sceaux[k] = {c}
    BY <1>1, <1>2, <1>3, <1>4, <2>3 DEF Suivre
  <2>4. CASE c = <<>> /\ Depasse(SlotDe(k), k.tick)
    BY <1>1, <1>2, <1>3, <2>4, DepasseTient
  <2>5. QED
    BY <2>2, <2>3, <2>4
<1>7. QED
  BY <1>5, <1>6

(* Only a seal adds to what a thread emits, one chronotope at a time.       *)
LEMMA EnvoisPas ==
  ASSUME envois \in [Fils -> Nat], ONext
  PROVE  \/ envois' = envois
         \/ \E f \in Fils, o \in Appels :
              /\ Sceller(f, o)
              /\ envois' = [envois EXCEPT ![f] = envois[f] + 1]
<1>1. ASSUME NEW f \in Fils, NEW o \in Appels, ScellerEtDiffuser(f, o)
      PROVE  Sceller(f, o) /\ envois' = [envois EXCEPT ![f] = envois[f] + 1]
  BY <1>1 DEF ScellerEtDiffuser, D!Diffuser
<1>2. ASSUME NEW f \in Fils, AvancerDiffusion(f)
      PROVE  envois' = envois
  BY <1>2 DEF AvancerDiffusion, D!Avancer, D!Charger, D!Verrouiller, D!Essayer,
              D!Liberer, D!Purger, D!Rendre
<1>3. ASSUME NEW f \in Fils, SansDiffuseur(f)
      PROVE  envois' = envois
  BY <1>3 DEF SansDiffuseur, dvars
<1>4. ASSUME NEW o \in Observateurs, Observer(o)
      PROVE  envois' = envois
  BY <1>4 DEF Observer, D!Abonner, D!Recevoir, D!Fermer, D!locales
<1>5. QED
  BY <1>1, <1>2, <1>3, <1>4 DEF ONext

LEMMA OInvInit == OInit => OInv
<1> SUFFICES ASSUME OInit PROVE OInv
  OBVIOUS
<1>1. SceauInv /\ sceaux = [k \in Cles |-> sceaux[k]]
  BY SceauInit DEF OInit, HInit
<1>2. envois = [f \in Fils |-> 0] /\ emis = [f \in Fils |-> <<>>]
  BY DEF OInit, D!Init
<1>3. <<>> = [n \in 1..0 |-> <<>>[n]]
  OBVIOUS
<1>4. emis = [f \in Fils |-> [n \in 1..envois[f] |-> emis[f][n]]]
  BY <1>2, <1>3
<1>5. EmisScelle
  BY <1>2 DEF EmisScelle
<1>6. QED
  BY <1>1, <1>2, <1>4, <1>5 DEF OInv

LEMMA OInvPas == OInv /\ [ONext]_ovars => OInv'
<1> SUFFICES ASSUME OInv, [ONext]_ovars PROVE OInv'
  OBVIOUS
<1>1. SceauInv'
  BY PasHistoire, SceauPas DEF OInv
<1>2. CASE UNCHANGED ovars
  <2>1. /\ sceaux' = sceaux /\ envois' = envois /\ emis' = emis
        /\ anneaux' = anneaux /\ slots' = slots
    BY <1>2 DEF ovars, hvars, vars, dvars
  <2>2. \A k \in Cles : SlotDe(k)' = SlotDe(k)
    BY <2>1 DEF SlotDe, Ring, Indice, NouvelAnneau
  <2>3. EmisScelle' <=>
          \A f \in Fils : \A n \in 1..envois[f] : \A e \in emis[f][n] :
            /\ e.cle \in Cles
            /\ \/ sceaux[e.cle] = {e.contenu}
               \/ e.contenu = <<>> /\ Depasse(SlotDe(e.cle)', e.cle.tick)
    BY <2>1 DEF EmisScelle, Depasse
  <2>4. ASSUME NEW f \in Fils, NEW n \in 1..envois[f], NEW e \in emis[f][n]
        PROVE  /\ e.cle \in Cles
               /\ \/ sceaux[e.cle] = {e.contenu}
                  \/ e.contenu = <<>> /\ Depasse(SlotDe(e.cle)', e.cle.tick)
    <3>1. /\ e.cle \in Cles
          /\ \/ sceaux[e.cle] = {e.contenu}
             \/ e.contenu = <<>> /\ Depasse(SlotDe(e.cle), e.cle.tick)
      BY DEF OInv, EmisScelle
    <3>2. SlotDe(e.cle)' = SlotDe(e.cle)
      BY <2>2, <3>1
    <3>3. QED
      BY <3>1, <3>2
  <2>5. EmisScelle'
    BY <2>3, <2>4
  <2>6. QED
    BY <1>1, <2>1, <2>5 DEF OInv
<1>3. CASE ONext
  <2>1. /\ sceaux' = [k \in Cles |-> Suivre(k)]
        /\ emis' = [f \in Fils |-> [n \in 1..envois'[f] |-> Emis(f, n)]]
    BY <1>3 DEF ONext
  <2>2. sceaux' = [k \in Cles |-> sceaux'[k]]
    BY <2>1
  <2>3. emis' = [f \in Fils |-> [n \in 1..envois'[f] |-> emis'[f][n]]]
    BY <2>1
  <2>4. envois' \in [Fils -> Nat]
    BY <1>3, EnvoisPas DEF OInv
  <2>5. ASSUME NEW f \in Fils, NEW n \in 1..envois'[f], NEW e \in emis'[f][n]
        PROVE  /\ e.cle \in Cles
               /\ \/ sceaux'[e.cle] = {e.contenu}
                  \/ e.contenu = <<>> /\ Depasse(SlotDe(e.cle)', e.cle.tick)
    <3>1. e \in Emis(f, n)
      BY <2>1
    <3>2. envois[f] \in Nat /\ envois'[f] \in Nat /\ n \in Nat
      BY <2>4 DEF OInv
    <3>3. CASE n > envois[f]
      <4>1. PICK o \in Appels : Sceller(f, o)
        <5>1. envois' # envois
          BY <3>2, <3>3
        <5>2. PICK g \in Fils, o \in Appels :
                Sceller(g, o) /\ envois' = [envois EXCEPT ![g] = envois[g] + 1]
          BY <1>3, <5>1, EnvoisPas DEF OInv
        <5>3. g = f
          BY <3>2, <3>3, <5>2 DEF OInv
        <5>4. QED
          BY <5>2, <5>3
      <4>2. e = [cle |-> Cle(appel'[f]), contenu |-> rendu'[f].contenu]
        BY <3>1, <3>3 DEF Emis
      <4>3. e.cle = Cle(appel'[f]) /\ e.contenu = rendu'[f].contenu
        BY <4>2
      <4>4. QED
        BY <1>3, <4>1, <4>3, EmisNouveau
    <3>4. CASE ~(n > envois[f])
      <4>1. e \in emis[f][n] /\ ~VideACePas(e.cle)
        BY <3>1, <3>4 DEF Emis
      <4>2. n \in 1..envois[f]
        BY <3>2, <3>4
      <4>3. /\ e.cle \in Cles
            /\ \/ sceaux[e.cle] = {e.contenu}
               \/ e.contenu = <<>> /\ Depasse(SlotDe(e.cle), e.cle.tick)
        BY <4>1, <4>2 DEF OInv, EmisScelle
      <4>4. QED
        BY <1>3, <4>1, <4>3, EmisTient
    <3>5. QED
      BY <3>3, <3>4
  <2>6. EmisScelle' <=>
          \A f \in Fils : \A n \in 1..envois'[f] : \A e \in emis'[f][n] :
            /\ e.cle \in Cles
            /\ \/ sceaux'[e.cle] = {e.contenu}
               \/ e.contenu = <<>> /\ Depasse(SlotDe(e.cle)', e.cle.tick)
    BY DEF EmisScelle, Depasse
  <2>7. QED
    BY <1>1, <2>2, <2>3, <2>4, <2>5, <2>6 DEF OInv
<1>4. QED
  BY <1>2, <1>3

LEMMA OInvariant == OSpec => []OInv
BY OInvInit, OInvPas, PTL DEF OSpec

(* The engine keeps its promises whoever watches it: with its observers it  *)
(* takes the steps it takes without them.                                   *)
THEOREM ObserveSansGener == OSpec => HSpec
<1>1. OInit => HInit
  BY DEF OInit
<1>2. OInv /\ [ONext]_ovars => [HNext]_hvars
  BY PasHistoire
<1>3. QED
  BY <1>1, <1>2, OInvariant, PTL DEF OSpec, HSpec

(* What waits in a channel or on its way there is the first sealed content  *)
(* of its key, which a lire gives until the ring goes on, or an empty       *)
(* chronotope of a key the ring has left behind (store.rs:48-51,            *)
(* engine.rs:328-337).                                                      *)
THEOREM RecuEstScelle == OSpec => []RecuScelle
<1>1. ASSUME OInv
      PROVE  RecuScelle
  <2>1. SceauInv /\ TypeOK /\ EmisScelle
    BY <1>1 DEF OInv, SceauInv
  <2> SUFFICES ASSUME NEW f \in Fils, NEW n \in DOMAIN emis[f], NEW e \in emis[f][n]
               PROVE  LET k == e.cle
                          s == SlotDe(k)
                      IN  \/ /\ sceaux[k] = {e.contenu}
                             /\ \/ SlotAlloue(k) /\ LisibleA(s, k.tick) /\ s.journal = e.contenu
                                \/ Depasse(s, k.tick)
                          \/ e.contenu = <<>> /\ Depasse(s, k.tick)
    BY DEF RecuScelle
  <2> DEFINE k == e.cle
             s == SlotDe(k)
  <2>2. n \in 1..envois[f]
    BY <1>1 DEF OInv
  <2>3. /\ k \in Cles
        /\ \/ sceaux[k] = {e.contenu}
           \/ e.contenu = <<>> /\ Depasse(s, k.tick)
    BY <2>1, <2>2 DEF EmisScelle
  <2>4. CASE sceaux[k] = {e.contenu}
    <3>1. \/ LisibleA(s, k.tick) /\ s.journal = e.contenu
          \/ Depasse(s, k.tick)
      BY <2>1, <2>3, <2>4 DEF SceauInv, SceauDefinitif
    <3>2. ASSUME LisibleA(s, k.tick) PROVE SlotAlloue(k)
      <4>1. <<k.salle, k.cellule>> \in anneaux
        <5> SUFFICES ASSUME <<k.salle, k.cellule>> \notin anneaux PROVE FALSE
          OBVIOUS
        <5>1. Indice(k.tick) \in Indices
          BY <2>1, <2>3, SlotDeType
        <5>2. s = SlotVide
          BY <5>1 DEF SlotDe, Ring, NouvelAnneau
        <5>3. QED
          BY <3>2, <5>2, SlotVideType DEF LisibleA
      <4>2. anneaux \subseteq salles \X Cellules
        BY <2>1 DEF TypeOK
      <4>3. QED
        BY <4>1, <4>2 DEF SlotAlloue
    <3>3. QED
      BY <2>4, <3>1, <3>2
  <2>5. QED
    BY <2>3, <2>4
<1>2. QED
  BY <1>1, OInvariant, PTL
=============================================================================
