-------------------------------- MODULE Slot --------------------------------
(***************************************************************************)
(* The slot of a cell's ring (chronotope-core, engine.rs, struct Slot): a  *)
(* tick, a state and an append-only journal of poses.  This module holds   *)
(* only the pure transformations ChronotopeEngine applies to one slot      *)
(* while it holds the cell's mutex; Moteur.tla says who applies them when. *)
(*                                                                         *)
(* A pose is an opaque value.  Entity identifiers are naturals because the *)
(* code orders them.                                                       *)
(***************************************************************************)
EXTENDS Listes

CONSTANTS
  Entites,   \* entity identifiers that callers write
  Poses,     \* values an entity may take
  Seuil      \* SEUIL_COMPACTION: entries pushed before the journal is compacted

ASSUME EntitesAssumption == Entites \subseteq Nat
ASSUME SeuilAssumption   == Seuil \in Nat \ {0}

Etats   == {"Vide", "Ouvert", "Scelle"}
Entrees == [entite : Entites, pose : Poses]
Slots   == [tick : Nat, etat : Etats, journal : Seq(Entrees), depuis : Nat]

SlotVide == [tick |-> 0, etat |-> "Vide", journal |-> <<>>, depuis |-> 0]

-----------------------------------------------------------------------------
(* Compaction: reverse, stable sort by entity, keep the first of each run.  *)

MutInverser(j) == j    \* mutant: keeps the first writer

Inverser(j) == [i \in DOMAIN j |-> j[Len(j) + 1 - i]]

JournalCompacte(j) == Dedupliquer(TrierParEntite(Inverser(j)))

-----------------------------------------------------------------------------
(* The methods of Slot.                                                     *)

Recycler(t) == [tick |-> t, etat |-> "Ouvert", journal |-> <<>>, depuis |-> 0]

Inscrire(s, e, p) ==
  [s EXCEPT !.journal = Append(@, [entite |-> e, pose |-> p]),
            !.depuis  = @ + 1]

Compacter(s) ==
  [s EXCEPT !.journal = JournalCompacte(@), !.depuis = 0]

-----------------------------------------------------------------------------
(* The closures that ecrire, sceller, lire and vider run on a slot.         *)

MutRecyclable(s, t) == s.etat = "Vide" \/ s.tick # t   \* mutant: or by a newer one

(* The slot holds nothing of tick t yet: free, or held by an older tick.    *)
Recyclable(s, t) == s.etat = "Vide" \/ s.tick < t

(* The slot has gone on to a tick newer than t.                             *)
Depasse(s, t) == s.etat # "Vide" /\ s.tick > t

MutEcritureRefusee(s, t) == ~Recyclable(s, t) /\ s.tick > t   \* mutant: no seal check

EcritureRefusee(s, t) ==
  ~Recyclable(s, t) /\ (s.tick > t \/ s.etat = "Scelle")

(* Mutant: ecrire never compacts.                                           *)
MutSlotEcrit(s, t, e, p) ==
  IF Recyclable(s, t)           THEN Inscrire(Recycler(t), e, p)
  ELSE IF EcritureRefusee(s, t) THEN s
  ELSE Inscrire(s, e, p)

(* Mutant: the journal's length triggers the compaction.                    *)
MutSlotEcritLongueur(s, t, e, p) ==
  IF Recyclable(s, t)           THEN Inscrire(Recycler(t), e, p)
  ELSE IF EcritureRefusee(s, t) THEN s
  ELSE Inscrire(IF Len(s.journal) >= Seuil THEN Compacter(s) ELSE s, e, p)

SlotEcrit(s, t, e, p) ==
  IF Recyclable(s, t)           THEN Inscrire(Recycler(t), e, p)
  ELSE IF EcritureRefusee(s, t) THEN s
  ELSE Inscrire(IF s.depuis >= Seuil THEN Compacter(s) ELSE s, e, p)

(* Mutant: sealing does not compact.                                        *)
MutSlotScelle(s, t) ==
  IF Depasse(s, t) THEN s
  ELSE [(IF Recyclable(s, t) THEN Recycler(t) ELSE s) EXCEPT !.etat = "Scelle"]

(* Mutant: a key never written is not sealed.                               *)
MutSlotScelleVierge(s, t) ==
  IF Recyclable(s, t) THEN Recycler(t)
  ELSE IF Depasse(s, t) THEN s
  ELSE [Compacter(s) EXCEPT !.etat = "Scelle"]

SlotScelle(s, t) ==
  LET ouvert == IF Recyclable(s, t) THEN Recycler(t) ELSE s
  IN  IF Depasse(s, t) \/ ouvert.etat = "Scelle" THEN ouvert
      ELSE [Compacter(ouvert) EXCEPT !.etat = "Scelle"]

MutContenuScelle(s, t) == SlotScelle(s, t).journal    \* mutant: no early return

(* What sceller returns: the sealed journal, nothing once the slot is past. *)
ContenuScelle(s, t) == IF Depasse(s, t) THEN <<>> ELSE SlotScelle(s, t).journal

MutLisibleA(s, t) == s.etat = "Scelle"    \* mutant: whatever the tick

LisibleA(s, t) == s.etat = "Scelle" /\ s.tick = t

(* vider leaves depuis_compaction as it was.                                *)
SlotVidange(s) == [tick |-> 0, etat |-> "Vide", journal |-> <<>>, depuis |-> s.depuis]

-----------------------------------------------------------------------------
(* What a journal means under last-writer-wins, independently of how it is  *)
(* compacted: the reference that the refinement and the compaction runs use.*)

Sans == "sans"     \* no pose for this entity

DernierePose(j) ==
  [e \in Entites |->
     LET I == {i \in DOMAIN j : j[i].entite = e}
     IN  IF I = {} THEN Sans
         ELSE j[CHOOSE i \in I : \A k \in I : k <= i].pose]
=============================================================================
