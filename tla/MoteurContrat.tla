--------------------------- MODULE MoteurContrat ----------------------------
(***************************************************************************)
(* The engine implements the contract of Contrat.tla with a retention of   *)
(* Anneau ticks.  The abstract register of a key is read off the one slot  *)
(* the key is addressed to.                                                *)
(***************************************************************************)
EXTENDS Moteur

(* So that a journal of one entry per entity is a bounded one.              *)
ASSUME EntitesFinies == IsFiniteSet(Entites)

RegistreDe(s, t) ==
  IF Recyclable(s, t)    THEN [etat |-> "Vierge", contenu |-> DernierePose(<<>>)]
  ELSE IF Depasse(s, t)  THEN [etat |-> "Expire", contenu |-> DernierePose(<<>>)]
  ELSE [etat |-> s.etat, contenu |-> DernierePose(s.journal)]

Registres == [k \in Cles |-> RegistreDe(SlotDe(k), k.tick)]

(* A returned journal counts for the poses it gives each entity.            *)
Reponse(r) ==
  IF r.nature = "sceller"
  THEN [nature |-> "sceller", cle |-> r.cle, contenu |-> DernierePose(r.contenu)]
  ELSE IF r.nature = "lire"
  THEN [nature |-> "lire",
        lus    |-> {[cle |-> r.lus[i].cle, contenu |-> DernierePose(r.lus[i].contenu)] :
                      i \in DOMAIN r.lus}]
  ELSE r

Reponses == [f \in Fils |-> Reponse(rendu[f])]

Contrat == INSTANCE Contrat WITH
             Retention <- Anneau, registre <- Registres, reponse <- Reponses

(* The engine keeps the store contract (store.rs:19-46, engine.rs:24-30):   *)
(* through recycling, threshold compaction, sealing, room creation races    *)
(* and cell-by-cell reads, every answer and every change is one an atomic   *)
(* last-writer-wins register per key could give, and an acknowledged write  *)
(* or a seal is lost only once its cell was used Anneau ticks later.        *)
RespecteContrat == Contrat!Spec

(* A journal is bounded by the entities present and the entries pushed      *)
(* since its last compaction (engine.rs:67-75): threshold compaction keeps  *)
(* memory bounded however often the same entities are rewritten.            *)
JournalBorne ==
  \A rc \in Positions, i \in Indices :
    Len(slots[rc][i].journal) <= Cardinality(Entites) + Seuil
=============================================================================
