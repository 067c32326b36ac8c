------------------------------ MODULE Contrat -------------------------------
(***************************************************************************)
(* What ChronotopeStore promises (chronotope-core, store.rs), with a       *)
(* bounded retention: an abstract register per (room, cell, tick), written *)
(* last-writer-wins until it is sealed, immutable afterwards, and which a  *)
(* store may drop only once the same cell has been used at a tick at least *)
(* Retention later.  Every call is atomic; a lire is a succession of       *)
(* atomic looks.  Moteur and Temoin are shown to implement it.             *)
(***************************************************************************)
EXTENDS Naturals

CONSTANTS
  Salles, Cellules, Ticks, Entites, Poses,
  Fils,        \* threads calling the store
  Retention,   \* ticks a register outlives the use of a later one
  Sans         \* no pose for an entity

Cles == [salle : Salles, cellule : Cellules, tick : Ticks]

Rien    == [e \in Entites |-> Sans]
Aucun   == [nature |-> "aucun"]
Vierge  == [etat |-> "Vierge", contenu |-> Rien]
Expiree == [etat |-> "Expire", contenu |-> Rien]

VARIABLES
  registre,    \* registre[k]: state and content of each chronotope
  reponse      \* last answer each thread was given

vars == <<registre, reponse>>

Init ==
  /\ registre = [k \in Cles |-> Vierge]
  /\ reponse  = [f \in Fils |-> Aucun]

Repondre(f, r) == reponse' = [reponse EXCEPT ![f] = r]

(* Using k may cost the registers of the same cell that are old enough.     *)
Perimables(k) ==
  {a \in Cles : /\ a.salle = k.salle /\ a.cellule = k.cellule
                /\ a.tick + Retention <= k.tick}

Utiliser(k, nouveau) ==
  \E perdus \in SUBSET Perimables(k) :
    registre' = [a \in Cles |-> IF a = k THEN nouveau
                                ELSE IF a \in perdus THEN Expiree
                                ELSE registre[a]]

Accepter(f, k, e, p) ==
  /\ registre[k].etat \in {"Vierge", "Ouvert"}
  /\ Repondre(f, [nature |-> "ecrire", cle |-> k, ok |-> TRUE])
  /\ Utiliser(k, [etat    |-> "Ouvert",
                  contenu |-> [registre[k].contenu EXCEPT ![e] = p]])

Refuser(f, k) ==
  /\ registre[k].etat \in {"Scelle", "Expire"}
  /\ Repondre(f, [nature |-> "ecrire", cle |-> k, ok |-> FALSE])
  /\ UNCHANGED registre

Sceller(f, k) ==
  /\ Repondre(f, [nature  |-> "sceller", cle |-> k,
                  contenu |-> registre[k].contenu])
  /\ IF registre[k].etat = "Expire"
     THEN UNCHANGED registre
     ELSE Utiliser(k, [registre[k] EXCEPT !.etat = "Scelle"])

(* One look of a lire at some cells: what is sealed there joins what the    *)
(* earlier looks of the same call found.                                    *)
Regarder(f, K) ==
  \E debut \in {{}, IF reponse[f].nature = "lire" THEN reponse[f].lus ELSE {}} :
    /\ Repondre(f, [nature |-> "lire",
                    lus    |-> debut \cup
                       {[cle |-> k, contenu |-> registre[k].contenu] :
                          k \in {c \in K : registre[c].etat = "Scelle"}}])
    /\ UNCHANGED registre

Oublier(f) == Repondre(f, Aucun) /\ UNCHANGED registre

(* Some cells are emptied at once: one at a time by the engine, all of them *)
(* by the row store.                                                        *)
Vider(C) ==
  /\ registre' = [k \in Cles |-> IF <<k.salle, k.cellule>> \in C
                                 THEN Vierge ELSE registre[k]]
  /\ UNCHANGED reponse

Next ==
  \/ \E f \in Fils :
       \/ \E k \in Cles :
            \/ \E e \in Entites, p \in Poses : Accepter(f, k, e, p)
            \/ Refuser(f, k)
            \/ Sceller(f, k)
       \/ \E r \in Salles, C \in SUBSET Cellules, t \in Ticks :
            Regarder(f, [salle : {r}, cellule : C, tick : {t}])
       \/ Oublier(f)
  \/ \E C \in SUBSET (Salles \X Cellules) : Vider(C)

Spec == Init /\ [][Next]_vars
=============================================================================
