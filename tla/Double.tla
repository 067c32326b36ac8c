------------------------------- MODULE Double -------------------------------
(***************************************************************************)
(* StoreMemoire (chronotope-sim, double.rs): the store the harness's own   *)
(* tests run on.  Open and sealed chronotopes are kept apart, and          *)
(* everything, pushing to the observers included, happens under one mutex: *)
(* every call is one step.  Unlike the Diffuseur it never pushes a key     *)
(* twice, and never purges a subscription.                                 *)
(***************************************************************************)
EXTENDS Listes, SequencesExt

CONSTANTS
  Entites, Poses, Salles, Cellules, Ticks,
  Fils,            \* threads calling the store
  Observateurs,    \* receivers, each the result of one observer
  Capacite         \* of an observer's channel

Aucun == [nature |-> "aucun"]
Cles  == [salle : Salles, cellule : Cellules, tick : Ticks]

VARIABLES
  ouverts,     \* ouverts[k]: entries of an open chronotope, sorted by entity
  clos,        \* clos[k]: {} or {entries} once sealed
  abonnes,     \* subscriptions, in the order they were made
  canal,       \* canal[o]: chronotopes waiting in o's channel
  rendu        \* what each thread's last call returned

vars == <<ouverts, clos, abonnes, canal, rendu>>

Init ==
  /\ ouverts = [k \in Cles |-> <<>>]
  /\ clos    = [k \in Cles |-> {}]
  /\ abonnes = <<>>
  /\ canal   = [o \in Observateurs |-> <<>>]
  /\ rendu   = [f \in Fils |-> Aucun]

Rendre(f, r) == rendu' = [rendu EXCEPT ![f] = r]

(* Mutant: inserts without looking for the entity.                          *)
MutInserer(j, e, p) ==
  InsertAt(j, 1 + Cardinality({i \in DOMAIN j : j[i].entite < e}),
           [entite |-> e, pose |-> p])

(* binary_search_by_key, then update in place or insert.                    *)
Inserer(j, e, p) ==
  LET avant  == {i \in DOMAIN j : j[i].entite < e}
      entree == [entite |-> e, pose |-> p]
  IN  IF \E i \in DOMAIN j : j[i].entite = e
      THEN [j EXCEPT ![Cardinality(avant) + 1] = entree]
      ELSE InsertAt(j, Cardinality(avant) + 1, entree)

Ecrire(f, k, e, p) ==
  /\ ouverts' = IF clos[k] = {} THEN [ouverts EXCEPT ![k] = Inserer(@, e, p)]
                ELSE ouverts
  /\ Rendre(f, [nature |-> "ecrire", cle |-> k, ok |-> clos[k] = {}])
  /\ UNCHANGED <<clos, abonnes, canal>>

(* Whoever subscribed to the cell is sent the chronotope; try_send's        *)
(* failure, a full channel, is ignored.                                     *)
Pousser(c) ==
  canal' = [o \in Observateurs |->
              IF /\ \E i \in DOMAIN abonnes :
                      /\ abonnes[i].observateur = o
                      /\ abonnes[i].salle = c.cle.salle
                      /\ c.cle.cellule \in abonnes[i].cellules
                 /\ Len(canal[o]) < Capacite
              THEN Append(canal[o], c) ELSE canal[o]]

MutSceller(f, k) ==     \* mutant: no early return, pushes at each call
  /\ LET contenu == IF clos[k] = {} THEN ouverts[k] ELSE CHOOSE j \in clos[k] : TRUE
     IN  /\ ouverts' = [ouverts EXCEPT ![k] = <<>>]
         /\ clos'    = [clos EXCEPT ![k] = {contenu}]
         /\ Pousser([cle |-> k, contenu |-> contenu])
         /\ Rendre(f, [nature |-> "sceller", cle |-> k, contenu |-> contenu])
  /\ UNCHANGED abonnes

(* A key already sealed is returned as it is, and pushed to nobody.         *)
Sceller(f, k) ==
  \/ /\ clos[k] = {}
     /\ ouverts' = [ouverts EXCEPT ![k] = <<>>]
     /\ clos'    = [clos EXCEPT ![k] = {ouverts[k]}]
     /\ Pousser([cle |-> k, contenu |-> ouverts[k]])
     /\ Rendre(f, [nature |-> "sceller", cle |-> k, contenu |-> ouverts[k]])
     /\ UNCHANGED abonnes
  \/ /\ \E j \in clos[k] : Rendre(f, [nature |-> "sceller", cle |-> k, contenu |-> j])
     /\ UNCHANGED <<ouverts, clos, abonnes, canal>>

(* The cells asked that are sealed, in the order asked.                     *)
Lire(f, r, cellules, t) ==
  LET Cle(c)  == [salle |-> r, cellule |-> c, tick |-> t]
      trouves == Extraire(cellules, {i \in DOMAIN cellules : clos[Cle(cellules[i])] # {}})
  IN  /\ Rendre(f, [nature |-> "lire",
                    lus |-> [i \in DOMAIN trouves |->
                               [cle     |-> Cle(trouves[i]),
                                contenu |-> CHOOSE j \in clos[Cle(trouves[i])] : TRUE]]])
      /\ UNCHANGED <<ouverts, clos, abonnes, canal>>

Observer(o, r, C) ==
  /\ \A i \in DOMAIN abonnes : abonnes[i].observateur # o
  /\ abonnes' = Append(abonnes, [observateur |-> o, salle |-> r, cellules |-> C])
  /\ UNCHANGED <<ouverts, clos, canal, rendu>>

Recevoir(o) ==
  /\ canal[o] # <<>>
  /\ canal' = [canal EXCEPT ![o] = Tail(@)]
  /\ UNCHANGED <<ouverts, clos, abonnes, rendu>>

(* StoreMemoire::new: the store is replaced by another one.                 *)
Neuf ==
  /\ ouverts' = [k \in Cles |-> <<>>]
  /\ clos'    = [k \in Cles |-> {}]
  /\ abonnes' = <<>>
  /\ canal'   = [o \in Observateurs |-> <<>>]
  /\ UNCHANGED rendu

(* scelles: every sealed chronotope of the store.                           *)
ToutScelle ==
  UNION {{[cle |-> k, contenu |-> j] : j \in clos[k]} : k \in Cles}
=============================================================================
