------------------------------- MODULE Temoin -------------------------------
(***************************************************************************)
(* NaiveRowStore (chronotope-core, naive.rs), the row store the engine is  *)
(* measured against: a table of rows (room, cell, tick, entity) -> pose,   *)
(* an index of the entities of each key, and the set of sealed keys, under *)
(* one mutex.  sceller releases it before it diffuses.                     *)
(***************************************************************************)
EXTENDS Listes, SequencesExt

CONSTANTS
  Entites, Poses,
  Salles, Cellules, Ticks,
  Fils,        \* threads calling the store
  Appels       \* the calls they may make, a subset of Operations

Sans  == "sans"      \* no row
Aucun == [nature |-> "aucun"]

Cles == [salle : Salles, cellule : Cellules, tick : Ticks]

Ecritures   == [nature : {"ecrire"}, cle : Cles, entite : Entites, pose : Poses]
Scellements == [nature : {"sceller"}, cle : Cles]
Lectures    == [nature : {"lire"}, salle : Salles, cellules : Seq(Cellules), tick : Ticks]
Vidages     == [nature : {"vider"}]

ASSUME AppelsAssumption ==
  \A o \in Appels : \/ o \in Ecritures   \/ o \in Scellements
                    \/ o \in Lectures    \/ o \in Vidages
ASSUME OrdreAssumption == Entites \subseteq Nat
ASSUME PosesAssumption == Sans \notin Poses

VARIABLES
  lignes,      \* rows: lignes[k][e] is a pose or Sans
  index,       \* index[k]: the entities that have a row under k
  scelles,     \* sealed keys
  pc,          \* "libre", or "diffuser" between the unlock and the return
  rendu        \* what each thread's last call returned

vars == <<lignes, index, scelles, pc, rendu>>

Init ==
  /\ lignes  = [k \in Cles |-> [e \in Entites |-> Sans]]
  /\ index   = [k \in Cles |-> <<>>]
  /\ scelles = {}
  /\ pc      = [f \in Fils |-> "libre"]
  /\ rendu   = [f \in Fils |-> Aucun]

(* assembler: the rows the index leads to, sorted by entity.                *)
Assembler(k) ==
  LET presents == Extraire(index[k], {i \in DOMAIN index[k] : lignes[k][index[k][i]] # Sans})
  IN  TrierParEntite([i \in DOMAIN presents |->
                        [entite |-> presents[i], pose |-> lignes[k][presents[i]]]])

Rendre(f, r) == rendu' = [rendu EXCEPT ![f] = r]

MutEcrire(f, o) ==     \* mutant: does not look whether the key is sealed
  /\ o \in Ecritures
  /\ pc[f] = "libre"
  /\ lignes' = [lignes EXCEPT ![o.cle][o.entite] = o.pose]
  /\ index'  = IF lignes[o.cle][o.entite] = Sans
               THEN [index EXCEPT ![o.cle] = Append(@, o.entite)] ELSE index
  /\ Rendre(f, [nature |-> "ecrire", cle |-> o.cle, ok |-> TRUE])
  /\ UNCHANGED <<scelles, pc>>

MutEcrireIndex(f, o) ==     \* mutant: indexes the entity at every write
  /\ o \in Ecritures
  /\ pc[f] = "libre"
  /\ o.cle \notin scelles
  /\ lignes' = [lignes EXCEPT ![o.cle][o.entite] = o.pose]
  /\ index'  = [index EXCEPT ![o.cle] =
                  IF Len(@) <= Cardinality(Entites) THEN Append(@, o.entite) ELSE @]
  /\ Rendre(f, [nature |-> "ecrire", cle |-> o.cle, ok |-> TRUE])
  /\ UNCHANGED <<scelles, pc>>

Ecrire(f, o) ==
  /\ o \in Ecritures
  /\ pc[f] = "libre"
  /\ IF o.cle \in scelles
     THEN UNCHANGED <<lignes, index>>
     ELSE /\ lignes' = [lignes EXCEPT ![o.cle][o.entite] = o.pose]
          /\ index'  = IF lignes[o.cle][o.entite] = Sans
                       THEN [index EXCEPT ![o.cle] = Append(@, o.entite)]
                       ELSE index
  /\ Rendre(f, [nature |-> "ecrire", cle |-> o.cle, ok |-> o.cle \notin scelles])
  /\ UNCHANGED <<scelles, pc>>

Sceller(f, o) ==
  /\ o \in Scellements
  /\ pc[f] = "libre"
  /\ scelles' = scelles \cup {o.cle}
  /\ pc'      = [pc EXCEPT ![f] = "diffuser"]
  /\ Rendre(f, [nature |-> "sceller", cle |-> o.cle, contenu |-> Assembler(o.cle)])
  /\ UNCHANGED <<lignes, index>>

Diffuser(f) ==
  /\ pc[f] = "diffuser"
  /\ pc' = [pc EXCEPT ![f] = "libre"]
  /\ Rendre(f, Aucun)
  /\ UNCHANGED <<lignes, index, scelles>>

(* lire: all the cells under one lock.  A cell asked twice comes twice.     *)
Lire(f, o) ==
  LET Lue(c)  == [salle |-> o.salle, cellule |-> c, tick |-> o.tick]
      trouves == Extraire(o.cellules, {i \in DOMAIN o.cellules : Lue(o.cellules[i]) \in scelles})
  IN  /\ o \in Lectures
      /\ pc[f] = "libre"
      /\ Rendre(f, [nature |-> "lire",
                    lus    |-> [i \in DOMAIN trouves |->
                                  [cle     |-> Lue(trouves[i]),
                                   contenu |-> Assembler(Lue(trouves[i]))]]])
      /\ UNCHANGED <<lignes, index, scelles, pc>>

Vider(f, o) ==
  /\ o \in Vidages
  /\ pc[f] = "libre"
  /\ lignes'  = [k \in Cles |-> [e \in Entites |-> Sans]]
  /\ index'   = [k \in Cles |-> <<>>]
  /\ scelles' = {}
  /\ UNCHANGED <<pc, rendu>>

Next ==
  \E f \in Fils :
    \/ \E o \in Appels :
         \/ Ecrire(f, o)
         \/ Sceller(f, o)
         \/ Lire(f, o)
         \/ Vider(f, o)
    \/ Diffuser(f)

Spec == Init /\ [][Next]_vars
-----------------------------------------------------------------------------

(* The index of a key names each entity that has a row under it, once: what *)
(* assembler takes for granted when it builds a chronotope from the index   *)
(* alone (naive.rs:16-20, 62-77, 102-106).                                  *)
IndexFidele ==
  \A k \in Cles :
    /\ IsInjective(index[k])
    /\ Range(index[k]) = {e \in Entites : lignes[k][e] # Sans}
-----------------------------------------------------------------------------

Contenu(j) ==
  [e \in Entites |-> LET I == {i \in DOMAIN j : j[i].entite = e}
                     IN  IF I = {} THEN Sans ELSE j[CHOOSE i \in I : TRUE].pose]

Registre(k) ==
  [etat    |-> IF k \in scelles THEN "Scelle"
               ELSE IF index[k] = <<>> THEN "Vierge" ELSE "Ouvert",
   contenu |-> lignes[k]]

Registres == [k \in Cles |-> Registre(k)]

Reponse(r) ==
  IF r.nature = "sceller"
  THEN [nature |-> "sceller", cle |-> r.cle, contenu |-> Contenu(r.contenu)]
  ELSE IF r.nature = "lire"
  THEN [nature |-> "lire",
        lus    |-> {[cle |-> r.lus[i].cle, contenu |-> Contenu(r.lus[i].contenu)] :
                      i \in DOMAIN r.lus}]
  ELSE r

Reponses == [f \in Fils |-> Reponse(rendu[f])]

(* This store expires nothing: a retention beyond every tick.               *)
Horizon == 1 + CHOOSE m \in Ticks : \A t \in Ticks : t <= m

Contrat == INSTANCE Contrat WITH
             Retention <- Horizon, registre <- Registres, reponse <- Reponses

(* The row store keeps the contract of store.rs:19-46 with no expiry: the   *)
(* same abstract store as the engine's, so that the comparison of the two   *)
(* compares like with like (naive.rs:9-13).                                 *)
RespecteContrat == Contrat!Spec
=============================================================================
