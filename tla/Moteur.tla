------------------------------- MODULE Moteur -------------------------------
(***************************************************************************)
(* ChronotopeEngine (chronotope-core, engine.rs): rooms of cells, each     *)
(* cell a ring of Anneau slots addressed by tick % Anneau, shared by the   *)
(* threads that call the ChronotopeStore trait.                            *)
(*                                                                         *)
(* Locks and atomicity.  avec_slot and avec_slot_existant run their        *)
(* closure under the read lock of the room table and the mutex of one      *)
(* cell: that is one step here.  Everything between two such sections is a *)
(* point where other threads run: between finding no room and creating it, *)
(* between creating it and retrying, between sealing a slot and handing    *)
(* the chronotope to the observers, between two cells of a lire, between   *)
(* two cells of a vider (which holds the room table's read lock all        *)
(* along, so no room is created meanwhile).                                *)
(***************************************************************************)
EXTENDS Slot

CONSTANTS
  Salles,      \* rooms
  Cellules,    \* cells of a room: 0 .. cellules - 1
  Anneau,      \* slots in a cell's ring
  Ticks,       \* ticks callers name
  Fils,        \* threads calling the engine
  Appels       \* the calls they may make, a subset of Operations

ASSUME AnneauAssumption   == Anneau \in Nat \ {0}
ASSUME TicksAssumption    == Ticks \subseteq Nat
ASSUME CellulesAssumption == Cellules \subseteq Nat /\ Salles \subseteq Nat

Ecritures   == [nature : {"ecrire"}, salle : Salles, cellule : Cellules,
                tick : Ticks, entite : Entites, pose : Poses]
Scellements == [nature : {"sceller"}, salle : Salles, cellule : Cellules,
                tick : Ticks]
Lectures    == [nature : {"lire"}, salle : Salles, cellules : Seq(Cellules),
                tick : Ticks]
Vidages     == [nature : {"vider"}]

ASSUME AppelsAssumption ==
  \A o \in Appels : \/ o \in Ecritures   \/ o \in Scellements
                    \/ o \in Lectures    \/ o \in Vidages

Positions == Salles \X Cellules
Indices   == 0 .. Anneau - 1
Cles      == [salle : Salles, cellule : Cellules, tick : Ticks]

Cle(o) == [salle |-> o.salle, cellule |-> o.cellule, tick |-> o.tick]

Aucun == [nature |-> "aucun"]     \* no call pending, nothing to return

VARIABLES
  salles,      \* rooms allocated in the table
  anneaux,     \* cells <<room, cell>> whose ring is allocated
  slots,       \* slots[<<room, cell>>][index]
  pc,          \* where each thread is in its call
  appel,       \* the call it is in, Aucun when it is in none
  aLire,       \* the cells a lire has still to visit, in order
  aVider,      \* the <<room, cell>> a vider has still to visit
  rendu        \* what its last call returned, or is about to return

memoire == <<salles, anneaux, slots>>
locales == <<pc, appel, aLire, aVider, rendu>>
vars    == <<salles, anneaux, slots, pc, appel, aLire, aVider, rendu>>

Pcs == {"libre", "creer", "reprendre", "diffuser", "lire", "vider"}

NouvelAnneau == [i \in Indices |-> SlotVide]

(* The ring a caller finds in a cell: allocated on the spot if there is none. *)
Ring(r, c) == IF <<r, c>> \in anneaux THEN slots[<<r, c>>] ELSE NouvelAnneau

(* coordonnees: the slot of a tick is found by arithmetic alone.            *)
Indice(t) == t % Anneau

SlotDe(k) == Ring(k.salle, k.cellule)[Indice(k.tick)]

Init ==
  /\ salles  = {}
  /\ anneaux = {}
  /\ slots   = [rc \in Positions |-> NouvelAnneau]
  /\ pc      = [f \in Fils |-> "libre"]
  /\ appel   = [f \in Fils |-> Aucun]
  /\ aLire   = [f \in Fils |-> <<>>]
  /\ aVider  = [f \in Fils |-> {}]
  /\ rendu   = [f \in Fils |-> Aucun]

-----------------------------------------------------------------------------
(* avec_slot                                                                *)

(* Thread f is at the top of avec_slot's loop for call o: it makes the call *)
(* now, or comes back from creating the room.                               *)
Tente(f, o) ==
  \/ pc[f] = "libre"
  \/ pc[f] = "reprendre" /\ appel[f] = o

(* The room exists: get or allocate the ring, then replace the slot.        *)
AvecSlot(k, s) ==
  /\ k.salle \in salles
  /\ anneaux' = anneaux \cup {<<k.salle, k.cellule>>}
  /\ slots'   = [slots EXCEPT ![<<k.salle, k.cellule>>] =
                   [Ring(k.salle, k.cellule) EXCEPT ![Indice(k.tick)] = s]]
  /\ UNCHANGED salles

(* It does not: release the table and go and create it.                     *)
SalleAbsente(f, o) ==
  /\ o \in Ecritures \cup Scellements
  /\ Tente(f, o)
  /\ o.salle \notin salles
  /\ pc'    = [pc EXCEPT ![f] = "creer"]
  /\ appel' = [appel EXCEPT ![f] = o]
  /\ rendu' = [rendu EXCEPT ![f] = Aucun]
  /\ UNCHANGED <<memoire, aLire, aVider>>

(* Mutant: the table is resized and the room forgotten.                      *)
MutCreerSalle(f) ==
  /\ pc[f] = "creer"
  /\ pc' = [pc EXCEPT ![f] = "reprendre"]
  /\ UNCHANGED <<memoire, appel, aLire, aVider, rendu>>

(* creer_salle takes the write lock, which a vider in progress excludes, and *)
(* looks again: another thread may have created the room in between.         *)
CreerSalle(f) ==
  /\ pc[f] = "creer"
  /\ \A g \in Fils : pc[g] # "vider"
  /\ LET r == appel[f].salle
     IN  IF r \in salles
         THEN UNCHANGED memoire
         ELSE /\ salles'  = salles \cup {r}
              /\ anneaux' = anneaux \ ({r} \X Cellules)
              /\ UNCHANGED slots
  /\ pc' = [pc EXCEPT ![f] = "reprendre"]
  /\ UNCHANGED <<appel, aLire, aVider, rendu>>

-----------------------------------------------------------------------------
(* ecrire *)

Ecrire(f, o) ==
  /\ o \in Ecritures
  /\ Tente(f, o)
  /\ AvecSlot(Cle(o), SlotEcrit(SlotDe(Cle(o)), o.tick, o.entite, o.pose))
  /\ pc'    = [pc EXCEPT ![f] = "libre"]
  /\ appel' = [appel EXCEPT ![f] = Aucun]
  /\ rendu' = [rendu EXCEPT ![f] =
                 [nature |-> "ecrire", cle |-> Cle(o),
                  ok |-> ~EcritureRefusee(SlotDe(Cle(o)), o.tick)]]
  /\ UNCHANGED <<aLire, aVider>>

-----------------------------------------------------------------------------
(* sceller: seal the slot under its mutex, then diffuse without it.         *)

Sceller(f, o) ==
  /\ o \in Scellements
  /\ Tente(f, o)
  /\ AvecSlot(Cle(o), SlotScelle(SlotDe(Cle(o)), o.tick))
  /\ pc'    = [pc EXCEPT ![f] = "diffuser"]
  /\ appel' = [appel EXCEPT ![f] = o]
  /\ rendu' = [rendu EXCEPT ![f] =
                 [nature |-> "sceller", cle |-> Cle(o),
                  contenu |-> ContenuScelle(SlotDe(Cle(o)), o.tick)]]
  /\ UNCHANGED <<aLire, aVider>>

(* The chronotope goes to the Diffuseur (Diffuseur.tla), whatever it holds  *)
(* and however many times it was sealed; the caller gets it back.           *)
Diffuser(f) ==
  /\ pc[f] = "diffuser"
  /\ pc'    = [pc EXCEPT ![f] = "libre"]
  /\ appel' = [appel EXCEPT ![f] = Aucun]
  /\ rendu' = [rendu EXCEPT ![f] = Aucun]
  /\ UNCHANGED <<memoire, aLire, aVider>>

-----------------------------------------------------------------------------
(* lire: one cell after the other, each under its own mutex.                *)

CommencerLire(f, o) ==
  /\ o \in Lectures
  /\ pc[f] = "libre"
  /\ pc'    = [pc EXCEPT ![f] = "lire"]
  /\ appel' = [appel EXCEPT ![f] = o]
  /\ aLire' = [aLire EXCEPT ![f] = o.cellules]
  /\ rendu' = [rendu EXCEPT ![f] = [nature |-> "lire", lus |-> <<>>]]
  /\ UNCHANGED <<memoire, aVider>>

(* avec_slot_existant allocates nothing: the room and the ring must be there. *)
SlotAlloue(k) == k.salle \in salles /\ <<k.salle, k.cellule>> \in anneaux

(* A cell of an unknown room, without a ring, not sealed or holding another *)
(* tick is left out of the result.                                          *)
LireCellule(f) ==
  /\ pc[f] = "lire"
  /\ aLire[f] # <<>>
  /\ LET k == [salle   |-> appel[f].salle, cellule |-> Head(aLire[f]),
               tick    |-> appel[f].tick]
     IN  IF SlotAlloue(k) /\ LisibleA(SlotDe(k), k.tick)
         THEN rendu' = [rendu EXCEPT ![f] =
                [nature |-> "lire",
                 lus    |-> Append(rendu[f].lus,
                                   [cle |-> k, contenu |-> SlotDe(k).journal])]]
         ELSE UNCHANGED rendu
  /\ aLire' = [aLire EXCEPT ![f] = Tail(@)]
  /\ UNCHANGED <<memoire, pc, appel, aVider>>

FinirLire(f) ==
  /\ pc[f] = "lire"
  /\ aLire[f] = <<>>
  /\ pc'    = [pc EXCEPT ![f] = "libre"]
  /\ appel' = [appel EXCEPT ![f] = Aucun]
  /\ rendu' = [rendu EXCEPT ![f] = Aucun]
  /\ UNCHANGED <<memoire, aLire, aVider>>

-----------------------------------------------------------------------------
(* vider: every allocated ring in turn, under the room table's read lock.   *)

(* Mutant: goes through rooms that are not allocated.                       *)
MutCommencerVider(f, o) ==
  /\ o \in Vidages
  /\ pc[f] = "libre"
  /\ pc'     = [pc EXCEPT ![f] = "vider"]
  /\ appel'  = [appel EXCEPT ![f] = o]
  /\ aVider' = [aVider EXCEPT ![f] = Positions]
  /\ rendu'  = [rendu EXCEPT ![f] = Aucun]
  /\ UNCHANGED <<memoire, aLire>>

CommencerVider(f, o) ==
  /\ o \in Vidages
  /\ pc[f] = "libre"
  /\ pc'     = [pc EXCEPT ![f] = "vider"]
  /\ appel'  = [appel EXCEPT ![f] = o]
  /\ aVider' = [aVider EXCEPT ![f] = salles \X Cellules]
  /\ rendu'  = [rendu EXCEPT ![f] = Aucun]
  /\ UNCHANGED <<memoire, aLire>>

Precede(a, b) == a[1] < b[1] \/ (a[1] = b[1] /\ a[2] <= b[2])

ViderCellule(f) ==
  /\ pc[f] = "vider"
  /\ \E rc \in aVider[f] :
       /\ \A autre \in aVider[f] : Precede(rc, autre)
       /\ slots' = IF rc \in anneaux
                   THEN [slots EXCEPT ![rc] =
                           [i \in Indices |-> SlotVidange(slots[rc][i])]]
                   ELSE slots
       /\ aVider' = [aVider EXCEPT ![f] = @ \ {rc}]
  /\ UNCHANGED <<salles, anneaux, pc, appel, aLire, rendu>>

FinirVider(f) ==
  /\ pc[f] = "vider"
  /\ aVider[f] = {}
  /\ pc'    = [pc EXCEPT ![f] = "libre"]
  /\ appel' = [appel EXCEPT ![f] = Aucun]
  /\ UNCHANGED <<memoire, aLire, aVider, rendu>>

-----------------------------------------------------------------------------

(* The next step of a thread that is inside a call. *)
Poursuivre(f) ==
  \/ /\ pc[f] = "reprendre"
     /\ \E o \in Appels : SalleAbsente(f, o) \/ Ecrire(f, o) \/ Sceller(f, o)
  \/ CreerSalle(f)
  \/ Diffuser(f)
  \/ LireCellule(f) \/ FinirLire(f)
  \/ ViderCellule(f) \/ FinirVider(f)

Next ==
  \E f \in Fils :
    \/ \E o \in Appels :
         \/ SalleAbsente(f, o)
         \/ Ecrire(f, o)
         \/ Sceller(f, o)
         \/ CommencerLire(f, o)
         \/ CommencerVider(f, o)
    \/ CreerSalle(f)
    \/ Diffuser(f)
    \/ LireCellule(f)
    \/ FinirLire(f)
    \/ ViderCellule(f)
    \/ FinirVider(f)

(* A thread inside a call keeps running.  parking_lot queues a writer that  *)
(* waits for the room table ahead of later readers, so a vider repeated     *)
(* for ever cannot starve it: strong fairness for CreerSalle.               *)
Fairness == \A f \in Fils : WF_vars(Poursuivre(f)) /\ SF_vars(CreerSalle(f))

Spec     == Init /\ [][Next]_vars
FairSpec == Spec /\ Fairness
-----------------------------------------------------------------------------

Rendus ==
  {Aucun}
  \cup [nature : {"ecrire"}, cle : Cles, ok : BOOLEAN]
  \cup [nature : {"sceller"}, cle : Cles, contenu : Seq(Entrees)]
  \cup [nature : {"lire"}, lus : Seq([cle : Cles, contenu : Seq(Entrees)])]

(* Type invariant.  Its last part ties each thread's call to where it is:   *)
(* what the body of avec_slot, of lire and of vider assumes of its caller.  *)
TypeOK ==
  /\ salles  \in SUBSET Salles
  /\ anneaux \in SUBSET (salles \X Cellules)
  /\ slots   \in [Positions -> [Indices -> Slots]]
  /\ pc      \in [Fils -> Pcs]
  /\ appel   \in [Fils -> Appels \cup {Aucun}]
  /\ aLire   \in [Fils -> Seq(Cellules)]
  /\ aVider  \in [Fils -> SUBSET (salles \X Cellules)]
  /\ rendu   \in [Fils -> Rendus]
  /\ \A f \in Fils :
       /\ pc[f] \in {"creer", "reprendre"} => appel[f] \in Ecritures \cup Scellements
       /\ pc[f] = "diffuser" => appel[f] \in Scellements
       /\ pc[f] = "lire" => appel[f] \in Lectures /\ rendu[f].nature = "lire"
       /\ pc[f] # "vider" => aVider[f] = {}

(* Every call returns (engine.rs:222-243, 176-190): avec_slot's loop goes   *)
(* round once at most although rooms are created by other threads, and a    *)
(* creation that waits for a vider to release the room table gets it.       *)
AppelTermine == \A f \in Fils : pc[f] # "libre" ~> pc[f] = "libre"
=============================================================================
