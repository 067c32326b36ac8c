----------------------------- MODULE Diffuseur ------------------------------
(***************************************************************************)
(* Diffuseur (chronotope-core, diffusion.rs): the observers of a store.    *)
(* Sealing threads push their chronotope to every matching subscription    *)
(* under the list's read lock, several at a time; a subscription is added  *)
(* and dead ones are purged under its write lock; receivers drain and drop *)
(* their channel without any lock.  A diffuser that finds the counter of   *)
(* subscriptions at 0 does not take the lock at all.                       *)
(*                                                                         *)
(* A chronotope is known by who pushes it and when: its content does not   *)
(* matter here.                                                            *)
(***************************************************************************)
EXTENDS Listes, SequencesExt

CONSTANTS
  Salles, Cellules,
  Fils,            \* threads that seal
  Observateurs,    \* receivers, each the result of one abonner
  Demandes,        \* what they may ask for: a room and a set of its cells
  Capacite,        \* CAPACITE_CANAL
  MaxEnvois        \* bound: calls to diffuser by one thread

ASSUME DemandesAssumption ==
  Demandes \subseteq [salle : Salles, cellules : SUBSET Cellules]
ASSUME CapaciteAssumption == Capacite \in Nat \ {0}
ASSUME MaxEnvoisAssumption == MaxEnvois \in Nat

Sceaux == [fil : Fils, numero : 1..MaxEnvois, salle : Salles, cellule : Cellules]

Aucune == [salle |-> "aucune"]     \* no chronotope, no subscription

VARIABLES
  abonnes,      \* the list: observers in the order they subscribed
  actifs,       \* the atomic counter read before taking the lock
  demande,      \* what each observer subscribed to
  recepteur,    \* its receiver: "absent", "ouvert" or "ferme"
  canal,        \* its channel
  morts,        \* subscriptions marked dead
  pc, sceau,    \* where each thread is in diffuser, and with which chronotope
  rang,         \* the subscription it looks at
  aPurger,      \* it met a closed receiver
  envois        \* calls made so far

liste   == <<abonnes, actifs, demande>>
canaux  == <<recepteur, canal>>
locales == <<pc, sceau, rang, aPurger, envois>>
vars    == <<abonnes, actifs, demande, recepteur, canal, morts,
             pc, sceau, rang, aPurger, envois>>

Pcs == {"libre", "charger", "verrouiller", "parcourir", "purger"}

(* No thread holds the read lock. *)
SansLecteur == \A f \in Fils : pc[f] # "parcourir"

(* Where the list names a subscription that is not marked dead.             *)
Vivants == {i \in DOMAIN abonnes : abonnes[i] \notin morts}

Concerne(o, c) == demande[o].salle = c.salle /\ c.cellule \in demande[o].cellules

Init ==
  /\ abonnes   = <<>>
  /\ actifs    = 0
  /\ demande   = [o \in Observateurs |-> Aucune]
  /\ recepteur = [o \in Observateurs |-> "absent"]
  /\ canal     = [o \in Observateurs |-> <<>>]
  /\ morts     = {}
  /\ pc        = [f \in Fils |-> "libre"]
  /\ sceau     = [f \in Fils |-> Aucune]
  /\ rang      = [f \in Fils |-> 0]
  /\ aPurger   = [f \in Fils |-> FALSE]
  /\ envois    = [f \in Fils |-> 0]

-----------------------------------------------------------------------------
(* Observers *)

(* abonner: the push and the counter change under the write lock.           *)
Abonner(o, d) ==
  /\ recepteur[o] = "absent"
  /\ SansLecteur
  /\ demande'   = [demande EXCEPT ![o] = d]
  /\ abonnes'   = Append(abonnes, o)
  /\ actifs'    = Len(abonnes')
  /\ recepteur' = [recepteur EXCEPT ![o] = "ouvert"]
  /\ UNCHANGED <<canal, morts, locales>>

Recevoir(o) ==
  /\ recepteur[o] = "ouvert"
  /\ canal[o] # <<>>
  /\ canal' = [canal EXCEPT ![o] = Tail(@)]
  /\ UNCHANGED <<liste, recepteur, morts, locales>>

Fermer(o) ==
  /\ recepteur[o] = "ouvert"
  /\ recepteur' = [recepteur EXCEPT ![o] = "ferme"]
  /\ canal'     = [canal EXCEPT ![o] = <<>>]
  /\ UNCHANGED <<liste, morts, locales>>

-----------------------------------------------------------------------------
(* diffuser *)

Diffuser(f, r, c) ==
  /\ pc[f] = "libre"
  /\ envois[f] < MaxEnvois
  /\ envois' = [envois EXCEPT ![f] = @ + 1]
  /\ sceau'  = [sceau EXCEPT ![f] = [fil |-> f, numero |-> envois[f] + 1,
                                     salle |-> r, cellule |-> c]]
  /\ pc'     = [pc EXCEPT ![f] = "charger"]
  /\ UNCHANGED <<liste, canaux, morts, rang, aPurger>>

(* diffuser returns: its locals are gone. *)
Rendre(f) ==
  /\ pc'      = [pc EXCEPT ![f] = "libre"]
  /\ sceau'   = [sceau EXCEPT ![f] = Aucune]
  /\ rang'    = [rang EXCEPT ![f] = 0]
  /\ aPurger' = [aPurger EXCEPT ![f] = FALSE]
  /\ UNCHANGED envois

(* Nobody subscribed: return without the lock. *)
Charger(f) ==
  /\ pc[f] = "charger"
  /\ IF actifs = 0
     THEN Rendre(f)
     ELSE /\ pc' = [pc EXCEPT ![f] = "verrouiller"]
          /\ UNCHANGED <<sceau, rang, aPurger, envois>>
  /\ UNCHANGED <<liste, canaux, morts>>

Verrouiller(f) ==
  /\ pc[f] = "verrouiller"
  /\ pc'   = [pc EXCEPT ![f] = "parcourir"]
  /\ rang' = [rang EXCEPT ![f] = 1]
  /\ UNCHANGED <<liste, canaux, morts, sceau, aPurger, envois>>

(* Mutant: a full channel is taken for a closed one.                        *)
MutEssayer(f) ==
  /\ pc[f] = "parcourir"
  /\ rang[f] <= Len(abonnes)
  /\ LET o == abonnes[rang[f]]
         vise == o \notin morts /\ Concerne(o, sceau[f])
         plein == recepteur[o] = "ferme" \/ Len(canal[o]) >= Capacite
     IN  /\ canal'   = IF vise /\ ~plein
                       THEN [canal EXCEPT ![o] = Append(@, sceau[f])] ELSE canal
         /\ morts'   = IF vise /\ plein THEN morts \cup {o} ELSE morts
         /\ aPurger' = [aPurger EXCEPT ![f] = @ \/ (vise /\ plein)]
  /\ rang' = [rang EXCEPT ![f] = @ + 1]
  /\ UNCHANGED <<liste, recepteur, pc, sceau, envois>>

(* Mutant: send instead of try_send, which waits for room in the channel.    *)
MutEssayerAttend(f) ==
  /\ pc[f] = "parcourir"
  /\ rang[f] <= Len(abonnes)
  /\ rang' = [rang EXCEPT ![f] = @ + 1]
  /\ LET o == abonnes[rang[f]]
         vise == o \notin morts /\ Concerne(o, sceau[f])
         ferme == recepteur[o] = "ferme"
     IN  /\ vise /\ ~ferme => Len(canal[o]) < Capacite
         /\ canal'   = IF vise /\ ~ferme
                       THEN [canal EXCEPT ![o] = Append(@, sceau[f])] ELSE canal
         /\ morts'   = IF vise /\ ferme THEN morts \cup {o} ELSE morts
         /\ aPurger' = [aPurger EXCEPT ![f] = @ \/ (vise /\ ferme)]
  /\ UNCHANGED <<liste, recepteur, pc, sceau, envois>>

(* One subscription: skipped, sent to, full, or found closed.  The loop     *)
(* goes on to the next one whatever happened.                               *)
Essayer(f) ==
  /\ pc[f] = "parcourir"
  /\ rang[f] <= Len(abonnes)
  /\ rang' = [rang EXCEPT ![f] = @ + 1]
  /\ LET o == abonnes[rang[f]]
     IN  \/ /\ o \in morts \/ ~Concerne(o, sceau[f])
            /\ UNCHANGED <<canal, morts, aPurger>>
         \/ /\ o \notin morts /\ Concerne(o, sceau[f])
            /\ recepteur[o] = "ferme"
            /\ morts'   = morts \cup {o}
            /\ aPurger' = [aPurger EXCEPT ![f] = TRUE]
            /\ UNCHANGED canal
         \/ /\ o \notin morts /\ Concerne(o, sceau[f])
            /\ recepteur[o] = "ouvert"
            /\ canal' = IF Len(canal[o]) < Capacite
                        THEN [canal EXCEPT ![o] = Append(@, sceau[f])]
                        ELSE canal
            /\ UNCHANGED <<morts, aPurger>>
  /\ UNCHANGED <<liste, recepteur, pc, sceau, envois>>

MutLiberer(f) ==     \* mutant: forgets a_purger
  /\ pc[f] = "parcourir"
  /\ rang[f] > Len(abonnes)
  /\ Rendre(f)
  /\ UNCHANGED <<liste, canaux, morts>>

Liberer(f) ==
  /\ pc[f] = "parcourir"
  /\ rang[f] > Len(abonnes)
  /\ IF aPurger[f]
     THEN /\ pc' = [pc EXCEPT ![f] = "purger"]
          /\ UNCHANGED <<sceau, rang, aPurger, envois>>
     ELSE Rendre(f)
  /\ UNCHANGED <<liste, canaux, morts>>

MutPurger(f) ==      \* mutant: without waiting for the readers
  /\ pc[f] = "purger"
  /\ abonnes' = Extraire(abonnes, Vivants)
  /\ actifs'  = Len(abonnes')
  /\ Rendre(f)
  /\ UNCHANGED <<demande, canaux, morts>>

MutPurgerReprend(f) ==    \* mutant: goes over the list again
  /\ pc[f] = "purger"
  /\ SansLecteur
  /\ abonnes' = Extraire(abonnes, Vivants)
  /\ actifs'  = Len(abonnes')
  /\ pc'      = [pc EXCEPT ![f] = "verrouiller"]
  /\ aPurger' = [aPurger EXCEPT ![f] = FALSE]
  /\ UNCHANGED <<demande, canaux, morts, sceau, rang, envois>>

(* Every subscription marked dead by then goes, whoever marked it.          *)
Purger(f) ==
  /\ pc[f] = "purger"
  /\ SansLecteur
  /\ abonnes' = Extraire(abonnes, Vivants)
  /\ actifs'  = Len(abonnes')
  /\ Rendre(f)
  /\ UNCHANGED <<demande, canaux, morts>>

-----------------------------------------------------------------------------

Avancer(f) ==
  Charger(f) \/ Verrouiller(f) \/ Essayer(f) \/ Liberer(f) \/ Purger(f)

Next ==
  \/ \E o \in Observateurs :
       \/ \E d \in Demandes : Abonner(o, d)
       \/ Recevoir(o)
       \/ Fermer(o)
  \/ \E f \in Fils :
       \/ \E r \in Salles, c \in Cellules : Diffuser(f, r, c)
       \/ Charger(f)
       \/ Verrouiller(f)
       \/ Essayer(f)
       \/ Liberer(f)
       \/ Purger(f)

(* A sealing thread keeps running, and the lock queues a writer ahead of    *)
(* the readers that come after it.  Receivers owe nothing: one may never    *)
(* drain its channel.                                                       *)
Fairness == \A f \in Fils : WF_vars(Avancer(f)) /\ SF_vars(Purger(f))

Spec     == Init /\ [][Next]_vars
FairSpec == Spec /\ Fairness
-----------------------------------------------------------------------------

(* Type invariant.  Its last part is what diffuser's loop relies on: the     *)
(* list does not change under the index of a thread that goes through it,   *)
(* and only closed receivers are marked.                                    *)
TypeOK ==
  /\ abonnes   \in Seq(Observateurs)
  /\ actifs    \in Nat
  /\ demande   \in [Observateurs -> Demandes \cup {Aucune}]
  /\ recepteur \in [Observateurs -> {"absent", "ouvert", "ferme"}]
  /\ canal     \in [Observateurs -> Seq(Sceaux)]
  /\ morts     \in SUBSET Observateurs
  /\ pc        \in [Fils -> Pcs]
  /\ sceau     \in [Fils -> Sceaux \cup {Aucune}]
  /\ rang      \in [Fils -> Nat]
  /\ aPurger   \in [Fils -> BOOLEAN]
  /\ envois    \in [Fils -> 0..MaxEnvois]
  /\ \A f \in Fils : pc[f] = "parcourir" => rang[f] \in 1..(Len(abonnes) + 1)
  /\ \A o \in morts : recepteur[o] = "ferme"

(* An observer keeps its subscription as long as it keeps its receiver,     *)
(* however slow it is and whatever is purged around it (diffusion.rs:15-18, *)
(* 82-91), and its channel never grows past its bound.                      *)
AbonneGarde ==
  \A o \in Observateurs :
    /\ recepteur[o] = "ouvert" => Contains(abonnes, o)
    /\ Len(canal[o]) <= Capacite

(* A receiver found closed is purged in the end: "l'abonnement est purge au *)
(* prochain passage" (diffusion.rs:54-55).                                  *)
MortPurge == \A o \in Observateurs : o \in morts ~> ~Contains(abonnes, o)

(* Sealing never waits for an observer: every diffuser returns although no  *)
(* receiver ever drains its channel (diffusion.rs:53-54, "jamais mis en     *)
(* attente").                                                               *)
DiffusionTermine == \A f \in Fils : pc[f] # "libre" ~> pc[f] = "libre"
=============================================================================
