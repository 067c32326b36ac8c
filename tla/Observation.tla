---------------------------- MODULE Observation -----------------------------
(***************************************************************************)
(* The engine and its observers together: Moteur with the Diffuseur its    *)
(* sceller calls (engine.rs:328-337) and observer subscribes to            *)
(* (engine.rs:365-367).  A sealing thread leaves the slot's mutex before   *)
(* it enters diffuser: what an observer gets is a copy that other threads  *)
(* may outrun, by sealing again, recycling or emptying the slot.           *)
(***************************************************************************)
EXTENDS MoteurHistoire

CONSTANTS Observateurs, Demandes, Capacite, MaxEnvois     \* of Diffuseur

VARIABLES
  abonnes, actifs, demande, recepteur, canal, morts,      \* of Diffuseur,
  etape, sceau, rang, aPurger, envois,                    \* etape is its pc
  emis         \* history: emis[f][n] is {the n-th chronotope f diffuses}, or
               \* {} once it is in no channel or its cell was emptied

D == INSTANCE Diffuseur WITH pc <- etape

dvars == <<abonnes, actifs, demande, recepteur, canal, morts,
           etape, sceau, rang, aPurger, envois>>
ovars == <<hvars, dvars, emis>>

OInit == HInit /\ D!Init /\ emis = [f \in Fils |-> <<>>]

-----------------------------------------------------------------------------

(* sceller, once the slot is sealed and its mutex released: the chronotope  *)
(* enters diffuser.                                                         *)
ScellerEtDiffuser(f, o) == Sceller(f, o) /\ D!Diffuser(f, o.salle, o.cellule)

(* A step inside diffuser; sceller returns with it.                         *)
AvancerDiffusion(f) ==
  /\ D!Avancer(f)
  /\ IF etape'[f] = "libre" THEN Diffuser(f) ELSE UNCHANGED vars

(* Bound: a thread seals MaxEnvois times.                                   *)
PeutSceller(f, o) == o \in Scellements => envois[f] < MaxEnvois

(* A step of the engine that the Diffuseur has no part in.                  *)
SansDiffuseur(f) ==
  /\ \/ \E o \in Appels :
          \/ PeutSceller(f, o) /\ SalleAbsente(f, o)
          \/ Ecrire(f, o)
          \/ CommencerLire(f, o)
          \/ CommencerVider(f, o)
     \/ CreerSalle(f)
     \/ LireCellule(f) \/ FinirLire(f)
     \/ ViderCellule(f) \/ FinirVider(f)
  /\ UNCHANGED dvars

(* observer, and what its receiver does with the channel.                   *)
Observer(o) ==
  /\ (\E d \in Demandes : D!Abonner(o, d)) \/ D!Recevoir(o) \/ D!Fermer(o)
  /\ UNCHANGED vars

-----------------------------------------------------------------------------
(* The histories follow. *)

EnChemin(f, n) ==
  \/ sceau[f] # D!Aucune /\ sceau[f].numero = n
  \/ \E o \in Observateurs : \E i \in DOMAIN canal[o] :
       canal[o][i].fil = f /\ canal[o][i].numero = n

Emis(f, n) ==
  IF n > envois[f]
  THEN {[cle |-> Cle(appel'[f]), contenu |-> rendu'[f].contenu]}
  ELSE {e \in emis[f][n] : EnChemin(f, n)' /\ ~VideACePas(e.cle)}

ONext ==
  /\ \/ \E f \in Fils :
          \/ \E o \in Appels : ScellerEtDiffuser(f, o)
          \/ AvancerDiffusion(f)
          \/ SansDiffuseur(f)
     \/ \E o \in Observateurs : Observer(o)
  /\ sceaux' = [k \in Cles |-> Suivre(k)]
  /\ emis'   = [f \in Fils |-> [n \in 1..envois'[f] |-> Emis(f, n)]]

OSpec == OInit /\ [][ONext]_ovars
-----------------------------------------------------------------------------

(* What waits in a channel was sealed, and can be read (store.rs:48-51,     *)
(* "jamais d'etat speculatif observable"): it is the content of the first   *)
(* seal of its key, which a lire gives as long as the slot has not gone on, *)
(* or an empty chronotope for a slot that has.  Chronotopes of a cell       *)
(* emptied since are left out.                                              *)
RecuScelle ==
  \A f \in Fils : \A n \in DOMAIN emis[f] : \A e \in emis[f][n] :
    LET k == e.cle
        s == SlotDe(k)
    IN  \/ /\ sceaux[k] = {e.contenu}
           /\ \/ SlotAlloue(k) /\ LisibleA(s, k.tick) /\ s.journal = e.contenu
              \/ Depasse(s, k.tick)
        \/ e.contenu = <<>> /\ Depasse(s, k.tick)
=============================================================================
