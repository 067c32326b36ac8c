-------------------------- MODULE DiffuseurHistoire -------------------------
(***************************************************************************)
(* The Diffuseur with the history of what became of each chronotope: what  *)
(* each channel was given, what it refused for being full, and which       *)
(* observers were subscribed before each call to diffuser started.         *)
(***************************************************************************)
EXTENDS Diffuseur

VARIABLES
  livres,    \* livres[o]: chronotopes accepted by the channel
  pleins,    \* pleins[o]: those under way that its full channel refused
  dus        \* dus[f]: matching observers subscribed when the call began

hvars == <<vars, livres, pleins, dus>>

Vise(f, o) ==
  /\ pc[f] = "parcourir" /\ pc'[f] = "parcourir" /\ rang'[f] # rang[f]
  /\ abonnes[rang[f]] = o

(* The chronotopes a step puts in the channel of o: one or none.            *)
Poses(o) == IF Len(canal'[o]) > Len(canal[o]) THEN {Last(canal'[o])} ELSE {}

HInit ==
  /\ Init
  /\ livres = [o \in Observateurs |-> {}]
  /\ pleins = [o \in Observateurs |-> {}]
  /\ dus    = [f \in Fils |-> {}]

HNext ==
  /\ Next
  /\ livres' = [o \in Observateurs |-> livres[o] \cup Poses(o)]
  /\ pleins' = [o \in Observateurs |->
                  {sceau[f] : f \in {g \in Fils :
                     /\ pc'[g] # "libre"
                     /\ \/ sceau[g] \in pleins[o]
                        \/ Vise(g, o) /\ Len(canal[o]) = Capacite}}]
  /\ dus' = [f \in Fils |->
               IF pc[f] = "libre" /\ pc'[f] = "charger"
               THEN {o \in Observateurs : /\ recepteur[o] = "ouvert"
                                          /\ Concerne(o, sceau'[f])}
               ELSE {o \in dus[f] : pc'[f] # "libre" /\ recepteur'[o] = "ouvert"}]

HSpec     == HInit /\ [][HNext]_hvars
HFairSpec == HSpec /\ Fairness
-----------------------------------------------------------------------------

(* Whoever subscribed before a seal and still listens when diffuser returns *)
(* got the chronotope, unless its channel was full at its turn              *)
(* (store.rs:48-54, diffusion.rs:52-93): neither the counter read without   *)
(* the lock, nor a purge, nor a concurrent subscription makes it miss one.  *)
LivraisonComplete ==
  [][\A f \in Fils : pc[f] # "libre" /\ pc'[f] = "libre" =>
       \A o \in dus[f] : sceau[f] \in livres[o] \cup pleins[o]]_hvars

(* A channel gets each thread's chronotopes in the order it sealed them,    *)
(* none twice, and only those its observer asked for.                       *)
OrdreParFil ==
  [][\A o \in Observateurs : \A c \in Poses(o) :
       /\ Concerne(o, c)
       /\ \A d \in livres[o] : d.fil = c.fil => d.numero < c.numero]_hvars
=============================================================================
