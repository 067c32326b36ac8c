--------------------------- MODULE MoteurHistoire ---------------------------
(***************************************************************************)
(* The engine with one history variable, sceaux: for each key, the content *)
(* that its first sceller produced since its cell was last emptied.  The   *)
(* variable follows the steps of Moteur and never restricts them.          *)
(***************************************************************************)
EXTENDS Moteur

VARIABLE sceaux     \* {} before the first seal, then {content}

hvars == <<vars, sceaux>>

ScelleACePas(f, k) ==
  pc[f] # "diffuser" /\ pc'[f] = "diffuser" /\ Cle(appel'[f]) = k

VideACePas(k) == \E f \in Fils : <<k.salle, k.cellule>> \in aVider[f] \ aVider'[f]

Suivre(k) ==
  IF VideACePas(k) THEN {}
  ELSE IF sceaux[k] = {}
       THEN {rendu'[f].contenu : f \in {g \in Fils : ScelleACePas(g, k)}}
       ELSE sceaux[k]

HInit == Init /\ sceaux = [k \in Cles |-> {}]
HNext == Next /\ sceaux' = [k \in Cles |-> Suivre(k)]
HSpec == HInit /\ [][HNext]_hvars

-----------------------------------------------------------------------------

(* A sealed chronotope is final (store.rs:34-36): as long as its slot has   *)
(* not gone on to a later tick, the slot stays sealed at that tick with the *)
(* very journal the first sceller produced, whatever other threads write,   *)
(* seal, read or create meanwhile.                                          *)
SceauDefinitif ==
  \A k \in Cles : \A contenu \in sceaux[k] :
    LET s == SlotDe(k)
    IN  \/ LisibleA(s, k.tick) /\ s.journal = contenu
        \/ Depasse(s, k.tick)

(* "Apres cet appel, ecrire sur la meme cle renvoie toujours AlreadySealed" *)
(* (store.rs:36): no step acknowledges a write to a key already sealed,     *)
(* even when its slot was recycled for another tick since.                  *)
RefusApresSceau ==
  [][\A f \in Fils, o \in Appels :
       Ecrire(f, o) /\ rendu'[f].ok => sceaux[Cle(o)] = {}]_hvars

(* lire returns only what was sealed, whole (store.rs:39-46): each cell it  *)
(* adds to its answer is a key that some sceller sealed, with that content, *)
(* although the ring may be recycled between two cells.                     *)
LectureFidele ==
  [][\A f \in Fils :
       /\ pc[f] = "lire" /\ pc'[f] = "lire"
       /\ Len(rendu'[f].lus) > Len(rendu[f].lus)
       => LET lu == rendu'[f].lus[Len(rendu'[f].lus)]
          IN  sceaux[lu.cle] = {lu.contenu}]_hvars

(* The chronotope handed to the observers is the sealed one for its key, or *)
(* the empty one once the slot has gone on (engine.rs:313-337): never a     *)
(* later content nor another tick's.                                        *)
SceauRendu ==
  [][\A f \in Fils, k \in Cles :
       ScelleACePas(f, k) /\ sceaux[k] # {}
       => \/ sceaux[k] = {rendu'[f].contenu}
          \/ rendu'[f].contenu = <<>> /\ Depasse(SlotDe(k), k.tick)]_hvars

-----------------------------------------------------------------------------
(* A statement of the documentation that the code does not meet.            *)

(* "Scelle (room, cell, tick) : idempotent, renvoie le meme resultat que    *)
(* l'appel soit le premier ou le centieme" (store.rs:34-35).                *)
ScellerIdempotent ==
  [][\A f \in Fils, k \in Cles :
       ScelleACePas(f, k) /\ sceaux[k] # {}
       => sceaux[k] = {rendu'[f].contenu}]_hvars
=============================================================================
