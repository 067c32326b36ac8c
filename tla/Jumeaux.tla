------------------------------ MODULE Jumeaux -------------------------------
(***************************************************************************)
(* The row store (Temoin) and the test double (Double) given the same      *)
(* calls: the two stores the engine and the harness are compared with must *)
(* be one store to their callers, or the comparisons compare nothing       *)
(* (store.rs:16-18, double.rs:10-12).  Each step is a call to both; the    *)
(* observers are the double's.                                             *)
(***************************************************************************)
EXTENDS Temoin

CONSTANTS
  Observateurs, Capacite,
  Souscriptions    \* what observers ask: a room and the cells listed

VARIABLES
  ouverts, clos, abonnes, canal, renduDouble,    \* of Double
  livres           \* history: livres[o], all its channel was given, in order

S == INSTANCE Double WITH rendu <- renduDouble

svars == <<ouverts, clos, abonnes, canal, renduDouble>>
jvars == <<vars, svars, livres>>

JInit == Init /\ S!Init /\ livres = [o \in Observateurs |-> <<>>]

Livrer ==
  livres' = [o \in Observateurs |->
               IF abonnes' = <<>> THEN <<>>
               ELSE IF Len(canal'[o]) > Len(canal[o])
                    THEN Append(livres[o], Last(canal'[o])) ELSE livres[o]]

(* A call to both stores.  Emptying the row store goes with a new double.   *)
AppelerLesDeux(f, o) ==
  \/ Ecrire(f, o)  /\ S!Ecrire(f, o.cle, o.entite, o.pose)
  \/ Sceller(f, o) /\ S!Sceller(f, o.cle)
  \/ Lire(f, o)    /\ S!Lire(f, o.salle, o.cellules, o.tick)
  \/ Vider(f, o)   /\ S!Neuf

JNext ==
  /\ \/ \E f \in Fils :
          \/ \E o \in Appels : AppelerLesDeux(f, o)
          \/ Diffuser(f) /\ UNCHANGED svars
     \/ \E o \in Observateurs :
          /\ S!Recevoir(o) \/ \E d \in Souscriptions : S!Observer(o, d.salle, d.cellules)
          /\ UNCHANGED vars
  /\ Livrer

JSpec == JInit /\ [][JNext]_jvars
-----------------------------------------------------------------------------

(* Both stores give every call the same answer, down to the order of the    *)
(* entities and of the cells (double.rs:61-106, naive.rs:87-146), and hold  *)
(* the same sealed chronotopes: a row table assembled at each read and a    *)
(* sorted list moved at the seal are the same store.                        *)
MemesReponses ==
  /\ \A f \in Fils : rendu[f] # Aucun => renduDouble[f] = rendu[f]
  /\ S!ToutScelle = {[cle |-> k, contenu |-> Assembler(k)] : k \in scelles}

(* The double pushes under its mutex (double.rs:82-103): every observer is  *)
(* given sealed chronotopes as they are, each key once at most however      *)
(* often it is sealed, and two observers the keys they share in the same    *)
(* order, although either may miss some for a full channel.                 *)
OrdreCommun ==
  /\ \A o \in Observateurs :
       /\ Range(livres[o]) \subseteq S!ToutScelle
       /\ IsInjective(livres[o])
  /\ \A o, a \in Observateurs :
       LET Recus(x, y) == Extraire(livres[x], {i \in DOMAIN livres[x] : livres[x][i] \in Range(livres[y])})
       IN  Recus(o, a) = Recus(a, o)
=============================================================================
