--------------------------- MODULE ServeurAdresses ---------------------------
(***************************************************************************)
(* The server and the addresses its requests lead to in the engine it      *)
(* serves, which panics on what it cannot address.                         *)
(***************************************************************************)
EXTENDS Serveur, Adressage

CONSTANT
  Dimensions     \* those avec_dimensions may be asked for

(* The retention of the store is the ring of the engine.                    *)
DuServeur == [cellules |-> CellulesParSalle, anneau |-> Retention]

(* The engine served came out of avec_dimensions.                           *)
ASSUME DimensionsAssumption ==
  /\ Dimensions \subseteq [cellules : Nat, anneau : Nat]
  /\ Retention \in Nat /\ DimensionsValides(DuServeur)

(* The keys a handler is about to call the engine with.                     *)
Appelees(r) ==
  LET d == demande[r]
  IN  IF pc[r] = "valider" /\ d.route # "read" /\ ~HorsDomaine(d) THEN {Cle(d)}
      ELSE IF pc[r] = "lire"
           THEN {CleDe(d, aLire[r][i], t) : i \in DOMAIN aLire[r], t \in resolu[r]}
           ELSE {}

(* The addresses of every place of the engine, for the dimensions accepted. *)
Adresses ==
  [d \in {x \in Dimensions : DimensionsValides(x)} |->
     [lieu \in Salles \X (0 .. d.cellules - 1) \X (0 .. d.anneau - 1) |->
        Adresse(d, lieu[1], lieu[2], lieu[3])]]
-----------------------------------------------------------------------------

(* A client cannot make the engine panic (main.rs:259-267, engine.rs:192-   *)
(* 208): whatever room and cells it names, each call that reaches the       *)
(* engine is addressable, goes to the slot of its cell and tick, and shares *)
(* its address with no other call under way but to that same slot.          *)
AppelsAdressables ==
  \A r \in Requetes : \A k \in Appelees(r) :
    /\ Adressable(DuServeur, SallesMax, k.salle, k.cellule)
    /\ Coordonnees(DuServeur, k.salle, k.cellule, k.tick) = <<k.cellule, k.tick % Retention>>
    /\ \A q \in Requetes : \A l \in Appelees(q) :
         Adresse(DuServeur, k.salle, k.cellule, k.tick)
           = Adresse(DuServeur, l.salle, l.cellule, l.tick)
         => /\ k.salle = l.salle /\ k.cellule = l.cellule
            /\ k.tick % Retention = l.tick % Retention

(* "l'adresse est injective sur (room, cell, tick mod anneau)" (engine.rs:  *)
(* 164-168): whatever dimensions avec_dimensions lets through, no other     *)
(* place of the engine has the address of a call under way.                 *)
AdresseInjective ==
  \A r \in Requetes : \A k \in Appelees(r) : \A d \in DOMAIN Adresses :
    k.salle \in Salles /\ k.cellule < d.cellules =>
      \A lieu \in DOMAIN Adresses[d] :
        Adresses[d][lieu] = Adresse(d, k.salle, k.cellule, k.tick)
        => lieu = <<k.salle, k.cellule, k.tick % d.anneau>>
=============================================================================
