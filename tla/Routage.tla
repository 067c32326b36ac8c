------------------------------ MODULE Routage -------------------------------
(***************************************************************************)
(* The two implementations of the harness's Routeur (chronotope-sim,       *)
(* routage.rs) as functions on one entity's entry: AnnuaireMemoire, which  *)
(* counts attempts, and the real Directory, which dates migrations.        *)
(***************************************************************************)
EXTENDS Naturals

CONSTANT Hysteresis     \* hysteresis_ticks; for the Directory, its delay

ASSUME HysteresisAssumption == Hysteresis \in Nat

(* First registration of an entity.  A router uses only its own field.      *)
Inscrite(lieu) == [lieu |-> lieu, essais |-> 0, derniere |-> {}]

(* Mutant: does not count the attempt being made.                           *)
MutMigrerMemoire(entree, dest, tick) ==
  IF entree.essais >= Hysteresis
  THEN Inscrite(dest)
  ELSE [entree EXCEPT !.essais = @ + 1]

MutMigrerSansRemise(entree, dest, tick) ==     \* mutant: goes on counting once moved
  IF entree.essais + 1 >= Hysteresis
  THEN [entree EXCEPT !.lieu = dest]
  ELSE [entree EXCEPT !.essais = @ + 1]

(* AnnuaireMemoire::migrer of a registered entity to another place; the     *)
(* harness never asks for the cell where the entity is.  0 is as 1.         *)
MigrerMemoire(entree, dest, tick) ==
  IF entree.essais + 1 >= Hysteresis
  THEN Inscrite(dest)
  ELSE [entree EXCEPT !.essais = @ + 1]

(* Directory::migrer, called with the harness's own increasing ticks.       *)
MigrerDatee(entree, dest, tick) ==
  IF \E d \in entree.derniere : tick - d < Hysteresis
  THEN entree
  ELSE [Inscrite(dest) EXCEPT !.derniere = {tick}]
=============================================================================
