----------------------------- MODULE MCRapport ------------------------------
(* Two entities that go between two cells of two nodes; every tier is       *)
(* reached by one entity in a cell.  Entities play the same part.           *)
EXTENDS Rapport, TLC

MCSymetrie == Permutations(Entites)
=============================================================================
