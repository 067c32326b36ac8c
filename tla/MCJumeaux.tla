----------------------------- MODULE MCJumeaux ------------------------------
(* A room with two cells at one tick, every kind of call.  One thread: calls *)
(* are single steps under one mutex, so a second one adds only its answers. *)
EXTENDS Jumeaux, TLC

MCAppels ==
  Ecritures \cup Scellements \cup Vidages
  \cup [nature : {"lire"}, salle : Salles, cellules : {<<2, 1, 1>>}, tick : Ticks]

MCSouscriptions == [salle : Salles, cellules : {Cellules, {1}}]

MCSymetrie == Permutations(Observateurs) \cup Permutations(Poses)
=============================================================================
