--------------------------- MODULE MCObservation ----------------------------
(* Two threads race to create the room, write, seal, read twice and empty   *)
(* its one cell, while an observer comes, drains and leaves.                *)
EXTENDS Observation, TLC

MCAppels == Ecritures \cup Scellements
            \cup [nature : {"lire"}, salle : Salles, cellules : {<<0, 0>>}, tick : Ticks]
            \cup Vidages

MCDemandes == [salle : Salles, cellules : {Cellules}]

MCSymetrie == Permutations(Fils)
=============================================================================
