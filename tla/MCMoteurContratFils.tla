------------------------ MODULE MCMoteurContratFils -------------------------
(* Two threads and two cells: the room created in a race, a read of both    *)
(* cells while they are written, sealed, recycled and emptied.              *)
EXTENDS MoteurContrat

MCAppels == Ecritures \cup Scellements
            \cup [nature : {"lire"}, salle : Salles, cellules : {<<0, 1>>}, tick : {0}]
            \cup Vidages
=============================================================================
