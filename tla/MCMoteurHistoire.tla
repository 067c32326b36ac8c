-------------------------- MODULE MCMoteurHistoire --------------------------
(* The engine and its history with one thread that writes, seals and reads. *)
EXTENDS MoteurHistoire

MCAppels == Ecritures \cup Scellements
            \cup [nature : {"lire"}, salle : Salles, cellules : {<<0, 1>>}, tick : Ticks]
=============================================================================
