-------------------------- MODULE MCMoteurContrat ---------------------------
(* Values for model-checking MoteurContrat: every write, every seal, every   *)
(* read of the lists in MCListes.                                            *)
EXTENDS MoteurContrat

MCListes == {<<0>>}

MCAppels == Ecritures \cup Scellements
            \cup [nature : {"lire"}, salle : Salles, cellules : MCListes, tick : Ticks]
            \cup Vidages
=============================================================================
