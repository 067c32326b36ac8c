---------------------------- MODULE MCDiffuseur -----------------------------
(* Two sealing threads and two observers of a room's first cell; seals of   *)
(* the second cell concern nobody.                                          *)
EXTENDS DiffuseurHistoire

MCDemandes == [salle : Salles, cellules : {{}, {1}}]
=============================================================================
