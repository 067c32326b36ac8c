CONSTANTS
  Entites  = {1, 2}
  Poses    = {p, q}
  Seuil    = 1
  Salles   = {0}
  Cellules = {0}
  Anneau   = 2
  Ticks    = {0, 1, 2}
  Fils     = {f}
  Appels   <- MCAppels
SPECIFICATION Spec
INVARIANT JournalBorne
PROPERTY RespecteContrat
