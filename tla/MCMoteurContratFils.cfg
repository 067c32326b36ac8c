CONSTANTS
  Entites  = {1}
  Poses    = {p}
  Seuil    = 1
  Salles   = {0}
  Cellules = {0, 1}
  Anneau   = 1
  Ticks    = {0, 1}
  Fils     = {f, g}
  Appels   <- MCAppels
SPECIFICATION FairSpec
PROPERTIES RespecteContrat AppelTermine
