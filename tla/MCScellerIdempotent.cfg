CONSTANTS
  Entites  = {1}
  Poses    = {p}
  Seuil    = 1
  Salles   = {0}
  Cellules = {0, 1}
  Anneau   = 1
  Ticks    = {0, 1}
  Fils     = {f}
  Appels   <- MCAppels
SPECIFICATION HSpec
PROPERTY ScellerIdempotent
