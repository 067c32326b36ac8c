SPECIFICATION HSpec
CONSTANTS
  Entites = {e1}
  Cellules = {0, 1}
  NbNoeuds = 2
  HorizonNominal = 1
  SeuilDemi = 1
  SeuilQuart = 2
  Hysteresis = 2
  Anneau = 64
  Migrer <- MigrerMemoire
  DernierTick = 9
PROPERTY TicksConsecutifs
CHECK_DEADLOCK FALSE
