SPECIFICATION RSpec
SYMMETRY MCSymetrie
CONSTANTS
  Entites = {e1, e2}
  Cellules = {0, 1}
  NbNoeuds = 2
  HorizonNominal = 1
  SeuilDemi = 1
  SeuilQuart = 1
  Hysteresis = 2
  Anneau = 5
  Migrer <- MigrerMemoire
  DernierTick = 9
INVARIANTS TypeOK SansRejet SansDuplication ScelleATemps BasculeBornee
  CadenceMesuree BasculesMesurees ThrashingAmorti
CHECK_DEADLOCK FALSE
