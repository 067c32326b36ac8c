CONSTANTS
  Entites      = {1, 2, 3}
  Poses        = {p, q}
  Seuil        = 2
  MaxEcritures = 5
SPECIFICATION CSpec
INVARIANTS
  SceauLWW
  CompactionTransparente
  CoutAmorti
CHECK_DEADLOCK FALSE
