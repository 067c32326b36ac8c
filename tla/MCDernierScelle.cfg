SPECIFICATION Spec
CONSTANTS
  SallesMax = 2
  CellulesParSalle = 2
  Ticks = {0, 2}
  Entites = {1}
  Poses = {"p"}
  Requetes = {r1, r2}
  Demandes <- MCDemandes
  Limite = 3
  Retention = 2
  Sans = sans
  Dimensions <- MCDimensions
INVARIANT DernierScelle
CHECK_DEADLOCK FALSE
