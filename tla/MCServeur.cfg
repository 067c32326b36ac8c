SPECIFICATION Spec
SYMMETRY MCSymetrie
CONSTANTS
  SallesMax = 2
  CellulesParSalle = 2
  Ticks = {0, 2}
  Entites = {1}
  Poses = {"p"}
  Requetes = {r1, r2, r3}
  Demandes <- MCDemandes
  Limite = 2
  Retention = 2
  Sans = sans
  Dimensions <- MCDimensions
INVARIANTS TypeOK LectureAJour LectureComplete ReponsesComptees ReleveFidele
  AppelsAdressables AdresseInjective
CHECK_DEADLOCK FALSE
