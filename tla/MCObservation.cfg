CONSTANTS
  Entites  = {1}
  Poses    = {p}
  Seuil    = 1
  Salles   = {0}
  Cellules = {0}
  Anneau   = 1
  Ticks    = {0, 1}
  Fils     = {f, g}
  Appels   <- MCAppels
  Observateurs = {o}
  Demandes <- MCDemandes
  Capacite = 2
  MaxEnvois = 2
SPECIFICATION OSpec
SYMMETRY MCSymetrie
INVARIANTS
  TypeOK
  SceauDefinitif
  RecuScelle
PROPERTIES
  RefusApresSceau
  LectureFidele
  SceauRendu
