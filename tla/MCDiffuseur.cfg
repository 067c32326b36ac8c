SPECIFICATION HFairSpec
CONSTANTS
  Salles = {1}
  Cellules = {1}
  Fils = {f1, f2}
  Observateurs = {o1, o2}
  Demandes <- MCDemandes
  Capacite = 1
  MaxEnvois = 2
INVARIANTS TypeOK AbonneGarde
PROPERTIES OrdreParFil LivraisonComplete MortPurge DiffusionTermine
CHECK_DEADLOCK FALSE
