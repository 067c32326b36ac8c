CONSTANTS
  Entites = {1, 2}
  Poses = {p, q}
  Salles = {1}
  Cellules = {1, 2}
  Ticks = {0}
  Fils = {f1}
  Appels <- MCAppels
  Observateurs = {o1, o2}
  Capacite = 1
  Souscriptions <- MCSouscriptions
SPECIFICATION JSpec
SYMMETRY MCSymetrie
INVARIANTS IndexFidele MemesReponses OrdreCommun
PROPERTY RespecteContrat
