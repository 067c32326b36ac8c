SPECIFICATION Spec
CONSTANTS
  Entites = {e1, e2}
  Lieux = {a, b}
  Ticks = {0, 1, 2, 3, 4, 5}
  Delai = 2
INVARIANTS Espacement RefusTenu
