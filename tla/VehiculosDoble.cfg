SPECIFICATION Spec

CONSTANTS
  Placas = {v1}
  Peticiones = {p1, p2}
  MaxPeticiones = 3
  ConFallas = FALSE

INVARIANT
  SinDobleIngreso
SYMMETRY Simetria
CHECK_DEADLOCK FALSE
