SPECIFICATION Spec

CONSTANTS
  Placas = {v1}
  Peticiones = {p1, p2, p3}
  MaxPeticiones = 6
  ConFallas = TRUE

INVARIANTS
  TypeOK
  OcupacionVeraz
  DentroSinBloqueo
PROPERTY
  CadaQuienLoSuyo
SYMMETRY Simetria
CHECK_DEADLOCK FALSE
