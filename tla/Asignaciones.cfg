SPECIFICATION Spec

CONSTANTS
  Usuarios = {u1, u2}
  Vehiculos = {v1}
  Peticiones = {p1, p2, p3}
  MaxPeticiones = 4
  ConFallas = TRUE

INVARIANTS
  TypeOK
  UnaActivaSinSolape
  AuditoriaReconstruye
  AltaRegistrada
PROPERTY
  BajaDefinitiva
SYMMETRY Simetria
CHECK_DEADLOCK FALSE
