SPECIFICATION Spec

CONSTANTS
  Usuarios = {u1, u2}
  Vehiculos = {v1}
  Peticiones = {p1, p2}
  MaxPeticiones = 2
  ConFallas = FALSE

INVARIANT
  UnaActivaPorVehiculo
SYMMETRY Simetria
CHECK_DEADLOCK FALSE
