SPECIFICATION Spec

CONSTANTS
  z1 = z1
  z2 = z2
  z3 = z3
  Zonas = {z1, z2, z3}
  Espacios = {e1, e2}
  Capacidad <- UnoPorZona
  Clase <- DosClases
  Ordenes <- OrdenesUsuales
  Peticiones = {p1, p2}
  MaxPeticiones = 7
  ConFallas = TRUE

INVARIANTS
  TypeOK
  CapacidadRespetada
PROPERTIES
  ColumnasPropias
  DesactivarLimpio
SYMMETRY Simetria
CHECK_DEADLOCK FALSE
