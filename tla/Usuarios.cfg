SPECIFICATION Spec

CONSTANTS
  Cuentas = {u1}
  Roles = {r1, r2}
  Permisos = {m1}
  FilasPermiso = {f1, f2}
  Peticiones = {p1, p2}
  MaxPeticiones = 2
  ConFallas = TRUE

INVARIANTS
  TypeOK
  CascadaCompleta
  PermisoUnico
PROPERTIES
  SesionVigente
  ConcesionNoRevive
SYMMETRY Simetria
CHECK_DEADLOCK FALSE
