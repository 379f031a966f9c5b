SPECIFICATION Spec

CONSTANTS
  Tickets = {t1, t2}
  Espacios = {e1}
  Operaciones = {"PAGADO", "ANULADO"}
  Intentos = {1}
  IdEspacio <- MismoEspacio
  Serial = FALSE
  ConFallas = FALSE
  ConCaidas = FALSE
  EstadosManuales = {}

PROPERTY
  SoloActivosSeCierran
CHECK_DEADLOCK FALSE
