SPECIFICATION FairSpec

CONSTANTS
  Tickets = {t1, t2}
  Espacios = {e1}
  Operaciones = {"PAGADO"}
  Intentos = {1}
  IdEspacio <- MismoEspacio
  Serial = FALSE
  ConFallas = TRUE
  ConCaidas = TRUE
  EstadosManuales = {}

PROPERTIES
  SolicitudTermina
  Liberacion
CHECK_DEADLOCK FALSE
