SPECIFICATION Spec

CONSTANTS
  Tickets = {t1, t2}
  Espacios = {e1}
  Operaciones = {"PAGADO", "ANULADO"}
  Intentos = {1}
  IdEspacio <- MismoEspacio
  Serial = FALSE
  ConFallas = TRUE
  ConCaidas = FALSE
  EstadosManuales = {}

INVARIANTS
  TypeOK
  OcupadoTieneCausa
PROPERTY
  TicketNoSePierde
SYMMETRY Simetria
CHECK_DEADLOCK FALSE
