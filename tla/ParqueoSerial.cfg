SPECIFICATION Spec

CONSTANTS
  Tickets = {t1, t2}
  Espacios = {e1}
  Operaciones = {"PAGADO", "ANULADO"}
  Intentos = {1}
  IdEspacio <- MismoEspacio
  Serial = TRUE
  ConFallas = TRUE
  ConCaidas = TRUE
  EstadosManuales = {"DISPONIBLE", "OCUPADO"}

INVARIANTS
  UnActivoPorEspacio
  CobroCoherente
  Convergencia
PROPERTY
  RefinaCiclo
SYMMETRY Simetria
CHECK_DEADLOCK FALSE
