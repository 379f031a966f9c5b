SPECIFICATION SpecViva

CONSTANTS
  Nadie = Nadie
  MaxFallas <- Fallas

  Raiz = Raiz
  Ana = Ana
  Eva = Eva
  CRaiz = CRaiz
  CAna = CAna
  CEva = CEva
  Nombre = Nombre
  Formularios = {Raiz, Ana, Eva}
  ContactoDe <- Contacto
  Base <- Homonimos
  Peticiones = {a1, a2}
  Semilla = Semilla
  NumSemillas = 2
  MaxPeticiones = 2

  q1 = q1
  q2 = q2
  Consultas = {q1, q2}
  MaxEntradas = 2
  MaxCambios = 1

  e1 = e1
  e2 = e2
  Eventos = {e1, e2}
  SinRol = {e2}
  Sueltos = {e2}
  Conexiones = {k1, k2}

  w1 = w1
  tAdmin = tAdmin
  tRecaudador = tRecaudador
  tCliente = tCliente
  tViejo = tViejo
  Pestanas = {w1, w2}
  Fichas = {tAdmin, tRecaudador, tCliente, tViejo}
  ConPersona = {tAdmin, tRecaudador, tCliente}
  Legibles = {tAdmin, tRecaudador, tCliente, tViejo}
  RolesDe <- Roles
  Rutas = {"/login", "/dashboard", "/usuarios", "/mi-vehiculo"}
  Datos = {d1}
  MaxCargas = 1

  Clases = {"tickets", "vehiculos", "zonas", "usuarios", "mi-vehiculo", "panel"}
  Filas = {f1, f2}
  Envios = {s1, s2}
  MaxPedidos = 2

INVARIANTS
  Tipos
  PersonaConUsuario
  UnaConexion
  IdentidadCoherente
  VistaAlDia
PROPERTIES
  ArranqueLlega
  EventoSeGuarda
  TableroAlDia
  RutaSeAsienta
CHECK_DEADLOCK FALSE
