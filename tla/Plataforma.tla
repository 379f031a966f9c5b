----------------------------- MODULE Plataforma -----------------------------
(***************************************************************************)
(* The parts of the platform that surround the core and share no state     *)
(* with each other: the first state chooses the part that a behaviour is   *)
(* about, and the variables of the others stand still.  A variable that    *)
(* several parts have in common belongs to the part that was chosen.       *)
(***************************************************************************)
EXTENDS Naturals

CONSTANTS
  Formularios, Raiz, ContactoDe, Base, Peticiones, Semilla, NumSemillas, MaxPeticiones, \* Altas
  Consultas, MaxEntradas, MaxCambios,                                                   \* Tablero
  Eventos, SinRol, Sueltos, Conexiones,                                                 \* Auditoria
  Pestanas, Fichas, ConPersona, Legibles, RolesDe, Rutas, Datos, MaxCargas,             \* Sesion
  Clases, Filas, Envios, MaxPedidos,                                                    \* Paginas
  MaxFallas,  \* bound: the failures of each part that counts them
  Nadie       \* no value

VARIABLES
  modo,
  servicio, indice, sembradas, alta, contacto, usuario, roles, recibidas, fallas, cortadas, cruzadas,
  token, caducados, formulario, entradas, intervalo, espacios, vista, consulta, fuente, eventSource, colas,
  intento, temporizador, canal, vivas, atendidas, avisos, usadas, esperando, pendientes, ligada, cola, entrega,
  consumidor, copias, perdidos, cruces,
  guardado, fase, ficha, ruta, yendose, envio, emitidas, cargas, ajenas,
  clase, cargando, tabla, tickets, registro, filas, retenidos, pedidos, tablaDudosa, listaDudosa

\* The variables of each part that no other part has.
deAltas == <<servicio, indice, sembradas, alta, contacto, roles, recibidas, cortadas, cruzadas>>
deTablero == <<token, caducados, formulario, entradas, intervalo, espacios, vista, consulta, fuente, eventSource, colas>>
deAuditoria == <<intento, temporizador, canal, vivas, atendidas, avisos, usadas, esperando, pendientes, ligada,
                 cola, entrega, consumidor, copias, perdidos, cruces>>
deSesion == <<guardado, fase, ficha, ruta, yendose, emitidas, cargas, ajenas>>
dePaginas == <<clase, cargando, tabla, tickets, registro, filas, retenidos, pedidos, tablaDudosa, listaDudosa>>

vars == <<modo, deAltas, deTablero, deAuditoria, deSesion, dePaginas, usuario, fallas, envio>>

Altas == INSTANCE Altas WITH MaxFallas <- MaxFallas["Altas"]

Tablero == INSTANCE Tablero WITH MaxFallas <- MaxFallas["Tablero"]

Auditoria == INSTANCE Auditoria WITH MaxFallas <- MaxFallas["Auditoria"], Nula <- Nadie

Sesion == INSTANCE Sesion WITH Envios <- Datos, Nula <- Nadie

Paginas == INSTANCE Paginas

\* The root has a form, the routes that the code sends a tab to are looked at, what
\* stands for no value is none, and bounds are numbers.
ASSUME PlataformaAssumption ==
  /\ Raiz \in Formularios
  /\ ContactoDe \in [Formularios -> Altas!Contactos]
  /\ Nadie \notin Altas!Contactos
  /\ Nadie \notin {Base[f] : f \in Formularios} \X Nat
  /\ Semilla \notin Peticiones
  /\ {"no", "abriendo", Nadie} \cap Conexiones = {}
  /\ {"/login", "/dashboard", "/mi-vehiculo"} \subseteq Rutas
  /\ {NumSemillas, MaxPeticiones, MaxEntradas, MaxCambios, MaxCargas, MaxPedidos} \subseteq Nat
  /\ MaxFallas \in [{"Altas", "Tablero", "Auditoria"} -> Nat]

\* A part that was not chosen, with what its properties look at in its place.
SinAltas ==
  /\ servicio = Nadie /\ indice = Nadie /\ sembradas = Nadie /\ alta = Nadie
  /\ contacto = [f \in Formularios |-> Nadie] /\ roles = [f \in Formularios |-> {}]
  /\ recibidas = Nadie /\ cortadas = Nadie /\ cruzadas = Nadie

SinTablero ==
  /\ token = 0 /\ caducados = {} /\ formulario = Nadie /\ entradas = Nadie /\ intervalo = Nadie
  /\ espacios = 0 /\ vista = 0 /\ consulta = Nadie /\ fuente = Nadie /\ eventSource = Nadie /\ colas = Nadie

SinAuditoria ==
  /\ intento = Nadie /\ temporizador = Nadie /\ canal = Nadie /\ vivas = Nadie /\ atendidas = Nadie
  /\ avisos = Nadie /\ usadas = Nadie /\ esperando = Nadie /\ pendientes = Nadie /\ ligada = Nadie
  /\ entrega = Nadie /\ cola = {} /\ consumidor = Nadie /\ copias = [e \in Eventos |-> 0]
  /\ perdidos = {} /\ cruces = Nadie

SinSesion ==
  /\ guardado = Nadie /\ fase = [p \in Pestanas |-> "cerrada"] /\ ficha = Nadie /\ ruta = Nadie
  /\ yendose = Nadie /\ emitidas = Nadie /\ cargas = Nadie /\ ajenas = Nadie

SinPaginas ==
  /\ clase = Nadie /\ cargando = Nadie /\ tabla = Nadie /\ tickets = Nadie /\ registro = Nadie
  /\ filas = Nadie /\ retenidos = Nadie /\ pedidos = Nadie /\ tablaDudosa = Nadie /\ listaDudosa = Nadie

Init ==
  \/ /\ modo = "Altas" /\ Altas!Init
     /\ SinTablero /\ SinAuditoria /\ SinSesion /\ SinPaginas
     /\ envio = Nadie
  \/ /\ modo = "Tablero" /\ Tablero!Init
     /\ SinAltas /\ SinAuditoria /\ SinSesion /\ SinPaginas
     /\ usuario = Nadie /\ envio = Nadie
  \/ /\ modo = "Auditoria" /\ Auditoria!Init
     /\ SinAltas /\ SinTablero /\ SinSesion /\ SinPaginas
     /\ usuario = Nadie /\ envio = Nadie
  \/ /\ modo = "Sesion" /\ Sesion!Init
     /\ SinAltas /\ SinTablero /\ SinAuditoria /\ SinPaginas
     /\ fallas = Nadie
  \/ /\ modo = "Paginas" /\ Paginas!Init
     /\ SinAltas /\ SinTablero /\ SinAuditoria /\ SinSesion
     /\ usuario = Nadie /\ fallas = Nadie

\* What a step of each part leaves alone.
SoloAltas == UNCHANGED <<modo, deTablero, deAuditoria, deSesion, dePaginas, envio>>
SoloTablero == UNCHANGED <<modo, deAltas, deAuditoria, deSesion, dePaginas, usuario, envio>>
SoloAuditoria == UNCHANGED <<modo, deAltas, deTablero, deSesion, dePaginas, usuario, envio>>
SoloSesion == UNCHANGED <<modo, deAltas, deTablero, deAuditoria, dePaginas, fallas>>
SoloPaginas == UNCHANGED <<modo, deAltas, deTablero, deAuditoria, deSesion, usuario, fallas>>

Next ==
  \/ modo = "Altas" /\ Altas!Next /\ SoloAltas
  \/ modo = "Tablero" /\ Tablero!Next /\ SoloTablero
  \/ modo = "Auditoria" /\ Auditoria!Next /\ SoloAuditoria
  \/ modo = "Sesion" /\ Sesion!Next /\ SoloSesion
  \/ modo = "Paginas" /\ Paginas!Next /\ SoloPaginas

Spec == Init /\ [][Next]_vars

-----------------------------------------------------------------------------

\* The type invariant of the part that was chosen.
Tipos ==
  /\ modo = "Altas" => Altas!TypeOK
  /\ modo = "Tablero" => Tablero!TypeOK
  /\ modo = "Auditoria" => Auditoria!TypeOK
  /\ modo = "Sesion" => Sesion!TypeOK
  /\ modo = "Paginas" => Paginas!TypeOK

\* Every stored person has its user, but for registrations that were cut or whose
\* username was given to somebody else first (create of personas.service.ts).
PersonaConUsuario == modo = "Altas" => Altas!PersonaConUsuario

\* Connections of the audit publisher do not pile up (connect of event-publisher.ts).
UnaConexion == modo = "Auditoria" => Auditoria!UnaConexion

\* A tab shows the user whose token it sends (AuthContext.tsx, request of api/index.ts).
IdentidadCoherente == modo = "Sesion" => Sesion!IdentidadCoherente

\* A page at rest shows what its service keeps (loadData and handlers of the pages).
VistaAlDia == modo = "Paginas" => Paginas!VistaAlDia

=============================================================================
