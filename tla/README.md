# Verification of the parking system

TLA+ models of the microservices of the car park, checked with TLC on small instances and,
for the safety properties, proved with TLAPS for every instance. Definitions keep the names of
the code, which are Spanish; `PROJECT.json` maps each of them to the lines it models.

Contents: [1 the system](#1-the-system), [2 modules](#2-modules), [3 runs](#3-runs),
[4 proofs](#4-proofs), [5 what the code does wrong](#5-where-the-code-and-its-documentation-disagree),
[6 limits](#6-limits-of-the-models), [7 plan](#7-plan).

## 1 The system

| Component | State it keeps | Operations that change it |
|---|---|---|
| ticket-service (FastAPI, one event loop) | table of tickets: state, entry and exit time, amount | `create_ticket`, `registrar_salida`, `anular_ticket` |
| ModuloZonas, spaces (Spring Boot) | state, zone, code and flag of each space | `actualizarEstado` (HTTP, queue listener, staff), `crearEspacio`, `actualizarEspacio`, `eliminarEspacio` |
| ModuloZonas, zones | capacity, code and flag of each zone | `crearZona`, `actualizarZona`, `activarDesactivar` |
| assignment-service (NestJS) | assignments owner-vehicle, audit records of them | `create`, `update`, `remove`, the listener of the internal event |
| vehicle service and gateway (NestJS) | vehicles: inside or outside, blocked or not | CRUD, `autorizarIngreso`, `registrarEIngresar`, `autorizarSalida` |
| gestion-usuarios (NestJS): users, roles, permissions, grants | five tables, each row with a flag `active` or present or not | CRUD, `activate`/`deactivate`, the cascading listener, login and refresh |
| gestion-usuarios: persons and boot | persons, their users, seeded rows | `PersonasService.create`, `update`; the seeder |
| ms-auditoria (NestJS) and the audit publishers in each service | the connection of each publisher with its timer; exchange and queue; audit rows | `connect`, `publish`; consume, acknowledge, refuse |
| public dashboard (`src/app.js`) and the SSE stream of ticket-service | token, what is shown, fetches in flight, open streams and their queues | login, fetch, interval, reconnection, broadcast |
| parking-frontend (React) | `localStorage.token`, the state of AuthContext and the route in each tab; what each page shows | login, logout, validation, routes; loading a table, creating, closing, searching |
| ticket-service: tariffs; Kong; seed scripts | none of the parking | prices; routing; calls to the services |

How they interact:

* ticket-service asks Zonas over HTTP for the space, asks vehicles, assignments and users about
  the vehicle and its owner, and tells Zonas the new state of the space twice: over HTTP and by
  an event that a listener of Zonas consumes. The HTTP call may be refused, lost or late
  (`HTTP_CLIENT_TIMEOUT`); the event may be lost when it is published, may be delivered twice,
  and is acknowledged even when its handler fails.
* assignment-service validates user and vehicle over HTTP, and its audit listener is called
  through the in-process emitter, which nobody awaits.
* the gateway asks ModuloZonas for free space between reading a vehicle and saving it.
* deactivating a user or a role in gestion-usuarios emits an in-process event that deactivates
  the grants, before the user or the role itself is saved; the login trusts that cascade and does
  not look whether a role is active.
* the interceptors, filters and middlewares of the services publish an event for each audited
  request to RabbitMQ and wait for nothing; ms-auditoria stores each event and acknowledges it.
* ticket-service puts each change in the queue of every open stream; the dashboard fetches all the
  spaces again at every event. The React pages fetch after each change of their own.

The behaviours that are hard to test are nearly all of two kinds. First, *check, await, write*:
every service reads rows, waits for other services, and saves the whole entity, with no lock, no
version column and almost no unique index, so another request may run in any of the awaits.
Second, *two stores*: ticket rows and space states live in different databases and agree only
through a call that may fail, a rollback that may fail, and an event that may be lost or late.
`PROJECT.json` lists the hazards at the line where they bite.

What makes each component correct:

* tickets and spaces: one active ticket per space; an answered ticket is never taken back; a
  ticket is closed once, and charged exactly when paid; a space Zonas holds OCUPADO has a reason;
  a closed ticket's space is freed; at rest both stores agree;
* assignments: one active owner per vehicle; a removed assignment comes back only when asked for;
  the audit trail tells the life of every row;
* vehicles: column `estado` tells who is inside; no blocked vehicle is inside; an edit does not
  undo what the gate did;
* zones: spaces never exceed the capacity; an operation changes its own columns of a space and no
  other; a zone goes out of use with all its spaces and none of them occupied;
* users: no active grant of a user or role that was deactivated; a token names active rows only; a
  removed grant stays removed; a role has a permission once;
* persons and boot: no person left without the user that was created with it; a boot ends in a
  service that answers, whatever an earlier one left;
* audit: an event in the queue ends up stored or refused; connections do not pile up;
* browser: the dashboard ends up showing the spaces as they are; a tab shows the user whose token
  it sends and is never caught between two routes; a page at rest shows what its service keeps.

## 2 Modules

| Module | Models | Uses |
|---|---|---|
| `CicloTicket` | the abstract life of a ticket: open, confirm, undo, close | |
| `Parqueo` | ticket-service and the space states of ModuloZonas, composed | `CicloTicket` |
| `ParqueoProofs` | theorems about `Parqueo` | `Parqueo`, TLAPS |
| `Asignaciones` | assignment-service with its audit listener | |
| `AsignacionesProofs` | theorems about `Asignaciones` | `Asignaciones`, TLAPS |
| `Vehiculos` | vehicle service and gateway | |
| `VehiculosProofs` | theorems about `Vehiculos` | `Vehiculos`, TLAPS |
| `Zonas` | zones and spaces of ModuloZonas | |
| `ZonasProofs` | theorems about `Zonas` | `Zonas`, TLAPS |
| `Usuarios` | users, roles, permissions, grants, the cascade and the sessions of gestion-usuarios | |
| `UsuariosProofs` | theorems about `Usuarios` | `Usuarios`, TLAPS |
| `Altas` | registration of persons and the boot of gestion-usuarios | |
| `AltasProofs` | theorem and invariants about `Altas` | `Altas`, TLAPS |
| `Auditoria` | audit publishers, RabbitMQ and ms-auditoria | |
| `Tablero` | the public dashboard and the SSE stream | |
| `Sesion` | session and routes of parking-frontend, in several tabs | |
| `SesionProofs` | theorems about `Sesion` | `Sesion`, TLAPS |
| `Paginas` | the pages of parking-frontend | |
| `MCParqueo`, `MCAsignaciones`, `MCVehiculos`, `MCZonas`, `MCUsuarios` | the instances for TLC: symmetry and functions of the constants | |
| `Plataforma` | `Altas`, `Auditoria`, `Tablero`, `Sesion` and `Paginas` side by side | those five |
| `PlataformaProofs` | theorems about the five parts of `Plataforma` | `Plataforma`, `AltasProofs`, `SesionProofs`, TLAPS |
| `MCPlataforma` | the instance of `Plataforma` for TLC, with the fairness of its parts (`SpecViva`) | `Plataforma` |

A request is a process and each `await` of its handler ends an action: between two of them any
other request, message or failure may come. Operators called `...Omitido`, `...SinEstado` and so
on, with a comment that starts with "Variant", are plausible bugs of the operator after them;
they belong to no specification and are used to see that the properties notice.

### Parqueo

`pcAlta` and `pcCierre` hold where each POST /tickets and PATCH salida/anular request is,
`ticket` and `cobrado` the rows, `estado` the column of Zonas, `postsAlta` and `postsCierre` the
HTTP calls on their way, `cola` the queue. `averias` is history: which faults have hit a space,
and whether they may leave it occupied with no ticket (`Fuga`) or free under one (`Hueco`).
Nothing in a guard reads it.

* Opening: `LeerEspacio` (GET of the space), `RechazarDatos` (zone, vehicle, owner, category),
  `ConsultarActivo` (the query for an active ticket), `Insertar` (INSERT and commit, whose answer
  may be lost), `EnviarOcupado`, then `OcupadoConfirmado` or `OcupadoFallido`, then `EmitirAlta`
  or `Revertir` (the rollback, which deletes the row and may fail as well).
* Closing: `LeerTicket`, `Persistir` (UPDATE by primary key, no condition), `EnviarDisponible`,
  `DisponibleConfirmado` or `DisponibleFallido` (logged), `EmitirCierre`.
* Zonas: `AtenderOcupado`, `AtenderDisponible`, `ConsumirEvento`, `ConsumirSinAck` (redelivery),
  `CambioManual`, all through `ActualizarEstado`, which does not look at what it replaces.
* `Caida`: the ticket service stops; committed rows and sent calls stay.

A call that timed out stays in `postsAlta`/`postsCierre` or leaves it: Zonas may apply it at any
later moment, after the rollback, or never. A failure of the publisher is a lost event.

`CicloTicket` says what a client may rely on. `RefinaCiclo` maps the rows as they are and
`confirmado` to the requests answered with 201: faults and crashes are allowed, and every
step of the service is a step of the cycle or a stutter, as long as clients do not overlap.

### Asignaciones

`peticion` holds the requests being served, with the locals of their handler: the key, the row
as it was read, the entity to save and the row TypeORM's `save` read again. Steps:
`Empezar`, `ValidarReferencias`, `BuscarClave` (create) or `LeerFila` (update, remove),
`BuscarActiva` (the rule of one active owner), `Comparar` and `Escribir` (the two halves of
`save`: SELECT by key, then INSERT or UPDATE of the columns that differ), `Emitir` (the internal
event). `registros` are the audit records between the emission and their insert (`Registrar`),
which may fail or be lost in a `Caida`. `solapados` is history: vehicles two requests touched at
once.

### Vehiculos

Same shape. `Admite` is what each operation asks of the row it reads first, `Rechazar` the
answer of the other service (owner unknown, no free space, no answer), `Aprobar` the checks of
`marcarIngreso` on the entity *as it was read* and the change of the entity (`Modificada`),
`Comparar` and `Escribir` the two halves of `save`. `Actualizada` is what `save` does with a
stale entity: it writes the columns in which the entity differs from the row it has just read
again, so a stale column that differs *is* written. `pases` is history: saved entries less saved
exits; `solapados` as above. `registrarEIngresar` never gets past its first lookup, because
`findByPlacaOpcional` throws when the plate is unknown and its caller refuses when it is known;
the model keeps it as a request that reads and ends.

### Zonas

`peticion` holds each request with the zone it read (`leida`) and the rows it will write
(`sucias`): what Hibernate's persistence context holds. `Guardar` is the flush, an UPDATE of
every column of those rows. Steps: `NumerarZona` and `InsertarZona` (crearZona), `ContarEspacios`
and `Insertar` (crearEspacio), `LeerFila` and `Guardar` (actualizarEspacio, eliminarEspacio,
actualizarEstado), `LeerZona`, `BuscarOcupados`, `CargarEspacios` and `Guardar`
(activarDesactivar). `solapadas` is history: zones two requests touched at once, with the zones
that spaces were moved to or from while one of the two was such a zone; `mudadas`: zones a space
was moved to. A new space takes the state its request names, or DISPONIBLE (`Insertadas`).

`Parqueo` takes `actualizarEstado` as one step and looks at the state of a space only; `Zonas`
looks at what the other operations of ModuloZonas do to the rows around it.

### Usuarios

Rows are keys: a user, role or permission, a grant (user, role), a row of role_permission
(role, permission). `fila` says of each key whether it is absent, active or inactive; `permitido`
holds the ids of the rows of role_permission, since that table has no unique index. `peticion`
holds the requests with what their handler read (`leida`), what `save` read again (`base`) and
what else the first query brought (`vistas`); `PrimerPaso` and `Siguiente` are the order of the
reads in each handler. `cascada` holds the listener that each deactivation starts: it reads the
grants once (`CascadaLeer`) and saves them one by one (`CascadaComparar`, `CascadaGuardar`), beside
the request that emitted the event and after it. `ficha` is the last token of each user. History:
`solapados`, keys that two requests or listeners were busy with at once; `heridas`, keys whose
listener was cut by a failure or a stop; `apagadas`, users and roles that an edit made inactive.

An edit is one of three operations (`Edicion`): the services lay the whole body of a PATCH over the
entity, and the `ValidationPipe` has no whitelist, so a body may say `active: true` or
`active: false` (`encender`, `apagar`) or say nothing of it (`editar`). None of them emits an event.

`Comparar` has a case that surprises: a role is read with its grants, so saving it when a grant
has been added since makes TypeORM set that grant's key to NULL, which the table refuses.

### Altas

`alta` holds the registrations: the check that the dni and contact are new (`verificar`), the
commit of the person (`guardar`), the search for a free username (`nombre`, a suffix at a time),
the two halves of the insert of the user, and the grant of CLIENTE. It also holds the other two
requests that meet a registration: PATCH /personas/:id with another contact (`leer`, `revisar`,
`modificar`) and PATCH /users/:id with another username (`consultar`, `disputar`, `renombrar`: the
reading, the search and the save). `servicio` and `indice` are
the boot: a row of the seed at a time, then `BuscarRaiz`, which registers the root person through
the same steps (`Semilla` is that registration) and `OtorgarRaiz`. `Caida` may come at any step;
`Arrancar` boots again. History: `cortadas`, persons whose registration a failure or a stop cut
after the commit; `cruzadas`, persons whose chosen username somebody else was given before they
were, by a registration or by a PATCH (`Nombrar` adds them when the name is stored).

### Auditoria

`intento`, `temporizador`, `canal`, `vivas`, `atendidas` and `avisos` are the fields of
`EventPublisher` and the connections themselves: opened, with handlers or not, dropped with
handlers still to run. `Publicar` sends an event or waits for the connection, and
`FallarPublicacion` is its catch: the event is lost and the channel forgotten, with its connection
open (it counts in `cruces`, as every connection lost sight of). The publishers in
Java and Python (`Sueltos`) are one step, as their libraries keep the connection. The consumer
boots (`IniciarConsumidor`), is delivered events, saves and acknowledges or refuses them in steps
of its own, may be cut between them and is then delivered the same event again (`copias` counts
the rows). `SinRol` are the events whose `rol` is empty, which the DTO refuses.

### Tablero

One page: `token` and the tokens that expired, the fetches in flight (`consulta`) with the token
they carry, the streams (`fuente`) with their state and timer, `eventSource` (the one that logout
would close), `colas` (one queue per subscriber). `espacios` is the version of the spaces, `vista`
the one shown. Any answer may be the last one to arrive.

### Sesion

Tabs share `guardado` (localStorage) and have their own `fase`, `ficha`, `usuario` (the state of
AuthContext), `ruta` and `yendose` (window.location was assigned). Requests carry the token that is
stored when they are sent. `ajenas` is history: tabs that saw another tab change the stored token.

### Paginas

`clase` chooses the page. A request is sent (`Pulsar`), served or lost (`Atender`, `Perder`), and
its answer is handled (`Recibir`, `RecibirTabla`, `RecibirError`), each of which changes what is
shown as that page's handler does. `Ajeno` is another user of the same service. `tablaDudosa` and
`listaDudosa` are history: what is shown may be old, because requests of the page overlapped, an
answer was lost or somebody else changed a row.

Closing a ticket and freeing its space are two things: ticket-service answers 200 also when the call
that frees the space failed. `Hacer` leaves such a space in `retenidos`, `Lista` shows it occupied,
and `Retrasar` frees it later, or occupies one whose ticket is closed: that is the event, a call that
comes late, or the staff. The page is not told, so a change after its reload puts the table in
doubt until it asks again. `UsuariosPage` is given grants without their roles: it offers every role,
also those that its user holds (`RolDeUsuario`), and writes "?" for each grant, so all that can be
seen of its table is how many grants are active (`SeVe`).

### Plataforma

The five parts `Altas`, `Auditoria`, `Tablero`, `Sesion` and `Paginas` do not share state with the core, and no step of one is a step of another: the
first state chooses `modo`, the part a behaviour is about, and the variables of the others stand
still. A variable name that two parts use (`usuario`, `fallas`, `envio`) belongs to the part that
was chosen. This is a way to check five specifications in one run, not a claim about their
interaction.

## 3 Runs

| Run | Instance | Shows |
|---|---|---|
| `parqueo_concurrente` | 2 tickets, 1 space, both closings, all overlapping, all calls and messages may fail | `TypeOK`, `OcupadoTieneCausa`, `TicketNoSePierde` |
| `parqueo_serial` | the same, one request at a time, plus crashes and staff | `UnActivoPorEspacio`, `CobroCoherente`, `Convergencia`, `RefinaCiclo` |
| `parqueo_vida` | 2 tickets, 1 space, salida, faults, crashes, fairness | `SolicitudTermina`, `Liberacion` |
| `parqueo_doble` | no faults | `UnActivoPorEspacio` is violated by two overlapping openings |
| `parqueo_doble_cierre` | no faults | `SoloActivosSeCierran` is violated by overlapping salida and anular |
| `asignaciones` | 2 owners, 1 vehicle, 4 requests, up to 3 at once, faults, crashes | `TypeOK`, `UnaActivaSinSolape`, `AuditoriaReconstruye`, `AltaRegistrada`, `BajaDefinitiva` |
| `asignaciones_doble` | no faults | `UnaActivaPorVehiculo` is violated by two overlapping creations |
| `vehiculos` | 1 plate, 6 requests, up to 3 at once, faults, crashes | `TypeOK`, `OcupacionVeraz`, `DentroSinBloqueo`, `CadaQuienLoSuyo` |
| `zonas` | 3 zones, 2 spaces, 7 requests, 2 at once, any of which may fail | `TypeOK`, `CapacidadRespetada`, `ColumnasPropias`, `DesactivarLimpio` |
| `vehiculos_doble` | no faults | `SinDobleIngreso` is violated by two overlapping entries |
| `usuarios` | 1 user, 2 roles, 1 permission, 2 row ids, 2 requests at once with their listeners, faults, crashes | `TypeOK`, `CascadaCompleta`, `PermisoUnico`, `SesionVigente`, `ConcesionNoRevive` |
| `plataforma` | the five parts below | `Tipos`, `PersonaConUsuario`, `ArranqueLlega` (Altas); `UnaConexion`, `EventoSeGuarda` (Auditoria); `TableroAlDia` (Tablero); `IdentidadCoherente`, `RutaSeAsienta` (Sesion); `VistaAlDia` (Paginas) |

Why the bounds are enough. All conflicts of ticket-service are about one space, and two tickets
for it are enough for every pair of handlers to meet; each ticket may have a salida and an anular
at once (`Intentos = {1}`). The queue is not bounded: it holds one event per request. In
`Asignaciones` conflicts are about one vehicle, and four requests allow create, remove, create
for the other owner, reactivate, which is the longest story the handlers distinguish
(`MaxPeticiones`). In `Vehiculos` six requests are enough for create, block, reactivate, enter,
edit, leave. In `Zonas` a space may be in a third zone while an old request still holds it as of
the first, and seven requests are enough to create the zones, a space, move it twice and save
the old row over it; two of the zones are of one class, so that `ZonaRepetida` bites. Rows of
different spaces, vehicles or plates are never touched by one request. The
proofs remove these bounds for the safety properties. Spaces are created with one of the states the
orders of the run name.

`Usuarios` starts in every state of its tables that requests one after the other leave behind, so
two requests are enough for every pair of handlers to meet in every such state, each with its
listener; two roles make a cascade of a user save two grants.

The parts of `plataforma`: `Altas` has three forms for one name (the seeder's root among them, the
longest chain of suffixes), two requests beside the boot, of which one may rename a user, two seeded
rows, two failures, and starts with an empty database or a seeded one. `Auditoria` has one event of a NestJS service and
one of the others that is not valid, two connections (a second one while the first is alive is
all `UnaConexion` is about), two failures. `Tablero` has two fetches (any order of answers), two
logins with their streams, one change of the spaces, one failure. `Sesion` has two tabs, four
tokens (an administrator, a collector, a client, an old token with no person), four routes (the
login, one for administrators and collectors, one for administrators, one for clients), one request
for data beside those of AuthContext and one reload. `Paginas` takes each of the six kinds of page with two rows, two
requests at once and two clicks.

The qualification "while requests do not overlap" of several properties (`Serial` in `Parqueo`,
`solapados` or `solapadas` elsewhere) is not an assumption the code enforces: the violating runs
show what happens without it. `Serial` restricts the environment; `solapados` restricts nothing, it
only remembers which vehicles, zones or rows the property no longer speaks of.

`CHECK_DEADLOCK FALSE`: the systems rest when every request has ended, and requests are bounded.

Fairness (`parqueo_vida`): weak fairness of each request's continuation, because the event loop
runs every ready coroutine and the HTTP client's timeout bounds every wait (the timeout itself is
`OcupadoFallido`/`DisponibleFallido`, enabled while waiting); of Zonas serving a call that has
arrived; of the broker delivering to the listener. Nothing makes a client send a request, and
no fault has to happen or to stop happening.

Fairness in `plataforma`, each part its own: `Spec` of `Plataforma` states none, and `SpecViva` of
`MCPlataforma` adds what the module of each part says, for the two fetches, two events and one tab
of the instance. `Altas`: somebody starts the service again after it
stopped (docker-compose names no restart policy, so this is its operator) and the boot goes on;
registrations of people are under no fairness. `ArranqueLlega` speaks of each boot by itself: from
a stopped service, a service that answers follows unless a failure comes first. It excepts a store
with the root person and no grant of ROOT (`Atascada`), over which every boot fails (section 5).
`Auditoria`: the consumer boots and its callbacks run; nothing makes a failed consumer come back.
`Tablero`: fetches are answered and handled, and the interval ticks; events and streams are under
no fairness, since `TableroAlDia` says they may all be lost. `Sesion`: the browser renders, follows
an assigned location, and the requests of AuthContext are answered or fail; `RutaSeAsienta` is
checked for one of the two tabs, which are alike.

## 4 Proofs

The proofs hold for any number of tickets, spaces, owners, vehicles, plates and requests, with
any of the faults on or off; the only assumptions are the types of the constants and that
constants of different kinds differ.

`ParqueoProofs`

* `TipoCorrecto`: the type invariant.
* `SinFugas`: `OcupadoTieneCausa`. It is not inductive: a late OCUPADO in the queue may be applied
  after the space was freed. The invariant `IndCausa` speaks of the queue as well: every queued
  OCUPADO has a DISPONIBLE of its space behind it, or a direct cause now (an active ticket, a
  request about to emit the release, a logged fault), and every call OCUPADO on its way has a
  waiting request with an active ticket or a fault.
* `NoSePierde`: `TicketNoSePierde`, from the control of the requests (`ControlTicket`): a rollback
  only runs for a ticket that was not answered, a closing only for one that was.
* `UnActivo`, `Cobro`: with `Serial`, from `IndSerial`, whose core is that at most one request is
  running and what it checked still holds when it writes.
* `Refinamiento`: with `Serial`, every step of `Parqueo` is a step of `CicloTicket` or a stutter.
* `Acuerdo`: `Convergencia`, with `Serial`, as the property is about clients that wait for each
  other. One half (a space left OCUPADO has a ticket) follows from `IndCausa`. The other (an
  active ticket keeps its space OCUPADO) is about the order of what is still on its way: `Marcado`
  says that the space is OCUPADO, or that the queue will make it so, and that nothing queued behind
  frees it. `Vigilancia` is what keeps it true: a late DISPONIBLE over HTTP is either awaited or in
  `averias`, an active ticket is answered or still being opened, and a closing that has written its
  row leaves no active ticket in its space.

`AsignacionesProofs`: `TipoCorrecto`, `UnaActiva` (`UnaActivaSinSolape`), `Bajas`
(`BajaDefinitiva`), and two about the audit trail:

* `Altas` (`AltaRegistrada`): a row has the record of its creation, one is being made, or it was
  lost. No row is ever deleted, which `FilaPersiste` says of the key that a change or a removal
  has found.
* `Reconstruye` (`AuditoriaReconstruye`): `Historia` says of each key in no doubt that its records
  form a chain (`Cadena`), each starting where the one before it ended, and that the last ends in
  the row (`Final`), or in what the one request that has written it is about to record. That
  reading the trail gives the row is an argument over the position of the records, by the least
  element of a set of naturals (`Minimo`).

`VehiculosProofs`: `TipoCorrecto`, `Ocupacion` (`OcupacionVeraz`), `Bloqueo`
(`DentroSinBloqueo`), `Columnas` (`CadaQuienLoSuyo`). In both services the rule is checked some awaits
before the row is written, so the invariant has two more parts: `Solitaria`, two requests on one
vehicle put it in `solapados`, and `Coherente`, a request alone on its vehicle holds, at each of
its steps, what the table says now.

`UsuariosProofs`: `TipoCorrecto`; `Unico` (`PermisoUnico`), `NoRevive` (`ConcesionNoRevive`),
`Cascada` (`CascadaCompleta`) and `Sesiones` (`SesionVigente`). A row may be busy with several
requests and with the listeners they left behind, so the invariant first says who is alone with
a row (`Sola` for a request, `SuOyente` for a listener) and then what that one may rely on:

* `apagadas` is where an edit, which emits nothing, ends these promises for a user or a role;
* `DuenoActivo` and `LeidaFresca`: what a request that is alone read is still in the table;
* `PendientesCubren` and `CascadaHecha`: every active grant of an inactive user or role is among
  those its listener has still to save, so none is left when it ends; this is the part that
  `CascadaCompleta` lacks, being silent while a listener runs;
* `VistasVigentes`: what a login has seen is still active when it gives the token.

`ZonasProofs`: `TipoCorrecto`; `Capacidades` (`CapacidadRespetada`), `Columnas`
(`ColumnasPropias`) and `Desactivar` (`DesactivarLimpio`). Requests meet on zones, but a request
on a space keeps the zone the space was in when it began, and the space may be moved meanwhile.
The invariant has four parts:

* `Apartadas`: two requests that touch one zone have all their zones in `solapadas`;
* `Cercanas`: a row a request holds lies in a zone it touches, or in an overlapped one when its
  own zones are overlapped; a move keeps this true for everybody who holds the row;
* `Coherentes`: a request without overlap holds what the tables say, but for the one column its
  operation changes;
* `Medidas`: a zone has room for the space that a request is about to insert, which is what
  `CapacidadRespetada` does not say of the time between the count and the insert.

`PlataformaProofs` proves of `Spec` of `Plataforma` the invariants that the run `plataforma` checks.
By `ParteElegida` a step is a step of the part that was chosen. The proofs about `Altas` and
`Sesion` are in modules of their own, whose assumptions (`Distintos`, `Cotas`, `Conocidas`) follow
from `PlataformaAssumption`; lemmas `MismasAltas` and `MismaSesion` carry them over to the instances
in `Plataforma`.

* `Personas` (`PersonaConUsuario`): a registration may be refused after its person was committed,
  when its username is taken. `Libres` says that the name it found free is free still or its person
  is in `cruzadas`: whoever stores a name compares it with those that were chosen. `Conocidas` keeps
  a change of contact from storing a person, and `Solitaria` says that the registration of the boot
  runs only while the boot waits for it.
* `Conexion` (`UnaConexion`): an attempt that has not opened its connection yet will add one, so
  `Contadas` counts a place for it among those not lost sight of.
* `Identidad` (`IdentidadCoherente`): a loading page reads the user before the token (`Leida`), and
  a validation is answered to the page that waits for it and to no later one (`Esperada`).
* `Vista` (`VistaAlDia`): the property is about a page at rest, the invariant about the requests in
  flight. `Suelta`: while nothing is in doubt at most one is. `TablaFiel`: the table is the one of
  the service (`Lista`, with the spaces still occupied), or the request will fetch it. `ListaFiel`: each ticket is in the list once and as it
  is, but for one whose closing has been answered and not handled, and the request in flight
  knows whether its ticket is in the list.
* `TiposCorrectos` (`Tipos`): the types of the parts, among them two bounds that are not inductive:
  an audit event is stored again only after a failure (`Copias`), and a stream queues no more events
  than there were changes (`IndTablero`).

Every safety invariant and action property that a passing run checks is stated by a theorem.
Only model-checked: liveness (`SolicitudTermina`, `Liberacion`, `ArranqueLlega`, `EventoSeGuarda`,
`TableroAlDia`, `RutaSeAsienta`), which the prover does not do. What a recursive definition
computes for every input is out of its reach too; the models have none, and the arguments over
sequences are by a least element.

## 5 Where the code and its documentation disagree

* Two overlapping POST /tickets for one space both succeed (`parqueo_doble`). Afterwards
  `get_activo_by_espacio` raises for that space, since it expects one row at most.
* Overlapping salida and anular of one ticket both succeed (`parqueo_doble_cierre`): a cancelled
  ticket with an amount charged.
* Two overlapping assignments of one vehicle to different owners both succeed
  (`asignaciones_doble`); the table's key is (user, vehicle), not the vehicle.
* Two overlapping entries of one plate are both authorised (`vehiculos_doble`).

Seen while reading, with no run of its own.

* Zones: a space may be moved to a full zone, although field capacidad is described as the maximum
  (the zones in `mudadas`); `numeroZona++` numbers the second zone like the first, so a second zone
  of the same type and size is refused until one of another class exists; reactivating a zone
  revives spaces that were removed one by one.
* Vehicles: `findByPlacaOpcional` says it does not throw and it does, so the walk-in entry and its
  compensation never run; `existeVehiculo` of assignment-service says it returns false when
  vehicles is down, and it throws.
* Users: `update-user.dto.ts:10` says of the body of PATCH /users/:id "No permite cambiar el ID ni el
  activo". It does: `main.ts:10` has no whitelist and `users.service.ts:159` assigns the body, as
  `roles.service.ts:84` and `permissions.service.ts:51` do, so `active: false` is saved with no event,
  the grants stay active, and logins go on naming a role that was switched off this way. This is
  why `CascadaCompleta` and `SesionVigente` except `apagadas`: after one such PATCH both would fail
  otherwise, with no overlap and no fault.
* Users: a PATCH may take the username that a registration has just found free; the registration is
  then refused and its person stays without a user (`cruzadas`), as with two registrations of one name.
* Users: the comment at `personas.service.ts:60` says that person and user are created atomically,
  and the person is committed before the user is created (`cortadas` in `Altas`). `activate` and
  `deactivate` of `PersonasService` save a person with the repository of users and always fail. A
  grant that overlaps a deactivation survives it (the keys in `solapados`). A database with the root
  person and no grant of ROOT, which a boot cut before `seeder.service.ts:144` or a removal of the
  last grant leaves, makes every boot fail: the seeder registers the root person again and is
  refused (`Atascada`).
* Audit: the retry of the consumer connects and does not consume; an event of a user with no role is
  refused by the DTO and dropped; the timer of a publisher may open a second connection over a good
  one, which nobody closes; `README_AUDIT_IMPLEMENTATION.md:37` says that ticket-service handles its
  connection at startup and shutdown, and it connects at the first event.
* Browser: `findAll` of grants loads no role (`roleusers.service.ts:50-52`), so `UsuariosPage.tsx:37`
  writes "?" for each grant and the button at line 201 is never disabled for a role already held.
* Browser: a ticket that was closed may leave its space OCUPADO (`ticket_service.py:170`, `:202`) until
  the event is consumed; `TicketsPage` asks for the spaces before that and shows it occupied.
* Browser: a wrong password on the login page answers 401, which the interceptor turns into a reload
  of that page, so its error message is lost; the switch of `UsuariosPage` calls the two operations
  above and shows an error each time.

## 6 Limits of the models

* Data are abstracted: amounts, dates, categories, names and codes. The checks of zone,
  vehicle, owner and category are one step that may reject.
* The id of a ticket is known from the 201 answer only, so a ticket whose creation was not
  answered is closed by nobody.
* The queue Zonas listens to is taken to be bound to the exchange the ticket service publishes
  to, as docker-compose intends (the names come from its environment).
* `actualizarEstado` reads and saves a row in one transaction; the models take such transactions
  of Zonas one after the other in `Parqueo`, and in two steps, read and flush, in `Zonas`.
* `Zonas`: the persistence context spans a web request (Spring's default), and entities have no
  version and no dynamic update. `findByZonaAndEstado` is given the id of a zone where the entity
  is expected; the model takes it to find the zone's spaces, and to fail when `ConFallas` lets it.
  Codes of spaces are abstracted: a code taken meanwhile is one of the failures. Capacity is 1 in
  the run, any number in the module. States other than DISPONIBLE and OCUPADO are not requested
  in the run, of a new space or of an old one; nothing in these operations looks at them.
* A write in flight at a crash has either happened before it or never happens. In `Parqueo`
  and `Vehiculos` a write whose answer is lost is one that happened and whose request ends.
* ModuloZonas has no endpoint for the free spaces the gateway asks for, as the client's own
  comment says; the answer is either that there is space or a rejection.
* `Usuarios`: names, e-mails and hashes of passwords are left out; a login has the right password or
  does not happen. The listener of a deactivation is modelled for users and roles, which are the
  entities that emit its event.
  The bodies of its edits hold the fields of their DTO and `active`; other columns that the missing
  whitelist lets through (ids, dates, the person of a user) are left out.
* `Altas`: usernames given by a PATCH are those a registration could choose, with suffixes up to
  `MaxPeticiones`; any other is nobody's candidate.
* `Auditoria`: events of one service are alike; how long a timer waits is abstracted to whether it
  is set.
* `Tablero`, `Sesion`: a token expires when a service refuses it (`Rechazar`), at any moment; clicks
  while a page is being left are not modelled, as the browser drops them.
* `Paginas`: rows are a state; forms, filters, validation and layout are left out; a row of
  `TicketsPage` stands for a space and the one ticket it takes, so a space that was used is not used
  again, and the staff does not free a space under a ticket (`Parqueo` has both).
* Not modelled: GET endpoints that change nothing, except where an answer that is late matters
  (`Tablero`, `Paginas`); the tariffs, a table and a rounding of hours that nothing else depends
  on; Kong, whose routing and checks keep no state; the seed and load scripts, which are clients.

## 7 Plan

Done: tickets and spaces, assignments, vehicles, zones and spaces, users with roles and grants,
persons and boot, the audit publishers and their consumer, the dashboard, the session and the pages
of the browser, each with proofs of its invariants.
Left, in this order:

1. Tariffs as functions of the elapsed time, checked against a reference definition.
2. Properties for the hazards that have none, each named in `PROJECT.json` with the reason.
