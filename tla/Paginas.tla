------------------------------- MODULE Paginas -------------------------------
(***************************************************************************)
(* The pages of parking-frontend that list what a service keeps and change *)
(* it: TicketsPage, VehiculosPage, ZonasPage, UsuariosPage and             *)
(* MiVehiculoPage; DashboardPage and MiPerfilPage only load.               *)
(*                                                                         *)
(* A page asks for its table when it is mounted and again after each       *)
(* change that the service accepted, and shows whichever answer arrives    *)
(* last.  TicketsPage asks for the spaces that way, and keeps its own list *)
(* of the tickets that were made or searched since it was mounted.         *)
(*                                                                         *)
(* A ticket and its space change in two services: a close is accepted      *)
(* though its space could not be freed, which an event frees later.        *)
(***************************************************************************)
EXTENDS Naturals, Sequences, FiniteSets

CONSTANTS
  Clases,      \* the pages looked at
  Filas,       \* rows that may exist; bound: each space takes one ticket, and is its row
  Envios,      \* requests that may be in flight at once
  MaxPedidos   \* bound: clicks

VARIABLES
  clase,     \* which page this is
  cargando,  \* state loading
  tabla,     \* the table it shows
  tickets,   \* the list of TicketsPage
  registro,  \* showOnboarding of MiVehiculoPage
  filas,     \* the rows of the service
  retenidos, \* spaces that are occupied without an active ticket
  envio,     \* each request
  pedidos,
  tablaDudosa, listaDudosa \* history, see Perturbar

vars == <<clase, cargando, tabla, tickets, registro, filas, retenidos, envio, pedidos, tablaDudosa, listaDudosa>>

Estados == {"no", "activa", "cerrada"}
Tabla == [Filas -> Estados]
Vacia == [f \in Filas |-> "no"]
Libre == [tipo |-> "libre"]

Envio ==
  [tipo : {"listar"}, paso : {"enviado", "error"}]
    \cup [tipo : {"listar"}, paso : {"hecho"}, tabla : Tabla]
    \cup [tipo : {"crear", "cerrar", "buscar"}, paso : {"enviado", "error"}, fila : Filas, estaba : BOOLEAN]
    \cup [tipo : {"crear", "cerrar", "buscar"}, paso : {"hecho"}, fila : Filas, estaba : BOOLEAN, estado : Estados]

TypeOK ==
  /\ clase \in Clases
  /\ cargando \in BOOLEAN
  /\ tabla \in Tabla
  /\ \A i \in 1..Len(tickets) : tickets[i] \in Filas \X (Estados \ {"no"})
  /\ registro \in BOOLEAN
  /\ filas \in Tabla
  /\ retenidos \subseteq Filas
  /\ envio \in [Envios -> Envio \cup {Libre}]
  /\ pedidos \in 0..MaxPedidos
  /\ tablaDudosa \in BOOLEAN /\ listaDudosa \in BOOLEAN

Ocupados == {q \in Envios : envio[q] # Libre}

\* The page was mounted: its effect sent the request for the table.
Init ==
  /\ clase \in Clases
  /\ cargando = TRUE
  /\ tabla = Vacia
  /\ tickets = <<>>
  /\ registro = FALSE
  /\ filas \in [Filas -> {"no", "activa"}]
  /\ retenidos = {}
  /\ \E q \in Envios :
       envio = [o \in Envios |-> IF o = q THEN [tipo |-> "listar", paso |-> "enviado"] ELSE Libre]
  /\ pedidos = 0
  /\ tablaDudosa = FALSE /\ listaDudosa = FALSE

PaginaIgual == UNCHANGED <<clase, cargando, tabla, tickets, registro>>
HistoriaIgual == UNCHANGED <<tablaDudosa, listaDudosa>>
ServicioIgual == UNCHANGED <<filas, retenidos>>

-----------------------------------------------------------------------------
(***************************************************************************)
(* The services.                                                           *)
(***************************************************************************)

\* The table of a page: its rows, or the spaces of the tickets.
Lista == [f \in Filas |-> IF f \in retenidos THEN "activa" ELSE filas[f]]

\* Variant: a search that finds nothing is answered like one that does.
PuedeSinMirar(tipo, f) == tipo = "crear" => Lista[f] = "no"

\* A service refuses to make a row that exists, or a ticket whose space is occupied,
\* and to close one that is closed: only a vehicle can be removed twice.
Puede(tipo, f) ==
  CASE tipo = "crear" -> Lista[f] = "no"
    [] tipo = "cerrar" -> filas[f] = "activa" \/ (clase = "vehiculos" /\ filas[f] # "no")
    [] tipo = "buscar" -> filas[f] # "no"

Resultado(tipo, f) ==
  CASE tipo = "crear" -> "activa" [] tipo = "cerrar" -> "cerrada" [] tipo = "buscar" -> filas[f]

\* A ticket is closed for good even when the call that frees its space fails.
Hacer(tipo, f) ==
  /\ filas' = [filas EXCEPT ![f] = Resultado(tipo, f)]
  /\ \/ UNCHANGED retenidos
     \/ clase = "tickets" /\ tipo = "cerrar" /\ retenidos' = retenidos \cup {f}

Atender(q) ==
  /\ envio[q] # Libre /\ envio[q].paso = "enviado"
  /\ LET e == envio[q] IN
     \/ /\ e.tipo = "listar"
        /\ envio' = [envio EXCEPT ![q] = [tipo |-> "listar", paso |-> "hecho", tabla |-> Lista]]
        /\ ServicioIgual
     \/ /\ e.tipo # "listar" /\ Puede(e.tipo, e.fila)
        /\ Hacer(e.tipo, e.fila)
        /\ envio' = [envio EXCEPT ![q] =
             [tipo |-> e.tipo, paso |-> "hecho", fila |-> e.fila, estaba |-> e.estaba,
              estado |-> Resultado(e.tipo, e.fila)]]
     \/ /\ e.tipo # "listar" /\ ~Puede(e.tipo, e.fila)
        /\ envio' = [envio EXCEPT ![q].paso = "error"]
        /\ ServicioIgual
  /\ PaginaIgual /\ HistoriaIgual
  /\ UNCHANGED pedidos

\* Somebody else uses the same service.
Ajeno(f) ==
  /\ \E tipo \in {"crear", "cerrar"} :
       /\ IF tipo = "crear" THEN Lista[f] = "no" ELSE filas[f] = "activa"
       /\ Hacer(tipo, f)
  /\ tablaDudosa' = TRUE /\ listaDudosa' = TRUE
  /\ PaginaIgual
  /\ UNCHANGED <<envio, pedidos>>

\* A call or an event that comes late, or somebody of the staff, frees a space at last,
\* or occupies one whose ticket was closed meanwhile.  No page listens to it.
Retrasar(f) ==
  /\ clase = "tickets"
  /\ \/ f \in retenidos /\ retenidos' = retenidos \ {f}
     \/ filas[f] # "activa" /\ retenidos' = retenidos \cup {f}
  /\ tablaDudosa' = TRUE
  /\ PaginaIgual
  /\ UNCHANGED <<filas, envio, pedidos, listaDudosa>>

\* A request fails on its way, in the service or on the way back: what was asked for
\* may have been done, or a ticket was taken back and its space was not.
Perder(q) ==
  /\ envio[q] # Libre /\ envio[q].paso = "enviado"
  /\ envio' = [envio EXCEPT ![q].paso = "error"]
  /\ \/ ServicioIgual
     \/ /\ envio[q].tipo # "listar" /\ Puede(envio[q].tipo, envio[q].fila)
        /\ Hacer(envio[q].tipo, envio[q].fila)
     \/ /\ clase = "tickets" /\ envio[q].tipo = "crear" /\ Puede("crear", envio[q].fila)
        /\ retenidos' = retenidos \cup {envio[q].fila}
        /\ UNCHANGED filas
  /\ tablaDudosa' = TRUE /\ listaDudosa' = TRUE
  /\ PaginaIgual
  /\ UNCHANGED pedidos

-----------------------------------------------------------------------------
(***************************************************************************)
(* The page.                                                               *)
(***************************************************************************)

\* The history: two requests of the page were in flight at once.  A table asked
\* for while nothing else is in flight puts an end to any doubt about it.
Perturbar(tipo) ==
  IF Ocupados # {}
  THEN tablaDudosa' = TRUE /\ listaDudosa' = TRUE
  ELSE tablaDudosa' = (tablaDudosa /\ tipo # "listar") /\ UNCHANGED listaDudosa

EnLista(f) == \E i \in 1..Len(tickets) : tickets[i][1] = f
Activa(f) == \E i \in 1..Len(tickets) : tickets[i] = <<f, "activa">>

\* What each page lets its user click, by what it shows and not by what there is.
\* The rows of TicketsPage that look active have the buttons of handleSalida and
\* handleAnular; its form takes a space that looks free.
Ticket(tipo, f) == clase = "tickets" /\ tipo = "cerrar" /\ Activa(f)
FormularioTicket(tipo, f) ==
  clase = "tickets" /\ (tipo = "buscar" \/ (tipo = "crear" /\ tabla[f] = "no"))

\* VehiculosPage removes any row of its table, and makes any vehicle.
Vehiculo(tipo, f) == clase = "vehiculos" /\ (tipo = "crear" \/ (tipo = "cerrar" /\ tabla[f] # "no"))

\* ZonasPage makes zones and spaces.
Zona(tipo, f) == clase = "zonas" /\ tipo = "crear"

\* UsuariosPage would disable the roles that its user holds, but the grants come
\* without their roles: it offers them all.
RolDeUsuario(tipo, f) == clase = "usuarios" /\ tipo = "crear"

\* MiVehiculoPage makes vehicles of its user: with a welcome that cannot be
\* closed when it shows none, and in a window otherwise.
MiVehiculo(tipo, f) == clase = "mi-vehiculo" /\ tipo = "crear" /\ registro

Ofrece(tipo, f) ==
  \/ Ticket(tipo, f) \/ FormularioTicket(tipo, f)
  \/ Vehiculo(tipo, f)
  \/ Zona(tipo, f)
  \/ RolDeUsuario(tipo, f)
  \/ MiVehiculo(tipo, f)

\* A form whose button is disabled until its answer.
Enviandose(tipo) ==
  /\ tipo = "crear" /\ clase # "zonas"
  /\ \E o \in Ocupados : envio[o].tipo = "crear"

\* The buttons of a row, and the search, can be clicked again.
Pulsar(q, tipo, f) ==
  /\ ~cargando /\ pedidos < MaxPedidos
  /\ Ofrece(tipo, f) /\ ~Enviandose(tipo)
  /\ envio[q] = Libre
  /\ envio' = [envio EXCEPT ![q] = [tipo |-> tipo, paso |-> "enviado", fila |-> f, estaba |-> EnLista(f)]]
  /\ pedidos' = pedidos + 1
  /\ Perturbar(tipo)
  /\ PaginaIgual
  /\ ServicioIgual

\* The window of MiVehiculoPage is opened, or closed with Cancelar.
Abrir ==
  /\ clase = "mi-vehiculo" /\ ~cargando /\ tabla # Vacia
  /\ registro' = ~registro
  /\ HistoriaIgual
  /\ UNCHANGED <<clase, cargando, tabla, tickets, filas, retenidos, envio, pedidos>>

\* handleToggleActive of UsuariosPage: PersonasService saves a person with the
\* repository of users, and always fails.
Alternar ==
  /\ clase = "usuarios" /\ ~cargando /\ pedidos < MaxPedidos
  /\ pedidos' = pedidos + 1
  /\ PaginaIgual /\ HistoriaIgual
  /\ UNCHANGED <<filas, retenidos, envio>>

\* What a page shows when its table did not come: what it showed before.
\* MiVehiculoPage takes any failure for an owner without vehicles.
TrasFallar == IF clase = "mi-vehiculo" THEN Vacia ELSE tabla

\* An answer of the table is shown.
RecibirTabla(q) ==
  /\ envio[q] # Libre /\ envio[q].tipo = "listar" /\ envio[q].paso # "enviado"
  /\ tabla' = IF envio[q].paso = "hecho" THEN envio[q].tabla ELSE TrasFallar
  /\ registro' = (registro \/ (clase = "mi-vehiculo" /\ tabla' = Vacia))
  /\ cargando' = FALSE
  /\ envio' = [envio EXCEPT ![q] = Libre]
  /\ HistoriaIgual
  /\ UNCHANGED <<clase, tickets, filas, retenidos, pedidos>>

\* setTickets(prev => prev.map(...))
Reemplazar(f, estado) ==
  [i \in 1..Len(tickets) |-> IF tickets[i][1] = f THEN <<f, estado>> ELSE tickets[i]]

\* handleCreate puts the ticket first; handleSearch does when its list had none.
\* estaba is what it saw in the list it closed over when it was sent.
Incorporar(e) ==
  IF clase # "tickets" THEN tickets
  ELSE IF e.tipo = "crear" \/ (e.tipo = "buscar" /\ ~e.estaba)
       THEN <<<<e.fila, e.estado>>>> \o tickets
       ELSE Reemplazar(e.fila, e.estado)

\* Variant: the page does not ask for its table again.
NoRecargar(q) == envio' = [envio EXCEPT ![q] = Libre] /\ HistoriaIgual

\* The table is asked for again.
Recargar(q) ==
  /\ envio' = [envio EXCEPT ![q] = [tipo |-> "listar", paso |-> "enviado"]]
  /\ IF Ocupados = {q}
     THEN tablaDudosa' = FALSE /\ UNCHANGED listaDudosa
     ELSE tablaDudosa' = TRUE /\ listaDudosa' = TRUE

\* A change was accepted.
Recibir(q) ==
  /\ envio[q] # Libre /\ envio[q].tipo # "listar" /\ envio[q].paso = "hecho"
  /\ tickets' = Incorporar(envio[q])
  /\ registro' = (registro /\ envio[q].tipo # "crear")
  /\ IF envio[q].tipo = "buscar"
     THEN envio' = [envio EXCEPT ![q] = Libre] /\ HistoriaIgual
     ELSE Recargar(q)
  /\ UNCHANGED <<clase, cargando, tabla, filas, retenidos, pedidos>>

\* A change was refused or lost: the page says so and asks for nothing.
RecibirError(q) ==
  /\ envio[q] # Libre /\ envio[q].tipo # "listar" /\ envio[q].paso = "error"
  /\ envio' = [envio EXCEPT ![q] = Libre]
  /\ PaginaIgual /\ HistoriaIgual
  /\ UNCHANGED <<filas, retenidos, pedidos>>

-----------------------------------------------------------------------------

Next ==
  \/ Alternar \/ Abrir
  \/ \E q \in Envios :
       \/ Atender(q) \/ Perder(q) \/ RecibirTabla(q) \/ Recibir(q) \/ RecibirError(q)
       \/ \E f \in Filas, tipo \in {"crear", "cerrar", "buscar"} : Pulsar(q, tipo, f)
  \/ \E f \in Filas : Ajeno(f) \/ Retrasar(f)

Spec == Init /\ [][Next]_vars

-----------------------------------------------------------------------------

\* What can be seen of a table.  UsuariosPage writes "?" for every active grant of a
\* user, whatever its role.
SeVe(t) == IF clase = "usuarios" THEN Cardinality({f \in Filas : t[f] = "activa"}) ELSE t

\* A page at rest shows what its service keeps, and each of its tickets once and
\* as it is, unless requests of its own overlapped, one failed, or somebody else
\* changed what it shows: another user, or a late call or event about a space.
\* Asking for the table alone makes it good again.
VistaAlDia ==
  (Ocupados = {} /\ ~cargando) =>
    /\ ~tablaDudosa => SeVe(tabla) = SeVe(Lista)
    /\ ~listaDudosa => \A i, j \in 1..Len(tickets) :
         tickets[i][2] = filas[tickets[i][1]] /\ (tickets[i][1] = tickets[j][1] => i = j)

=============================================================================
