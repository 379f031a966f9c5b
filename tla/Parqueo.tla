------------------------------ MODULE Parqueo ------------------------------
(***************************************************************************)
(* The life of a parking ticket across the ticket service and the zones    *)
(* module.                                                                 *)
(*                                                                         *)
(* ticket-service keeps the tickets, one row each, and ModuloZonas keeps   *)
(* the state of every space.  Opening a ticket reads the space over HTTP,  *)
(* checks its own table, inserts the row, asks Zonas over HTTP to mark the *)
(* space OCUPADO and deletes the row again when that call fails.  Closing  *)
(* a ticket (salida or anular) commits the row and then asks Zonas to mark *)
(* the space DISPONIBLE, and only logs a failure.  Both publish the new    *)
(* state of the space to RabbitMQ, where a listener of Zonas applies it a  *)
(* second time, and push it to the SSE subscribers.                        *)
(*                                                                         *)
(* Every await of the Python coroutines is a place where another request   *)
(* may run, so a request is a process and each of its steps an action.     *)
(***************************************************************************)
EXTENDS Naturals, Sequences

CONSTANTS
  Espacios,         \* the parking spaces
  Tickets,          \* ids of the tickets, one per POST /tickets request
  Operaciones,      \* the closing requests in use: salida, anular or both
  Intentos,         \* closing requests of one kind a ticket may have at a time
  IdEspacio,        \* id_espacio of the body of each POST /tickets
  Serial,           \* TRUE: the clients send one request at a time
  ConFallas,        \* TRUE: calls fail, time out, and messages are lost
  ConCaidas,        \* TRUE: the ticket-service process may crash
  EstadosManuales   \* states the staff sets by hand through Zonas' own API

EstadoEspacio == {"DISPONIBLE", "OCUPADO", "RESERVADO", "MANTENIMIENTO"}

EstadoTicket == {"ACTIVO", "PAGADO", "ANULADO"}

ASSUME ParqueoAssumption ==
  /\ IdEspacio \in [Tickets -> Espacios]
  /\ Operaciones \subseteq {"PAGADO", "ANULADO"}
  /\ Serial \in BOOLEAN
  /\ ConFallas \in BOOLEAN
  /\ ConCaidas \in BOOLEAN
  /\ EstadosManuales \subseteq EstadoEspacio

(***************************************************************************)
(* A closing request is the ticket it names, its kind, named by the state  *)
(* it leads to (PAGADO for PATCH salida, ANULADO for PATCH anular), and a  *)
(* number that tells apart several requests of the same kind.              *)
(***************************************************************************)
Cierres == Tickets \X Operaciones \X Intentos

TicketDe(c) == c[1]

EstadoFinal(c) == c[2]

EspacioDe(c) == IdEspacio[TicketDe(c)]

VARIABLES
  pcAlta,        \* where each POST /tickets request is
  pcCierre,      \* where each PATCH salida or anular request is
  ticket,        \* estado_ticket of each row, "ausente" while there is no row
  cobrado,       \* fecha_hora_salida and valor_recaudado are written
  estado,        \* Zonas: estado of each space
  postsAlta,     \* requests whose POST OCUPADO is on its way to Zonas
  postsCierre,   \* requests whose POST DISPONIBLE is on its way to Zonas
  cola,          \* the queue of ticket events Zonas consumes
  averias        \* history: spaces that a fault touched, and how

serviceVars == <<pcAlta, pcCierre, ticket, cobrado>>

zonasVars == <<estado, postsAlta, postsCierre>>

vars == <<pcAlta, pcCierre, ticket, cobrado, estado, postsAlta, postsCierre,
          cola, averias>>

EnCursoAlta == {"leido", "validado", "creado", "esperando", "revertir", "emitir"}

FinAlta == {"respondido", "rechazado", "caido"}

EnCursoCierre == {"leido", "persistido", "esperando", "emitir"}

FinCierre == {"respondido", "rechazado", "caido"}

Evento == [espacio : Espacios, estado : {"OCUPADO", "DISPONIBLE"}]

(***************************************************************************)
(* History of the faults.  <<e, "fuga">> records a fault after which e may *)
(* stay OCUPADO with no ticket on it, <<e, "hueco">> one after which e may *)
(* stay DISPONIBLE under an active ticket.  The program reads neither.     *)
(***************************************************************************)
Averia == Espacios \X {"fuga", "hueco"}

Fuga(e) == <<e, "fuga">>

Hueco(e) == <<e, "hueco">>

TypeOK ==
  /\ pcAlta \in [Tickets -> {"inicio"} \cup EnCursoAlta \cup FinAlta]
  /\ pcCierre \in [Cierres -> {"libre"} \cup EnCursoCierre \cup FinCierre]
  /\ ticket \in [Tickets -> {"ausente"} \cup EstadoTicket]
  /\ cobrado \in [Tickets -> BOOLEAN]
  /\ estado \in [Espacios -> EstadoEspacio]
  /\ postsAlta \subseteq Tickets
  /\ postsCierre \subseteq Cierres
  /\ cola \in Seq(Evento)
  /\ averias \subseteq Averia

Init ==
  /\ pcAlta = [t \in Tickets |-> "inicio"]
  /\ pcCierre = [c \in Cierres |-> "libre"]
  /\ ticket = [t \in Tickets |-> "ausente"]
  /\ cobrado = [t \in Tickets |-> FALSE]
  /\ estado = [e \in Espacios |-> "DISPONIBLE"]
  /\ postsAlta = {}
  /\ postsCierre = {}
  /\ cola = <<>>
  /\ averias = {}

-----------------------------------------------------------------------------
(***************************************************************************)
(* What both kinds of request share.                                       *)
(***************************************************************************)

\* No request is running: with Serial, the only moment the next one starts.
SinSolicitudes ==
  /\ \A t \in Tickets : pcAlta[t] \notin EnCursoAlta
  /\ \A c \in Cierres : pcCierre[c] \notin EnCursoCierre

PuedeEmpezar == Serial => SinSolicitudes

PasoAlta(t, desde, hasta) ==
  /\ pcAlta[t] = desde
  /\ pcAlta' = [pcAlta EXCEPT ![t] = hasta]

PasoCierre(c, desde, hasta) ==
  /\ pcCierre[c] = desde
  /\ pcCierre' = [pcCierre EXCEPT ![c] = hasta]

\* get_activo_by_espacio: the active tickets the table holds for a space.
ActivosEn(e) == {t \in Tickets : ticket[t] = "ACTIVO" /\ IdEspacio[t] = e}

\* _emitir_evento_espacio: publish and swallow an error.  A message that is
\* lost leaves `falla` behind.  (The push to the SSE subscribers that follows
\* only writes queues of the browsers, which nothing here reads.)
Emitir(e, nuevo, falla) ==
  \/ /\ cola' = Append(cola, [espacio |-> e, estado |-> nuevo])
     /\ UNCHANGED averias
  \/ /\ ConFallas
     /\ averias' = averias \cup {falla}
     /\ UNCHANGED cola

-----------------------------------------------------------------------------
(***************************************************************************)
(* POST /tickets: TicketService.create_ticket                              *)
(***************************************************************************)

\* GET of the space.  Any answer other than DISPONIBLE, and any error of the
\* call, rejects the request.
LeerEspacio(t) ==
  /\ PuedeEmpezar
  /\ \/ /\ estado[IdEspacio[t]] = "DISPONIBLE"
        /\ PasoAlta(t, "inicio", "leido")
     \/ /\ estado[IdEspacio[t]] # "DISPONIBLE" \/ ConFallas
        /\ PasoAlta(t, "inicio", "rechazado")
  /\ UNCHANGED <<pcCierre, ticket, cobrado, zonasVars, cola, averias>>

\* The zone, the vehicle, their categories and the owner: any of them may
\* reject the request before the table is consulted.
RechazarDatos(t) ==
  /\ PasoAlta(t, "leido", "rechazado")
  /\ UNCHANGED <<pcCierre, ticket, cobrado, zonasVars, cola, averias>>

\* Variant: the check of the table is forgotten and Zonas alone decides.
ConsultarActivoOmitido(t) ==
  /\ PasoAlta(t, "leido", "validado")
  /\ UNCHANGED <<pcCierre, ticket, cobrado, zonasVars, cola, averias>>

\* One active ticket answers 409 and several make the query itself fail.
ConsultarActivo(t) ==
  /\ \/ /\ ActivosEn(IdEspacio[t]) = {}
        /\ PasoAlta(t, "leido", "validado")
     \/ /\ ActivosEn(IdEspacio[t]) # {}
        /\ PasoAlta(t, "leido", "rechazado")
  /\ UNCHANGED <<pcCierre, ticket, cobrado, zonasVars, cola, averias>>

\* INSERT and commit.  A repeated codigo_ticket or a database error loses the
\* row, or the answer of the commit alone and then the row stays.
Insertar(t) ==
  LET activo == [ticket EXCEPT ![t] = "ACTIVO"] IN
    /\ \/ /\ PasoAlta(t, "validado", "creado")
          /\ ticket' = activo
          /\ UNCHANGED averias
       \/ /\ ConFallas
          /\ PasoAlta(t, "validado", "rechazado")
          /\ UNCHANGED <<ticket, averias>>
       \/ /\ ConFallas
          /\ PasoAlta(t, "validado", "rechazado")
          /\ ticket' = activo
          /\ averias' = averias \cup {Hueco(IdEspacio[t])}
    /\ UNCHANGED <<pcCierre, cobrado, zonasVars, cola>>

EnviarOcupado(t) ==
  /\ PasoAlta(t, "creado", "esperando")
  /\ postsAlta' = postsAlta \cup {t}
  /\ UNCHANGED <<pcCierre, ticket, cobrado, estado, postsCierre, cola, averias>>

OcupadoConfirmado(t) ==
  /\ t \notin postsAlta
  /\ PasoAlta(t, "esperando", "emitir")
  /\ UNCHANGED <<pcCierre, ticket, cobrado, zonasVars, cola, averias>>

\* An error answer, a refused connection, or a timeout: the call may be lost,
\* still on its way, or already applied.
OcupadoFallido(t) ==
  /\ ConFallas
  /\ PasoAlta(t, "esperando", "revertir")
  /\ postsAlta' \in {postsAlta, postsAlta \ {t}}
  /\ averias' = averias \cup {Fuga(IdEspacio[t])}
  /\ UNCHANGED <<pcCierre, ticket, cobrado, estado, postsCierre, cola>>

\* Variant: the rollback deletes by space instead of by ticket.
RevertirPorEspacio(t) ==
  /\ PasoAlta(t, "revertir", "rechazado")
  /\ ticket' = [x \in Tickets |->
                  IF x \in ActivosEn(IdEspacio[t]) THEN "ausente" ELSE ticket[x]]
  /\ UNCHANGED <<pcCierre, cobrado, zonasVars, cola, averias>>

\* Variant: the rollback cancels the ticket instead of deleting it.
RevertirAnulando(t) ==
  /\ PasoAlta(t, "revertir", "rechazado")
  /\ ticket' = [ticket EXCEPT ![t] = "ANULADO"]
  /\ UNCHANGED <<pcCierre, cobrado, zonasVars, cola, averias>>

\* Variant: the call is tried again instead of rolling back.
RevertirReintentando(t) ==
  /\ PasoAlta(t, "revertir", "creado")
  /\ UNCHANGED <<pcCierre, ticket, cobrado, zonasVars, cola, averias>>

\* The except branch: delete the row and raise again.  The delete may fail too.
Revertir(t) ==
  /\ PasoAlta(t, "revertir", "rechazado")
  /\ \/ /\ ticket' = [ticket EXCEPT ![t] = "ausente"]
        /\ UNCHANGED averias
     \/ /\ averias' = averias \cup {Hueco(IdEspacio[t])}
        /\ UNCHANGED ticket
  /\ UNCHANGED <<pcCierre, cobrado, zonasVars, cola>>

\* Variant: the event carries the state of the ticket instead of the space's.
EmitirAltaEstadoTicket(t) ==
  /\ PasoAlta(t, "emitir", "respondido")
  /\ Emitir(IdEspacio[t], ticket[t], Hueco(IdEspacio[t]))
  /\ UNCHANGED <<pcCierre, ticket, cobrado, zonasVars>>

\* Variant: opening a ticket publishes nothing, the HTTP call was confirmed.
EmitirAltaOmitido(t) ==
  /\ PasoAlta(t, "emitir", "respondido")
  /\ UNCHANGED <<pcCierre, ticket, cobrado, zonasVars, cola, averias>>

EmitirAlta(t) ==
  /\ PasoAlta(t, "emitir", "respondido")
  /\ Emitir(IdEspacio[t], "OCUPADO", Hueco(IdEspacio[t]))
  /\ UNCHANGED <<pcCierre, ticket, cobrado, zonasVars>>

-----------------------------------------------------------------------------
(***************************************************************************)
(* PATCH salida and PATCH anular.  A client knows the id of a ticket from  *)
(* the answer that created it, there is no endpoint that lists them.       *)
(***************************************************************************)

\* Variant: the state of the ticket is not looked at.
LeerTicketSinEstado(c) ==
  /\ PuedeEmpezar
  /\ pcAlta[TicketDe(c)] = "respondido"
  /\ pcCierre[c] \notin EnCursoCierre
  /\ pcCierre' = [pcCierre EXCEPT ![c] = "leido"]
  /\ UNCHANGED <<pcAlta, ticket, cobrado, zonasVars, cola, averias>>

\* _get_ticket_o_falla and the check of its state.
LeerTicket(c) ==
  /\ PuedeEmpezar
  /\ pcAlta[TicketDe(c)] = "respondido"
  /\ pcCierre[c] \notin EnCursoCierre
  /\ pcCierre' = [pcCierre EXCEPT ![c] =
                    IF ticket[TicketDe(c)] = "ACTIVO" THEN "leido" ELSE "rechazado"]
  /\ UNCHANGED <<pcAlta, ticket, cobrado, zonasVars, cola, averias>>

\* TicketRepository.update: UPDATE of the changed columns by primary key, with
\* no condition on the state that was read.
Cerrar(c) ==
  /\ ticket' = [ticket EXCEPT ![TicketDe(c)] = EstadoFinal(c)]
  /\ cobrado' = [cobrado EXCEPT ![TicketDe(c)] = @ \/ EstadoFinal(c) = "PAGADO"]

\* A database error loses the update, or only the answer of its commit.
Persistir(c) ==
  /\ \/ /\ PasoCierre(c, "leido", "persistido")
        /\ Cerrar(c)
        /\ UNCHANGED averias
     \/ /\ ConFallas
        /\ PasoCierre(c, "leido", "rechazado")
        /\ UNCHANGED <<ticket, cobrado, averias>>
     \/ /\ ConFallas
        /\ PasoCierre(c, "leido", "rechazado")
        /\ Cerrar(c)
        /\ averias' = averias \cup {Fuga(EspacioDe(c))}
  /\ UNCHANGED <<pcAlta, zonasVars, cola>>

EnviarDisponible(c) ==
  /\ PasoCierre(c, "persistido", "esperando")
  /\ postsCierre' = postsCierre \cup {c}
  /\ UNCHANGED <<pcAlta, ticket, cobrado, estado, postsAlta, cola, averias>>

DisponibleConfirmado(c) ==
  /\ c \notin postsCierre
  /\ PasoCierre(c, "esperando", "emitir")
  /\ UNCHANGED <<pcAlta, ticket, cobrado, zonasVars, cola, averias>>

\* The failure is logged and the request goes on.
DisponibleFallido(c) ==
  /\ ConFallas
  /\ PasoCierre(c, "esperando", "emitir")
  /\ postsCierre' \in {postsCierre, postsCierre \ {c}}
  /\ averias' = averias \cup {Hueco(EspacioDe(c))}
  /\ UNCHANGED <<pcAlta, ticket, cobrado, estado, postsAlta, cola>>

\* Variant: closing a ticket publishes nothing.
EmitirCierreOmitido(c) ==
  /\ PasoCierre(c, "emitir", "respondido")
  /\ UNCHANGED <<pcAlta, ticket, cobrado, zonasVars, cola, averias>>

EmitirCierre(c) ==
  /\ PasoCierre(c, "emitir", "respondido")
  /\ Emitir(EspacioDe(c), "DISPONIBLE", Fuga(EspacioDe(c)))
  /\ UNCHANGED <<pcAlta, ticket, cobrado, zonasVars>>

-----------------------------------------------------------------------------
(***************************************************************************)
(* ModuloZonas: EspacioServicioImpl.actualizarEstado, reached by the HTTP  *)
(* call of the ticket service, by the listener of the queue and by the     *)
(* staff.  It does not look at the state it replaces.                      *)
(***************************************************************************)

ActualizarEstado(e, nuevo) == estado' = [estado EXCEPT ![e] = nuevo]

AtenderOcupado(t) ==
  /\ t \in postsAlta
  /\ postsAlta' = postsAlta \ {t}
  /\ ActualizarEstado(IdEspacio[t], "OCUPADO")
  /\ UNCHANGED <<serviceVars, postsCierre, cola, averias>>

AtenderDisponible(c) ==
  /\ c \in postsCierre
  /\ postsCierre' = postsCierre \ {c}
  /\ ActualizarEstado(EspacioDe(c), "DISPONIBLE")
  /\ UNCHANGED <<serviceVars, postsAlta, cola, averias>>

\* Variant: the listener only looks at the events of tickets being opened.
ConsumirSoloOcupado ==
  /\ cola # <<>>
  /\ cola' = Tail(cola)
  /\ IF Head(cola).estado = "OCUPADO"
     THEN ActualizarEstado(Head(cola).espacio, "OCUPADO")
     ELSE UNCHANGED estado
  /\ UNCHANGED <<serviceVars, postsAlta, postsCierre, averias>>

\* TicketEventListener.handleTicketEvent.  An exception is caught and logged,
\* so the message is acknowledged all the same.
ConsumirEvento ==
  /\ cola # <<>>
  /\ cola' = Tail(cola)
  /\ \/ /\ ActualizarEstado(Head(cola).espacio, Head(cola).estado)
        /\ UNCHANGED averias
     \/ /\ ConFallas
        /\ averias' = averias \cup {IF Head(cola).estado = "OCUPADO"
                                    THEN Hueco(Head(cola).espacio)
                                    ELSE Fuga(Head(cola).espacio)}
        /\ UNCHANGED estado
  /\ UNCHANGED <<serviceVars, postsAlta, postsCierre>>

\* Zonas stops after the update and before the acknowledgement: the broker
\* delivers the same message again.
ConsumirSinAck ==
  /\ ConFallas
  /\ cola # <<>>
  /\ ActualizarEstado(Head(cola).espacio, Head(cola).estado)
  /\ UNCHANGED <<serviceVars, postsAlta, postsCierre, cola, averias>>

\* POST /espacios/{id} by the staff, with any state it may choose.
CambioManual(e) ==
  /\ \E nuevo \in EstadosManuales :
       /\ ActualizarEstado(e, nuevo)
       /\ averias' = averias \cup
            {IF nuevo = "OCUPADO" THEN Fuga(e) ELSE Hueco(e)}
  /\ UNCHANGED <<serviceVars, postsAlta, postsCierre, cola>>

-----------------------------------------------------------------------------
(***************************************************************************)
(* The ticket-service process stops: its requests end with no answer, what *)
(* was committed stays, and the calls already sent reach Zonas or not.     *)
(***************************************************************************)
TrasInsertar == {"creado", "esperando", "revertir", "emitir"}

TrasPersistir == {"persistido", "esperando", "emitir"}

Caida ==
  /\ ConCaidas
  /\ ~SinSolicitudes
  /\ pcAlta' = [t \in Tickets |->
                  IF pcAlta[t] \in EnCursoAlta THEN "caido" ELSE pcAlta[t]]
  /\ pcCierre' = [c \in Cierres |->
                    IF pcCierre[c] \in EnCursoCierre THEN "caido" ELSE pcCierre[c]]
  /\ averias' = averias
       \cup {Hueco(IdEspacio[t]) : t \in {x \in Tickets : pcAlta[x] \in TrasInsertar}}
       \cup {Fuga(EspacioDe(c)) : c \in {x \in Cierres : pcCierre[x] \in TrasPersistir}}
       \cup {Hueco(EspacioDe(c)) : c \in {x \in Cierres : pcCierre[x] = "esperando"}}
  /\ UNCHANGED <<ticket, cobrado, zonasVars, cola>>

-----------------------------------------------------------------------------

ContinuarAlta(t) ==
  \/ RechazarDatos(t)
  \/ ConsultarActivo(t)
  \/ Insertar(t)
  \/ EnviarOcupado(t)
  \/ OcupadoConfirmado(t)
  \/ OcupadoFallido(t)
  \/ Revertir(t)
  \/ EmitirAlta(t)

ContinuarCierre(c) ==
  \/ Persistir(c)
  \/ EnviarDisponible(c)
  \/ DisponibleConfirmado(c)
  \/ DisponibleFallido(c)
  \/ EmitirCierre(c)

Next ==
  \/ \E t \in Tickets : LeerEspacio(t) \/ ContinuarAlta(t) \/ AtenderOcupado(t)
  \/ \E c \in Cierres : LeerTicket(c) \/ ContinuarCierre(c) \/ AtenderDisponible(c)
  \/ ConsumirEvento
  \/ ConsumirSinAck
  \/ \E e \in Espacios : CambioManual(e)
  \/ Caida

Spec == Init /\ [][Next]_vars

(***************************************************************************)
(* A started request goes on: the event loop runs every ready coroutine    *)
(* and the HTTP client bounds its waits (HTTP_CLIENT_TIMEOUT).  Zonas      *)
(* serves the calls that reach it, and the broker keeps delivering to the  *)
(* listener.  No client has to send anything, and no failure has to occur. *)
(***************************************************************************)
Fairness ==
  /\ \A t \in Tickets : WF_vars(ContinuarAlta(t)) /\ WF_vars(AtenderOcupado(t))
  /\ \A c \in Cierres : WF_vars(ContinuarCierre(c)) /\ WF_vars(AtenderDisponible(c))
  /\ WF_vars(ConsumirEvento)

FairSpec == Spec /\ Fairness

-----------------------------------------------------------------------------
(***************************************************************************)
(* Properties.                                                             *)
(***************************************************************************)

Cerrados == {"PAGADO", "ANULADO"}

\* Nothing is running, on its way or queued.
Reposo ==
  /\ SinSolicitudes
  /\ postsAlta = {}
  /\ postsCierre = {}
  /\ cola = <<>>

PorLiberar(e) ==
  \/ \E c \in Cierres : pcCierre[c] \in TrasPersistir /\ EspacioDe(c) = e
  \/ \E i \in DOMAIN cola : cola[i] = [espacio |-> e, estado |-> "DISPONIBLE"]

\* No space is lost: whatever requests overlap, whatever is reordered,
\* delivered twice or lost, a space Zonas holds OCUPADO has an active ticket,
\* or a closing request or a queued event about to free it, or one of the
\* faults create_ticket and registrar_salida only log has hit that space.
OcupadoTieneCausa ==
  \A e \in Espacios :
    estado[e] = "OCUPADO" =>
      ActivosEn(e) # {} \/ PorLiberar(e) \/ Fuga(e) \in averias

\* A ticket answered to a client is never taken back by a rollback, its own or
\* another's, and once it is closed no request makes it active again.
TicketNoSePierde ==
  [][\A t \in Tickets :
       /\ pcAlta[t] = "respondido" => ticket'[t] # "ausente"
       /\ ticket[t] \in Cerrados => ticket'[t] \in Cerrados]_vars

\* get_activo_by_espacio keeps two active tickets off one space as long as
\* the requests come one at a time, even when Zonas shows a stale state.
UnActivoPorEspacio ==
  \A t, u \in Tickets :
    /\ ticket[t] = "ACTIVO"
    /\ ticket[u] = "ACTIVO"
    /\ IdEspacio[t] = IdEspacio[u]
    => t = u

\* A closed ticket bears an exit time and an amount exactly when it was paid:
\* a cancelled ticket was never charged.
CobroCoherente ==
  \A t \in Tickets : ticket[t] \in Cerrados => (cobrado[t] <=> ticket[t] = "PAGADO")

\* What the error message of anular_ticket says: only active tickets are
\* cancelled (or paid), so no request closes what another one has closed.
SoloActivosSeCierran ==
  [][\A t \in Tickets :
       ticket'[t] \in Cerrados /\ ticket'[t] # ticket[t] => ticket[t] = "ACTIVO"]_vars

\* When everything has come to rest, Zonas agrees with the ticket table on
\* every space no fault has touched.
Convergencia ==
  Reposo =>
    \A e \in Espacios :
      /\ estado[e] = "OCUPADO" /\ Fuga(e) \notin averias => ActivosEn(e) # {}
      /\ ActivosEn(e) # {} /\ Hueco(e) \notin averias => estado[e] = "OCUPADO"

\* Every accepted request ends, whatever fails on its way.
SolicitudTermina ==
  /\ \A t \in Tickets : pcAlta[t] \in EnCursoAlta ~> pcAlta[t] \in FinAlta
  /\ \A c \in Cierres : pcCierre[c] \in EnCursoCierre ~> pcCierre[c] \in FinCierre

\* A space whose ticket was closed is eventually free again, or taken by the
\* next ticket, even if the HTTP call that frees it fails: the event repairs it.
Liberacion ==
  \A c \in Cierres :
    LET e == EspacioDe(c) IN
      pcCierre[c] = "respondido" ~>
        estado[e] # "OCUPADO" \/ ActivosEn(e) # {} \/ Fuga(e) \in averias

\* With serial clients the service implements the abstract life of a ticket.
Ciclo == INSTANCE CicloTicket WITH
           confirmado <- {t \in Tickets : pcAlta[t] = "respondido"}

RefinaCiclo == Ciclo!Spec

=============================================================================
