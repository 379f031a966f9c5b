------------------------------ MODULE Tablero ------------------------------
(***************************************************************************)
(* The public dashboard (app.js) and the stream of events that             *)
(* ticket-service sends it (app/sse).                                      *)
(*                                                                         *)
(* The page asks for all spaces when it starts, at every event and every   *)
(* 30 seconds, and shows whichever answer arrives last.  A stream that     *)
(* breaks is closed and opened again after 5 seconds, if there is a token  *)
(* by then.  Nothing ever cancels a fetch, a timer or the interval.        *)
(***************************************************************************)
EXTENDS Naturals

CONSTANTS
  Consultas,   \* fetches that may be in flight at once
  MaxEntradas, \* bound: logins and loads of the page; each opens one stream
  MaxCambios,  \* bound: changes of the spaces
  MaxFallas    \* bound: fetches that fail and streams that break

Entradas == 1..MaxEntradas

VARIABLES
  token,       \* accessToken: the login it is of, or 0
  caducados,   \* the tokens that expired
  formulario,  \* logins sent and not answered
  entradas,    \* logins answered
  intervalo,   \* setInterval was called
  espacios,    \* version of the spaces in their service
  vista,       \* the version that is shown
  consulta,    \* each fetch
  fuente,      \* the stream opened by each login
  eventSource, \* the stream that logout would close, or 0
  colas,        \* events in the queue of each subscriber
  fallas

vars == <<token, caducados, formulario, entradas, intervalo, espacios, vista, consulta, fuente, eventSource, colas, fallas>>

Libre == [paso |-> "libre"]

\* A fetch on its way, with its token, and its answer.  One of them starts the
\* dashboard of a login; inicia is 0 for all others.
Consulta ==
  [paso : {"enviada"}, con : 0..MaxEntradas, inicia : 0..MaxEntradas]
    \cup [paso : {"respuesta"}, dato : 0..MaxCambios, inicia : 0..MaxEntradas]
    \cup [paso : {"error"}, inicia : 0..MaxEntradas]

TypeOK ==
  /\ token \in 0..MaxEntradas
  /\ caducados \subseteq Entradas
  /\ formulario + entradas \in 0..MaxEntradas
  /\ intervalo \in BOOLEAN
  /\ espacios \in 0..MaxCambios
  /\ vista \in 0..MaxCambios
  /\ consulta \in [Consultas -> Consulta \cup {Libre}]
  /\ fuente \in [Entradas -> {"no", "conectando", "abierta", "rota"}]
  /\ eventSource \in 0..MaxEntradas
  /\ colas \in [Entradas -> 0..MaxCambios]
  /\ fallas \in 0..MaxFallas

\* The page was opened and no token was stored.
Init ==
  /\ token = 0 /\ caducados = {}
  /\ formulario = 0 /\ entradas = 0
  /\ intervalo = FALSE
  /\ espacios = 0 /\ vista = 0
  /\ consulta = [q \in Consultas |-> Libre]
  /\ fuente = [s \in Entradas |-> "no"]
  /\ eventSource = 0
  /\ colas = [s \in Entradas |-> 0]
  /\ fallas = 0

SesionIgual == UNCHANGED <<token, caducados, formulario, entradas>>
ServidorIgual == UNCHANGED <<espacios, colas>>

-----------------------------------------------------------------------------
(***************************************************************************)
(* The services.                                                           *)
(***************************************************************************)

\* The spaces change.  emit_event puts the event of a ticket in the queue of
\* every subscriber; what the staff or the queue of tickets changes sends none.
Cambiar ==
  /\ espacios < MaxCambios
  /\ espacios' = espacios + 1
  /\ \/ colas' = [s \in Entradas |-> IF fuente[s] = "abierta" THEN colas[s] + 1 ELSE colas[s]]
     \/ UNCHANGED colas
  /\ SesionIgual
  /\ UNCHANGED <<intervalo, vista, consulta, fuente, eventSource, fallas>>

Caducar ==
  /\ token # 0
  /\ caducados' = caducados \cup {token}
  /\ ServidorIgual
  /\ UNCHANGED <<token, formulario, entradas, intervalo, vista, consulta, fuente, eventSource, fallas>>

\* The spaces are read for a fetch, unless its token is missing or expired.
Responder(q) ==
  /\ consulta[q].paso = "enviada"
  /\ consulta' = [consulta EXCEPT ![q] =
       IF @.con \in Entradas \ caducados
       THEN [paso |-> "respuesta", dato |-> espacios, inicia |-> @.inicia]
       ELSE [paso |-> "error", inicia |-> @.inicia]]
  /\ SesionIgual /\ ServidorIgual
  /\ UNCHANGED <<intervalo, vista, fuente, eventSource, fallas>>

FallarConsulta(q) ==
  /\ consulta[q].paso = "enviada" /\ fallas < MaxFallas
  /\ consulta' = [consulta EXCEPT ![q] = [paso |-> "error", inicia |-> @.inicia]]
  /\ fallas' = fallas + 1
  /\ SesionIgual /\ ServidorIgual
  /\ UNCHANGED <<intervalo, vista, fuente, eventSource>>

-----------------------------------------------------------------------------
(***************************************************************************)
(* The page.                                                               *)
(***************************************************************************)

\* cargarEspacios, up to its await.
Pedir(q, t, inicia) ==
  /\ consulta[q] = Libre
  /\ consulta' = [consulta EXCEPT ![q] = [paso |-> "enviada", con |-> t, inicia |-> inicia]]

\* The form is sent; it can be sent again before the answer.
Enviar ==
  /\ token = 0 /\ formulario + entradas < MaxEntradas
  /\ formulario' = formulario + 1
  /\ ServidorIgual
  /\ UNCHANGED <<token, caducados, entradas, intervalo, vista, consulta, fuente, eventSource, fallas>>

\* The login is answered: the token is kept and the dashboard starts.
Entrar(q) ==
  /\ formulario > 0
  /\ formulario' = formulario - 1
  /\ entradas' = entradas + 1
  /\ token' = entradas'
  /\ Pedir(q, entradas', entradas')
  /\ ServidorIgual
  /\ UNCHANGED <<caducados, intervalo, vista, fuente, eventSource, fallas>>

\* logoutBtn closes the stream it knows of, and nothing else.
Salir ==
  /\ token # 0
  /\ token' = 0
  /\ fuente' = [s \in Entradas |->
       IF s = eventSource /\ fuente[s] # "rota" THEN "no" ELSE fuente[s]]
  /\ colas' = [s \in Entradas |-> IF s = eventSource THEN 0 ELSE colas[s]]
  /\ eventSource' = 0
  /\ UNCHANGED <<caducados, formulario, entradas, intervalo, espacios, vista, consulta, fallas>>

\* The page is loaded again, and starts with the token it had stored.
Recargar(q) ==
  /\ token # 0 /\ formulario + entradas < MaxEntradas
  /\ entradas' = entradas + 1
  /\ consulta' = [c \in Consultas |->
       IF c = q THEN [paso |-> "enviada", con |-> token, inicia |-> entradas'] ELSE Libre]
  /\ intervalo' = FALSE
  /\ vista' = 0
  /\ fuente' = [s \in Entradas |-> "no"]
  /\ eventSource' = 0
  /\ colas' = [s \in Entradas |-> 0]
  /\ UNCHANGED <<token, caducados, formulario, espacios, fallas>>

\* Variant: the dashboard relies on the events.
IniciarSinIntervalo(s) ==
  /\ fuente' = IF s = 0 THEN fuente ELSE [fuente EXCEPT ![s] = "conectando"]
  /\ eventSource' = IF s = 0 THEN eventSource ELSE s
  /\ intervalo' = intervalo

\* iniciarDashboard after its first fetch, which may have failed, and though
\* somebody may have logged out meanwhile.
Iniciar(s) ==
  /\ fuente' = IF s = 0 THEN fuente ELSE [fuente EXCEPT ![s] = "conectando"]
  /\ eventSource' = IF s = 0 THEN eventSource ELSE s
  /\ intervalo' = (intervalo \/ s # 0)

\* An answer is rendered, whether or not a later one was rendered before it.
Mostrar(q) ==
  /\ consulta[q].paso \in {"respuesta", "error"}
  /\ vista' = IF consulta[q].paso = "respuesta" THEN consulta[q].dato ELSE vista
  /\ consulta' = [consulta EXCEPT ![q] = Libre]
  /\ Iniciar(consulta[q].inicia)
  /\ SesionIgual /\ ServidorIgual
  /\ UNCHANGED fallas

\* The interval, with the token of the moment.
Tocar(q) ==
  /\ intervalo
  /\ Pedir(q, token, 0)
  /\ SesionIgual /\ ServidorIgual
  /\ UNCHANGED <<intervalo, vista, fuente, eventSource, fallas>>

\* An event arrives: the spaces are asked for again.
Avisar(q, s) ==
  /\ fuente[s] = "abierta" /\ colas[s] > 0
  /\ colas' = [colas EXCEPT ![s] = @ - 1]
  /\ Pedir(q, token, 0)
  /\ SesionIgual
  /\ UNCHANGED <<espacios, intervalo, vista, fuente, eventSource, fallas>>

-----------------------------------------------------------------------------
(***************************************************************************)
(* The stream.  Its queue exists while the service holds the connection.   *)
(***************************************************************************)

Suscribir(s) ==
  /\ fuente[s] = "conectando"
  /\ fuente' = [fuente EXCEPT ![s] = "abierta"]
  /\ SesionIgual /\ ServidorIgual
  /\ UNCHANGED <<intervalo, vista, consulta, eventSource, fallas>>

\* onerror: the events in the queue are lost.
Romper(s) ==
  /\ fuente[s] \in {"conectando", "abierta"} /\ fallas < MaxFallas
  /\ fuente' = [fuente EXCEPT ![s] = "rota"]
  /\ colas' = [colas EXCEPT ![s] = 0]
  /\ fallas' = fallas + 1
  /\ SesionIgual
  /\ UNCHANGED <<intervalo, espacios, vista, consulta, eventSource>>

\* The timer of onerror looks for a token, of this login or of a later one.
Reconectar(s) ==
  /\ fuente[s] = "rota"
  /\ fuente' = [fuente EXCEPT ![s] = IF token # 0 THEN "conectando" ELSE "no"]
  /\ eventSource' = IF token # 0 THEN s ELSE eventSource
  /\ SesionIgual /\ ServidorIgual
  /\ UNCHANGED <<intervalo, vista, consulta, fallas>>

-----------------------------------------------------------------------------

Red(q) == Responder(q) \/ Mostrar(q)

Next ==
  \/ Cambiar
  \/ Caducar
  \/ Enviar
  \/ Salir
  \/ \E q \in Consultas :
       Red(q) \/ FallarConsulta(q) \/ Entrar(q) \/ Recargar(q) \/ Tocar(q)
         \/ \E s \in Entradas : Avisar(q, s)
  \/ \E s \in Entradas : Suscribir(s) \/ Romper(s) \/ Reconectar(s)

\* Fetches are answered and the interval goes on ticking.
Spec ==
  /\ Init /\ [][Next]_vars
  /\ \A q \in Consultas : WF_vars(Red(q) \/ Tocar(q))

-----------------------------------------------------------------------------

\* While somebody stays logged in with a token that has not expired, the
\* dashboard ends up showing the spaces as they are, whatever events were lost,
\* whatever streams broke and in whatever order the answers came.
TableroAlDia ==
  <>[](token # 0 /\ token \notin caducados) => <>[](vista = espacios)

=============================================================================
