----------------------------- MODULE Auditoria -----------------------------
(***************************************************************************)
(* The audit trail: the publishers of the services, the exchange and queue *)
(* of RabbitMQ between them, and the consumer of ms-auditoria.             *)
(*                                                                         *)
(* A NestJS publisher keeps one connection.  It connects when it boots,    *)
(* when an event finds no channel, and when its timer fires, which every   *)
(* lost connection and every failed attempt set again.  The services in    *)
(* Java and Python leave the connection to their libraries.  No publisher  *)
(* confirms: an event that cannot be sent is forgotten.                    *)
(***************************************************************************)
EXTENDS Naturals, FiniteSets

CONSTANTS
  Eventos,     \* audited requests, one event each
  SinRol,      \* those whose user has no role: the event is not valid
  Sueltos,     \* those of the services in Java and Python
  Conexiones,  \* connections the publisher may open in all
  MaxFallas,   \* bound: failures, drops and stops
  Nula         \* no connection

VARIABLES
  intento,     \* doConnect in progress: none, opening, or the one it opened
  temporizador,\* reconnectTimeout is set
  canal,       \* channel, while isConnected
  vivas,       \* connections that are open
  atendidas,   \* connections with handlers of error and close
  avisos,      \* dropped connections whose handlers have not run
  usadas,      \* connections opened so far
  esperando,   \* events whose publish awaits connect
  pendientes,  \* events not published yet
  ligada,      \* the queue exists and is bound
  cola,        \* events in the queue
  entrega,     \* events delivered and not acknowledged, with their step
  consumidor,
  copias,      \* rows of each event in evento_auditoria
  perdidos,    \* history: events refused, lost or whose save failed
  cruces,      \* history: connections that nothing closes any more
  fallas

editor == <<intento, temporizador, canal, vivas, atendidas, avisos, usadas, esperando, cruces>>
vars == <<editor, pendientes, ligada, cola, entrega, consumidor, copias, perdidos, fallas>>

TypeOK ==
  /\ intento \in {"no", "abriendo"} \cup Conexiones
  /\ temporizador \in BOOLEAN
  /\ canal \in Conexiones \cup {Nula}
  /\ vivas \subseteq usadas /\ atendidas \subseteq usadas /\ avisos \subseteq atendidas
  /\ usadas \subseteq Conexiones
  /\ esperando \cup pendientes \cup cola \cup perdidos \subseteq Eventos
  /\ ligada \in BOOLEAN
  /\ entrega \in [Eventos -> {"no", "validar", "guardar", "confirmar"}]
  /\ consumidor \in {"detenido", "reintentando", "sordo", "consumiendo"}
  /\ copias \in [Eventos -> 0..MaxFallas + 1]
  /\ cruces \in Nat
  /\ fallas \in 0..MaxFallas

Init ==
  /\ intento = "abriendo"
  /\ temporizador = FALSE
  /\ canal = Nula
  /\ vivas = {} /\ atendidas = {} /\ avisos = {} /\ usadas = {}
  /\ esperando = {} /\ pendientes = Eventos
  /\ ligada = FALSE
  /\ cola = {}
  /\ entrega = [e \in Eventos |-> "no"]
  /\ consumidor = "detenido"
  /\ copias = [e \in Eventos |-> 0]
  /\ perdidos = {}
  /\ cruces = 0
  /\ fallas = 0

Consumidor == <<entrega, consumidor, copias>>

-----------------------------------------------------------------------------
(***************************************************************************)
(* The publisher.                                                          *)
(***************************************************************************)

\* Events handed to the exchange.  Without a queue they are dropped.
Encolar(es) ==
  /\ cola' = IF ligada THEN cola \cup es ELSE cola
  /\ perdidos' = IF ligada THEN perdidos ELSE perdidos \cup es

Perder(es) == perdidos' = perdidos \cup es /\ UNCHANGED cola

\* Variant: connect() does not look at connectionPromise.
ConectarSiempre == intento' = "abriendo"

\* connect(): whoever comes while an attempt is going on awaits that one.
Conectar == intento' = IF intento = "no" THEN "abriendo" ELSE intento

\* tap() of the interceptor, after a request that changed something; the request
\* does not wait.  A channel whose drop nobody noticed swallows the event.
Publicar(e) ==
  /\ e \in pendientes \ Sueltos
  /\ pendientes' = pendientes \ {e}
  /\ IF canal = Nula
     THEN /\ esperando' = esperando \cup {e}
          /\ Conectar
          /\ UNCHANGED <<cola, perdidos>>
     ELSE /\ IF canal \in vivas THEN Encolar({e}) ELSE Perder({e})
          /\ UNCHANGED <<esperando, intento>>
  /\ UNCHANGED <<temporizador, canal, vivas, atendidas, avisos, usadas, cruces, ligada, fallas>>
  /\ UNCHANGED Consumidor

\* The catch of publish: the event is lost and the channel forgotten, its connection
\* left open.
FallarPublicacion(e) ==
  /\ e \in pendientes \ Sueltos /\ canal # Nula /\ fallas < MaxFallas
  /\ fallas' = fallas + 1
  /\ pendientes' = pendientes \ {e}
  /\ Perder({e})
  /\ canal' = Nula
  /\ cruces' = IF canal \in vivas THEN cruces + 1 ELSE cruces
  /\ UNCHANGED <<intento, temporizador, vivas, atendidas, avisos, usadas, esperando, ligada>>
  /\ UNCHANGED Consumidor

\* The filter in Java and the middleware in Python: sent, or logged and lost.
PublicarSuelto(e) ==
  /\ e \in pendientes \cap Sueltos
  /\ pendientes' = pendientes \ {e}
  /\ \/ Encolar({e}) /\ UNCHANGED fallas
     \/ fallas < MaxFallas /\ fallas' = fallas + 1 /\ Perder({e})
  /\ UNCHANGED ligada
  /\ UNCHANGED editor
  /\ UNCHANGED Consumidor

\* amqp.connect
Abrir ==
  /\ intento = "abriendo"
  /\ \E c \in Conexiones \ usadas :
       /\ intento' = c
       /\ vivas' = vivas \cup {c}
       /\ usadas' = usadas \cup {c}
  /\ UNCHANGED <<temporizador, canal, atendidas, avisos, esperando, cruces, pendientes, ligada, cola, perdidos, fallas>>
  /\ UNCHANGED Consumidor

\* The channel is there.  The handlers are set and whoever waited publishes.
Establecer ==
  /\ intento \in vivas
  /\ canal' = intento
  /\ atendidas' = atendidas \cup {intento}
  /\ intento' = "no"
  /\ esperando' = {}
  /\ Encolar(esperando)
  /\ UNCHANGED <<temporizador, vivas, avisos, usadas, cruces, pendientes, ligada, fallas>>
  /\ UNCHANGED Consumidor

\* An attempt fails: the timer is set, whoever waited gives its event up, and a
\* connection that was already open is left so.
FallarIntento ==
  /\ intento # "no"
  /\ IF intento \in Conexiones \ vivas THEN UNCHANGED fallas
     ELSE fallas < MaxFallas /\ fallas' = fallas + 1
  /\ cruces' = IF intento \in vivas THEN cruces + 1 ELSE cruces
  /\ intento' = "no"
  /\ canal' = Nula
  /\ temporizador' = TRUE
  /\ esperando' = {}
  /\ Perder(esperando)
  /\ UNCHANGED <<vivas, atendidas, avisos, usadas, pendientes, ligada>>
  /\ UNCHANGED Consumidor

\* RabbitMQ or the network drops a connection.
Cortar(c) ==
  /\ c \in vivas /\ fallas < MaxFallas
  /\ fallas' = fallas + 1
  /\ vivas' = vivas \ {c}
  /\ avisos' = avisos \cup ({c} \cap atendidas)
  /\ UNCHANGED <<intento, temporizador, canal, atendidas, usadas, esperando, cruces, pendientes, ligada, cola, perdidos>>
  /\ UNCHANGED Consumidor

\* The handlers of error and close, of whichever connection: they forget the
\* current one.
Avisar(c) ==
  /\ c \in avisos
  /\ avisos' = avisos \ {c}
  /\ cruces' = IF canal \in vivas THEN cruces + 1 ELSE cruces
  /\ canal' = Nula
  /\ temporizador' = TRUE
  /\ UNCHANGED <<intento, vivas, atendidas, usadas, esperando, pendientes, ligada, cola, perdidos, fallas>>
  /\ UNCHANGED Consumidor

\* The timer of scheduleReconnect, whether or not a publish connected before.
Vencer ==
  /\ temporizador
  /\ temporizador' = FALSE
  /\ Conectar
  /\ cruces' = IF canal \in vivas THEN cruces + 1 ELSE cruces
  /\ UNCHANGED <<canal, vivas, atendidas, avisos, usadas, esperando, pendientes, ligada, cola, perdidos, fallas>>
  /\ UNCHANGED Consumidor

-----------------------------------------------------------------------------
(***************************************************************************)
(* The consumer.                                                           *)
(***************************************************************************)

Paso(e, p) == entrega' = [entrega EXCEPT ![e] = p]

\* onModuleInit: connect, then consume, which binds the queue.  A connection that
\* fails makes consume fail too, and the retry only connects.
IniciarConsumidor ==
  /\ consumidor = "detenido"
  /\ \/ consumidor' = "consumiendo" /\ ligada' = TRUE /\ UNCHANGED fallas
     \/ /\ fallas < MaxFallas /\ fallas' = fallas + 1
        /\ consumidor' = "reintentando" /\ UNCHANGED ligada
  /\ UNCHANGED <<pendientes, cola, entrega, copias, perdidos>>
  /\ UNCHANGED editor

Reintentar ==
  /\ consumidor = "reintentando"
  /\ consumidor' = "sordo"
  /\ UNCHANGED <<pendientes, ligada, cola, entrega, copias, perdidos, fallas>>
  /\ UNCHANGED editor

Recibir(e) ==
  /\ consumidor = "consumiendo" /\ e \in cola
  /\ cola' = cola \ {e}
  /\ Paso(e, "validar")
  /\ UNCHANGED <<pendientes, ligada, consumidor, copias, perdidos, fallas>>
  /\ UNCHANGED editor

\* validate(dto): an event that is not valid is refused for good.
Validar(e) ==
  /\ entrega[e] = "validar"
  /\ IF e \in SinRol
     THEN Paso(e, "no") /\ perdidos' = perdidos \cup {e}
     ELSE Paso(e, "guardar") /\ UNCHANGED perdidos
  /\ UNCHANGED <<pendientes, ligada, cola, consumidor, copias, fallas>>
  /\ UNCHANGED editor

\* save() writes a row of its own each time; when it fails the event is refused,
\* and not queued again.
GuardarEvento(e) ==
  /\ entrega[e] = "guardar"
  /\ \/ /\ copias' = [copias EXCEPT ![e] = @ + 1]
        /\ Paso(e, "confirmar")
        /\ UNCHANGED <<perdidos, fallas>>
     \/ /\ fallas < MaxFallas /\ fallas' = fallas + 1
        /\ perdidos' = perdidos \cup {e}
        /\ Paso(e, "no")
        /\ UNCHANGED copias
  /\ UNCHANGED <<pendientes, ligada, cola, consumidor>>
  /\ UNCHANGED editor

Confirmar(e) ==
  /\ entrega[e] = "confirmar"
  /\ Paso(e, "no")
  /\ UNCHANGED <<pendientes, ligada, cola, consumidor, copias, perdidos, fallas>>
  /\ UNCHANGED editor

\* Variant: the queue is consumed with noAck.
SinConfirmarNada == {}

\* noAck: false, so RabbitMQ keeps what was not acknowledged.
SinConfirmar == {e \in Eventos : entrega[e] # "no"}

\* The process stops, or its connection closes: then it goes on with no consumer,
\* as nothing listens to that.  What was not acknowledged goes back to the queue,
\* though the row may have been written.
CortarConsumidor ==
  /\ consumidor # "detenido" /\ fallas < MaxFallas
  /\ fallas' = fallas + 1
  /\ consumidor' \in {"detenido", "sordo"}
  /\ cola' = cola \cup SinConfirmar
  /\ entrega' = [e \in Eventos |-> "no"]
  /\ \E es \in SUBSET {e \in Eventos : entrega[e] = "guardar"} :
       copias' = [e \in Eventos |-> IF e \in es THEN copias[e] + 1 ELSE copias[e]]
  /\ UNCHANGED <<pendientes, ligada, perdidos>>
  /\ UNCHANGED editor

\* Somebody restarts a consumer that does not consume.
Reiniciar ==
  /\ consumidor \in {"reintentando", "sordo"}
  /\ consumidor' = "detenido"
  /\ UNCHANGED <<pendientes, ligada, cola, entrega, copias, perdidos, fallas>>
  /\ UNCHANGED editor

-----------------------------------------------------------------------------

Procesar(e) == Recibir(e) \/ Validar(e) \/ GuardarEvento(e) \/ Confirmar(e)

Editar ==
  \/ \E e \in Eventos : Publicar(e) \/ FallarPublicacion(e) \/ PublicarSuelto(e)
  \/ Abrir \/ Establecer \/ FallarIntento \/ Vencer
  \/ \E c \in Conexiones : Cortar(c) \/ Avisar(c)

Next ==
  \/ Editar
  \/ \E e \in Eventos : Procesar(e)
  \/ IniciarConsumidor \/ Reintentar \/ CortarConsumidor \/ Reiniciar

\* The consumer boots, and its callbacks do not wait for anybody.
Spec ==
  /\ Init /\ [][Next]_vars
  /\ WF_vars(IniciarConsumidor)
  /\ \A e \in Eventos : WF_vars(Procesar(e))

-----------------------------------------------------------------------------

\* connectionPromise keeps connections from piling up: all that are open, but
\* one, were lost sight of when the timer fired over a good connection, when an
\* attempt failed halfway, when the handlers of an old one forgot the new one or
\* when the channel of a good one refused an event.
UnaConexion == Cardinality(vivas) <= 1 + cruces

\* An event in the queue ends up saved or refused, through drops and restarts of
\* the consumer, for as long as somebody consumes.
EventoSeGuarda ==
  \A e \in Eventos :
    e \in cola ~> copias[e] > 0 \/ e \in perdidos \/ consumidor \in {"reintentando", "sordo"}

=============================================================================
