---------------------------- MODULE Asignaciones ----------------------------
(***************************************************************************)
(* The assignments of vehicles to owners in assignment-service, and the    *)
(* audit trail its listener keeps of them.                                 *)
(*                                                                         *)
(* The rule that a vehicle has one active owner lives in the service: it   *)
(* looks for an active assignment and saves a row, each an await of its    *)
(* own.  TypeORM's save is two steps itself: it reads the row again by its *)
(* primary key and then inserts it, or updates the columns that differ     *)
(* from what it has just read.  The answer of the database emits a domain  *)
(* event, and the listener inserts the audit record later on its own.      *)
(***************************************************************************)
EXTENDS Naturals, Sequences

CONSTANTS
  Usuarios,     \* the owners
  Vehiculos,    \* the vehicles
  Peticiones,   \* the requests the service may be serving at once
  MaxPeticiones,\* bound: requests in all
  ConFallas     \* TRUE: the database fails and the process may crash

ASSUME AsignacionesAssumption ==
  /\ ConFallas \in BOOLEAN
  /\ MaxPeticiones \in Nat

\* The composite primary key (user_id, vehicle_id).
Claves == Usuarios \X Vehiculos

\* POST, PATCH with activa = true, false or absent, and DELETE.
Operacion == {"crear", "activar", "desactivar", "anotar", "baja"}

VARIABLES
  peticion,    \* each request being served
  recibidas,   \* requests received so far
  fila,        \* the table: column activa of each key
  registros,   \* audit records in the order of their timestamps
  sinRegistro, \* history: keys with a change whose audit record was lost
  solapados    \* history: vehicles that two requests touched at once

vars == <<peticion, recibidas, fila, registros, sinRegistro, solapados>>

EstadoFila == {"ausente", "activa", "inactiva"}

EnCurso == {"recibida", "validada", "buscada", "aprobada", "comparada", "escrita"}

\* A request and the locals of its handler: leida is column activa of the row it
\* read first, base the same column as save() read it again.
Solicitud ==
  [paso : EnCurso, op : Operacion, clave : Claves, leida : EstadoFila, base : EstadoFila]

Libre == [paso |-> "libre"]

Registro ==
  [clave : Claves,
   accion : {"CREACION", "MODIFICACION", "ELIMINACION"},
   anterior : {"ninguno", "activa", "inactiva"},
   nuevo : {"ninguno", "activa", "inactiva"},
   estado : {"pendiente", "guardado", "perdido"}]

VehiculoDe(k) == k[2]

EnPaso(p, paso) == peticion[p].paso = paso

EnCursoSobre(v) ==
  {p \in Peticiones : peticion[p].paso \in EnCurso /\ VehiculoDe(peticion[p].clave) = v}

Activas(v) == {u \in Usuarios : fila[<<u, v>>] = "activa"}

TypeOK ==
  /\ peticion \in [Peticiones -> Solicitud \cup {Libre}]
  /\ recibidas \in 0..MaxPeticiones
  /\ fila \in [Claves -> EstadoFila]
  /\ registros \in Seq(Registro)
  /\ sinRegistro \subseteq Claves
  /\ solapados \subseteq Vehiculos

Init ==
  /\ peticion = [p \in Peticiones |-> Libre]
  /\ recibidas = 0
  /\ fila = [k \in Claves |-> "ausente"]
  /\ registros = <<>>
  /\ sinRegistro = {}
  /\ solapados = {}

Avanzar(p, paso) == peticion' = [peticion EXCEPT ![p].paso = paso]

Terminar(p) == peticion' = [peticion EXCEPT ![p] = Libre]

-----------------------------------------------------------------------------

Empezar(p, op, clave) ==
  LET v == VehiculoDe(clave) IN
    /\ peticion[p] = Libre
    /\ recibidas < MaxPeticiones
    /\ recibidas' = recibidas + 1
    /\ peticion' = [peticion EXCEPT ![p] =
         [paso |-> "recibida", op |-> op, clave |-> clave,
          leida |-> "ausente", base |-> "ausente"]]
    /\ solapados' = IF EnCursoSobre(v) = {} THEN solapados ELSE solapados \cup {v}
    /\ UNCHANGED <<fila, registros, sinRegistro>>

\* What a step that only reads leaves alone.
SoloLee == UNCHANGED <<recibidas, fila, registros, sinRegistro, solapados>>

\* create: the owner and the vehicle are looked up in their services; either
\* may be unknown there, or not answer.
ValidarReferencias(p) ==
  /\ EnPaso(p, "recibida")
  /\ peticion[p].op = "crear"
  /\ Avanzar(p, "validada") \/ Terminar(p)
  /\ SoloLee

\* create: a row with the same key, active or not, is a conflict.
BuscarClave(p) ==
  /\ EnPaso(p, "validada")
  /\ IF fila[peticion[p].clave] = "ausente" THEN Avanzar(p, "buscada") ELSE Terminar(p)
  /\ SoloLee

\* How update goes on from the row it has read, and remove.
TrasLeer(op, f) ==
  CASE f = "ausente" \/ (op = "baja" /\ f = "inactiva") -> "libre"
    [] op = "activar" /\ f = "inactiva"                  -> "buscada"
    [] OTHER                                             -> "aprobada"

\* Variant: the body of a PATCH takes activa = true when it is left out.
LeerFilaActivando(p) ==
  LET f  == fila[peticion[p].clave]
      op == peticion[p].op
  IN
    /\ EnPaso(p, "recibida")
    /\ op # "crear"
    /\ IF TrasLeer(op, f) = "libre"
       THEN Terminar(p)
       ELSE peticion' = [peticion EXCEPT ![p].leida = IF op = "anotar" THEN "activa" ELSE f,
                                         ![p].paso = TrasLeer(op, f)]
    /\ SoloLee

\* update and remove: findOne, and what each does with the row it finds.
LeerFila(p) ==
  LET f  == fila[peticion[p].clave]
      op == peticion[p].op
  IN
    /\ EnPaso(p, "recibida")
    /\ op # "crear"
    /\ IF TrasLeer(op, f) = "libre"
       THEN Terminar(p)
       ELSE peticion' = [peticion EXCEPT ![p].leida = f, ![p].paso = TrasLeer(op, f)]
    /\ SoloLee

\* Variant: a reactivation does not look for another owner.
BuscarActivaSoloAlCrear(p) ==
  /\ EnPaso(p, "buscada")
  /\ IF Activas(VehiculoDe(peticion[p].clave)) = {} \/ peticion[p].op = "activar"
     THEN Avanzar(p, "aprobada")
     ELSE Terminar(p)
  /\ SoloLee

\* create and the reactivation of update: another active owner is a conflict.
BuscarActiva(p) ==
  /\ EnPaso(p, "buscada")
  /\ IF Activas(VehiculoDe(peticion[p].clave)) = {}
     THEN Avanzar(p, "aprobada")
     ELSE Terminar(p)
  /\ SoloLee

\* Column activa of the entity handed to save().
Entidad(p) ==
  CASE peticion[p].op \in {"crear", "activar"}   -> "activa"
    [] peticion[p].op \in {"desactivar", "baja"} -> "inactiva"
    [] peticion[p].op = "anotar"                 -> peticion[p].leida

\* save(), first half: the row is read again to find what differs.
Comparar(p) ==
  /\ EnPaso(p, "aprobada")
  /\ peticion' = [peticion EXCEPT ![p].base = fila[peticion[p].clave], ![p].paso = "comparada"]
  /\ SoloLee

\* save(), second half: INSERT, or UPDATE of activa if it differed.
Guardar(p) ==
  fila' = IF Entidad(p) = peticion[p].base
          THEN fila
          ELSE [fila EXCEPT ![peticion[p].clave] = Entidad(p)]

\* The INSERT fails on a key another request has inserted meanwhile.
ClaveRepetida(p) == peticion[p].base = "ausente" /\ fila[peticion[p].clave] # "ausente"

Escribir(p) ==
  /\ EnPaso(p, "comparada")
  /\ ~ClaveRepetida(p)
  /\ Guardar(p)
  /\ Avanzar(p, "escrita")
  /\ UNCHANGED <<recibidas, registros, sinRegistro, solapados>>

\* The request fails: nothing is written, or it is and the answer is lost.
EscribirFallido(p) ==
  /\ EnPaso(p, "comparada")
  /\ \/ /\ ClaveRepetida(p) \/ ConFallas
        /\ UNCHANGED <<fila, sinRegistro>>
     \/ /\ ~ClaveRepetida(p)
        /\ ConFallas
        /\ Guardar(p)
        /\ sinRegistro' = sinRegistro \cup {peticion[p].clave}
  /\ Terminar(p)
  /\ UNCHANGED <<recibidas, registros, solapados>>

-----------------------------------------------------------------------------
(***************************************************************************)
(* The audit trail.  The listener takes its timestamp when the event is    *)
(* emitted and inserts the record when the database gets to it.            *)
(***************************************************************************)

Accion(op) ==
  CASE op = "crear" -> "CREACION" [] op = "baja" -> "ELIMINACION" [] OTHER -> "MODIFICACION"

\* Variant: the state read is passed on for a creation too, which has none.
NuevoRegistroSinNinguno(p, anterior) ==
  LET op == peticion[p].op IN
    [clave |-> peticion[p].clave,
     accion |-> Accion(op),
     anterior |-> IF op = "baja" THEN "activa" ELSE anterior,
     nuevo |-> IF op = "baja" THEN "ninguno" ELSE Entidad(p),
     estado |-> "pendiente"]

\* The listener writes the previous state of a removal without looking at it.
NuevoRegistro(p, anterior) ==
  LET op == peticion[p].op IN
    [clave |-> peticion[p].clave,
     accion |-> Accion(op),
     anterior |-> CASE op = "crear" -> "ninguno" [] op = "baja" -> "activa" [] OTHER -> anterior,
     nuevo |-> IF op = "baja" THEN "ninguno" ELSE Entidad(p),
     estado |-> "pendiente"]

\* Variant: the previous state is not copied before the entity is modified.
EmitirSinCopia(p) ==
  /\ EnPaso(p, "escrita")
  /\ registros' = Append(registros, NuevoRegistro(p, Entidad(p)))
  /\ Terminar(p)
  /\ UNCHANGED <<recibidas, fila, sinRegistro, solapados>>

\* Variant: the event of a creation is not emitted.
EmitirSinAlta(p) ==
  /\ EnPaso(p, "escrita")
  /\ registros' = IF peticion[p].op = "crear"
                  THEN registros
                  ELSE Append(registros, NuevoRegistro(p, peticion[p].leida))
  /\ Terminar(p)
  /\ UNCHANGED <<recibidas, fila, sinRegistro, solapados>>

\* The handler goes on once save() is back: it emits the event and answers.
Emitir(p) ==
  /\ EnPaso(p, "escrita")
  /\ registros' = Append(registros, NuevoRegistro(p, peticion[p].leida))
  /\ Terminar(p)
  /\ UNCHANGED <<recibidas, fila, sinRegistro, solapados>>

\* An error of the insert is logged and nothing else.
Registrar(i) ==
  /\ registros[i].estado = "pendiente"
  /\ \/ /\ registros' = [registros EXCEPT ![i].estado = "guardado"]
        /\ UNCHANGED sinRegistro
     \/ /\ ConFallas
        /\ registros' = [registros EXCEPT ![i].estado = "perdido"]
        /\ sinRegistro' = sinRegistro \cup {registros[i].clave}
  /\ UNCHANGED <<peticion, recibidas, fila, solapados>>

\* The process stops: requests and events not yet recorded go with it.
Caida ==
  LET cortadas   == {p \in Peticiones : EnPaso(p, "escrita")}
      pendientes == {i \in DOMAIN registros : registros[i].estado = "pendiente"}
  IN
    /\ ConFallas
    /\ peticion' = [p \in Peticiones |-> Libre]
    /\ registros' = [i \in DOMAIN registros |->
                       IF i \in pendientes
                       THEN [registros[i] EXCEPT !.estado = "perdido"]
                       ELSE registros[i]]
    /\ sinRegistro' = sinRegistro \cup {peticion[p].clave : p \in cortadas}
                                  \cup {registros[i].clave : i \in pendientes}
    /\ UNCHANGED <<recibidas, fila, solapados>>

-----------------------------------------------------------------------------

Atender(p) ==
  \/ \E op \in Operacion, clave \in Claves : Empezar(p, op, clave)
  \/ ValidarReferencias(p)
  \/ BuscarClave(p)
  \/ LeerFila(p)
  \/ BuscarActiva(p)
  \/ Comparar(p)
  \/ Escribir(p)
  \/ EscribirFallido(p)
  \/ Emitir(p)

Next ==
  \/ \E p \in Peticiones : Atender(p)
  \/ \E i \in DOMAIN registros : Registrar(i)
  \/ Caida

Spec == Init /\ [][Next]_vars

-----------------------------------------------------------------------------
(***************************************************************************)
(* Properties.                                                             *)
(***************************************************************************)

\* The rule the service keeps: two requests on a vehicle never overlapped,
\* then at most one owner has it, across creations, removals, reactivations,
\* failed writes and crashes.
UnaActivaSinSolape ==
  \A v \in Vehiculos \ solapados :
    \A u, w \in Activas(v) : u = w

\* The rule as the entity states it, whatever overlaps.
UnaActivaPorVehiculo ==
  \A v \in Vehiculos : \A u, w \in Activas(v) : u = w

\* An assignment that was removed comes back only when a client asks for it,
\* never as the side effect of another change of the row.
BajaDefinitiva ==
  [][\A k \in Claves :
       fila[k] = "inactiva" /\ fila'[k] = "activa" =>
         \/ VehiculoDe(k) \in solapados
         \/ \E p \in Peticiones : /\ EnPaso(p, "comparada")
                                  /\ peticion[p].op = "activar"
                                  /\ peticion[p].clave = k]_vars

Antes(r) == IF r.anterior = "ninguno" THEN "ausente" ELSE r.anterior

Despues(r) == IF r.nuevo = "ninguno" THEN "inactiva" ELSE r.nuevo

\* What the audit trail says of a key after its record i: what the next record
\* starts from or, for the last one, the row.
EstadoTras(k, i) ==
  LET siguientes == {j \in DOMAIN registros : j > i /\ registros[j].clave = k} IN
    IF siguientes = {} THEN fila[k]
    ELSE Antes(registros[CHOOSE j \in siguientes : \A m \in siguientes : j <= m])

\* The audit trail of a key, read by timestamp, tells its whole life: it starts
\* from no row, every record starts where the one before it ended, and the last
\* one ends in the row, unless requests overlapped or a record was lost.
AuditoriaReconstruye ==
  \A k \in Claves :
    /\ k \notin sinRegistro
    /\ VehiculoDe(k) \notin solapados
    /\ EnCursoSobre(VehiculoDe(k)) = {}
    => /\ EstadoTras(k, 0) = "ausente" \/ ~ \E i \in DOMAIN registros : registros[i].clave = k
       /\ fila[k] # "ausente" => \E i \in DOMAIN registros : registros[i].clave = k
       /\ \A i \in DOMAIN registros :
            registros[i].clave = k => Despues(registros[i]) = EstadoTras(k, i)

\* Whatever overlaps, an assignment that exists has the record of its creation,
\* or a request about to write it, or a loss that was logged.
AltaRegistrada ==
  \A k \in Claves :
    fila[k] # "ausente" =>
      \/ k \in sinRegistro
      \/ \E i \in DOMAIN registros : registros[i].clave = k /\ registros[i].accion = "CREACION"
      \/ \E p \in Peticiones : /\ EnPaso(p, "escrita")
                             /\ peticion[p].op = "crear"
                             /\ peticion[p].clave = k

=============================================================================
