------------------------------ MODULE Vehiculos ------------------------------
(***************************************************************************)
(* The vehicles and the gate of the car park in the vehicle service.       *)
(*                                                                         *)
(* Column estado says whether a vehicle is inside, column activo whether   *)
(* it may enter.  The gate (gateway/ingresos, gateway/salidas) and the     *)
(* administration (create, edit, remove, reactivate) read the row, look at *)
(* it, wait for another service in between, and hand the whole entity to   *)
(* TypeORM's save, which reads the row once more and updates the columns   *)
(* that differ from what it has just read.                                 *)
(***************************************************************************)
EXTENDS Integers

CONSTANTS
  Placas,       \* the license plates, unique in the table
  Peticiones,   \* the requests the service may be serving at once
  MaxPeticiones,\* bound: requests in all
  ConFallas     \* TRUE: the database fails and the process may stop

ASSUME VehiculosAssumption ==
  /\ ConFallas \in BOOLEAN
  /\ MaxPeticiones \in Nat

Operacion == {"crear", "editar", "baja", "reactivar", "ingreso", "walkin", "salida"}

VARIABLES
  peticion,   \* each request being served
  recibidas,  \* requests received so far
  fila,       \* the table, by plate
  pases,      \* history: entries less exits that were saved, by plate
  solapados   \* history: plates that two requests touched at once

vars == <<peticion, recibidas, fila, pases, solapados>>

Vehiculo == [estado : {"fuera", "dentro"}, activo : BOOLEAN]

SinFila == [estado |-> "ausente"]

EnCurso == {"recibida", "leida", "aprobada", "comparada"}

\* A request and the locals of its handler: the entity, as it was read and then
\* modified, and the row as save() read it again.
Solicitud ==
  [paso : EnCurso, op : Operacion, placa : Placas,
   entidad : Vehiculo \cup {SinFila}, base : Vehiculo \cup {SinFila}]

Libre == [paso |-> "libre"]

EnCursoSobre(v) ==
  {p \in Peticiones : peticion[p].paso \in EnCurso /\ peticion[p].placa = v}

TypeOK ==
  /\ peticion \in [Peticiones -> Solicitud \cup {Libre}]
  /\ recibidas \in 0..MaxPeticiones
  /\ fila \in [Placas -> Vehiculo \cup {SinFila}]
  /\ pases \in [Placas -> Int]
  /\ solapados \subseteq Placas

Init ==
  /\ peticion = [p \in Peticiones |-> Libre]
  /\ recibidas = 0
  /\ fila = [v \in Placas |-> SinFila]
  /\ pases = [v \in Placas |-> 0]
  /\ solapados = {}

EnPaso(p, paso) == peticion[p].paso = paso

Terminar(p) == peticion' = [peticion EXCEPT ![p] = Libre]

SoloLee == UNCHANGED <<recibidas, fila, pases, solapados>>

-----------------------------------------------------------------------------

Empezar(p, op, v) ==
  /\ peticion[p] = Libre
  /\ recibidas < MaxPeticiones
  /\ recibidas' = recibidas + 1
  /\ peticion' = [peticion EXCEPT ![p] =
       [paso |-> "recibida", op |-> op, placa |-> v, entidad |-> SinFila, base |-> SinFila]]
  /\ solapados' = IF EnCursoSobre(v) = {} THEN solapados ELSE solapados \cup {v}
  /\ UNCHANGED <<fila, pases>>

(***************************************************************************)
(* What each operation asks of the row it reads.  A creation wants no row  *)
(* with its plate; every other operation wants one.  The walk-in entry     *)
(* asks for both: findByPlacaOpcional throws when there is no row, and a   *)
(* row that is there is a conflict, so it always ends here.                *)
(***************************************************************************)
Admite(op, f) ==
  CASE op = "crear"     -> f = SinFila
    [] op = "walkin"    -> FALSE
    [] op = "baja"      -> f # SinFila /\ f.estado = "fuera"
    [] op = "reactivar" -> f # SinFila /\ ~f.activo
    [] op = "salida"    -> f # SinFila /\ f.estado = "dentro"
    [] OTHER            -> f # SinFila

\* The first read.
Leer(p) ==
  LET f == fila[peticion[p].placa] IN
    /\ EnPaso(p, "recibida")
    /\ IF Admite(peticion[p].op, f)
       THEN peticion' = [peticion EXCEPT ![p].entidad = f, ![p].paso = "leida"]
       ELSE Terminar(p)
    /\ SoloLee

\* Variant: a new vehicle leaves activo to a default it does not have.
ModificadaSinActivo(op, f) ==
  CASE op = "crear"     -> [estado |-> "fuera"]
    [] op = "editar"    -> f
    [] op = "baja"      -> [f EXCEPT !.activo = FALSE]
    [] op = "reactivar" -> [f EXCEPT !.activo = TRUE]
    [] op = "ingreso"   -> [f EXCEPT !.estado = "dentro"]
    [] op = "salida"    -> [f EXCEPT !.estado = "fuera"]

\* Variant: an edit builds the entity anew with the factory.
ModificadaDeFabrica(op, f) ==
  CASE op \in {"crear", "editar"} -> [estado |-> "fuera", activo |-> TRUE]
    [] op = "baja"      -> [f EXCEPT !.activo = FALSE]
    [] op = "reactivar" -> [f EXCEPT !.activo = TRUE]
    [] op = "ingreso"   -> [f EXCEPT !.estado = "dentro"]
    [] op = "salida"    -> [f EXCEPT !.estado = "fuera"]

\* What each operation makes of the entity it has read.
Modificada(op, f) ==
  CASE op = "crear"     -> [estado |-> "fuera", activo |-> TRUE]
    [] op = "editar"    -> f
    [] op = "baja"      -> [f EXCEPT !.activo = FALSE]
    [] op = "reactivar" -> [f EXCEPT !.activo = TRUE]
    [] op = "ingreso"   -> [f EXCEPT !.estado = "dentro"]
    [] op = "salida"    -> [f EXCEPT !.estado = "fuera"]

\* Operations that ask another service before they save: the owner in
\* gestion-usuarios, or the free spaces in the zones module.
ConsultaFuera == {"crear", "editar", "reactivar", "ingreso"}

\* The owner is unknown, there is no free space, the other service does not
\* answer, or marcarIngreso refuses the vehicle.
Rechazar(p) ==
  /\ EnPaso(p, "leida")
  /\ peticion[p].op \in ConsultaFuera
  /\ Terminar(p)
  /\ SoloLee

\* Variant: marcarIngreso does not look at whether the vehicle is inside.
AprobarRepetido(p) ==
  LET r == peticion[p] IN
    /\ EnPaso(p, "leida")
    /\ r.op = "ingreso" => r.entidad.activo
    /\ peticion' = [peticion EXCEPT ![p].entidad = Modificada(r.op, r.entidad),
                                    ![p].paso = "aprobada"]
    /\ SoloLee

\* Variant: marcarIngreso does not look at the administrative block.
AprobarBloqueado(p) ==
  LET r == peticion[p] IN
    /\ EnPaso(p, "leida")
    /\ r.op = "ingreso" => r.entidad.estado = "fuera"
    /\ peticion' = [peticion EXCEPT ![p].entidad = Modificada(r.op, r.entidad),
                                    ![p].paso = "aprobada"]
    /\ SoloLee

\* marcarIngreso looks at the row as it was read before the zones were asked.
Aprobar(p) ==
  LET r == peticion[p] IN
    /\ EnPaso(p, "leida")
    /\ r.op = "ingreso" => r.entidad.activo /\ r.entidad.estado = "fuera"
    /\ peticion' = [peticion EXCEPT ![p].entidad = Modificada(r.op, r.entidad),
                                    ![p].paso = "aprobada"]
    /\ SoloLee

\* save(), first half: the row of an entity with an id is read again.
Comparar(p) ==
  /\ EnPaso(p, "aprobada")
  /\ peticion' = [peticion EXCEPT
       ![p].base = IF peticion[p].op = "crear" THEN SinFila ELSE fila[peticion[p].placa],
       ![p].paso = "comparada"]
  /\ SoloLee

\* The columns of UPDATE: those of the entity that differ from the base.
Actualizada(entidad, base, actual) ==
  [estado |-> IF entidad.estado = base.estado THEN actual.estado ELSE entidad.estado,
   activo |-> IF entidad.activo = base.activo THEN actual.activo ELSE entidad.activo]

\* The plate of an INSERT is taken meanwhile: the unique index refuses it.
PlacaRepetida(p) == peticion[p].op = "crear" /\ fila[peticion[p].placa] # SinFila

\* save(), second half: INSERT or UPDATE.
Guardar(p) ==
  LET r == peticion[p] IN
    /\ fila' = [fila EXCEPT ![r.placa] =
         IF r.op = "crear" THEN r.entidad ELSE Actualizada(r.entidad, r.base, @)]
    /\ pases' = [pases EXCEPT ![r.placa] =
         CASE r.op = "ingreso" -> @ + 1 [] r.op = "salida" -> @ - 1 [] OTHER -> @]

\* With the answer, or with its loss, the request ends.
Escribir(p) ==
  /\ EnPaso(p, "comparada")
  /\ ~PlacaRepetida(p)
  /\ Guardar(p)
  /\ Terminar(p)
  /\ UNCHANGED <<recibidas, solapados>>

EscribirFallido(p) ==
  /\ EnPaso(p, "comparada")
  /\ PlacaRepetida(p) \/ ConFallas
  /\ Terminar(p)
  /\ SoloLee

\* The process stops: what was saved stays.
Caida ==
  /\ ConFallas
  /\ peticion' = [p \in Peticiones |-> Libre]
  /\ SoloLee

-----------------------------------------------------------------------------

Atender(p) ==
  \/ \E op \in Operacion, v \in Placas : Empezar(p, op, v)
  \/ Leer(p)
  \/ Rechazar(p)
  \/ Aprobar(p)
  \/ Comparar(p)
  \/ Escribir(p)
  \/ EscribirFallido(p)

Next ==
  \/ \E p \in Peticiones : Atender(p)
  \/ Caida

Spec == Init /\ [][Next]_vars

-----------------------------------------------------------------------------
(***************************************************************************)
(* Properties.                                                             *)
(***************************************************************************)

\* Column estado is the truth about occupation, as long as the requests on a
\* vehicle do not overlap: the entries and exits that were saved alternate, and
\* no edit, block or reactivation in between disturbs them.
OcupacionVeraz ==
  \A v \in Placas \ solapados :
    pases[v] = IF fila[v].estado = "dentro" THEN 1 ELSE 0

\* A vehicle that is inside was never blocked, again without overlap: the entry
\* looks at the block and the block looks at the entry.
DentroSinBloqueo ==
  \A v \in Placas \ solapados :
    fila[v] # SinFila /\ fila[v].estado = "dentro" => fila[v].activo

\* Only the gate moves a vehicle and only the administration blocks it: no other
\* request writes those columns, though every save carries the whole entity.
CadaQuienLoSuyo ==
  [][\A v \in Placas \ solapados :
       fila[v] # SinFila /\ fila'[v] # fila[v] =>
         \E p \in Peticiones :
           /\ EnPaso(p, "comparada") /\ peticion[p].placa = v
           /\ fila'[v].estado # fila[v].estado => peticion[p].op \in {"ingreso", "salida"}
           /\ fila'[v].activo # fila[v].activo => peticion[p].op \in {"baja", "reactivar"}]_vars

\* What the design of the gateway says of column estado: it prevents a second
\* entry, and an exit with no entry before it, whatever overlaps.
SinDobleIngreso == \A v \in Placas : pases[v] \in {0, 1}

=============================================================================
