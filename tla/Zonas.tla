-------------------------------- MODULE Zonas --------------------------------
(***************************************************************************)
(* Zones and spaces in ModuloZonas.                                        *)
(*                                                                         *)
(* Requests run in threads of their own.  Only actualizarEstado is one     *)
(* transaction; every other operation reads, decides and saves in several, *)
(* over one persistence context.  An update of Hibernate writes the whole  *)
(* row, as it was read, with what the operation changed in it.             *)
(***************************************************************************)
EXTENDS Integers, FiniteSets

CONSTANTS
  Zonas,         \* the names of the zones, unique in the table
  Espacios,      \* the ids the spaces will have
  Capacidad,     \* column capacidad of each zone; no operation changes it
  Clase,         \* the letters of type and size in the code of each zone
  Ordenes,       \* the requests in use
  Peticiones,    \* the requests the service may be serving at once
  MaxPeticiones, \* bound: requests in all
  ConFallas      \* TRUE: a request may fail at any point

EstadoEspacio == {"DISPONIBLE", "OCUPADO", "RESERVADO", "MANTENIMIENTO"}

\* What a request asks for.
Orden ==
       [op : {"crearZona", "crear", "conmutar"}, zona : Zonas]
  \cup [op : {"editar"}, espacio : Espacios, zona : Zonas]
  \cup [op : {"eliminar"}, espacio : Espacios]
  \cup [op : {"estado"}, espacio : Espacios, estado : EstadoEspacio]

ASSUME ZonasAssumption ==
  /\ Capacidad \in [Zonas -> Nat]
  /\ Ordenes \subseteq Orden
  /\ MaxPeticiones \in Nat
  /\ ConFallas \in BOOLEAN

VARIABLES
  peticion,   \* each request being served
  recibidas,  \* requests received so far
  zona,       \* table zonas
  fila,       \* table espacios
  solapadas,  \* history: zones two requests touched at once, or of spaces moved
              \* to or from such a zone
  mudadas     \* history: zones that an edited space was moved to

vars == <<peticion, recibidas, zona, fila, solapadas, mudadas>>

Zona == [activa : BOOLEAN, numero : Nat]

SinZona == [activa |-> FALSE, numero |-> 0]

Fila == [zona : Zonas, estado : EstadoEspacio, activo : BOOLEAN]

SinFila == [estado |-> "ausente"]

\* A request, the row of zonas it has read, the rows of espacios it will write,
\* and the zones it concerns.
Solicitud ==
  [paso : {"recibida", "leida", "revisada", "lista"}, orden : Orden,
   leida : Zona, sucias : [Espacios -> Fila \cup {SinFila}], toca : SUBSET Zonas]

Libre == [paso |-> "libre"]

NadaSucio == [e \in Espacios |-> SinFila]

TypeOK ==
  /\ peticion \in [Peticiones -> Solicitud \cup {Libre}]
  /\ recibidas \in 0..MaxPeticiones
  /\ zona \in [Zonas -> Zona]
  /\ fila \in [Espacios -> Fila \cup {SinFila}]
  /\ solapadas \subseteq Zonas
  /\ mudadas \subseteq Zonas

Init ==
  /\ peticion = [p \in Peticiones |-> Libre]
  /\ recibidas = 0
  /\ zona = [z \in Zonas |-> SinZona]
  /\ fila = [e \in Espacios |-> SinFila]
  /\ solapadas = {}
  /\ mudadas = {}

\* The states that requests ask for.
EstadosPedidos == {o.estado : o \in {r \in Ordenes : r.op = "estado"}}

Existentes == {z \in Zonas : zona[z] # SinZona}

EspaciosDe(z) == {e \in Espacios : fila[e] # SinFila /\ fila[e].zona = z}

Pide(p, paso, ops) == peticion[p].paso = paso /\ peticion[p].orden.op \in ops

Terminar(p) == peticion' = [peticion EXCEPT ![p] = Libre]

Pasar(p, paso) == peticion' = [peticion EXCEPT ![p].paso = paso]

SoloLee == UNCHANGED <<recibidas, zona, fila, solapadas, mudadas>>

-----------------------------------------------------------------------------

\* The zones a request concerns: the one it names, and that of its space.
Concierne(o) ==
       (IF "zona" \in DOMAIN o THEN {o.zona} ELSE {})
  \cup (IF "espacio" \in DOMAIN o THEN {fila[o.espacio].zona} ELSE {})

\* A client knows the id of a space from its creation.
Conocido(o) == "espacio" \in DOMAIN o => fila[o.espacio] # SinFila

Empezar(p, o) ==
  /\ peticion[p] = Libre
  /\ Conocido(o)
  /\ recibidas < MaxPeticiones
  /\ recibidas' = recibidas + 1
  /\ LET toca == Concierne(o)
         otras == {q \in Peticiones : peticion[q] # Libre /\ peticion[q].toca \cap toca # {}}
     IN
       /\ peticion' = [peticion EXCEPT ![p] =
            [paso |-> "recibida", orden |-> o, leida |-> SinZona,
             sucias |-> NadaSucio, toca |-> toca]]
       /\ solapadas' = IF otras = {} /\ toca \cap solapadas = {} THEN solapadas
                       ELSE solapadas \cup toca \cup UNION {peticion[q].toca : q \in otras}
  /\ UNCHANGED <<zona, fila, mudadas>>

\* crearZona looks the name up and numbers the zone: numeroZona++ yields the
\* count itself, so the first two zones are both number 1.
NumerarZona(p) ==
  LET n == Cardinality(Existentes) IN
    /\ Pide(p, "recibida", {"crearZona"})
    /\ IF peticion[p].orden.zona \in Existentes
       THEN Terminar(p)
       ELSE peticion' = [peticion EXCEPT
              ![p].leida = [activa |-> TRUE, numero |-> IF n = 0 THEN 1 ELSE n],
              ![p].paso = "lista"]
    /\ SoloLee

\* Variant: one space more than the capacity is let through.
ContarEspaciosDeMas(p) ==
  LET z == peticion[p].orden.zona IN
    /\ Pide(p, "recibida", {"crear"})
    /\ IF z \in Existentes /\ Cardinality(EspaciosDe(z)) <= Capacidad[z]
       THEN Pasar(p, "lista")
       ELSE Terminar(p)
    /\ SoloLee

\* crearEspacio: the zone must exist and have room, removed spaces included.
ContarEspacios(p) ==
  LET z == peticion[p].orden.zona IN
    /\ Pide(p, "recibida", {"crear"})
    /\ IF z \in Existentes /\ Cardinality(EspaciosDe(z)) < Capacidad[z]
       THEN Pasar(p, "lista")
       ELSE Terminar(p)
    /\ SoloLee

\* Variant: the edit takes the state too, from a body that rarely has it.
ModificadaConEstado(o, f) ==
  CASE o.op = "editar"   -> [f EXCEPT !.zona = IF o.zona \in Existentes THEN o.zona ELSE @,
                                      !.estado = "DISPONIBLE"]
    [] o.op = "eliminar" -> [f EXCEPT !.activo = FALSE]
    [] o.op = "estado"   -> [f EXCEPT !.estado = o.estado]

\* What actualizarEspacio, eliminarEspacio and actualizarEstado make of the row.
Modificada(o, f) ==
  CASE o.op = "editar"   -> [f EXCEPT !.zona = IF o.zona \in Existentes THEN o.zona ELSE @]
    [] o.op = "eliminar" -> [f EXCEPT !.activo = FALSE]
    [] o.op = "estado"   -> [f EXCEPT !.estado = o.estado]

\* Only an edit, which sets the date of modification, writes a row that is
\* otherwise as it was.
LeerFila(p) ==
  LET o == peticion[p].orden
      f == fila[o.espacio]
  IN
    /\ Pide(p, "recibida", {"editar", "eliminar", "estado"})
    /\ IF o.op = "editar" \/ Modificada(o, f) # f
       THEN peticion' = [peticion EXCEPT ![p].sucias[o.espacio] = Modificada(o, f),
                                         ![p].paso = "lista"]
       ELSE Terminar(p)
    /\ SoloLee

\* activarDesactivar reads the zone.
LeerZona(p) ==
  LET z == peticion[p].orden.zona IN
    /\ Pide(p, "recibida", {"conmutar"})
    /\ IF z \in Existentes
       THEN peticion' = [peticion EXCEPT
              ![p].leida = [zona[z] EXCEPT !.activa = ~@],
              ![p].paso = IF zona[z].activa THEN "leida" ELSE "revisada"]
       ELSE Terminar(p)
    /\ SoloLee

\* Variant: removed spaces are not looked at.
BuscarOcupadosActivos(p) ==
  /\ Pide(p, "leida", {"conmutar"})
  /\ IF \E e \in EspaciosDe(peticion[p].orden.zona) : fila[e].estado = "OCUPADO" /\ fila[e].activo
     THEN Terminar(p)
     ELSE Pasar(p, "revisada")
  /\ SoloLee

\* A zone with an occupied space is not deactivated.
BuscarOcupados(p) ==
  /\ Pide(p, "leida", {"conmutar"})
  /\ IF \E e \in EspaciosDe(peticion[p].orden.zona) : fila[e].estado = "OCUPADO"
     THEN Terminar(p)
     ELSE Pasar(p, "revisada")
  /\ SoloLee

\* The lazy list of the spaces of the zone is loaded and given the flag of the
\* zone, those removed one by one included.
CargarEspacios(p) ==
  LET activa == peticion[p].leida.activa IN
    /\ Pide(p, "revisada", {"conmutar"})
    /\ peticion' = [peticion EXCEPT
         ![p].sucias = [e \in Espacios |->
           IF e \in EspaciosDe(peticion[p].orden.zona) /\ fila[e].activo # activa
           THEN [fila[e] EXCEPT !.activo = activa] ELSE SinFila],
         ![p].paso = "lista"]
    /\ SoloLee

\* Variant: a body with no state leaves the column empty.
InsertadasSinEstado(z) ==
  [zona : {z}, estado : EstadosPedidos \cup {"ausente"}, activo : {TRUE}]

\* The rows that a creation may store: in the state of its body, or DISPONIBLE.
Insertadas(z) == [zona : {z}, estado : EstadosPedidos \cup {"DISPONIBLE"}, activo : {TRUE}]

\* The INSERT of crearEspacio.  The zone may be full or inactive by now.
Insertar(p) ==
  /\ Pide(p, "lista", {"crear"})
  /\ \E e \in Espacios :
       /\ fila[e] = SinFila
       /\ \E f \in Insertadas(peticion[p].orden.zona) : fila' = [fila EXCEPT ![e] = f]
  /\ Terminar(p)
  /\ UNCHANGED <<recibidas, zona, solapadas, mudadas>>

\* The unique indexes on the name and on the code.
ZonaRepetida(p) ==
  LET z == peticion[p].orden.zona IN
    \/ z \in Existentes
    \/ \E x \in Existentes : Clase[x] = Clase[z] /\ zona[x].numero = peticion[p].leida.numero

InsertarZona(p) ==
  /\ Pide(p, "lista", {"crearZona"})
  /\ ~ZonaRepetida(p)
  /\ zona' = [zona EXCEPT ![peticion[p].orden.zona] = peticion[p].leida]
  /\ Terminar(p)
  /\ UNCHANGED <<recibidas, fila, solapadas, mudadas>>

\* The flush at the end of save, or of actualizarEstado's transaction.
Guardar(p) ==
  LET o == peticion[p].orden IN
    /\ Pide(p, "lista", {"editar", "eliminar", "estado", "conmutar"})
    /\ fila' = [e \in Espacios |->
         IF peticion[p].sucias[e] # SinFila THEN peticion[p].sucias[e] ELSE fila[e]]
    /\ zona' = IF o.op = "conmutar" THEN [zona EXCEPT ![o.zona] = peticion[p].leida] ELSE zona
    /\ mudadas' = IF o.op = "editar" /\ fila'[o.espacio].zona # fila[o.espacio].zona
                  THEN mudadas \cup {o.zona} ELSE mudadas
    /\ Terminar(p)
    /\ UNCHANGED <<recibidas, solapadas>>

\* A query or a write fails, the code of a space is taken or too long, or the
\* process stops: nothing of the request is written.
Fallar(p) ==
  /\ peticion[p] # Libre
  /\ ConFallas \/ (Pide(p, "lista", {"crearZona"}) /\ ZonaRepetida(p))
  /\ Terminar(p)
  /\ SoloLee

-----------------------------------------------------------------------------

Atender(p) ==
  \/ \E o \in Ordenes : Empezar(p, o)
  \/ NumerarZona(p)
  \/ ContarEspacios(p)
  \/ LeerFila(p)
  \/ LeerZona(p)
  \/ BuscarOcupados(p)
  \/ CargarEspacios(p)
  \/ Insertar(p)
  \/ InsertarZona(p)
  \/ Guardar(p)
  \/ Fallar(p)

Next == \E p \in Peticiones : Atender(p)

Spec == Init /\ [][Next]_vars

-----------------------------------------------------------------------------
(***************************************************************************)
(* Properties.                                                             *)
(***************************************************************************)

\* A zone never has more spaces than its capacity, as long as the requests on it
\* do not overlap and no space is moved to it: the count before each creation
\* holds until the insert.
CapacidadRespetada ==
  \A z \in Existentes \ (solapadas \cup mudadas) :
    Cardinality(EspaciosDe(z)) <= Capacidad[z]

\* Every update writes the whole row of a space, yet without overlap only
\* actualizarEstado changes its state, only an edit its zone, and only a removal
\* or its zone's switch its flag: no OCUPADO is lost under another operation.
ColumnasPropias ==
  [][\A e \in Espacios :
       fila[e] # SinFila /\ fila'[e] # fila[e] /\ fila[e].zona \notin solapadas =>
         \E p \in Peticiones :
           /\ peticion[p].paso = "lista"
           /\ fila'[e].estado # fila[e].estado => peticion[p].orden.op = "estado"
           /\ fila'[e].zona # fila[e].zona => peticion[p].orden.op = "editar"
           /\ fila'[e].activo # fila[e].activo =>
                \/ peticion[p].orden.op = "eliminar" /\ fila[e].activo
                \/ peticion[p].orden = [op |-> "conmutar", zona |-> fila[e].zona]]_vars

\* A zone goes out of use clean, when no other request on it overlaps: all its
\* spaces go with it and none of them is occupied.
DesactivarLimpio ==
  [][\A z \in Zonas \ solapadas :
       zona[z].activa /\ ~zona'[z].activa =>
         \A e \in EspaciosDe(z) : ~fila'[e].activo /\ fila'[e].estado # "OCUPADO"]_vars

=============================================================================
