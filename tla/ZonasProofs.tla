----------------------------- MODULE ZonasProofs -----------------------------
(***************************************************************************)
(* Proofs about Zonas for any zones, spaces, capacities and requests, any  *)
(* of which may fail.                                                      *)
(*                                                                         *)
(* Requests meet on zones, but a request on a space keeps the zone the     *)
(* space was in when it began, and the space may be moved meanwhile.  So   *)
(* the argument has three parts: requests that share a zone put all their  *)
(* zones among solapadas (Apartadas); a row that a request holds is in one *)
(* of its zones, or all of them are overlapped (Cercanas); and a request   *)
(* whose zones are not holds what the tables say now (Coherentes).         *)
(***************************************************************************)
EXTENDS Zonas, FiniteSetTheorems, TLAPS

DeEspacio == {"editar", "eliminar", "estado"}
DeZona == {"crearZona", "crear", "conmutar"}

Presentes == {e \in Espacios : fila[e] # SinFila}

Activa(p) == peticion[p] # Libre

\* The space of a request, and those it will write, stay in the table.
Conocidos ==
  \A p \in Peticiones : Activa(p) =>
    /\ peticion[p].orden.op \in DeEspacio => fila[peticion[p].orden.espacio] # SinFila
    /\ \A e \in Espacios : peticion[p].sucias[e] # SinFila => fila[e] # SinFila

IndTipo == TypeOK /\ Conocidos /\ IsFiniteSet(Presentes) /\ IsFiniteSet(Existentes)

-----------------------------------------------------------------------------
(***************************************************************************)
(* IndTipo.                                                                *)
(***************************************************************************)

LEMMA DeOrden ==
  ASSUME NEW o \in Orden
  PROVE  /\ o.op \in DeEspacio \cup DeZona
         /\ o.op \in DeZona => o.zona \in Zonas /\ Concierne(o) = {o.zona}
         /\ o.op \in DeEspacio => o.espacio \in Espacios
         /\ o.op = "editar" => o.zona \in Zonas /\ Concierne(o) = {o.zona, fila[o.espacio].zona}
         /\ o.op \in {"eliminar", "estado"} => Concierne(o) = {fila[o.espacio].zona}
         /\ o.op = "estado" => o.estado \in EstadoEspacio
         /\ o.op \in DeEspacio => (Conocido(o) <=> fila[o.espacio] # SinFila)
         /\ o.op \in DeZona => o = [op |-> o.op, zona |-> o.zona]
<1>1. CASE o \in [op : {"crearZona", "crear", "conmutar"}, zona : Zonas]
  BY <1>1 DEF Concierne, Conocido, DeEspacio, DeZona
<1>2. CASE o \in [op : {"editar"}, espacio : Espacios, zona : Zonas]
  BY <1>2 DEF Concierne, Conocido, DeEspacio, DeZona
<1>3. CASE o \in [op : {"eliminar"}, espacio : Espacios]
  BY <1>3 DEF Concierne, Conocido, DeEspacio, DeZona
<1>4. CASE o \in [op : {"estado"}, espacio : Espacios, estado : EstadoEspacio]
  BY <1>4 DEF Concierne, Conocido, DeEspacio, DeZona
<1>5. QED
  BY <1>1, <1>2, <1>3, <1>4 DEF Orden

LEMMA SinFilaNoEsFila == SinFila \notin Fila
BY DEF SinFila, Fila

LEMMA DeInsertadas ==
  ASSUME ZonasAssumption, NEW z \in Zonas, NEW f \in Insertadas(z)
  PROVE  f \in Fila /\ f.zona = z /\ f # SinFila
<1>1. EstadosPedidos \subseteq EstadoEspacio
  BY DeOrden DEF EstadosPedidos, ZonasAssumption
<1>2. f \in Fila /\ f.zona = z
  BY <1>1 DEF Insertadas, Fila, EstadoEspacio
<1>3. QED
  BY <1>2, SinFilaNoEsFila

LEMMA Forma ==
  ASSUME TypeOK, NEW p \in Peticiones
  PROVE  /\ peticion[p] # Libre <=> peticion[p].paso \in {"recibida", "leida", "revisada", "lista"}
         /\ peticion[p] # Libre =>
              /\ peticion[p] \in Solicitud
              /\ peticion[p].orden \in Orden
              /\ peticion[p].orden.op \in DeEspacio \cup DeZona
              /\ peticion[p].leida \in Zona
              /\ peticion[p].sucias \in [Espacios -> Fila \cup {SinFila}]
              /\ peticion[p].toca \subseteq Zonas
<1>1. /\ peticion[p] # Libre <=> peticion[p].paso \in {"recibida", "leida", "revisada", "lista"}
      /\ peticion[p] # Libre => peticion[p] \in Solicitud
  BY DEF TypeOK, Solicitud, Libre
<1>2. QED
  BY <1>1, DeOrden DEF Solicitud

LEMMA TipoModificada ==
  ASSUME NEW o \in Orden, o.op \in DeEspacio, NEW f \in Fila
  PROVE  Modificada(o, f) \in Fila
<1>1. o.op = "editar" => o.zona \in Zonas
  BY DeOrden
<1>2. o.op = "estado" => o.estado \in EstadoEspacio
  BY DeOrden
<1>3. QED
  BY <1>1, <1>2 DEF Modificada, Fila, DeEspacio

LEMMA TipoInicial == Init => IndTipo
<1> SUFFICES ASSUME Init PROVE IndTipo
  OBVIOUS
<1>1. TypeOK /\ Conocidos
  BY ZonasAssumption DEF Init, TypeOK, Conocidos, Activa, SinZona, Zona
<1>2. Presentes = {} /\ Existentes = {}
  BY DEF Init, Presentes, Existentes
<1>3. QED
  BY <1>1, <1>2, FS_EmptySet DEF IndTipo

\* A request is replaced by a well formed one and the tables are left alone.
LEMMA TipoPeticion ==
  ASSUME IndTipo, NEW p \in Peticiones, NEW r \in Solicitud \cup {Libre},
         r # Libre => /\ Activa(p) /\ r.orden = peticion[p].orden
                      /\ \A e \in Espacios : r.sucias[e] # SinFila => fila[e] # SinFila,
         peticion' = [peticion EXCEPT ![p] = r], SoloLee
  PROVE  IndTipo'
<1>1. \A q \in Peticiones : peticion'[q] = IF q = p THEN r ELSE peticion[q]
  BY DEF IndTipo, TypeOK
<1>2. TypeOK'
  BY DEF IndTipo, TypeOK, SoloLee
<1>3. Conocidos'
  BY <1>1 DEF IndTipo, Conocidos, Activa, SoloLee
<1>4. Presentes' = Presentes /\ Existentes' = Existentes
  BY DEF SoloLee, Presentes, Existentes
<1>5. QED
  BY <1>2, <1>3, <1>4 DEF IndTipo

LEMMA TipoTerminar ==
  ASSUME IndTipo, NEW p \in Peticiones, Terminar(p), SoloLee
  PROVE  IndTipo'
BY TipoPeticion DEF Terminar

LEMMA TipoPasar ==
  ASSUME IndTipo, NEW p \in Peticiones, peticion[p] # Libre,
         NEW paso \in {"recibida", "leida", "revisada", "lista"}, Pasar(p, paso), SoloLee
  PROVE  IndTipo'
<1> DEFINE s == [peticion[p] EXCEPT !.paso = paso]
<1>1. peticion[p] \in Solicitud
  BY Forma DEF IndTipo
<1>2. s \in Solicitud /\ s.orden = peticion[p].orden /\ s.sucias = peticion[p].sucias
  BY <1>1 DEF Solicitud
<1>3. peticion' = [peticion EXCEPT ![p] = s]
  BY <1>1 DEF Pasar
<1> HIDE DEF s
<1>4. QED
  BY <1>2, <1>3, TipoPeticion DEF IndTipo, Conocidos, Activa

LEMMA TipoEmpezar ==
  ASSUME IndTipo, NEW p \in Peticiones, NEW o \in Ordenes, Empezar(p, o)
  PROVE  IndTipo'
<1> DEFINE r == [paso |-> "recibida", orden |-> o, leida |-> SinZona, sucias |-> NadaSucio, toca |-> Concierne(o)]
<1>1. o \in Orden
  BY ZonasAssumption
<1>2. o.op \in DeEspacio => o.espacio \in Espacios /\ fila[o.espacio] \in Fila /\ fila[o.espacio].zona \in Zonas
  BY <1>1, DeOrden DEF Empezar, IndTipo, TypeOK, Fila
<1>3. Concierne(o) \subseteq Zonas
  BY <1>1, <1>2, DeOrden DEF DeEspacio
<1>4. r \in Solicitud
  BY <1>1, <1>3 DEF Solicitud, SinZona, Zona, NadaSucio
<1>5. peticion' = [peticion EXCEPT ![p] = r]
  BY DEF Empezar
<1>6. r.orden = o /\ r # Libre /\ \A e \in Espacios : r.sucias[e] = SinFila
  BY DEF Libre, NadaSucio
<1> HIDE DEF r
<1>7. recibidas' \in 0..MaxPeticiones
  BY ZonasAssumption DEF IndTipo, TypeOK, Empezar
<1>8. solapadas' \subseteq Zonas
  <2>1. \A q \in Peticiones : peticion[q] # Libre => peticion[q].toca \subseteq Zonas
    BY Forma DEF IndTipo
  <2>2. QED
    BY <1>3, <2>1 DEF Empezar, IndTipo, TypeOK
<1>9. TypeOK'
  BY <1>4, <1>5, <1>7, <1>8 DEF Empezar, IndTipo, TypeOK
<1>10. Conocidos'
  <2>1. \A q \in Peticiones : peticion'[q] = IF q = p THEN r ELSE peticion[q]
    BY <1>5 DEF IndTipo, TypeOK
  <2>2. o.op \in DeEspacio => fila[o.espacio] # SinFila
    BY <1>1, DeOrden DEF Empezar
  <2>3. QED
    BY <1>6, <2>1, <2>2 DEF IndTipo, Conocidos, Activa, Empezar
<1>11. Presentes' = Presentes /\ Existentes' = Existentes
  BY DEF Empezar, Presentes, Existentes
<1>12. QED
  BY <1>9, <1>10, <1>11 DEF IndTipo

LEMMA TipoNumerarZona ==
  ASSUME IndTipo, NEW p \in Peticiones, NumerarZona(p)
  PROVE  IndTipo'
<1> DEFINE n == Cardinality(Existentes)
           l == [activa |-> TRUE, numero |-> IF n = 0 THEN 1 ELSE n]
           r == [peticion[p] EXCEPT !.leida = l, !.paso = "lista"]
<1>1. Activa(p) /\ peticion[p] \in Solicitud
  BY Forma DEF IndTipo, NumerarZona, Pide, Activa
<1>2. l \in Zona
  BY FS_CardinalityType DEF IndTipo, Zona
<1> HIDE DEF l
<1>3. r \in Solicitud /\ r.orden = peticion[p].orden /\ r.sucias = peticion[p].sucias
  BY <1>1, <1>2 DEF Solicitud
<1>4. CASE Terminar(p)
  BY <1>4, TipoTerminar DEF NumerarZona
<1>5. CASE ~Terminar(p)
  <2>1. peticion' = [peticion EXCEPT ![p] = r]
    BY <1>1, <1>5 DEF NumerarZona, l
  <2> HIDE DEF r
  <2>2. QED
    BY <1>1, <1>3, <2>1, TipoPeticion DEF NumerarZona, IndTipo, Conocidos
<1>6. QED
  BY <1>4, <1>5

LEMMA TipoContarEspacios ==
  ASSUME IndTipo, NEW p \in Peticiones, ContarEspacios(p)
  PROVE  IndTipo'
<1>1. peticion[p] # Libre
  BY DEF ContarEspacios, Pide, Libre
<1>2. Terminar(p) \/ Pasar(p, "lista")
  BY DEF ContarEspacios
<1>3. QED
  BY <1>1, <1>2, TipoTerminar, TipoPasar DEF ContarEspacios

LEMMA TipoLeerFila ==
  ASSUME IndTipo, NEW p \in Peticiones, LeerFila(p)
  PROVE  IndTipo'
<1> DEFINE o == peticion[p].orden
           f == fila[o.espacio]
           m == Modificada(o, f)
           r == [peticion[p] EXCEPT !.sucias[o.espacio] = m, !.paso = "lista"]
<1>1. Activa(p) /\ peticion[p] \in Solicitud /\ o \in Orden /\ o.op \in DeEspacio
  BY Forma DEF IndTipo, LeerFila, Pide, Activa, DeEspacio
<1>2. o.espacio \in Espacios /\ f \in Fila /\ f # SinFila
  BY <1>1, DeOrden DEF IndTipo, TypeOK, Conocidos
<1>3. m \in Fila
  BY <1>1, <1>2, TipoModificada
<1>4. CASE Terminar(p)
  BY <1>4, TipoTerminar DEF LeerFila
<1>5. CASE ~Terminar(p)
  <2>1. peticion' = [peticion EXCEPT ![p] = r]
    BY <1>1, <1>5 DEF LeerFila
  <2> HIDE DEF m
  <2>2. /\ r \in Solicitud /\ r.orden = peticion[p].orden
        /\ r.sucias = [peticion[p].sucias EXCEPT ![o.espacio] = m]
    BY <1>1, <1>2, <1>3 DEF Solicitud
  <2>3. \A e \in Espacios : r.sucias[e] # SinFila => fila[e] # SinFila
    BY <1>1, <1>2, <2>2 DEF IndTipo, Conocidos, Solicitud
  <2> HIDE DEF r
  <2>4. QED
    BY <1>1, <2>1, <2>2, <2>3, TipoPeticion DEF LeerFila
<1>6. QED
  BY <1>4, <1>5

LEMMA TipoLeerZona ==
  ASSUME IndTipo, NEW p \in Peticiones, LeerZona(p)
  PROVE  IndTipo'
<1> DEFINE z == peticion[p].orden.zona
           l == [zona[z] EXCEPT !.activa = ~@]
           r == [peticion[p] EXCEPT !.leida = l, !.paso = IF zona[z].activa THEN "leida" ELSE "revisada"]
<1>1. /\ Activa(p) /\ peticion[p] \in Solicitud
      /\ peticion[p].orden \in Orden /\ peticion[p].orden.op \in DeZona
  BY Forma DEF IndTipo, LeerZona, Pide, Activa, DeZona
<1>2. l \in Zona
  BY <1>1, DeOrden DEF IndTipo, TypeOK, Zona
<1>3. CASE Terminar(p)
  BY <1>3, TipoTerminar DEF LeerZona
<1>4. CASE ~Terminar(p)
  <2>1. peticion' = [peticion EXCEPT ![p] = r]
    BY <1>1, <1>4 DEF LeerZona
  <2> HIDE DEF l
  <2>2. r \in Solicitud /\ r.orden = peticion[p].orden /\ r.sucias = peticion[p].sucias
    BY <1>1, <1>2 DEF Solicitud
  <2> HIDE DEF r
  <2>3. QED
    BY <1>1, <2>1, <2>2, TipoPeticion DEF LeerZona, IndTipo, Conocidos
<1>5. QED
  BY <1>3, <1>4

LEMMA TipoBuscarOcupados ==
  ASSUME IndTipo, NEW p \in Peticiones, BuscarOcupados(p)
  PROVE  IndTipo'
<1>1. peticion[p] # Libre
  BY DEF BuscarOcupados, Pide, Libre
<1>2. Terminar(p) \/ Pasar(p, "revisada")
  BY DEF BuscarOcupados
<1>3. QED
  BY <1>1, <1>2, TipoTerminar, TipoPasar DEF BuscarOcupados

LEMMA TipoCargarEspacios ==
  ASSUME IndTipo, NEW p \in Peticiones, CargarEspacios(p)
  PROVE  IndTipo'
<1> DEFINE activa == peticion[p].leida.activa
           s == [e \in Espacios |->
                  IF e \in EspaciosDe(peticion[p].orden.zona) /\ fila[e].activo # activa
                  THEN [fila[e] EXCEPT !.activo = activa] ELSE SinFila]
           r == [peticion[p] EXCEPT !.sucias = s, !.paso = "lista"]
<1>1. Activa(p) /\ peticion[p] \in Solicitud /\ activa \in BOOLEAN
  BY Forma DEF IndTipo, CargarEspacios, Pide, Activa, Zona
<1>2. s \in [Espacios -> Fila \cup {SinFila}]
  <2>1. ASSUME NEW e \in Espacios, e \in EspaciosDe(peticion[p].orden.zona)
        PROVE  [fila[e] EXCEPT !.activo = activa] \in Fila
    <3>1. fila[e] \in Fila
      BY <2>1 DEF IndTipo, TypeOK, EspaciosDe
    <3>2. QED
      BY <1>1, <3>1 DEF Fila
  <2>2. QED
    BY <2>1
<1>3. \A e \in Espacios : s[e] # SinFila => fila[e] # SinFila
  BY DEF EspaciosDe
<1>4. peticion' = [peticion EXCEPT ![p] = r]
  BY <1>1 DEF CargarEspacios
<1> HIDE DEF s
<1>5. r \in Solicitud /\ r.orden = peticion[p].orden /\ r.sucias = s
  BY <1>1, <1>2 DEF Solicitud
<1> HIDE DEF r
<1>6. QED
  BY <1>1, <1>3, <1>4, <1>5, TipoPeticion DEF CargarEspacios

LEMMA TipoInsertar ==
  ASSUME IndTipo, NEW p \in Peticiones, Insertar(p)
  PROVE  IndTipo'
<1> DEFINE z == peticion[p].orden.zona
<1>1. z \in Zonas
  BY Forma, DeOrden DEF IndTipo, Insertar, Pide, DeZona
<1>2. PICK e \in Espacios, f \in Insertadas(z) : fila[e] = SinFila /\ fila' = [fila EXCEPT ![e] = f]
  BY DEF Insertar
<1>3. f \in Fila
  BY <1>1, DeInsertadas, ZonasAssumption
<1>4. TypeOK'
  BY <1>2, <1>3 DEF IndTipo, TypeOK, Insertar, Terminar
<1>5. \A x \in Espacios : fila[x] # SinFila => fila'[x] = fila[x]
  BY <1>2 DEF IndTipo, TypeOK
<1>6. Conocidos'
  <2>1. \A q \in Peticiones : peticion'[q] = IF q = p THEN Libre ELSE peticion[q]
    BY DEF IndTipo, TypeOK, Insertar, Terminar
  <2>2. \A q \in Peticiones : Activa(q)' => Activa(q) /\ peticion'[q] = peticion[q]
    BY <2>1 DEF Activa
  <2>3. \A q \in Peticiones : Activa(q) /\ peticion[q].orden.op \in DeEspacio =>
          peticion[q].orden.espacio \in Espacios
    BY Forma, DeOrden DEF IndTipo, Activa
  <2>4. QED
    BY <1>5, <2>2, <2>3 DEF IndTipo, Conocidos
<1>7. Presentes' \subseteq Presentes \cup {e}
  BY <1>2 DEF IndTipo, TypeOK, Presentes
<1>8. IsFiniteSet(Presentes')
  BY <1>7, FS_AddElement, FS_Subset DEF IndTipo
<1>9. Existentes' = Existentes
  BY DEF Insertar, Existentes
<1>10. QED
  BY <1>4, <1>6, <1>8, <1>9 DEF IndTipo

LEMMA TipoInsertarZona ==
  ASSUME IndTipo, NEW p \in Peticiones, InsertarZona(p)
  PROVE  IndTipo'
<1> DEFINE z == peticion[p].orden.zona
<1>1. z \in Zonas /\ peticion[p].leida \in Zona
  BY Forma, DeOrden DEF IndTipo, InsertarZona, Pide, DeZona
<1>2. TypeOK'
  BY <1>1 DEF IndTipo, TypeOK, InsertarZona, Terminar
<1>3. Conocidos'
  <2>1. \A q \in Peticiones : peticion'[q] = IF q = p THEN Libre ELSE peticion[q]
    BY DEF IndTipo, TypeOK, InsertarZona, Terminar
  <2>2. \A q \in Peticiones : Activa(q)' => Activa(q) /\ peticion'[q] = peticion[q]
    BY <2>1 DEF Activa
  <2>3. QED
    BY <2>2 DEF IndTipo, Conocidos, InsertarZona
<1>4. Existentes' \subseteq Existentes \cup {z}
  BY <1>1 DEF IndTipo, TypeOK, Existentes, InsertarZona
<1>5. IsFiniteSet(Existentes')
  BY <1>4, FS_AddElement, FS_Subset DEF IndTipo
<1>6. Presentes' = Presentes
  BY DEF InsertarZona, Presentes
<1>7. QED
  BY <1>2, <1>3, <1>5, <1>6 DEF IndTipo

LEMMA TipoGuardar ==
  ASSUME IndTipo, NEW p \in Peticiones, Guardar(p)
  PROVE  IndTipo'
<1> DEFINE o == peticion[p].orden
           s == peticion[p].sucias
<1>1. /\ Activa(p) /\ o \in Orden /\ peticion[p].leida \in Zona
      /\ s \in [Espacios -> Fila \cup {SinFila}]
      /\ o.op = "conmutar" => o.zona \in Zonas
      /\ o.op = "editar" => o.zona \in Zonas
  BY Forma, DeOrden DEF IndTipo, Guardar, Pide, Activa, DeZona, DeEspacio
<1>2. \A e \in Espacios : fila'[e] = IF s[e] # SinFila THEN s[e] ELSE fila[e]
  BY DEF Guardar
<1>3. \A e \in Espacios : fila[e] # SinFila <=> fila'[e] # SinFila
  BY <1>1, <1>2 DEF IndTipo, Conocidos
<1>4. fila' \in [Espacios -> Fila \cup {SinFila}]
  BY <1>1 DEF Guardar, IndTipo, TypeOK
<1>5. zona' \in [Zonas -> Zona] /\ Existentes' \subseteq Existentes \cup {o.zona}
  BY <1>1 DEF Guardar, IndTipo, TypeOK, Existentes
<1>6. mudadas' \subseteq Zonas
  BY <1>1 DEF Guardar, IndTipo, TypeOK
<1>7. TypeOK'
  BY <1>4, <1>5, <1>6 DEF Guardar, Terminar, IndTipo, TypeOK
<1>8. Conocidos'
  <2>1. \A q \in Peticiones : peticion'[q] = IF q = p THEN Libre ELSE peticion[q]
    BY DEF IndTipo, TypeOK, Guardar, Terminar
  <2>2. \A q \in Peticiones : Activa(q)' => Activa(q) /\ peticion'[q] = peticion[q]
    BY <2>1 DEF Activa
  <2>3. \A q \in Peticiones : Activa(q) /\ peticion[q].orden.op \in DeEspacio =>
          peticion[q].orden.espacio \in Espacios
    BY Forma, DeOrden DEF IndTipo, Activa
  <2>4. QED
    BY <1>3, <2>2, <2>3 DEF IndTipo, Conocidos
<1>9. Presentes' = Presentes
  BY <1>3 DEF Presentes
<1>10. IsFiniteSet(Existentes')
  BY <1>5, FS_AddElement, FS_Subset DEF IndTipo
<1>11. QED
  BY <1>7, <1>8, <1>9, <1>10 DEF IndTipo

LEMMA TipoQuieto ==
  ASSUME IndTipo, UNCHANGED vars
  PROVE  IndTipo'
BY DEF vars, IndTipo, TypeOK, Conocidos, Activa, Presentes, Existentes

LEMMA TipoPaso == IndTipo /\ [Next]_vars => IndTipo'
<1> SUFFICES ASSUME IndTipo, [Next]_vars PROVE IndTipo'
  OBVIOUS
<1>1. ASSUME NEW p \in Peticiones, Atender(p) PROVE IndTipo'
  BY <1>1, TipoEmpezar, TipoNumerarZona, TipoContarEspacios, TipoLeerFila, TipoLeerZona,
     TipoBuscarOcupados, TipoCargarEspacios, TipoInsertar, TipoInsertarZona, TipoGuardar,
     TipoTerminar DEF Atender, Fallar
<1>2. QED
  BY <1>1, TipoQuieto DEF Next

LEMMA TipoSiempre == Spec => []IndTipo
BY TipoInicial, TipoPaso, PTL DEF Spec

\* Every request and row keeps its shape, whatever else is being served.
THEOREM TipoCorrecto == Spec => []TypeOK
<1>1. IndTipo => TypeOK
  BY DEF IndTipo
<1>2. QED
  BY <1>1, TipoSiempre, PTL

-----------------------------------------------------------------------------
(***************************************************************************)
(* Which zones the requests meet on.                                       *)
(***************************************************************************)

\* The zones a request touches hold the one it names.
Tocan ==
  \A p \in Peticiones : Activa(p) =>
    /\ peticion[p].toca # {}
    /\ peticion[p].orden.op \in DeZona => peticion[p].toca = {peticion[p].orden.zona}
    /\ peticion[p].orden.op = "editar" => peticion[p].orden.zona \in peticion[p].toca

\* Two requests that touch one zone have all theirs overlapped, and a request
\* that touches an overlapped zone has all its zones so.
Apartadas ==
  \A p, q \in Peticiones : Activa(p) /\ Activa(q) =>
    /\ peticion[p].toca \cap solapadas # {} => peticion[p].toca \subseteq solapadas
    /\ p # q /\ peticion[p].toca \cap peticion[q].toca # {} => peticion[p].toca \subseteq solapadas

Cercana(p, x) ==
  \/ x \in peticion[p].toca
  \/ x \in solapadas /\ peticion[p].toca \subseteq solapadas

\* The rows of a request, as they are and as it will write them, lie in zones
\* that it touches, or that are overlapped like its own.
Cercanas ==
  \A p \in Peticiones : Activa(p) =>
    /\ peticion[p].orden.op \in DeEspacio => Cercana(p, fila[peticion[p].orden.espacio].zona)
    /\ \A e \in Espacios : peticion[p].sucias[e] # SinFila =>
         Cercana(p, fila[e].zona) /\ Cercana(p, peticion[p].sucias[e].zona)

IndCerca == Tocan /\ Apartadas /\ Cercanas

\* A step of a request that is being served.
Avanzar(p) ==
  \/ NumerarZona(p) \/ ContarEspacios(p) \/ LeerFila(p) \/ LeerZona(p) \/ BuscarOcupados(p)
  \/ CargarEspacios(p) \/ Insertar(p) \/ InsertarZona(p) \/ Guardar(p) \/ Fallar(p)

\* What no such step changes.
Continua(p) ==
  /\ solapadas' = solapadas
  /\ \A q \in Peticiones : Activa(q)' =>
       /\ Activa(q)
       /\ peticion'[q].orden = peticion[q].orden /\ peticion'[q].toca = peticion[q].toca
       /\ q # p => peticion'[q] = peticion[q]

LEMMA Reemplaza ==
  ASSUME IndTipo, NEW p \in Peticiones, NEW r, peticion' = [peticion EXCEPT ![p] = r],
         r # Libre => Activa(p) /\ r.orden = peticion[p].orden /\ r.toca = peticion[p].toca,
         solapadas' = solapadas
  PROVE  Continua(p)
<1>1. \A q \in Peticiones : peticion'[q] = IF q = p THEN r ELSE peticion[q]
  BY DEF IndTipo, TypeOK
<1>2. QED
  BY <1>1 DEF Continua, Activa

LEMMA ReemplazaTerminar ==
  ASSUME IndTipo, NEW p \in Peticiones, Terminar(p), solapadas' = solapadas
  PROVE  Continua(p)
BY Reemplaza DEF Terminar

LEMMA ReemplazaPasar ==
  ASSUME IndTipo, NEW p \in Peticiones, NEW paso, Activa(p), Pasar(p, paso), solapadas' = solapadas
  PROVE  Continua(p) /\ \A q \in Peticiones : Activa(q)' => peticion'[q].sucias = peticion[q].sucias
<1> DEFINE r == [peticion[p] EXCEPT !.paso = paso]
<1>1. peticion[p] \in Solicitud
  BY Forma DEF IndTipo, Activa
<1>2. peticion' = [peticion EXCEPT ![p] = r]
  BY <1>1 DEF Pasar
<1>3. r.orden = peticion[p].orden /\ r.toca = peticion[p].toca /\ r.sucias = peticion[p].sucias
  BY <1>1 DEF Solicitud
<1> HIDE DEF r
<1>4. \A q \in Peticiones : peticion'[q] = IF q = p THEN r ELSE peticion[q]
  BY <1>2 DEF IndTipo, TypeOK
<1>5. QED
  BY <1>2, <1>3, <1>4, Reemplaza

\* Which rows the request of a step will write.
LEMMA AvanzarContinua ==
  ASSUME IndTipo, NEW p \in Peticiones, Avanzar(p)
  PROVE  /\ Continua(p) /\ Activa(p)
         /\ Activa(p)' => \/ peticion'[p].sucias = peticion[p].sucias
                          \/ LeerFila(p) \/ CargarEspacios(p)
<1>1. Activa(p) /\ peticion[p] \in Solicitud /\ solapadas' = solapadas
  BY Forma DEF IndTipo, Activa, Avanzar, NumerarZona, ContarEspacios, LeerFila, LeerZona, BuscarOcupados,
     CargarEspacios, Insertar, InsertarZona, Guardar, Fallar, Pide, SoloLee
<1>2. CASE Terminar(p)
  <2>1. ~Activa(p)'
    BY <1>2 DEF Terminar, Activa, IndTipo, TypeOK
  <2>2. QED
    BY <1>1, <1>2, <2>1, ReemplazaTerminar
<1>3. CASE NumerarZona(p) /\ ~Terminar(p)
  <2> DEFINE r == [peticion[p] EXCEPT
                     !.leida = [activa |-> TRUE, numero |-> IF Cardinality(Existentes) = 0
                                                            THEN 1 ELSE Cardinality(Existentes)],
                     !.paso = "lista"]
  <2>1. peticion' = [peticion EXCEPT ![p] = r]
    BY <1>1, <1>3 DEF NumerarZona
  <2>2. r.orden = peticion[p].orden /\ r.toca = peticion[p].toca /\ r.sucias = peticion[p].sucias
    BY <1>1 DEF Solicitud
  <2> HIDE DEF r
  <2>3. peticion'[p] = r
    BY <2>1 DEF IndTipo, TypeOK
  <2>4. QED
    BY <1>1, <2>1, <2>2, <2>3, Reemplaza
<1>4. CASE LeerZona(p) /\ ~Terminar(p)
  <2> DEFINE z == peticion[p].orden.zona
             r == [peticion[p] EXCEPT !.leida = [zona[z] EXCEPT !.activa = ~@],
                                      !.paso = IF zona[z].activa THEN "leida" ELSE "revisada"]
  <2>1. peticion' = [peticion EXCEPT ![p] = r]
    BY <1>1, <1>4 DEF LeerZona
  <2>2. r.orden = peticion[p].orden /\ r.toca = peticion[p].toca /\ r.sucias = peticion[p].sucias
    BY <1>1 DEF Solicitud
  <2> HIDE DEF r
  <2>3. peticion'[p] = r
    BY <2>1 DEF IndTipo, TypeOK
  <2>4. QED
    BY <1>1, <2>1, <2>2, <2>3, Reemplaza
<1>5. CASE LeerFila(p) /\ ~Terminar(p)
  <2> DEFINE o == peticion[p].orden
             r == [peticion[p] EXCEPT !.sucias[o.espacio] = Modificada(o, fila[o.espacio]), !.paso = "lista"]
  <2>1. peticion' = [peticion EXCEPT ![p] = r]
    BY <1>1, <1>5 DEF LeerFila
  <2>2. r.orden = peticion[p].orden /\ r.toca = peticion[p].toca
    BY <1>1 DEF Solicitud
  <2> HIDE DEF r
  <2>3. QED
    BY <1>1, <1>5, <2>1, <2>2, Reemplaza
<1>6. CASE CargarEspacios(p)
  <2> DEFINE activa == peticion[p].leida.activa
             r == [peticion[p] EXCEPT
                    !.sucias = [e \in Espacios |->
                       IF e \in EspaciosDe(peticion[p].orden.zona) /\ fila[e].activo # activa
                       THEN [fila[e] EXCEPT !.activo = activa] ELSE SinFila],
                    !.paso = "lista"]
  <2>1. peticion' = [peticion EXCEPT ![p] = r]
    BY <1>1, <1>6 DEF CargarEspacios
  <2>2. r.orden = peticion[p].orden /\ r.toca = peticion[p].toca
    BY <1>1 DEF Solicitud
  <2> HIDE DEF r
  <2>3. QED
    BY <1>1, <1>6, <2>1, <2>2, Reemplaza
<1>7. CASE Pasar(p, "lista") \/ Pasar(p, "revisada")
  BY <1>1, <1>7, ReemplazaPasar
<1>8. QED
  BY <1>2, <1>3, <1>4, <1>5, <1>6, <1>7
     DEF Avanzar, ContarEspacios, BuscarOcupados, Insertar, InsertarZona, Guardar, Fallar

LEMMA CercaInicial == Init => IndCerca
BY DEF Init, IndCerca, Tocan, Apartadas, Cercanas, Activa

LEMMA TocanSigue ==
  ASSUME IndCerca, NEW p \in Peticiones, Continua(p)
  PROVE  Tocan' /\ Apartadas'
<1>1. Tocan'
  BY DEF IndCerca, Tocan, Continua
<1>2. Apartadas'
  BY DEF IndCerca, Apartadas, Continua
<1>3. QED
  BY <1>1, <1>2

\* A request is near to what it was near to.
LEMMA CercanaSigue ==
  ASSUME NEW p \in Peticiones, Continua(p), NEW q \in Peticiones, Activa(q)'
  PROVE  \A x : Cercana(q, x) => Cercana(q, x)'
BY DEF Continua, Cercana

\* The request that starts.
LEMMA CercaEmpezar ==
  ASSUME IndTipo, IndCerca, NEW p \in Peticiones, NEW o \in Ordenes, Empezar(p, o)
  PROVE  IndCerca'
<1> DEFINE toca == Concierne(o)
           otras == {q \in Peticiones : peticion[q] # Libre /\ peticion[q].toca \cap toca # {}}
           r == [paso |-> "recibida", orden |-> o, leida |-> SinZona, sucias |-> NadaSucio, toca |-> toca]
<1>1. o \in Orden
  BY ZonasAssumption
<1>2. /\ toca # {}
      /\ o.op \in DeZona => toca = {o.zona}
      /\ o.op = "editar" => o.zona \in toca
      /\ o.op \in DeEspacio => fila[o.espacio].zona \in toca
  BY <1>1, DeOrden DEF DeZona, DeEspacio
<1>3. solapadas' = IF otras = {} /\ toca \cap solapadas = {} THEN solapadas
                   ELSE solapadas \cup toca \cup UNION {peticion[q].toca : q \in otras}
  BY DEF Empezar
<1> HIDE DEF toca
<1>4. /\ peticion' = [peticion EXCEPT ![p] = r]
      /\ r # Libre /\ r.orden = o /\ r.toca = toca /\ \A e \in Espacios : r.sucias[e] = SinFila
  BY DEF Empezar, Libre, NadaSucio, toca
<1> HIDE DEF r
<1>5. \A q \in Peticiones : peticion'[q] = IF q = p THEN r ELSE peticion[q]
  BY <1>4 DEF IndTipo, TypeOK
<1>6. \A q \in Peticiones : q # p => Activa(q)' = Activa(q) /\ peticion'[q] = peticion[q]
  BY <1>5 DEF Activa
<1>7. Tocan'
  BY <1>2, <1>4, <1>5, <1>6 DEF IndCerca, Tocan
<1>8. \A q \in Peticiones : q # p /\ Activa(q) /\ peticion[q].toca \cap solapadas' # {} =>
        peticion[q].toca \subseteq solapadas'
  BY <1>3 DEF IndCerca, Apartadas, Activa
<1>9. \A q \in Peticiones : q # p /\ Activa(q) /\ peticion[q].toca \cap toca # {} =>
        peticion[q].toca \subseteq solapadas' /\ toca \subseteq solapadas'
  BY <1>3 DEF Activa
<1>10. toca \cap solapadas' # {} => toca \subseteq solapadas'
  BY <1>3
<1>11. solapadas \subseteq solapadas'
  BY <1>3
<1> HIDE DEF otras
<1>12. Apartadas'
  <2> SUFFICES ASSUME NEW a \in Peticiones, NEW b \in Peticiones, Activa(a)', Activa(b)'
               PROVE  /\ peticion'[a].toca \cap solapadas' # {} => peticion'[a].toca \subseteq solapadas'
                      /\ a # b /\ peticion'[a].toca \cap peticion'[b].toca # {} =>
                           peticion'[a].toca \subseteq solapadas'
    BY DEF Apartadas
  <2>1. CASE a = p
    <3>1. peticion'[a].toca = toca
      BY <1>4, <1>5, <2>1
    <3>2. a # b => Activa(b) /\ peticion'[b].toca = peticion[b].toca
      BY <1>6, <2>1
    <3>3. QED
      BY <1>9, <1>10, <2>1, <3>1, <3>2
  <2>2. CASE a # p
    <3>1. Activa(a) /\ peticion'[a].toca = peticion[a].toca
      BY <1>6, <2>2
    <3>2. CASE b = p
      BY <1>4, <1>5, <1>8, <1>9, <2>2, <3>1, <3>2
    <3>3. CASE b # p
      <4>1. Activa(b) /\ peticion'[b].toca = peticion[b].toca
        BY <1>6, <3>3
      <4>2. QED
        BY <1>8, <1>11, <2>2, <3>1, <4>1 DEF IndCerca, Apartadas
    <3>4. QED
      BY <3>2, <3>3
  <2>3. QED
    BY <2>1, <2>2
<1>13. Cercanas'
  <2>1. fila' = fila
    BY DEF Empezar
  <2>2. ASSUME NEW q \in Peticiones, q # p, Activa(q)
        PROVE  \A x : Cercana(q, x) => Cercana(q, x)'
    BY <1>6, <1>11, <2>2 DEF Cercana
  <2>3. o.op \in DeEspacio => Cercana(p, fila[o.espacio].zona)'
    BY <1>2, <1>4, <1>5, <2>1 DEF Cercana
  <2>4. QED
    BY <1>4, <1>5, <1>6, <2>1, <2>2, <2>3 DEF IndCerca, Cercanas
<1>14. QED
  BY <1>7, <1>12, <1>13 DEF IndCerca

\* A step that gives its request no new row and leaves the old ones where they were.
LEMMA CercaQuieta ==
  ASSUME IndTipo, IndCerca, NEW p \in Peticiones, Continua(p),
         \A q \in Peticiones : Activa(q)' => peticion'[q].sucias = peticion[q].sucias,
         \A e \in Espacios : fila[e] # SinFila => fila'[e] = fila[e]
  PROVE  IndCerca'
<1>1. ASSUME NEW q \in Peticiones, Activa(q)'
      PROVE  /\ peticion'[q].orden.op \in DeEspacio => Cercana(q, fila[peticion[q].orden.espacio].zona)'
             /\ \A e \in Espacios : peticion'[q].sucias[e] # SinFila =>
                  Cercana(q, fila[e].zona)' /\ Cercana(q, peticion[q].sucias[e].zona)'
  <2>1. Activa(q) /\ peticion'[q].orden = peticion[q].orden /\ peticion'[q].sucias = peticion[q].sucias
    BY <1>1 DEF Continua
  <2>2. /\ peticion[q].orden.op \in DeEspacio => fila'[peticion[q].orden.espacio] = fila[peticion[q].orden.espacio]
        /\ \A e \in Espacios : peticion[q].sucias[e] # SinFila => fila'[e] = fila[e]
    BY <2>1, Forma, DeOrden DEF IndTipo, Conocidos, Activa
  <2>3. /\ peticion[q].orden.op \in DeEspacio => Cercana(q, fila[peticion[q].orden.espacio].zona)
        /\ \A e \in Espacios : peticion[q].sucias[e] # SinFila =>
             Cercana(q, fila[e].zona) /\ Cercana(q, peticion[q].sucias[e].zona)
    BY <2>1 DEF IndCerca, Cercanas
  <2>4. \A x : Cercana(q, x) => Cercana(q, x)'
    BY <1>1, CercanaSigue
  <2>5. \A x : Cercana(q, x)' <=> \/ x \in peticion'[q].toca
                                  \/ x \in solapadas' /\ peticion'[q].toca \subseteq solapadas'
    BY DEF Cercana
  <2>6. QED
    BY <2>1, <2>2, <2>3, <2>4, <2>5 DEF Cercana
<1>2. QED
  BY <1>1, TocanSigue DEF IndCerca, Cercanas

\* A step that reads rows near its request.
LEMMA CercaLee ==
  ASSUME IndTipo, IndCerca, NEW p \in Peticiones, Continua(p), fila' = fila,
         Activa(p)' => \A e \in Espacios : peticion'[p].sucias[e] # SinFila =>
           Cercana(p, fila[e].zona) /\ Cercana(p, peticion'[p].sucias[e].zona)
  PROVE  IndCerca'
<1>1. \A q \in Peticiones : \A x :
        Cercana(q, x)' <=> \/ x \in peticion'[q].toca
                           \/ x \in solapadas' /\ peticion'[q].toca \subseteq solapadas'
  BY DEF Cercana
<1>2. \A q \in Peticiones : Activa(q)' => \A x : Cercana(q, x) =>
        x \in peticion'[q].toca \/ (x \in solapadas' /\ peticion'[q].toca \subseteq solapadas')
  BY DEF Continua, Cercana
<1>3. ASSUME NEW q \in Peticiones, Activa(q)'
      PROVE  /\ peticion'[q].orden.op \in DeEspacio => Cercana(q, fila[peticion[q].orden.espacio].zona)
             /\ \A e \in Espacios : peticion'[q].sucias[e] # SinFila =>
                  Cercana(q, fila[e].zona) /\ Cercana(q, peticion'[q].sucias[e].zona)
  <2>1. Activa(q) /\ peticion'[q].orden = peticion[q].orden /\ (q # p => peticion'[q] = peticion[q])
    BY <1>3 DEF Continua
  <2>2. CASE q = p
    BY <1>3, <2>1, <2>2 DEF IndCerca, Cercanas
  <2>3. CASE q # p
    BY <2>1, <2>3 DEF IndCerca, Cercanas
  <2>4. QED
    BY <2>2, <2>3
<1>4. Cercanas'
  <2> SUFFICES ASSUME NEW q \in Peticiones, Activa(q)'
               PROVE  /\ peticion'[q].orden.op \in DeEspacio => Cercana(q, fila[peticion[q].orden.espacio].zona)'
                      /\ \A e \in Espacios : peticion'[q].sucias[e] # SinFila =>
                           Cercana(q, fila[e].zona)' /\ Cercana(q, peticion[q].sucias[e].zona)'
    BY DEF Cercanas, Continua
  <2>1. \A x : Cercana(q, x) => Cercana(q, x)'
    BY CercanaSigue
  <2>2. /\ peticion'[q].orden.op \in DeEspacio => Cercana(q, fila[peticion[q].orden.espacio].zona)
        /\ \A e \in Espacios : peticion'[q].sucias[e] # SinFila =>
             Cercana(q, fila[e].zona) /\ Cercana(q, peticion'[q].sucias[e].zona)
    BY <1>3
  <2>3. /\ peticion'[q].orden.op \in DeEspacio => Cercana(q, fila[peticion[q].orden.espacio].zona)'
        /\ \A e \in Espacios : peticion'[q].sucias[e] # SinFila => Cercana(q, fila[e].zona)'
    BY <1>1, <1>2, <2>2 DEF Continua
  <2>4. \A e \in Espacios : peticion'[q].sucias[e] # SinFila => Cercana(q, peticion[q].sucias[e].zona)'
    BY <1>1, <1>2, <2>2
  <2>5. QED
    BY <2>3, <2>4
<1>5. QED
  BY <1>4, TocanSigue DEF IndCerca

LEMMA CercaLeerFila ==
  ASSUME IndTipo, IndCerca, NEW p \in Peticiones, Continua(p), Activa(p), LeerFila(p)
  PROVE  IndCerca'
<1> DEFINE o == peticion[p].orden
           f == fila[o.espacio]
           m == Modificada(o, f)
<1>1. /\ o \in Orden /\ o.op \in DeEspacio /\ o.espacio \in Espacios
      /\ peticion[p] \in Solicitud /\ f \in Fila
  BY Forma, DeOrden DEF IndTipo, TypeOK, Conocidos, Activa, LeerFila, Pide, DeEspacio
<1>2. /\ Cercana(p, f.zona)
      /\ o.op = "editar" => Cercana(p, o.zona)
      /\ \A e \in Espacios : peticion[p].sucias[e] # SinFila =>
           Cercana(p, fila[e].zona) /\ Cercana(p, peticion[p].sucias[e].zona)
  BY <1>1 DEF IndCerca, Tocan, Cercanas, Cercana
<1>3. m.zona = f.zona \/ (o.op = "editar" /\ m.zona = o.zona)
  BY <1>1 DEF Modificada, DeEspacio, Fila
<1> HIDE DEF m
<1>4. Activa(p)' => peticion'[p].sucias = [peticion[p].sucias EXCEPT ![o.espacio] = m]
  <2>1. CASE Terminar(p)
    BY <2>1 DEF Terminar, Activa, IndTipo, TypeOK
  <2>2. CASE ~Terminar(p)
    <3>1. peticion' = [peticion EXCEPT ![p].sucias[o.espacio] = m, ![p].paso = "lista"]
      BY <2>2 DEF LeerFila, m
    <3>2. QED
      BY <1>1, <3>1 DEF IndTipo, TypeOK, Solicitud
  <2>3. QED
    BY <2>1, <2>2
<1>5. peticion[p].sucias \in [Espacios -> Fila \cup {SinFila}]
  BY <1>1 DEF Solicitud
<1>6. Activa(p)' => \A e \in Espacios : peticion'[p].sucias[e] = IF e = o.espacio THEN m ELSE peticion[p].sucias[e]
  BY <1>4, <1>5
<1>7. Cercana(p, m.zona)
  BY <1>2, <1>3 DEF Cercana
<1>8. fila' = fila
  BY DEF LeerFila, SoloLee
<1>9. Activa(p)' => \A e \in Espacios : peticion'[p].sucias[e] # SinFila =>
        Cercana(p, fila[e].zona) /\ Cercana(p, peticion'[p].sucias[e].zona)
  <2> SUFFICES ASSUME Activa(p)', NEW e \in Espacios, peticion'[p].sucias[e] # SinFila
               PROVE  Cercana(p, fila[e].zona) /\ Cercana(p, peticion'[p].sucias[e].zona)
    OBVIOUS
  <2>1. CASE e = o.espacio
    BY <1>2, <1>6, <1>7, <2>1 DEF Cercana
  <2>2. CASE e # o.espacio
    BY <1>2, <1>6, <2>2 DEF Cercana
  <2>3. QED
    BY <2>1, <2>2
<1>10. QED
  BY <1>8, <1>9, CercaLee

LEMMA CercaCargarEspacios ==
  ASSUME IndTipo, IndCerca, NEW p \in Peticiones, Continua(p), Activa(p), CargarEspacios(p)
  PROVE  IndCerca'
<1> DEFINE z == peticion[p].orden.zona
           activa == peticion[p].leida.activa
           s == [e \in Espacios |-> IF e \in EspaciosDe(z) /\ fila[e].activo # activa
                                    THEN [fila[e] EXCEPT !.activo = activa] ELSE SinFila]
<1>1. peticion[p] \in Solicitud
  BY Forma DEF IndTipo, Activa
<1>2. peticion'[p].sucias = s
  BY <1>1 DEF CargarEspacios, IndTipo, TypeOK, Solicitud
<1>3. Cercana(p, z)
  BY DEF CargarEspacios, Pide, DeZona, IndCerca, Tocan, Cercana
<1>4. ASSUME NEW e \in Espacios, s[e] # SinFila
      PROVE  fila[e].zona = z /\ s[e].zona = z
  <2>1. fila[e] \in Fila /\ fila[e].zona = z /\ s[e] = [fila[e] EXCEPT !.activo = activa]
    BY <1>4 DEF EspaciosDe, IndTipo, TypeOK
  <2>2. QED
    BY <2>1 DEF Fila
<1>5. fila' = fila
  BY DEF CargarEspacios, SoloLee
<1> HIDE DEF s, z
<1>6. \A e \in Espacios : peticion'[p].sucias[e] # SinFila =>
        Cercana(p, fila[e].zona) /\ Cercana(p, peticion'[p].sucias[e].zona)
  BY <1>2, <1>3, <1>4
<1>7. QED
  BY <1>5, <1>6, CercaLee

\* Where a row near two requests is moved by one of them, the other is near too.
LEMMA CercanaMuda ==
  ASSUME IndCerca, NEW p \in Peticiones, NEW q \in Peticiones, p # q, Activa(p), Activa(q),
         NEW x, NEW y, Cercana(p, x), Cercana(p, y), Cercana(q, x)
  PROVE  Cercana(q, y)
<1>1. peticion[p].toca \cap peticion[q].toca # {} =>
        peticion[p].toca \subseteq solapadas /\ peticion[q].toca \subseteq solapadas
  BY DEF IndCerca, Apartadas
<1>2. /\ peticion[p].toca \cap solapadas # {} => peticion[p].toca \subseteq solapadas
      /\ peticion[q].toca \cap solapadas # {} => peticion[q].toca \subseteq solapadas
  BY DEF IndCerca, Apartadas
<1>3. QED
  BY <1>1, <1>2 DEF Cercana

LEMMA CercaGuardar ==
  ASSUME IndTipo, IndCerca, NEW p \in Peticiones, Continua(p), Activa(p), Guardar(p)
  PROVE  IndCerca'
<1> DEFINE s == peticion[p].sucias
<1>1. \A e \in Espacios : fila'[e] = IF s[e] # SinFila THEN s[e] ELSE fila[e]
  BY DEF Guardar
<1>2. \A q \in Peticiones : Activa(q)' => q # p /\ Activa(q) /\ peticion'[q] = peticion[q]
  BY DEF Continua, Guardar, Terminar, Activa, IndTipo, TypeOK
<1>3. ASSUME NEW q \in Peticiones, q # p, Activa(q), NEW e \in Espacios, Cercana(q, fila[e].zona)
      PROVE  Cercana(q, fila'[e].zona)
  <2>1. CASE s[e] = SinFila
    BY <1>1, <1>3, <2>1
  <2>2. CASE s[e] # SinFila
    <3>1. Cercana(p, fila[e].zona) /\ Cercana(p, s[e].zona)
      BY <2>2 DEF IndCerca, Cercanas
    <3>2. Cercana(q, s[e].zona)
      BY <1>3, <3>1, CercanaMuda
    <3>3. QED
      BY <1>1, <2>2, <3>2
  <2>3. QED
    BY <2>1, <2>2
<1>4. Cercanas'
  <2> SUFFICES ASSUME NEW q \in Peticiones, Activa(q)'
               PROVE  /\ peticion'[q].orden.op \in DeEspacio => Cercana(q, fila[peticion[q].orden.espacio].zona)'
                      /\ \A e \in Espacios : peticion'[q].sucias[e] # SinFila =>
                           Cercana(q, fila[e].zona)' /\ Cercana(q, peticion[q].sucias[e].zona)'
    BY DEF Cercanas, Continua
  <2>1. q # p /\ Activa(q) /\ peticion'[q] = peticion[q]
    BY <1>2
  <2>2. peticion[q].orden.op \in DeEspacio => peticion[q].orden.espacio \in Espacios
    BY <2>1, Forma, DeOrden DEF IndTipo, Activa
  <2>3. /\ peticion[q].orden.op \in DeEspacio => Cercana(q, fila'[peticion[q].orden.espacio].zona)
        /\ \A e \in Espacios : peticion[q].sucias[e] # SinFila =>
             Cercana(q, fila'[e].zona) /\ Cercana(q, peticion[q].sucias[e].zona)
    BY <1>3, <2>1, <2>2 DEF IndCerca, Cercanas
  <2>4. QED
    BY <2>1, <2>3 DEF Cercana, Continua
<1>5. QED
  BY <1>4, TocanSigue DEF IndCerca

LEMMA CercaAvanza ==
  ASSUME IndTipo, IndCerca, NEW p \in Peticiones, Avanzar(p)
  PROVE  IndCerca'
<1>1. /\ Continua(p) /\ Activa(p)
      /\ Activa(p)' => peticion'[p].sucias = peticion[p].sucias \/ LeerFila(p) \/ CargarEspacios(p)
  BY AvanzarContinua
<1>2. CASE LeerFila(p)
  BY <1>1, <1>2, CercaLeerFila
<1>3. CASE CargarEspacios(p)
  BY <1>1, <1>3, CercaCargarEspacios
<1>4. CASE Guardar(p)
  BY <1>1, <1>4, CercaGuardar
<1>5. CASE ~LeerFila(p) /\ ~CargarEspacios(p) /\ ~Guardar(p)
  <2>1. \A e \in Espacios : fila[e] # SinFila => fila'[e] = fila[e]
    BY <1>5 DEF IndTipo, TypeOK, Avanzar, NumerarZona, ContarEspacios, LeerZona, BuscarOcupados,
       Insertar, InsertarZona, Fallar, SoloLee
  <2>2. \A q \in Peticiones : Activa(q)' => peticion'[q].sucias = peticion[q].sucias
    BY <1>1, <1>5 DEF Continua
  <2>3. QED
    BY <1>1, <2>1, <2>2, CercaQuieta
<1>6. QED
  BY <1>2, <1>3, <1>4, <1>5

LEMMA CercaQuietud ==
  ASSUME IndCerca, UNCHANGED vars
  PROVE  IndCerca'
<1>1. \A p \in Peticiones : \A x : Cercana(p, x)' <=> Cercana(p, x)
  BY DEF vars, Cercana
<1>2. Tocan' /\ Apartadas'
  BY DEF vars, IndCerca, Tocan, Apartadas, Activa
<1>3. Cercanas'
  BY <1>1 DEF vars, IndCerca, Cercanas, Activa, Cercana
<1>4. QED
  BY <1>2, <1>3 DEF IndCerca

LEMMA CercaPaso == IndTipo /\ IndCerca /\ [Next]_vars => IndCerca'
<1> SUFFICES ASSUME IndTipo, IndCerca, [Next]_vars PROVE IndCerca'
  OBVIOUS
<1>1. ASSUME NEW p \in Peticiones, Atender(p) PROVE IndCerca'
  BY <1>1, CercaEmpezar, CercaAvanza DEF Atender, Avanzar
<1>2. QED
  BY <1>1, CercaQuietud DEF Next

LEMMA CercaSiempre == Spec => []IndCerca
BY CercaInicial, CercaPaso, TipoSiempre, PTL DEF Spec

-----------------------------------------------------------------------------
(***************************************************************************)
(* What a request holds that overlaps with no other.                       *)
(***************************************************************************)

Sola(p) == Activa(p) /\ peticion[p].toca \cap solapadas = {}

\* It will write its space alone, with one column that is not as in the table.
EspacioAlDia(p) ==
  LET o == peticion[p].orden
      s == peticion[p].sucias
      f == fila[o.espacio]
  IN
    /\ \A e \in Espacios \ {o.espacio} : s[e] = SinFila
    /\ s[o.espacio] # SinFila
    /\ s[o.espacio].zona = f.zona \/ (o.op = "editar" /\ s[o.espacio].zona = o.zona)
    /\ s[o.espacio].activo = f.activo \/ (o.op = "eliminar" /\ f.activo)
    /\ s[o.espacio].estado = f.estado \/ o.op = "estado"

\* It will turn the flag of its zone, which has no occupied space if it is in
\* use, and those of the spaces of the zone that differ.
ZonaAlDia(p) ==
  LET z == peticion[p].orden.zona
      activa == peticion[p].leida.activa
  IN
    /\ peticion[p].leida = [zona[z] EXCEPT !.activa = ~@]
    /\ peticion[p].paso \in {"revisada", "lista"} /\ zona[z].activa =>
         \A e \in EspaciosDe(z) : fila[e].estado # "OCUPADO"
    /\ peticion[p].paso = "lista" =>
         \A e \in Espacios :
           peticion[p].sucias[e] = IF e \in EspaciosDe(z) /\ fila[e].activo # activa
                                   THEN [fila[e] EXCEPT !.activo = activa] ELSE SinFila

Coherente(p) ==
  /\ Pide(p, "lista", DeEspacio) => EspacioAlDia(p)
  /\ peticion[p].paso # "recibida" /\ peticion[p].orden.op = "conmutar" => ZonaAlDia(p)
  /\ Pide(p, "recibida", DeEspacio) => peticion[p].sucias = NadaSucio

Coherentes == \A p \in Peticiones : Sola(p) => Coherente(p)

\* What is near another request is not in a zone of this one.
LEMMA Lejos ==
  ASSUME IndCerca, NEW p \in Peticiones, NEW q \in Peticiones, p # q, Activa(p), Sola(q)
  PROVE  \A x : Cercana(p, x) => x \notin peticion[q].toca
BY DEF IndCerca, Tocan, Apartadas, Cercana, Sola

LEMMA Cerca ==
  ASSUME IndCerca, NEW p \in Peticiones, Sola(p), NEW x, Cercana(p, x)
  PROVE  x \in peticion[p].toca
BY DEF IndCerca, Tocan, Cercana, Sola

\* The rows of a set of zones stay as they are, and no other joins them.
Intactas(zonas) ==
  /\ \A e \in Espacios :
       \/ fila[e] # SinFila /\ fila[e].zona \in zonas
       \/ fila'[e] # SinFila /\ fila'[e].zona \in zonas
       => fila'[e] = fila[e]
  /\ \A z \in zonas : zona'[z] = zona[z]

LEMMA AvanzarAjeno ==
  ASSUME IndTipo, IndCerca, NEW p \in Peticiones, NEW q \in Peticiones, p # q, Sola(q), Avanzar(p)
  PROVE  Intactas(peticion[q].toca)
<1>1. Activa(p) /\ peticion[p].orden \in Orden /\ peticion[q].toca \subseteq Zonas
  BY AvanzarContinua, Forma DEF IndTipo, Activa, Sola
<1>2. \A x : Cercana(p, x) => x \notin peticion[q].toca
  BY <1>1, Lejos
<1>3. peticion[p].orden.op \in DeZona =>
        peticion[p].orden.zona \in Zonas /\ peticion[p].orden.zona \notin peticion[q].toca
  BY <1>1, <1>2, DeOrden DEF IndCerca, Tocan, Cercana
<1>4. CASE Insertar(p)
  <2>1. PICK e \in Espacios, f \in Insertadas(peticion[p].orden.zona) :
          fila[e] = SinFila /\ fila' = [fila EXCEPT ![e] = f]
    BY <1>4 DEF Insertar
  <2>2. f.zona \notin peticion[q].toca
    BY <1>3, <1>4, DeInsertadas, ZonasAssumption DEF Insertar, Pide, DeZona
  <2>3. \A x \in Espacios : fila'[x] = IF x = e THEN f ELSE fila[x]
    BY <2>1 DEF IndTipo, TypeOK
  <2>4. QED
    BY <1>4, <2>1, <2>2, <2>3 DEF Intactas, Insertar
<1>5. CASE InsertarZona(p)
  <2>1. \A z \in peticion[q].toca : zona'[z] = zona[z]
    BY <1>1, <1>3, <1>5 DEF InsertarZona, Pide, DeZona, IndTipo, TypeOK
  <2>2. QED
    BY <1>5, <2>1 DEF InsertarZona, Intactas
<1>6. CASE Guardar(p)
  <2> DEFINE s == peticion[p].sucias
  <2>1. \A e \in Espacios : fila'[e] = IF s[e] # SinFila THEN s[e] ELSE fila[e]
    BY <1>6 DEF Guardar
  <2>2. \A e \in Espacios : s[e] # SinFila => Cercana(p, fila[e].zona) /\ Cercana(p, s[e].zona)
    BY <1>1 DEF IndCerca, Cercanas
  <2>3. \A e \in Espacios : s[e] # SinFila =>
          fila[e].zona \notin peticion[q].toca /\ s[e].zona \notin peticion[q].toca
    BY <1>2, <2>2
  <2>4. \A z \in peticion[q].toca : zona'[z] = zona[z]
    BY <1>1, <1>3, <1>6 DEF Guardar, Pide, DeZona, IndTipo, TypeOK
  <2> HIDE DEF s
  <2>5. QED
    BY <2>1, <2>3, <2>4 DEF Intactas
<1>7. CASE fila' = fila /\ zona' = zona
  BY <1>7 DEF Intactas
<1>8. QED
  BY <1>4, <1>5, <1>6, <1>7 DEF Avanzar, NumerarZona, ContarEspacios, LeerFila, LeerZona, BuscarOcupados,
     CargarEspacios, Fallar, SoloLee

\* A request keeps holding what the tables say while its zones are left alone.
LEMMA CoherenteAjena ==
  ASSUME IndTipo, IndCerca, NEW q \in Peticiones, Sola(q), Coherente(q),
         peticion'[q] = peticion[q], Intactas(peticion[q].toca)
  PROVE  Coherente(q)'
<1> DEFINE o == peticion[q].orden
<1>1. Activa(q) /\ o \in Orden /\ peticion[q].toca \subseteq Zonas
  BY Forma DEF IndTipo, Activa, Sola
<1>2. CASE o.op \in DeEspacio
  <2>1. o.espacio \in Espacios /\ fila[o.espacio] # SinFila /\ fila[o.espacio].zona \in peticion[q].toca
    BY <1>1, <1>2, Cerca, DeOrden DEF IndTipo, Conocidos, IndCerca, Cercanas
  <2>2. fila'[o.espacio] = fila[o.espacio]
    BY <2>1 DEF Intactas
  <2>3. EspacioAlDia(q) => EspacioAlDia(q)'
    BY <2>2 DEF EspacioAlDia
  <2>4. QED
    BY <1>2, <2>3 DEF Coherente, Pide, DeEspacio
<1>3. CASE o.op = "conmutar"
  <2> DEFINE z == o.zona
  <2>1. z \in peticion[q].toca
    BY <1>1, <1>3 DEF IndCerca, Tocan, DeZona
  <2>2. zona'[z] = zona[z]
    BY <2>1 DEF Intactas
  <2>3. \A e \in Espacios : e \in EspaciosDe(z) \/ e \in EspaciosDe(z)' => fila'[e] = fila[e]
    BY <2>1 DEF Intactas, EspaciosDe
  <2>4. EspaciosDe(z)' = EspaciosDe(z)
    BY <2>3 DEF EspaciosDe
  <2>5. \A e \in EspaciosDe(z) : e \in Espacios /\ fila'[e] = fila[e]
    BY <2>3 DEF EspaciosDe
  <2>6. ZonaAlDia(q) => ZonaAlDia(q)'
    <3> DEFINE E == EspaciosDe(z)
    <3>1. ZonaAlDia(q) <=>
            /\ peticion[q].leida = [zona[z] EXCEPT !.activa = ~@]
            /\ peticion[q].paso \in {"revisada", "lista"} /\ zona[z].activa =>
                 \A e \in E : fila[e].estado # "OCUPADO"
            /\ peticion[q].paso = "lista" =>
                 \A e \in Espacios :
                   peticion[q].sucias[e] = IF e \in E /\ fila[e].activo # peticion[q].leida.activa
                                           THEN [fila[e] EXCEPT !.activo = peticion[q].leida.activa] ELSE SinFila
      BY DEF ZonaAlDia
    <3>2. ZonaAlDia(q)' <=>
            /\ peticion[q].leida = [zona[z] EXCEPT !.activa = ~@]
            /\ peticion[q].paso \in {"revisada", "lista"} /\ zona[z].activa =>
                 \A e \in E : fila'[e].estado # "OCUPADO"
            /\ peticion[q].paso = "lista" =>
                 \A e \in Espacios :
                   peticion[q].sucias[e] = IF e \in E /\ fila'[e].activo # peticion[q].leida.activa
                                           THEN [fila'[e] EXCEPT !.activo = peticion[q].leida.activa] ELSE SinFila
      BY <2>2, <2>4 DEF ZonaAlDia
    <3> HIDE DEF E
    <3>3. \A e \in E : fila'[e] = fila[e]
      BY <2>5 DEF E
    <3>4. QED
      BY <3>1, <3>2, <3>3
  <2>7. QED
    BY <1>3, <2>6 DEF Coherente, Pide, DeEspacio
<1>4. CASE o.op \notin DeEspacio /\ o.op # "conmutar"
  BY <1>4 DEF Coherente, Pide
<1>5. QED
  BY <1>2, <1>3, <1>4

LEMMA CoherenteLeerFila ==
  ASSUME IndTipo, IndCerca, NEW p \in Peticiones, LeerFila(p), Sola(p), Coherente(p), Activa(p)'
  PROVE  Coherente(p)'
<1> DEFINE o == peticion[p].orden
           f == fila[o.espacio]
           m == Modificada(o, f)
<1>1. /\ peticion[p] \in Solicitud /\ o \in Orden /\ o.op \in DeEspacio
      /\ o.espacio \in Espacios /\ f \in Fila
  BY Forma, DeOrden DEF IndTipo, TypeOK, Conocidos, Activa, Sola, LeerFila, Pide, DeEspacio
<1>2. peticion[p].sucias = NadaSucio
  BY <1>1 DEF LeerFila, Pide, Coherente, DeEspacio
<1>3. o.op = "editar" \/ m # f
  BY DEF LeerFila, Terminar, Activa, IndTipo, TypeOK
<1>4. /\ m \in Fila
      /\ m.zona = f.zona \/ (o.op = "editar" /\ m.zona = o.zona)
      /\ m.activo = f.activo \/ (o.op = "eliminar" /\ f.activo)
      /\ m.estado = f.estado \/ o.op = "estado"
  <2>1. m \in Fila
    BY <1>1, TipoModificada
  <2>2. CASE o.op = "editar"
    BY <1>1, <2>1, <2>2 DEF Modificada, Fila
  <2>3. CASE o.op = "eliminar"
    BY <1>1, <2>1, <2>3 DEF Modificada, Fila
  <2>4. CASE o.op = "estado"
    BY <1>1, <2>1, <2>4 DEF Modificada, Fila
  <2>5. QED
    BY <1>1, <2>2, <2>3, <2>4 DEF DeEspacio
<1>5. peticion' = [peticion EXCEPT ![p].sucias[o.espacio] = m, ![p].paso = "lista"]
  BY <1>3 DEF LeerFila
<1> HIDE DEF m
<1>6. /\ peticion'[p].paso = "lista" /\ peticion'[p].orden = o
      /\ peticion'[p].sucias = [NadaSucio EXCEPT ![o.espacio] = m]
  BY <1>1, <1>2, <1>5 DEF IndTipo, TypeOK, Solicitud
<1>7. m # SinFila
  BY <1>4, SinFilaNoEsFila
<1>8. \A e \in Espacios : peticion'[p].sucias[e] = IF e = o.espacio THEN m ELSE SinFila
  BY <1>1, <1>6 DEF NadaSucio
<1>9. fila' = fila
  BY DEF LeerFila, SoloLee
<1>10. EspacioAlDia(p)'
  BY <1>1, <1>4, <1>6, <1>7, <1>8, <1>9 DEF EspacioAlDia
<1>11. QED
  BY <1>1, <1>6, <1>10 DEF Coherente, Pide, DeEspacio

LEMMA CoherenteLeerZona ==
  ASSUME IndTipo, IndCerca, NEW p \in Peticiones, LeerZona(p), Sola(p), Activa(p)'
  PROVE  Coherente(p)'
<1> DEFINE z == peticion[p].orden.zona
<1>1. peticion[p] \in Solicitud
  BY Forma DEF IndTipo, Sola, Activa
<1>2. peticion' = [peticion EXCEPT ![p].leida = [zona[z] EXCEPT !.activa = ~@],
                                   ![p].paso = IF zona[z].activa THEN "leida" ELSE "revisada"]
  BY DEF LeerZona, Terminar, Activa, IndTipo, TypeOK
<1>3. /\ peticion'[p].leida = [zona[z] EXCEPT !.activa = ~@]
      /\ peticion'[p].paso = IF zona[z].activa THEN "leida" ELSE "revisada"
      /\ peticion'[p].orden = peticion[p].orden
  BY <1>1, <1>2 DEF IndTipo, TypeOK, Solicitud
<1>4. ZonaAlDia(p)'
  BY <1>3 DEF ZonaAlDia, LeerZona, SoloLee
<1>5. QED
  BY <1>3, <1>4 DEF Coherente, Pide, DeEspacio, LeerZona

LEMMA CoherenteBuscarOcupados ==
  ASSUME IndTipo, IndCerca, NEW p \in Peticiones, BuscarOcupados(p), Sola(p), Coherente(p), Activa(p)'
  PROVE  Coherente(p)'
<1> DEFINE z == peticion[p].orden.zona
<1>1. peticion[p] \in Solicitud
  BY Forma DEF IndTipo, Sola, Activa
<1>2. /\ peticion' = [peticion EXCEPT ![p].paso = "revisada"]
      /\ \A e \in EspaciosDe(z) : fila[e].estado # "OCUPADO"
  BY DEF BuscarOcupados, Pasar, Terminar, Activa, IndTipo, TypeOK
<1>3. /\ peticion'[p].leida = peticion[p].leida
      /\ peticion'[p].paso = "revisada"
      /\ peticion'[p].orden = peticion[p].orden
  BY <1>1, <1>2 DEF IndTipo, TypeOK, Solicitud
<1>4. peticion[p].leida = [zona[z] EXCEPT !.activa = ~@]
  BY DEF BuscarOcupados, Pide, Coherente, ZonaAlDia
<1>5. ZonaAlDia(p)'
  BY <1>2, <1>3, <1>4 DEF ZonaAlDia, BuscarOcupados, SoloLee, EspaciosDe
<1>6. QED
  BY <1>3, <1>5 DEF Coherente, Pide, DeEspacio, BuscarOcupados

LEMMA CoherenteCargarEspacios ==
  ASSUME IndTipo, IndCerca, NEW p \in Peticiones, CargarEspacios(p), Sola(p), Coherente(p)
  PROVE  Coherente(p)'
<1> DEFINE z == peticion[p].orden.zona
           activa == peticion[p].leida.activa
           s == [e \in Espacios |-> IF e \in EspaciosDe(z) /\ fila[e].activo # activa
                                    THEN [fila[e] EXCEPT !.activo = activa] ELSE SinFila]
<1>1. peticion[p] \in Solicitud
  BY Forma DEF IndTipo, Sola, Activa
<1>2. peticion' = [peticion EXCEPT ![p].sucias = s, ![p].paso = "lista"]
  BY DEF CargarEspacios
<1> HIDE DEF s
<1>3. /\ peticion'[p].leida = peticion[p].leida
      /\ peticion'[p].paso = "lista"
      /\ peticion'[p].orden = peticion[p].orden
      /\ peticion'[p].sucias = s
  BY <1>1, <1>2 DEF IndTipo, TypeOK, Solicitud
<1>4. /\ peticion[p].leida = [zona[z] EXCEPT !.activa = ~@]
      /\ zona[z].activa => \A e \in EspaciosDe(z) : fila[e].estado # "OCUPADO"
  BY DEF CargarEspacios, Pide, Coherente, ZonaAlDia
<1>5. \A e \in Espacios : s[e] = IF e \in EspaciosDe(z) /\ fila[e].activo # activa
                                 THEN [fila[e] EXCEPT !.activo = activa] ELSE SinFila
  BY DEF s
<1>6. fila' = fila /\ zona' = zona /\ EspaciosDe(z)' = EspaciosDe(z)
  BY <1>3 DEF CargarEspacios, SoloLee, EspaciosDe
<1>7. ZonaAlDia(p)'
  BY <1>3, <1>4, <1>5, <1>6 DEF ZonaAlDia
<1>8. QED
  BY <1>3, <1>7 DEF Coherente, Pide, DeEspacio, CargarEspacios

LEMMA CoherenteEmpezar ==
  ASSUME IndTipo, IndCerca, Coherentes, NEW p \in Peticiones, NEW o \in Ordenes, Empezar(p, o)
  PROVE  Coherentes'
<1>1. \A q \in Peticiones : q # p => peticion'[q] = peticion[q]
  BY DEF Empezar, IndTipo, TypeOK
<1>2. peticion'[p].paso = "recibida" /\ peticion'[p].sucias = NadaSucio
  BY DEF Empezar, IndTipo, TypeOK
<1>3. solapadas \subseteq solapadas'
  BY DEF Empezar
<1>4. Coherente(p)'
  BY <1>2 DEF Coherente, Pide
<1>5. ASSUME NEW q \in Peticiones, q # p, Sola(q)'
      PROVE  Coherente(q)'
  <2>1. Sola(q) /\ Coherente(q)
    BY <1>1, <1>3, <1>5 DEF Sola, Activa, Coherentes
  <2>2. Intactas(peticion[q].toca)
    BY DEF Empezar, Intactas
  <2>3. QED
    BY <1>1, <1>5, <2>1, <2>2, CoherenteAjena
<1>6. QED
  BY <1>4, <1>5 DEF Coherentes

LEMMA CoherenteAvanzar ==
  ASSUME IndTipo, IndCerca, Coherentes, NEW p \in Peticiones, Avanzar(p)
  PROVE  Coherentes'
<1>1. Continua(p) /\ Activa(p)
  BY AvanzarContinua
<1>2. \A q \in Peticiones : Sola(q)' => Sola(q) /\ Coherente(q)
  BY <1>1 DEF Continua, Sola, Activa, Coherentes
<1>3. ASSUME NEW q \in Peticiones, q # p, Sola(q)'
      PROVE  Coherente(q)'
  <2>1. Sola(q) /\ Coherente(q) /\ peticion'[q] = peticion[q]
    BY <1>1, <1>2, <1>3 DEF Continua, Sola
  <2>2. QED
    BY <1>3, <2>1, AvanzarAjeno, CoherenteAjena
<1>4. ASSUME Sola(p)'
      PROVE  Coherente(p)'
  <2>1. Sola(p) /\ Coherente(p) /\ Activa(p)' /\ peticion'[p].orden = peticion[p].orden
    BY <1>1, <1>2, <1>4 DEF Continua, Sola
  <2>2. ~Terminar(p)
    BY <2>1 DEF Terminar, Activa, IndTipo, TypeOK
  <2>3. CASE LeerFila(p) \/ LeerZona(p) \/ BuscarOcupados(p) \/ CargarEspacios(p)
    BY <2>1, <2>3, CoherenteLeerFila, CoherenteLeerZona, CoherenteBuscarOcupados, CoherenteCargarEspacios
  <2>4. CASE NumerarZona(p) \/ ContarEspacios(p)
    BY <2>1, <2>4 DEF NumerarZona, ContarEspacios, Pide, Coherente, DeEspacio
  <2>5. QED
    BY <2>2, <2>3, <2>4 DEF Avanzar, Insertar, InsertarZona, Guardar, Fallar
<1>5. QED
  BY <1>3, <1>4 DEF Coherentes

LEMMA CoherenteQuieto ==
  ASSUME IndTipo, IndCerca, Coherentes, UNCHANGED vars
  PROVE  Coherentes'
<1>1. ASSUME NEW q \in Peticiones, Sola(q)'
      PROVE  Coherente(q)'
  <2>1. Sola(q) /\ Coherente(q) /\ peticion'[q] = peticion[q]
    BY <1>1 DEF vars, Sola, Activa, Coherentes
  <2>2. Intactas(peticion[q].toca)
    BY DEF vars, Intactas
  <2>3. QED
    BY <2>1, <2>2, CoherenteAjena
<1>2. QED
  BY <1>1 DEF Coherentes

LEMMA CoherentePaso == IndTipo /\ IndCerca /\ Coherentes /\ [Next]_vars => Coherentes'
<1> SUFFICES ASSUME IndTipo, IndCerca, Coherentes, [Next]_vars PROVE Coherentes'
  OBVIOUS
<1>1. ASSUME NEW p \in Peticiones, Atender(p) PROVE Coherentes'
  BY <1>1, CoherenteEmpezar, CoherenteAvanzar DEF Atender, Avanzar
<1>2. QED
  BY <1>1, CoherenteQuieto DEF Next

LEMMA CoherenteSiempre == Spec => []Coherentes
<1>1. Init => Coherentes
  BY DEF Init, Coherentes, Sola, Activa
<1>2. QED
  BY <1>1, CoherentePaso, TipoSiempre, CercaSiempre, PTL DEF Spec

-----------------------------------------------------------------------------
(***************************************************************************)
(* What a write does to the rows of zones without overlap.                 *)
(***************************************************************************)

\* A write onto a row of a zone without overlap is of a request without overlap.
LEMMA EscribeSola ==
  ASSUME IndTipo, IndCerca, Coherentes, NEW p \in Peticiones, Activa(p),
         NEW x, x \notin solapadas, Cercana(p, x)
  PROVE  x \in peticion[p].toca /\ Sola(p) /\ Coherente(p)
BY DEF IndCerca, Apartadas, Cercana, Sola, Coherentes

\* What such a write changes in a row.
Propias(p, f, g) ==
  /\ g.estado # f.estado => peticion[p].orden.op = "estado"
  /\ g.zona # f.zona => peticion[p].orden.op = "editar" /\ g.zona = peticion[p].orden.zona
  /\ g.activo # f.activo =>
       \/ peticion[p].orden.op = "eliminar" /\ f.activo
       \/ peticion[p].orden = [op |-> "conmutar", zona |-> f.zona]

LEMMA EscribePropias ==
  ASSUME IndTipo, IndCerca, Coherentes, NEW p \in Peticiones, Guardar(p), NEW e \in Espacios,
         peticion[p].sucias[e] # SinFila,
         fila[e].zona \notin solapadas \/ peticion[p].sucias[e].zona \notin solapadas
  PROVE  /\ Propias(p, fila[e], peticion[p].sucias[e])
         /\ peticion[p].orden.op \in DeEspacio => e = peticion[p].orden.espacio
<1> DEFINE o == peticion[p].orden
           s == peticion[p].sucias
<1>1. Activa(p) /\ o \in Orden /\ s \in [Espacios -> Fila \cup {SinFila}]
  BY Forma DEF IndTipo, Activa, Guardar, Pide
<1>2. Cercana(p, fila[e].zona) /\ Cercana(p, s[e].zona)
  BY <1>1 DEF IndCerca, Cercanas
<1>3. Coherente(p)
  BY <1>1, <1>2, EscribeSola
<1>4. fila[e] \in Fila
  BY <1>1 DEF IndTipo, TypeOK, Conocidos
<1>5. CASE o.op \in DeEspacio
  <2>1. EspacioAlDia(p)
    BY <1>3, <1>5 DEF Coherente, Guardar, Pide
  <2>2. e = o.espacio
    BY <2>1 DEF EspacioAlDia
  <2>3. QED
    BY <2>1, <2>2 DEF EspacioAlDia, Propias
<1>6. CASE o.op = "conmutar"
  <2>1. ZonaAlDia(p) /\ peticion[p].paso = "lista"
    BY <1>3, <1>6 DEF Coherente, Guardar, Pide
  <2>2. e \in EspaciosDe(o.zona) /\ s[e] = [fila[e] EXCEPT !.activo = peticion[p].leida.activa]
    BY <2>1 DEF ZonaAlDia
  <2>3. fila[e].zona = o.zona /\ s[e].zona = fila[e].zona /\ s[e].estado = fila[e].estado
    BY <1>4, <2>2 DEF EspaciosDe, Fila
  <2>4. o = [op |-> "conmutar", zona |-> o.zona]
    BY <1>1, <1>6, DeOrden DEF DeZona
  <2>5. QED
    BY <1>6, <2>3, <2>4 DEF Propias, DeEspacio
<1>7. QED
  BY <1>1, <1>5, <1>6 DEF Guardar, Pide, DeEspacio

\* A row of the table changes under a write alone.
LEMMA CambiaGuardar ==
  ASSUME IndTipo, [Next]_vars, NEW e \in Espacios, fila[e] # SinFila, fila'[e] # fila[e]
  PROVE  \E p \in Peticiones : Guardar(p) /\ peticion[p].sucias[e] # SinFila /\ fila'[e] = peticion[p].sucias[e]
<1>1. PICK p \in Peticiones : Atender(p)
  BY DEF Next, vars
<1>2. ~Insertar(p)
  BY DEF Insertar, IndTipo, TypeOK
<1>3. CASE Guardar(p)
  BY <1>3 DEF Guardar
<1>4. CASE ~Guardar(p)
  BY <1>1, <1>2, <1>4 DEF Atender, Empezar, NumerarZona, ContarEspacios, LeerFila, LeerZona, BuscarOcupados,
     CargarEspacios, InsertarZona, Fallar, SoloLee
<1>5. QED
  BY <1>3, <1>4

\* An update of the whole row changes no column but its own: where no requests
\* overlap, what EspacioServicioImpl and ZonaServicioImpl read is still there when
\* they save it.
THEOREM Columnas == Spec => ColumnasPropias
<1> DEFINE Propia(e) ==
      \E p \in Peticiones :
        /\ peticion[p].paso = "lista"
        /\ fila'[e].estado # fila[e].estado => peticion[p].orden.op = "estado"
        /\ fila'[e].zona # fila[e].zona => peticion[p].orden.op = "editar"
        /\ fila'[e].activo # fila[e].activo =>
             \/ peticion[p].orden.op = "eliminar" /\ fila[e].activo
             \/ peticion[p].orden = [op |-> "conmutar", zona |-> fila[e].zona]
<1>1. ASSUME IndTipo, IndCerca, Coherentes, [Next]_vars, NEW e \in Espacios,
             fila[e] # SinFila, fila'[e] # fila[e], fila[e].zona \notin solapadas
      PROVE  Propia(e)
  <2>1. PICK p \in Peticiones : /\ Guardar(p) /\ peticion[p].sucias[e] # SinFila
                                /\ fila'[e] = peticion[p].sucias[e]
    BY <1>1, CambiaGuardar
  <2>2. Propias(p, fila[e], fila'[e])
    BY <1>1, <2>1, EscribePropias
  <2>3. peticion[p].paso = "lista"
    BY <2>1 DEF Guardar, Pide
  <2>4. QED
    BY <2>2, <2>3 DEF Propias
<1>2. IndTipo /\ IndCerca /\ Coherentes /\ [Next]_vars =>
        [\A e \in Espacios :
           fila[e] # SinFila /\ fila'[e] # fila[e] /\ fila[e].zona \notin solapadas => Propia(e)]_vars
  BY <1>1
<1>3. QED
  BY <1>2, TipoSiempre, CercaSiempre, CoherenteSiempre, PTL DEF Spec, ColumnasPropias

\* A zone is deactivated with all its spaces and none OCUPADO: the check of
\* activarDesactivar holds until its save, where no requests overlap.
THEOREM Desactivar == Spec => DesactivarLimpio
<1>1. ASSUME IndTipo, IndCerca, Coherentes, [Next]_vars, NEW z \in Zonas \ solapadas,
             zona[z].activa, ~zona'[z].activa, NEW e \in EspaciosDe(z)
      PROVE  ~fila'[e].activo /\ fila'[e].estado # "OCUPADO"
  <2>1. PICK p \in Peticiones : Atender(p)
    BY <1>1 DEF Next, vars
  <2>2. ~InsertarZona(p)
    <3>1. CASE InsertarZona(p) /\ peticion[p].orden.zona = z
      <4>1. zona[z] = SinZona
        BY <3>1 DEF InsertarZona, ZonaRepetida, Existentes
      <4>2. QED
        BY <1>1, <4>1 DEF SinZona
    <3>2. CASE InsertarZona(p) /\ peticion[p].orden.zona # z
      BY <1>1, <3>2 DEF InsertarZona, IndTipo, TypeOK
    <3>3. QED
      BY <3>1, <3>2
  <2>3. Guardar(p)
    BY <1>1, <2>1, <2>2 DEF Atender, Empezar, NumerarZona, ContarEspacios, LeerFila, LeerZona, BuscarOcupados,
       CargarEspacios, Insertar, Fallar, SoloLee
  <2>4. peticion[p].orden.op = "conmutar" /\ peticion[p].orden.zona = z /\ zona'[z] = peticion[p].leida
    BY <1>1, <2>3 DEF Guardar, IndTipo, TypeOK
  <2>5. Activa(p) /\ peticion[p].sucias \in [Espacios -> Fila \cup {SinFila}]
    BY <1>1, <2>3, Forma DEF IndTipo, Activa, Guardar, Pide
  <2>6. Cercana(p, z)
    BY <1>1, <2>4, <2>5 DEF IndCerca, Tocan, DeZona, Cercana
  <2>7. ZonaAlDia(p) /\ peticion[p].paso = "lista"
    BY <1>1, <2>3, <2>4, <2>5, <2>6, EscribeSola DEF Coherente, Guardar, Pide
  <2>8. /\ fila[e].estado # "OCUPADO"
        /\ peticion[p].leida.activa = FALSE
        /\ e \in Espacios /\ fila[e] \in Fila
    <3>1. fila[e].estado # "OCUPADO"
      BY <1>1, <2>4, <2>7 DEF ZonaAlDia
    <3>2. peticion[p].leida \in Zona
      BY <1>1, <2>5, Forma DEF IndTipo, Activa
    <3>3. QED
      BY <1>1, <2>4, <3>1, <3>2 DEF EspaciosDe, IndTipo, TypeOK, Zona
  <2>9. peticion[p].sucias[e] = IF fila[e].activo # FALSE THEN [fila[e] EXCEPT !.activo = FALSE] ELSE SinFila
    BY <1>1, <2>4, <2>7, <2>8 DEF ZonaAlDia
  <2>10. fila'[e] = IF peticion[p].sucias[e] # SinFila THEN peticion[p].sucias[e] ELSE fila[e]
    BY <2>3, <2>8 DEF Guardar
  <2>11. CASE fila[e].activo # FALSE
    <3>1. [fila[e] EXCEPT !.activo = FALSE] \in Fila
      BY <2>8 DEF Fila
    <3>2. fila'[e] = [fila[e] EXCEPT !.activo = FALSE]
      BY <2>9, <2>10, <2>11, <3>1, SinFilaNoEsFila
    <3>3. QED
      BY <2>8, <3>2 DEF Fila
  <2>12. CASE fila[e].activo = FALSE
    BY <2>8, <2>9, <2>10, <2>12
  <2>13. QED
    BY <2>11, <2>12
<1>2. IndTipo /\ IndCerca /\ Coherentes /\ [Next]_vars =>
        [\A z \in Zonas \ solapadas :
           zona[z].activa /\ ~zona'[z].activa =>
             \A e \in EspaciosDe(z) : ~fila'[e].activo /\ fila'[e].estado # "OCUPADO"]_vars
  BY <1>1
<1>3. QED
  BY <1>2, TipoSiempre, CercaSiempre, CoherenteSiempre, PTL DEF Spec, DesactivarLimpio

-----------------------------------------------------------------------------
(***************************************************************************)
(* Capacity.                                                               *)
(***************************************************************************)

\* A zone without overlap has no more spaces than it may, and room for the one
\* that a request is about to insert.
Medidas ==
  \A z \in Zonas \ (solapadas \cup mudadas) :
    /\ Cardinality(EspaciosDe(z)) <= Capacidad[z]
    /\ \A p \in Peticiones :
         Pide(p, "lista", {"crear"}) /\ peticion[p].orden.zona = z =>
           Cardinality(EspaciosDe(z)) < Capacidad[z]

LEMMA EspaciosFinitos ==
  ASSUME IndTipo, NEW z
  PROVE  IsFiniteSet(EspaciosDe(z)) /\ Cardinality(EspaciosDe(z)) \in Nat
<1>1. EspaciosDe(z) \subseteq Presentes
  BY DEF EspaciosDe, Presentes
<1>2. IsFiniteSet(EspaciosDe(z))
  BY <1>1, FS_Subset DEF IndTipo
<1>3. QED
  BY <1>2, FS_CardinalityType

\* Only an insert gives a space to a zone without overlap that no edit moved a
\* space to.
LEMMA NoCrece ==
  ASSUME IndTipo, IndCerca, Coherentes, [Next]_vars, NEW z \in Zonas \ (solapadas' \cup mudadas'),
         \A p \in Peticiones : Insertar(p) => peticion[p].orden.zona # z
  PROVE  EspaciosDe(z)' \subseteq EspaciosDe(z)
<1> SUFFICES ASSUME NEW e \in Espacios, fila'[e] # SinFila, fila'[e].zona = z,
                    ~(fila[e] # SinFila /\ fila[e].zona = z)
             PROVE  FALSE
  BY DEF EspaciosDe
<1>1. CASE fila[e] # SinFila
  <2>1. PICK p \in Peticiones : /\ Guardar(p) /\ peticion[p].sucias[e] # SinFila
                                /\ fila'[e] = peticion[p].sucias[e]
    BY <1>1, CambiaGuardar
  <2>2. z \notin solapadas
    BY <2>1 DEF Guardar
  <2>3. Propias(p, fila[e], fila'[e]) /\ (peticion[p].orden.op \in DeEspacio => e = peticion[p].orden.espacio)
    BY <2>1, <2>2, EscribePropias
  <2>4. peticion[p].orden.op = "editar" /\ peticion[p].orden.zona = z
    BY <1>1, <2>3 DEF Propias
  <2>5. z \in mudadas'
    BY <1>1, <2>1, <2>3, <2>4 DEF Guardar, DeEspacio
  <2>6. QED
    BY <2>5
<1>2. CASE fila[e] = SinFila
  <2>1. PICK p \in Peticiones : Atender(p)
    BY <1>2 DEF Next, vars
  <2>2. ~Guardar(p)
    BY <1>2 DEF Guardar, IndTipo, Conocidos, Activa, Pide, Libre
  <2>3. Insertar(p)
    BY <1>2, <2>1, <2>2 DEF Atender, Empezar, NumerarZona, ContarEspacios, LeerFila, LeerZona, BuscarOcupados,
       CargarEspacios, InsertarZona, Fallar, SoloLee
  <2>4. fila'[e] \in Insertadas(peticion[p].orden.zona) \cup {SinFila}
    BY <1>2, <2>3 DEF Insertar, IndTipo, TypeOK
  <2>5. peticion[p].orden.zona \in Zonas
    BY <2>3, Forma, DeOrden DEF Insertar, Pide, DeZona, IndTipo
  <2>6. QED
    BY <2>3, <2>4, <2>5, DeInsertadas, ZonasAssumption
<1>3. QED
  BY <1>1, <1>2

LEMMA Encoge ==
  ASSUME IndTipo, IndTipo', NEW z, EspaciosDe(z)' \subseteq EspaciosDe(z)
  PROVE  Cardinality(EspaciosDe(z)') <= Cardinality(EspaciosDe(z))
BY EspaciosFinitos, FS_Subset

\* The request that is about to insert in a zone counted its spaces, or was already
\* about to.
LEMMA PorInsertar ==
  ASSUME IndTipo, [Next]_vars, NEW p \in Peticiones, Pide(p, "lista", {"crear"})'
  PROVE  /\ Activa(p) /\ peticion'[p].orden = peticion[p].orden
         /\ \/ Pide(p, "lista", {"crear"})
            \/ /\ ContarEspacios(p)
               /\ Cardinality(EspaciosDe(peticion[p].orden.zona)) < Capacidad[peticion[p].orden.zona]
<1>1. peticion'[p] # Libre
  BY DEF Pide, Libre
<1>2. CASE peticion'[p] = peticion[p]
  BY <1>1, <1>2 DEF Pide, Activa
<1>3. CASE peticion'[p] # peticion[p]
  <2>1. PICK q \in Peticiones : Atender(q)
    BY <1>3 DEF Next, vars
  <2>2. q = p
    BY <1>3, <2>1 DEF Atender, Empezar, NumerarZona, ContarEspacios, LeerFila, LeerZona, BuscarOcupados,
       CargarEspacios, Insertar, InsertarZona, Guardar, Fallar, Terminar, Pasar, IndTipo, TypeOK
  <2>3. Avanzar(p)
    <3>1. ASSUME NEW o \in Ordenes, Empezar(p, o) PROVE FALSE
      BY <3>1 DEF Empezar, Pide, IndTipo, TypeOK
    <3>2. QED
      BY <2>1, <2>2, <3>1 DEF Atender, Avanzar
  <2>4. Continua(p) /\ Activa(p) /\ Activa(p)'
    BY <1>1, <2>3, AvanzarContinua DEF Activa
  <2>5. peticion'[p].orden = peticion[p].orden /\ peticion[p].orden.op = "crear"
    BY <2>4 DEF Continua, Pide
  <2>6. ContarEspacios(p)
    BY <1>1, <2>3, <2>5 DEF Avanzar, NumerarZona, LeerFila, LeerZona, BuscarOcupados, CargarEspacios,
       Insertar, InsertarZona, Guardar, Fallar, Pide, Terminar, IndTipo, TypeOK
  <2>7. ~Terminar(p)
    BY <1>1 DEF Terminar, IndTipo, TypeOK
  <2>8. QED
    BY <2>4, <2>5, <2>6, <2>7 DEF ContarEspacios
<1>4. QED
  BY <1>2, <1>3

LEMMA MedidasPaso == IndTipo /\ IndCerca /\ Coherentes /\ Medidas /\ [Next]_vars => Medidas'
<1> SUFFICES ASSUME IndTipo, IndCerca, Coherentes, Medidas, [Next]_vars,
                    NEW z \in Zonas \ (solapadas' \cup mudadas')
             PROVE  /\ Cardinality(EspaciosDe(z)') <= Capacidad[z]
                    /\ \A p \in Peticiones :
                         Pide(p, "lista", {"crear"})' /\ peticion'[p].orden.zona = z =>
                           Cardinality(EspaciosDe(z)') < Capacidad[z]
  BY DEF Medidas
<1>1. IndTipo' /\ Capacidad[z] \in Nat
  BY TipoPaso, ZonasAssumption
<1>2. z \in Zonas \ (solapadas \cup mudadas)
  BY DEF vars, Next, Atender, Empezar, NumerarZona, ContarEspacios, LeerFila, LeerZona, BuscarOcupados,
     CargarEspacios, Insertar, InsertarZona, Guardar, Fallar, SoloLee
<1>3. /\ Cardinality(EspaciosDe(z)) \in Nat /\ Cardinality(EspaciosDe(z)') \in Nat
      /\ Cardinality(EspaciosDe(z)) <= Capacidad[z]
  <2>1. EspaciosDe(z)' \subseteq Presentes' /\ IsFiniteSet(Presentes')
    BY <1>1 DEF IndTipo, EspaciosDe, Presentes
  <2>2. Cardinality(EspaciosDe(z)') \in Nat
    BY <2>1, FS_Subset, FS_CardinalityType
  <2>3. QED
    BY <1>2, <2>2, EspaciosFinitos DEF Medidas
<1>4. CASE \A p \in Peticiones : Insertar(p) => peticion[p].orden.zona # z
  <2>1. Cardinality(EspaciosDe(z)') <= Cardinality(EspaciosDe(z))
    BY <1>1, <1>4, NoCrece, Encoge
  <2>2. ASSUME NEW p \in Peticiones, Pide(p, "lista", {"crear"})', peticion'[p].orden.zona = z
        PROVE  Cardinality(EspaciosDe(z)) < Capacidad[z]
    BY <1>2, <2>2, PorInsertar DEF Medidas
  <2>3. QED
    BY <1>1, <1>3, <2>1, <2>2
<1>5. ASSUME NEW p \in Peticiones, Insertar(p), peticion[p].orden.zona = z
      PROVE  /\ Cardinality(EspaciosDe(z)') <= Capacidad[z]
             /\ \A q \in Peticiones : ~(Pide(q, "lista", {"crear"})' /\ peticion'[q].orden.zona = z)
  <2>1. PICK e \in Espacios, f \in Insertadas(z) : fila[e] = SinFila /\ fila' = [fila EXCEPT ![e] = f]
    BY <1>5 DEF Insertar
  <2>2. EspaciosDe(z)' = EspaciosDe(z) \cup {e}
    <3>1. z \in Zonas
      BY <1>5, Forma, DeOrden DEF Insertar, Pide, DeZona, IndTipo
    <3>2. f # SinFila /\ f.zona = z
      BY <3>1, DeInsertadas, ZonasAssumption
    <3>3. QED
      BY <2>1, <3>2 DEF EspaciosDe, IndTipo, TypeOK
  <2>3. Cardinality(EspaciosDe(z)) < Capacidad[z]
    BY <1>2, <1>5 DEF Medidas, Insertar
  <2>4. Cardinality(EspaciosDe(z)') <= Cardinality(EspaciosDe(z)) + 1
    <3>1. IsFiniteSet(EspaciosDe(z))
      BY EspaciosFinitos
    <3>2. Cardinality(EspaciosDe(z) \cup {e}) =
            IF e \in EspaciosDe(z) THEN Cardinality(EspaciosDe(z)) ELSE Cardinality(EspaciosDe(z)) + 1
      BY <3>1, FS_AddElement
    <3>3. QED
      BY <1>3, <2>2, <3>2
  <2>5. ASSUME NEW q \in Peticiones, Pide(q, "lista", {"crear"})', peticion'[q].orden.zona = z
        PROVE  FALSE
    <3>1. Activa(q) /\ peticion[q].orden.zona = z /\ peticion[q].orden.op = "crear"
      BY <2>5, PorInsertar DEF Pide
    <3>2. q # p
      BY <1>5, <2>5 DEF Insertar, Terminar, Pide, Libre, IndTipo, TypeOK
    <3>3. Activa(p) /\ peticion[p].orden.op = "crear"
      BY <1>5 DEF Insertar, Pide, Activa, Libre
    <3>4. peticion[p].toca = {z} /\ peticion[q].toca = {z}
      BY <1>5, <3>1, <3>3 DEF IndCerca, Tocan, DeZona
    <3>5. z \in solapadas
      BY <3>1, <3>2, <3>3, <3>4 DEF IndCerca, Apartadas
    <3>6. QED
      BY <1>2, <3>5
  <2>6. QED
    BY <1>1, <1>3, <2>3, <2>4, <2>5
<1>6. QED
  BY <1>4, <1>5

LEMMA MedidasInicial == Init => Medidas
<1> SUFFICES ASSUME Init, NEW z \in Zonas
             PROVE  /\ Cardinality(EspaciosDe(z)) <= Capacidad[z]
                    /\ \A p \in Peticiones : ~Pide(p, "lista", {"crear"})
  BY DEF Medidas
<1>1. EspaciosDe(z) = {}
  BY DEF Init, EspaciosDe
<1>2. Cardinality(EspaciosDe(z)) = 0
  BY <1>1, FS_EmptySet
<1>3. QED
  BY <1>2, ZonasAssumption DEF Init, Pide, Libre

\* A zone has no more spaces than its capacity, whatever its spaces went through,
\* as long as no two requests meet on it and no edit moves a space to it: the count
\* in crearEspacio is still true at the insert.
THEOREM Capacidades == Spec => []CapacidadRespetada
<1>1. Medidas => CapacidadRespetada
  BY DEF Medidas, CapacidadRespetada, Existentes
<1>2. QED
  BY <1>1, MedidasInicial, MedidasPaso, TipoSiempre, CercaSiempre, CoherenteSiempre, PTL DEF Spec

=============================================================================
