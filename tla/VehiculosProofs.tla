--------------------------- MODULE VehiculosProofs ---------------------------
(***************************************************************************)
(* Proofs about Vehiculos for any number of plates and requests, with      *)
(* failed writes and stops of the process.                                 *)
(*                                                                         *)
(* Every operation is a check of a row it has read and a write some awaits *)
(* later.  What carries the check to the write is Coherente: a request     *)
(* alone on its plate holds, at every step, the entity its operation makes *)
(* of the row as it is now, and the row still admits the operation.  Then  *)
(* the write applies the operation to the row as if it were atomic.        *)
(***************************************************************************)
EXTENDS Vehiculos, TLAPS

Atendidas == Operacion \ {"walkin"}

\* What a step knows of the entity, the base and the row, whatever overlaps.
Cuadra(r, f) ==
  /\ r.paso \in {"leida", "aprobada", "comparada"} =>
       r.op \in Atendidas /\ (r.op # "crear" => r.entidad \in Vehiculo /\ f \in Vehiculo)
  /\ r.paso \in {"aprobada", "comparada"} => r.entidad \in Vehiculo
  /\ r.paso = "comparada" /\ r.op # "crear" => r.base \in Vehiculo

Cuadran == \A p \in Peticiones : peticion[p] # Libre => Cuadra(peticion[p], fila[peticion[p].placa])

IndTipo == TypeOK /\ Cuadran

-----------------------------------------------------------------------------

LEMMA Forma ==
  ASSUME TypeOK, NEW p \in Peticiones
  PROVE  /\ peticion[p] # Libre <=> peticion[p].paso \in EnCurso
         /\ peticion[p] # Libre =>
              /\ peticion[p] \in Solicitud
              /\ peticion[p].placa \in Placas
              /\ peticion[p].op \in Operacion
              /\ fila[peticion[p].placa] \in Vehiculo \cup {SinFila}
BY DEF TypeOK, Solicitud, Libre, EnCurso

LEMMA SinFilaNoEsVehiculo == SinFila \notin Vehiculo
BY DEF SinFila, Vehiculo

LEMMA TipoModificada ==
  ASSUME NEW op \in Atendidas, NEW f, op # "crear" => f \in Vehiculo
  PROVE  Modificada(op, f) \in Vehiculo
BY DEF Modificada, Atendidas, Operacion, Vehiculo

LEMMA TipoActualizada ==
  ASSUME NEW e \in Vehiculo, NEW b \in Vehiculo, NEW f \in Vehiculo
  PROVE  /\ Actualizada(e, b, f) \in Vehiculo
         /\ b = f => Actualizada(e, b, f) = e
BY DEF Actualizada, Vehiculo

LEMMA TipoInicial == Init => IndTipo
BY VehiculosAssumption DEF Init, IndTipo, TypeOK, Cuadran

\* A request is replaced by a well formed one and the table is left alone.
LEMMA TipoPeticion ==
  ASSUME IndTipo, NEW p \in Peticiones, NEW r \in Solicitud \cup {Libre},
         r # Libre => Cuadra(r, fila[r.placa]),
         peticion' = [peticion EXCEPT ![p] = r], SoloLee
  PROVE  IndTipo'
BY DEF IndTipo, TypeOK, Cuadran, SoloLee

LEMMA TipoTerminar ==
  ASSUME IndTipo, NEW p \in Peticiones, Terminar(p), SoloLee
  PROVE  IndTipo'
BY TipoPeticion DEF Terminar

LEMMA TipoEmpezar ==
  ASSUME IndTipo, NEW p \in Peticiones, NEW op \in Operacion, NEW v \in Placas, Empezar(p, op, v)
  PROVE  IndTipo'
<1> DEFINE r == [paso |-> "recibida", op |-> op, placa |-> v, entidad |-> SinFila, base |-> SinFila]
<1>1. r \in Solicitud /\ Cuadra(r, fila[r.placa])
  BY DEF Solicitud, EnCurso, Cuadra
<1>2. peticion' = [peticion EXCEPT ![p] = r]
  BY DEF Empezar
<1> HIDE DEF r
<1>3. Cuadran' /\ peticion' \in [Peticiones -> Solicitud \cup {Libre}]
  BY <1>1, <1>2 DEF Empezar, IndTipo, TypeOK, Cuadran
<1>4. recibidas' \in 0..MaxPeticiones
  BY VehiculosAssumption DEF IndTipo, TypeOK, Empezar
<1>5. QED
  BY <1>3, <1>4 DEF IndTipo, TypeOK, Empezar

LEMMA TipoLeer ==
  ASSUME IndTipo, NEW p \in Peticiones, Leer(p)
  PROVE  IndTipo'
<1> DEFINE r == peticion[p]
           f == fila[r.placa]
           s == [r EXCEPT !.entidad = f, !.paso = "leida"]
<1>1. r \in Solicitud /\ f \in Vehiculo \cup {SinFila} /\ r.op \in Operacion
  BY Forma DEF IndTipo, Leer, EnPaso, Libre
<1>2. CASE Terminar(p)
  BY <1>2, TipoTerminar DEF Leer
<1>3. CASE Admite(r.op, f) /\ peticion' = [peticion EXCEPT ![p].entidad = f, ![p].paso = "leida"]
  <2>1. s \in Solicitud /\ s.paso = "leida" /\ s.op = r.op /\ s.placa = r.placa /\ s.entidad = f
    BY <1>1 DEF Solicitud, EnCurso
  <2>2. r.op \in Atendidas /\ (r.op # "crear" => f \in Vehiculo)
    BY <1>1, <1>3 DEF Admite, Atendidas, Operacion
  <2>3. Cuadra(s, fila[s.placa])
    BY <2>1, <2>2 DEF Cuadra
  <2>4. peticion' = [peticion EXCEPT ![p] = s]
    BY <1>1, <1>3 DEF IndTipo, TypeOK, Solicitud
  <2> HIDE DEF s
  <2>5. QED
    BY <2>1, <2>3, <2>4, TipoPeticion DEF Leer
<1>4. QED
  BY <1>2, <1>3 DEF Leer

LEMMA TipoAprobar ==
  ASSUME IndTipo, NEW p \in Peticiones, Aprobar(p)
  PROVE  IndTipo'
<1> DEFINE r == peticion[p]
           e == Modificada(r.op, r.entidad)
           s == [r EXCEPT !.entidad = e, !.paso = "aprobada"]
<1>1. r \in Solicitud /\ r # Libre /\ r.paso = "leida"
  BY Forma DEF IndTipo, Aprobar, EnPaso, Libre
<1>2. r.op \in Atendidas /\ (r.op # "crear" => r.entidad \in Vehiculo /\ fila[r.placa] \in Vehiculo)
  BY <1>1 DEF IndTipo, Cuadran, Cuadra
<1>3. e \in Vehiculo
  BY <1>2, TipoModificada
<1> HIDE DEF e
<1>4. s \in Solicitud /\ s.paso = "aprobada" /\ s.op = r.op /\ s.placa = r.placa /\ s.entidad = e
  BY <1>1, <1>3 DEF Solicitud, EnCurso
<1>5. Cuadra(s, fila[s.placa])
  BY <1>2, <1>3, <1>4 DEF Cuadra
<1>6. peticion' = [peticion EXCEPT ![p] = s]
  BY <1>1 DEF IndTipo, TypeOK, Solicitud, Aprobar, e
<1> HIDE DEF s
<1>7. QED
  BY <1>4, <1>5, <1>6, TipoPeticion DEF Aprobar

LEMMA TipoComparar ==
  ASSUME IndTipo, NEW p \in Peticiones, Comparar(p)
  PROVE  IndTipo'
<1> DEFINE r == peticion[p]
           b == IF r.op = "crear" THEN SinFila ELSE fila[r.placa]
           s == [r EXCEPT !.base = b, !.paso = "comparada"]
<1>1. r \in Solicitud /\ r # Libre /\ r.paso = "aprobada"
  BY Forma DEF IndTipo, Comparar, EnPaso, Libre
<1>2. Cuadra(r, fila[r.placa])
  BY <1>1 DEF IndTipo, Cuadran
<1>3. b \in Vehiculo \cup {SinFila} /\ (r.op # "crear" => b \in Vehiculo)
  BY <1>1, <1>2, Forma DEF Cuadra
<1> HIDE DEF b
<1>4. /\ s \in Solicitud /\ s.paso = "comparada" /\ s.op = r.op /\ s.placa = r.placa
      /\ s.entidad = r.entidad /\ s.base = b
  BY <1>1, <1>3 DEF Solicitud, EnCurso
<1>5. Cuadra(s, fila[s.placa])
  BY <1>1, <1>2, <1>3, <1>4 DEF Cuadra
<1>6. peticion' = [peticion EXCEPT ![p] = s]
  BY <1>1 DEF IndTipo, TypeOK, Solicitud, Comparar, b
<1> HIDE DEF s
<1>7. QED
  BY <1>4, <1>5, <1>6, TipoPeticion DEF Comparar

LEMMA TipoEscribir ==
  ASSUME IndTipo, NEW p \in Peticiones, Escribir(p)
  PROVE  IndTipo'
<1> DEFINE r == peticion[p]
           e == IF r.op = "crear" THEN r.entidad ELSE Actualizada(r.entidad, r.base, fila[r.placa])
<1>1. r \in Solicitud /\ r # Libre /\ r.paso = "comparada" /\ r.placa \in Placas
  BY Forma DEF IndTipo, Escribir, EnPaso, Libre
<1>2. Cuadra(r, fila[r.placa])
  BY <1>1 DEF IndTipo, Cuadran
<1>3. e \in Vehiculo
  BY <1>1, <1>2, TipoActualizada DEF Cuadra
<1>4. fila' = [fila EXCEPT ![r.placa] = e]
  BY DEF Escribir, Guardar
<1> HIDE DEF e
<1>5. fila' \in [Placas -> Vehiculo \cup {SinFila}]
  BY <1>3, <1>4 DEF IndTipo, TypeOK
<1>6. \A v \in Placas : fila[v] \in Vehiculo => fila'[v] \in Vehiculo
  BY <1>3, <1>4 DEF IndTipo, TypeOK
<1>7. peticion' = [peticion EXCEPT ![p] = Libre] /\ peticion' \in [Peticiones -> Solicitud \cup {Libre}]
  BY DEF Escribir, Terminar, IndTipo, TypeOK
<1>8. Cuadran'
  <2> SUFFICES ASSUME NEW q \in Peticiones, peticion'[q] # Libre
               PROVE  Cuadra(peticion'[q], fila'[peticion'[q].placa])
    BY DEF Cuadran
  <2>1. peticion'[q] = peticion[q] /\ peticion[q] # Libre /\ peticion[q].placa \in Placas
    BY <1>7, Forma DEF IndTipo, TypeOK
  <2>2. Cuadra(peticion[q], fila[peticion[q].placa])
    BY <2>1 DEF IndTipo, Cuadran
  <2>3. QED
    BY <2>1, <2>2, <1>6 DEF Cuadra
<1>9. pases' \in [Placas -> Int]
  BY <1>1 DEF Escribir, Guardar, IndTipo, TypeOK
<1>10. QED
  BY <1>5, <1>7, <1>8, <1>9 DEF Escribir, IndTipo, TypeOK

LEMMA TipoPaso == IndTipo /\ [Next]_vars => IndTipo'
<1> SUFFICES ASSUME IndTipo, [Next]_vars PROVE IndTipo'
  OBVIOUS
<1>1. ASSUME NEW p \in Peticiones, Atender(p) PROVE IndTipo'
  BY <1>1, TipoEmpezar, TipoLeer, TipoTerminar, TipoAprobar, TipoComparar, TipoEscribir
  DEF Atender, Rechazar, EscribirFallido
<1>2. CASE Caida
  BY <1>2 DEF Caida, SoloLee, IndTipo, TypeOK, Cuadran
<1>3. CASE UNCHANGED vars
  BY <1>3 DEF vars, IndTipo, TypeOK, Cuadran
<1>4. QED
  BY <1>1, <1>2, <1>3 DEF Next

\* Every variable keeps its type: a row never holds a value its columns do not
\* have, and no save updates a row that is not there.
THEOREM TipoCorrecto == Spec => []TypeOK
<1>1. IndTipo => TypeOK
  BY DEF IndTipo
<1>2. QED
  BY <1>1, TipoInicial, TipoPaso, PTL DEF Spec

-----------------------------------------------------------------------------
(***************************************************************************)
(* Occupation and block.                                                   *)
(***************************************************************************)

\* The row still admits the operation, marcarIngreso's conditions included.
Vale(op, f) == Admite(op, f) /\ (op = "ingreso" => f.activo /\ f.estado = "fuera")

\* What a request relies on when nobody else touches its vehicle: the row f.
Vigente(r, f) ==
  /\ r.paso = "leida" => r.entidad = f /\ Admite(r.op, f)
  /\ r.paso \in {"aprobada", "comparada"} => r.entidad = Modificada(r.op, f) /\ Vale(r.op, f)
  /\ r.paso = "comparada" /\ r.op # "crear" => r.base = f

Coherente ==
  \A p \in Peticiones :
    peticion[p] # Libre /\ peticion[p].placa \notin solapados =>
      Vigente(peticion[p], fila[peticion[p].placa])

Solitaria ==
  \A p, q \in Peticiones :
    peticion[p] # Libre /\ peticion[q] # Libre /\ p # q /\ peticion[p].placa = peticion[q].placa
    => peticion[p].placa \in solapados

Regla == OcupacionVeraz /\ DentroSinBloqueo /\ Solitaria /\ Coherente

Ind == IndTipo /\ Regla

\* An operation applied to a row that admits it: the state follows the pass, no
\* vehicle is left inside and blocked, and each column has its operations.
LEMMA Efecto ==
  ASSUME NEW op \in Atendidas, NEW f \in Vehiculo \cup {SinFila}, Vale(op, f)
  PROVE  /\ Modificada(op, f) \in Vehiculo
         /\ op = "ingreso" => f.estado # "dentro" /\ Modificada(op, f).estado = "dentro"
         /\ op = "salida" => f.estado = "dentro" /\ Modificada(op, f).estado # "dentro"
         /\ op \notin {"ingreso", "salida"} =>
              (Modificada(op, f).estado = "dentro" <=> f.estado = "dentro")
         /\ (f.estado = "dentro" => f.activo) =>
              (Modificada(op, f).estado = "dentro" => Modificada(op, f).activo)
         /\ f # SinFila =>
              /\ Modificada(op, f).estado # f.estado => op \in {"ingreso", "salida"}
              /\ Modificada(op, f).activo # f.activo => op \in {"baja", "reactivar"}
<1>1. op = "crear" <=> f = SinFila
  BY DEF Vale, Admite, Atendidas, Operacion
<1>2. CASE op = "crear"
  BY <1>1, <1>2 DEF Modificada, Vehiculo, SinFila
<1>3. CASE op = "editar"
  <2>1. f \in Vehiculo /\ f.activo \in BOOLEAN
    BY <1>1, <1>3 DEF Vehiculo
  <2>2. Modificada(op, f) \in Vehiculo /\ Modificada(op, f).estado = f.estado /\ Modificada(op, f).activo = f.activo
    BY <1>3, <2>1 DEF Modificada, Vehiculo
  <2>3. QED
    BY <1>3, <2>1, <2>2
<1>4. CASE op = "baja"
  <2>1. f \in Vehiculo /\ f.activo \in BOOLEAN
    BY <1>1, <1>4 DEF Vehiculo
  <2>2. Modificada(op, f) \in Vehiculo /\ Modificada(op, f).estado = f.estado
    BY <1>4, <2>1 DEF Modificada, Vehiculo
  <2>3. QED
    BY <1>4, <2>1, <2>2 DEF Vale, Admite
<1>5. CASE op = "reactivar"
  BY <1>1, <1>5 DEF Modificada, Vehiculo
<1>6. CASE op = "ingreso"
  <2>1. f \in Vehiculo /\ f.activo \in BOOLEAN
    BY <1>1, <1>6 DEF Vehiculo
  <2>2. Modificada(op, f) \in Vehiculo /\ Modificada(op, f).estado = "dentro" /\ Modificada(op, f).activo = f.activo
    BY <1>6, <2>1 DEF Modificada, Vehiculo
  <2>3. QED
    BY <1>6, <2>1, <2>2 DEF Vale
<1>7. CASE op = "salida"
  BY <1>1, <1>7 DEF Modificada, Vehiculo, Vale, Admite
<1>8. QED
  BY <1>2, <1>3, <1>4, <1>5, <1>6, <1>7 DEF Atendidas, Operacion

LEMMA ReglaInicial == Init => Ind
BY TipoInicial
DEF Init, Ind, Regla, OcupacionVeraz, DentroSinBloqueo, Solitaria, Coherente, SinFila

\* A step of one request that leaves the table alone keeps the rule, if what the
\* request relies on from then on is so.
LEMMA ReglaSinEscribir ==
  ASSUME Ind, NEW p \in Peticiones, NEW r, SoloLee, peticion' = [peticion EXCEPT ![p] = r],
         r # Libre => /\ peticion[p] # Libre
                      /\ r.placa = peticion[p].placa
                      /\ r.placa \notin solapados => Vigente(r, fila[r.placa])
  PROVE  Regla'
<1>1. \A q \in Peticiones : peticion'[q] = IF q = p THEN r ELSE peticion[q]
  BY DEF Ind, IndTipo, TypeOK
<1>2. OcupacionVeraz' /\ DentroSinBloqueo'
  BY DEF Ind, Regla, OcupacionVeraz, DentroSinBloqueo, SoloLee
<1>3. Solitaria'
  BY <1>1 DEF Ind, Regla, Solitaria, SoloLee
<1>4. Coherente'
  BY <1>1 DEF Ind, Regla, Coherente, SoloLee
<1>5. QED
  BY <1>2, <1>3, <1>4 DEF Regla

LEMMA ReglaTerminar ==
  ASSUME Ind, NEW p \in Peticiones, Terminar(p), SoloLee
  PROVE  Regla'
BY ReglaSinEscribir DEF Terminar

LEMMA ReglaEmpezar ==
  ASSUME Ind, NEW p \in Peticiones, NEW op \in Operacion, NEW v \in Placas, Empezar(p, op, v)
  PROVE  Regla'
<1>r. PICK r : r = [paso |-> "recibida", op |-> op, placa |-> v, entidad |-> SinFila, base |-> SinFila]
  OBVIOUS
<1>1. r.placa = v /\ r.paso = "recibida"
  BY <1>r
<1>2. \A q \in Peticiones : peticion'[q] = IF q = p THEN r ELSE peticion[q]
  BY <1>r DEF Empezar, Ind, IndTipo, TypeOK
<1>3. fila' = fila /\ pases' = pases /\ solapados \subseteq solapados'
  BY DEF Empezar
<1>4. OcupacionVeraz' /\ DentroSinBloqueo'
  BY <1>3 DEF Ind, Regla, OcupacionVeraz, DentroSinBloqueo
<1>5. Solitaria'
  <2>1. \A q \in Peticiones \ {p} :
          peticion[q] # Libre /\ peticion[q].placa = v => v \in solapados'
    BY Forma DEF Empezar, EnCursoSobre, Ind, IndTipo
  <2>2. QED
    BY <1>1, <1>2, <1>3, <2>1 DEF Ind, Regla, Solitaria
<1>6. Coherente'
  BY <1>1, <1>2, <1>3 DEF Ind, Regla, Coherente, Vigente
<1>7. QED
  BY <1>4, <1>5, <1>6 DEF Regla

LEMMA ReglaLeer ==
  ASSUME Ind, NEW p \in Peticiones, Leer(p)
  PROVE  Regla'
<1> DEFINE r == peticion[p]
           f == fila[r.placa]
           s == [r EXCEPT !.entidad = f, !.paso = "leida"]
<1>1. r \in Solicitud /\ r # Libre
  BY Forma DEF Ind, IndTipo, Leer, EnPaso, Libre
<1>2. CASE Terminar(p)
  BY <1>2, ReglaTerminar DEF Leer
<1>3. CASE Admite(r.op, f) /\ peticion' = [peticion EXCEPT ![p].entidad = f, ![p].paso = "leida"]
  <2>1. s.placa = r.placa /\ Vigente(s, f)
    BY <1>1, <1>3 DEF Solicitud, Vigente
  <2>2. peticion' = [peticion EXCEPT ![p] = s]
    BY <1>1, <1>3 DEF Ind, IndTipo, TypeOK, Solicitud
  <2>3. SoloLee
    BY DEF Leer
  <2> HIDE DEF s
  <2>4. QED
    BY <1>1, <2>1, <2>2, <2>3, ReglaSinEscribir
<1>4. QED
  BY <1>2, <1>3 DEF Leer

LEMMA ReglaAprobar ==
  ASSUME Ind, NEW p \in Peticiones, Aprobar(p)
  PROVE  Regla'
<1> DEFINE r == peticion[p]
           f == fila[r.placa]
           e == Modificada(r.op, r.entidad)
           s == [r EXCEPT !.entidad = e, !.paso = "aprobada"]
<1>1. r \in Solicitud /\ r # Libre /\ r.paso = "leida"
  BY Forma DEF Ind, IndTipo, Aprobar, EnPaso, Libre
<1>2. r.placa \notin solapados => r.entidad = f /\ Vale(r.op, f)
  BY <1>1 DEF Ind, Regla, Coherente, Vigente, Aprobar, Vale
<1> HIDE DEF e
<1>3. s.placa = r.placa /\ s.paso = "aprobada" /\ s.op = r.op /\ s.entidad = e
  BY <1>1 DEF Solicitud
<1>4. r.placa \notin solapados => Vigente(s, f)
  BY <1>2, <1>3 DEF Vigente, e
<1>5. peticion' = [peticion EXCEPT ![p] = s]
  BY <1>1 DEF Ind, IndTipo, TypeOK, Solicitud, Aprobar, e
<1>6. SoloLee
  BY DEF Aprobar
<1> HIDE DEF s
<1>7. QED
  BY <1>1, <1>3, <1>4, <1>5, <1>6, ReglaSinEscribir

LEMMA ReglaComparar ==
  ASSUME Ind, NEW p \in Peticiones, Comparar(p)
  PROVE  Regla'
<1> DEFINE r == peticion[p]
           f == fila[r.placa]
           b == IF r.op = "crear" THEN SinFila ELSE f
           s == [r EXCEPT !.base = b, !.paso = "comparada"]
<1>1. r \in Solicitud /\ r # Libre /\ r.paso = "aprobada"
  BY Forma DEF Ind, IndTipo, Comparar, EnPaso, Libre
<1>2. r.placa \notin solapados => Vigente(r, f)
  BY <1>1 DEF Ind, Regla, Coherente
<1>3. /\ s.placa = r.placa /\ s.paso = "comparada" /\ s.op = r.op /\ s.entidad = r.entidad
      /\ s.op # "crear" => s.base = f
  BY <1>1 DEF Solicitud
<1>4. peticion' = [peticion EXCEPT ![p] = s]
  BY <1>1 DEF Ind, IndTipo, TypeOK, Solicitud, Comparar
<1>5. SoloLee
  BY DEF Comparar
<1> HIDE DEF s
<1>6. r.placa \notin solapados => Vigente(s, f)
  BY <1>1, <1>2, <1>3 DEF Vigente
<1>7. QED
  BY <1>1, <1>3, <1>4, <1>5, <1>6, ReglaSinEscribir

\* A write alone on its vehicle applies its operation to the row as it is.
LEMMA Aplica ==
  ASSUME Ind, NEW p \in Peticiones, Escribir(p), peticion[p].placa \notin solapados
  PROVE  /\ peticion[p].op \in Atendidas
         /\ Vale(peticion[p].op, fila[peticion[p].placa])
         /\ fila'[peticion[p].placa] = Modificada(peticion[p].op, fila[peticion[p].placa])
<1> DEFINE r == peticion[p]
           f == fila[r.placa]
<1>1. r # Libre /\ r.paso = "comparada" /\ r.placa \in Placas /\ f \in Vehiculo \cup {SinFila}
  BY Forma DEF Ind, IndTipo, Escribir, EnPaso, Libre
<1>2. Cuadra(r, f) /\ Vigente(r, f)
  BY <1>1 DEF Ind, IndTipo, Cuadran, Regla, Coherente
<1>3. r.op \in Atendidas /\ Vale(r.op, f) /\ r.entidad = Modificada(r.op, f) /\ r.entidad \in Vehiculo
  BY <1>1, <1>2 DEF Cuadra, Vigente
<1>4. r.op # "crear" => r.base = f /\ f \in Vehiculo
  BY <1>1, <1>2 DEF Cuadra, Vigente
<1>5. fila'[r.placa] = IF r.op = "crear" THEN r.entidad ELSE Actualizada(r.entidad, r.base, f)
  BY <1>1 DEF Escribir, Guardar, Ind, IndTipo, TypeOK
<1>6. fila'[r.placa] = r.entidad
  BY <1>3, <1>4, <1>5, TipoActualizada
<1>7. QED
  BY <1>3, <1>6

LEMMA ReglaEscribir ==
  ASSUME Ind, NEW p \in Peticiones, Escribir(p)
  PROVE  Regla'
<1>v. PICK v \in Placas : v = peticion[p].placa /\ peticion[p] # Libre
  BY Forma DEF Ind, IndTipo, Escribir, EnPaso, Libre
<1>o. PICK op \in Operacion : op = peticion[p].op
  BY <1>v, Forma DEF Ind, IndTipo
<1>1. \A q \in Peticiones : peticion'[q] = IF q = p THEN Libre ELSE peticion[q]
  BY DEF Escribir, Terminar, Ind, IndTipo, TypeOK
<1>2. solapados' = solapados
  BY DEF Escribir
<1>3. \A w \in Placas : w # v => fila'[w] = fila[w] /\ pases'[w] = pases[w]
  BY <1>v DEF Escribir, Guardar, Ind, IndTipo, TypeOK
<1>4. pases'[v] = CASE op = "ingreso" -> pases[v] + 1 [] op = "salida" -> pases[v] - 1 [] OTHER -> pases[v]
  BY <1>v, <1>o DEF Escribir, Guardar, Ind, IndTipo, TypeOK
<1>f. PICK f \in Vehiculo \cup {SinFila} : f = fila[v]
  BY DEF Ind, IndTipo, TypeOK
<1>5. v \notin solapados => op \in Atendidas /\ Vale(op, f) /\ fila'[v] = Modificada(op, f)
  BY <1>v, <1>o, <1>f, Aplica
<1>6. OcupacionVeraz'
  <2> SUFFICES ASSUME NEW w \in Placas \ solapados
               PROVE  pases'[w] = IF fila'[w].estado = "dentro" THEN 1 ELSE 0
    BY <1>2 DEF OcupacionVeraz
  <2>1. pases[w] = IF fila[w].estado = "dentro" THEN 1 ELSE 0
    BY DEF Ind, Regla, OcupacionVeraz
  <2>2. CASE w = v
    <3>1. pases[v] = IF f.estado = "dentro" THEN 1 ELSE 0
      BY <2>1, <2>2, <1>f
    <3>2. CASE op = "ingreso"
      BY <2>2, <3>1, <3>2, <1>4, <1>5, Efecto
    <3>3. CASE op = "salida"
      BY <2>2, <3>1, <3>3, <1>4, <1>5, Efecto
    <3>4. CASE op \notin {"ingreso", "salida"}
      BY <2>2, <3>1, <3>4, <1>4, <1>5, Efecto
    <3>5. QED
      BY <3>2, <3>3, <3>4
  <2>3. CASE w # v
    BY <2>1, <2>3, <1>3
  <2>4. QED
    BY <2>2, <2>3
<1>7. DentroSinBloqueo'
  <2> SUFFICES ASSUME NEW w \in Placas \ solapados, fila'[w] # SinFila, fila'[w].estado = "dentro"
               PROVE  fila'[w].activo
    BY <1>2 DEF DentroSinBloqueo
  <2>1. fila[w] # SinFila /\ fila[w].estado = "dentro" => fila[w].activo
    BY DEF Ind, Regla, DentroSinBloqueo
  <2>2. CASE w = v
    <3>1. f.estado = "dentro" => f.activo
      BY <2>1, <2>2, <1>f DEF SinFila
    <3>2. QED
      BY <2>2, <3>1, <1>5, Efecto
  <2>3. CASE w # v
    BY <2>1, <2>3, <1>3
  <2>4. QED
    BY <2>2, <2>3
<1>8. Solitaria'
  BY <1>1, <1>2 DEF Ind, Regla, Solitaria
<1>9. Coherente'
  <2> SUFFICES ASSUME NEW q \in Peticiones, peticion'[q] # Libre, peticion'[q].placa \notin solapados'
               PROVE  Vigente(peticion'[q], fila'[peticion'[q].placa])
    BY DEF Coherente
  <2>1. q # p /\ peticion'[q] = peticion[q] /\ peticion[q] # Libre
    BY <1>1
  <2>2. peticion[q].placa \in Placas
    BY <2>1, Forma DEF Ind, IndTipo
  <2>3. peticion[q].placa # v
    BY <1>v, <1>2, <2>1 DEF Ind, Regla, Solitaria
  <2>4. Vigente(peticion[q], fila[peticion[q].placa])
    BY <1>2, <2>1 DEF Ind, Regla, Coherente
  <2>5. QED
    BY <1>3, <2>1, <2>2, <2>3, <2>4
<1>10. QED
  BY <1>6, <1>7, <1>8, <1>9 DEF Regla

LEMMA ReglaPaso == Ind /\ [Next]_vars => Ind'
<1> SUFFICES ASSUME Ind, [Next]_vars PROVE Ind'
  OBVIOUS
<1>1. IndTipo'
  BY TipoPaso DEF Ind
<1>2. Regla'
  <2>1. ASSUME NEW p \in Peticiones, Atender(p) PROVE Regla'
    BY <2>1, ReglaEmpezar, ReglaLeer, ReglaTerminar, ReglaAprobar, ReglaComparar, ReglaEscribir
    DEF Atender, Rechazar, EscribirFallido
  <2>2. CASE Caida
    BY <2>2 DEF Caida, SoloLee, Ind, Regla, OcupacionVeraz, DentroSinBloqueo, Solitaria, Coherente
  <2>3. CASE UNCHANGED vars
    BY <2>3 DEF vars, Ind, Regla, OcupacionVeraz, DentroSinBloqueo, Solitaria, Coherente
  <2>4. QED
    BY <2>1, <2>2, <2>3 DEF Next
<1>3. QED
  BY <1>1, <1>2 DEF Ind

\* Column estado tells whether the vehicle is inside, through edits, blocks,
\* reactivations, failed writes and crashes, while requests do not overlap.
THEOREM Ocupacion == Spec => []OcupacionVeraz
<1>1. Ind => OcupacionVeraz
  BY DEF Ind, Regla
<1>2. QED
  BY <1>1, ReglaInicial, ReglaPaso, PTL DEF Spec

\* The entry looks at the block and the block at the entry: without overlap no
\* vehicle is inside and blocked.
THEOREM Bloqueo == Spec => []DentroSinBloqueo
<1>1. Ind => DentroSinBloqueo
  BY DEF Ind, Regla
<1>2. QED
  BY <1>1, ReglaInicial, ReglaPaso, PTL DEF Spec

\* Although every save carries the whole entity, the gate writes only the state
\* and the administration only the block, while requests do not overlap.
THEOREM Columnas == Spec => CadaQuienLoSuyo
<1>1. Ind /\ [Next]_vars =>
        [\A v \in Placas \ solapados :
           fila[v] # SinFila /\ fila'[v] # fila[v] =>
             \E p \in Peticiones :
               /\ EnPaso(p, "comparada") /\ peticion[p].placa = v
               /\ fila'[v].estado # fila[v].estado => peticion[p].op \in {"ingreso", "salida"}
               /\ fila'[v].activo # fila[v].activo => peticion[p].op \in {"baja", "reactivar"}]_vars
  <2> SUFFICES ASSUME Ind, Next, NEW v \in Placas \ solapados, fila[v] # SinFila, fila'[v] # fila[v]
               PROVE  \E p \in Peticiones :
                        /\ EnPaso(p, "comparada") /\ peticion[p].placa = v
                        /\ fila'[v].estado # fila[v].estado => peticion[p].op \in {"ingreso", "salida"}
                        /\ fila'[v].activo # fila[v].activo => peticion[p].op \in {"baja", "reactivar"}
    OBVIOUS
  <2>1. PICK p \in Peticiones : Escribir(p)
    BY DEF Next, Atender, Empezar, Leer, Rechazar, Aprobar, Comparar, EscribirFallido, Caida, SoloLee
  <2>2. EnPaso(p, "comparada") /\ peticion[p].placa = v
    BY <2>1 DEF Escribir, Guardar, Ind, IndTipo, TypeOK
  <2>3. /\ peticion[p].op \in Atendidas
        /\ Vale(peticion[p].op, fila[v])
        /\ fila'[v] = Modificada(peticion[p].op, fila[v])
    BY <2>1, <2>2, Aplica
  <2>4. fila[v] \in Vehiculo \cup {SinFila}
    BY DEF Ind, IndTipo, TypeOK
  <2>5. /\ Modificada(peticion[p].op, fila[v]).estado # fila[v].estado =>
             peticion[p].op \in {"ingreso", "salida"}
        /\ Modificada(peticion[p].op, fila[v]).activo # fila[v].activo =>
             peticion[p].op \in {"baja", "reactivar"}
    BY <2>3, <2>4, Efecto
  <2>6. QED
    BY <2>2, <2>3, <2>5
<1>2. QED
  BY <1>1, ReglaInicial, ReglaPaso, PTL DEF Spec, CadaQuienLoSuyo

=============================================================================
