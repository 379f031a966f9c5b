------------------------- MODULE AsignacionesProofs -------------------------
(***************************************************************************)
(* Proofs about Asignaciones for any number of owners, vehicles and        *)
(* requests, with every failure and crash.                                 *)
(*                                                                         *)
(* The rule of one active owner is checked one or more awaits before the   *)
(* row is written, so it is not inductive: what carries it through is that *)
(* a request alone on its vehicle still sees, when it writes, what it read *)
(* (Coherente), and that a vehicle has one request at a time until the     *)
(* history says otherwise (Solitaria).                                     *)
(***************************************************************************)
EXTENDS Asignaciones, TLAPS, WellFoundedInduction

\* Where a request knows the state of its row.
ConFila == {"buscada", "aprobada", "comparada"}

\* What request p may rely on when nobody else touches its vehicle.
Vigente(p) ==
  LET k == peticion[p].clave
      f == fila[k]
      s == peticion[p].paso
  IN
    /\ s \in ConFila =>
         f = IF peticion[p].op = "crear" THEN "ausente" ELSE peticion[p].leida
    /\ s = "comparada" => peticion[p].base = f
    /\ s \in {"aprobada", "comparada"} /\ Entidad(p) = "activa" => Activas(k[2]) \subseteq {k[1]}

Coherente ==
  \A p \in Peticiones :
    peticion[p] # Libre /\ VehiculoDe(peticion[p].clave) \notin solapados => Vigente(p)

Solitaria ==
  \A p, q \in Peticiones :
    /\ peticion[p] # Libre
    /\ peticion[q] # Libre
    /\ p # q
    /\ VehiculoDe(peticion[p].clave) = VehiculoDe(peticion[q].clave)
    => VehiculoDe(peticion[p].clave) \in solapados

\* A change or a removal that is past its first read has found a row.
LeidaCuadra(r) ==
  /\ r.paso \in ConFila \cup {"escrita"} /\ r.op # "crear" => r.leida # "ausente"
  /\ r.paso = "validada" => r.op = "crear"

ConLeida == \A p \in Peticiones : LeidaCuadra(peticion[p])

IndTipo == TypeOK /\ ConLeida

Ind == IndTipo /\ UnaActivaSinSolape /\ Solitaria /\ Coherente

-----------------------------------------------------------------------------

\* A request is free or has a step, a key and an operation, and a row has one of
\* three states: the shape the other lemmas read a request with.
LEMMA Forma ==
  ASSUME TypeOK, NEW p \in Peticiones
  PROVE  /\ peticion[p] = Libre \/ peticion[p] \in Solicitud
         /\ peticion[p] # Libre <=> peticion[p].paso \in EnCurso
         /\ peticion[p] # Libre =>
              /\ peticion[p].clave \in Claves
              /\ peticion[p].clave[1] \in Usuarios
              /\ peticion[p].clave[2] \in Vehiculos
              /\ peticion[p].clave = <<peticion[p].clave[1], peticion[p].clave[2]>>
              /\ peticion[p].op \in Operacion
              /\ peticion[p].leida \in EstadoFila
              /\ Entidad(p) \in EstadoFila
BY DEF TypeOK, Solicitud, Libre, EnCurso, Claves, Operacion, Entidad, EstadoFila

\* A new audit record is one: the listener is told the state read, which a change
\* or a removal always has.
LEMMA RegistroCorrecto ==
  ASSUME IndTipo, NEW p \in Peticiones, EnPaso(p, "escrita")
  PROVE  NuevoRegistro(p, peticion[p].leida) \in Registro
BY Forma DEF IndTipo, ConLeida, LeidaCuadra, ConFila, EnPaso, Libre, NuevoRegistro, Registro, Accion, Entidad, EstadoFila, Operacion

-----------------------------------------------------------------------------

LEMMA TipoInicial == Init => IndTipo
BY AsignacionesAssumption
DEF Init, IndTipo, TypeOK, ConLeida, LeidaCuadra, ConFila, Libre, EstadoFila

\* A request that is replaced by a well formed one keeps the types.
LEMMA TipoPeticion ==
  ASSUME IndTipo, NEW p \in Peticiones, NEW r \in Solicitud \cup {Libre}, LeidaCuadra(r),
         peticion' = [peticion EXCEPT ![p] = r]
  PROVE  peticion' \in [Peticiones -> Solicitud \cup {Libre}] /\ ConLeida'
BY DEF IndTipo, TypeOK, ConLeida

\* The fields of a request that goes on.
LEMMA TipoAvanzar ==
  ASSUME IndTipo, NEW p \in Peticiones, peticion[p] # Libre, NEW paso \in EnCurso,
         NEW leida \in EstadoFila, NEW base \in EstadoFila,
         paso \in ConFila \cup {"escrita"} /\ peticion[p].op # "crear" => leida # "ausente",
         paso = "validada" => peticion[p].op = "crear",
         peticion' = [peticion EXCEPT ![p] =
           [peticion[p] EXCEPT !.paso = paso, !.leida = leida, !.base = base]]
  PROVE  peticion' \in [Peticiones -> Solicitud \cup {Libre}] /\ ConLeida'
<1> DEFINE r == [peticion[p] EXCEPT !.paso = paso, !.leida = leida, !.base = base]
<1>1. peticion[p] \in Solicitud
  BY Forma DEF IndTipo
<1>2. r \in Solicitud /\ r.paso = paso /\ r.leida = leida /\ r.op = peticion[p].op
  BY <1>1 DEF Solicitud
<1>3. LeidaCuadra(r)
  BY <1>2 DEF LeidaCuadra
<1>4. peticion' = [peticion EXCEPT ![p] = r]
  OBVIOUS
<1> HIDE DEF r
<1>5. QED
  BY <1>2, <1>3, <1>4, TipoPeticion

\* A request that ends.
LEMMA TipoTerminar ==
  ASSUME IndTipo, NEW p \in Peticiones, Terminar(p)
  PROVE  peticion' \in [Peticiones -> Solicitud \cup {Libre}] /\ ConLeida'
<1>1. LeidaCuadra(Libre)
  BY DEF LeidaCuadra, Libre, ConFila
<1>2. QED
  BY <1>1, TipoPeticion DEF Terminar

\* Where a request goes from its first read, and what it has read then.
LEMMA TipoTrasLeer ==
  ASSUME NEW op \in Operacion, NEW f \in EstadoFila, TrasLeer(op, f) # "libre"
  PROVE  TrasLeer(op, f) \in {"buscada", "aprobada"} /\ f # "ausente"
BY DEF TrasLeer, EstadoFila

\* A step of a request that writes nothing keeps the types.
LEMMA TipoLectura ==
  ASSUME IndTipo, NEW p \in Peticiones,
         \/ ValidarReferencias(p)
         \/ BuscarClave(p)
         \/ LeerFila(p)
         \/ BuscarActiva(p)
         \/ Comparar(p)
  PROVE  IndTipo'
<1> DEFINE r == peticion[p]
           Sigue(paso, leida, base) ==
             peticion' = [peticion EXCEPT ![p] =
               [r EXCEPT !.paso = paso, !.leida = leida, !.base = base]]
           f == fila[r.clave]
<1>1. r \in Solicitud
  BY Forma DEF IndTipo, ValidarReferencias, BuscarClave, LeerFila, BuscarActiva, Comparar, EnPaso, Libre
<1>2. r # Libre /\ f \in EstadoFila /\ r.leida \in EstadoFila /\ r.base \in EstadoFila /\ r.op \in Operacion
  BY <1>1, Forma DEF IndTipo, TypeOK, Solicitud, Libre, EnCurso
<1>3. LeidaCuadra(r)
  BY DEF IndTipo, ConLeida
<1>4. ASSUME NEW paso, Avanzar(p, paso) PROVE Sigue(paso, r.leida, r.base)
  BY <1>4, <1>1, Forma DEF IndTipo, TypeOK, Avanzar, Solicitud
<1>5. peticion' \in [Peticiones -> Solicitud \cup {Libre}] /\ ConLeida'
  <2>1. CASE Terminar(p)
    BY <2>1, TipoTerminar
  <2>2. CASE ValidarReferencias(p) /\ Avanzar(p, "validada")
    BY <2>2, <1>2, <1>4, TipoAvanzar DEF ValidarReferencias, EnCurso, ConFila
  <2>3. CASE BuscarClave(p) /\ Avanzar(p, "buscada")
    <3>1. r.op = "crear" /\ Sigue("buscada", r.leida, r.base)
      BY <2>3, <1>3, <1>4 DEF BuscarClave, EnPaso, LeidaCuadra
    <3>2. QED
      BY <3>1, <1>2, TipoAvanzar DEF EnCurso
  <2>4. CASE LeerFila(p) /\ TrasLeer(r.op, f) # "libre"
    <3>1. Sigue(TrasLeer(r.op, f), f, r.base)
      BY <2>4, <1>1, Forma DEF IndTipo, TypeOK, LeerFila, Solicitud
    <3>2. QED
      BY <3>1, <2>4, <1>2, TipoTrasLeer, TipoAvanzar DEF EnCurso
  <2>5. CASE BuscarActiva(p) /\ Avanzar(p, "aprobada")
    <3>1. r.op # "crear" => r.leida # "ausente"
      BY <2>5, <1>3 DEF BuscarActiva, EnPaso, LeidaCuadra, ConFila
    <3>2. Sigue("aprobada", r.leida, r.base)
      BY <2>5, <1>4
    <3>3. QED
      BY <3>1, <3>2, <1>2, TipoAvanzar DEF EnCurso
  <2>6. CASE Comparar(p)
    <3>1. Sigue("comparada", r.leida, f)
      BY <2>6, <1>1, Forma DEF IndTipo, TypeOK, Comparar, Solicitud
    <3>2. r.op # "crear" => r.leida # "ausente"
      BY <2>6, <1>3 DEF Comparar, EnPaso, LeidaCuadra, ConFila
    <3>3. "comparada" \in EnCurso /\ f \in EstadoFila /\ r # Libre /\ r.leida \in EstadoFila
      BY <1>2 DEF EnCurso
    <3> HIDE DEF f
    <3>4. QED
      BY <3>1, <3>2, <3>3, TipoAvanzar
  <2>7. QED
    BY <2>1, <2>2, <2>3, <2>4, <2>5, <2>6
    DEF ValidarReferencias, BuscarClave, LeerFila, BuscarActiva
<1>6. SoloLee
  BY DEF ValidarReferencias, BuscarClave, LeerFila, BuscarActiva, Comparar
<1>7. QED
  BY <1>5, <1>6 DEF IndTipo, TypeOK, SoloLee

LEMMA TipoEmpezar ==
  ASSUME IndTipo, NEW p \in Peticiones, NEW op \in Operacion, NEW clave \in Claves,
         Empezar(p, op, clave)
  PROVE  IndTipo'
<1> DEFINE r == [paso |-> "recibida", op |-> op, clave |-> clave,
                 leida |-> "ausente", base |-> "ausente"]
<1>1. r \in Solicitud
  BY DEF Solicitud, EnCurso, EstadoFila
<1>2. LeidaCuadra(r)
  BY DEF LeidaCuadra, ConFila
<1>3. peticion' = [peticion EXCEPT ![p] = r]
  BY DEF Empezar
<1>4. peticion' \in [Peticiones -> Solicitud \cup {Libre}] /\ ConLeida'
  <2> HIDE DEF r
  <2> QED
    BY <1>1, <1>2, <1>3, TipoPeticion
<1>5. recibidas' \in 0..MaxPeticiones
  BY AsignacionesAssumption DEF IndTipo, TypeOK, Empezar
<1>6. VehiculoDe(clave) \in Vehiculos
  BY DEF VehiculoDe, Claves
<1>7. solapados' \subseteq Vehiculos
  BY <1>6 DEF IndTipo, TypeOK, Empezar
<1>8. QED
  BY <1>4, <1>5, <1>7 DEF IndTipo, TypeOK, Empezar

\* The row a request writes is one, whether it differs or not.
LEMMA FilaGuardada ==
  ASSUME IndTipo, NEW p \in Peticiones, peticion[p] # Libre, Guardar(p)
  PROVE  fila' \in [Claves -> EstadoFila]
BY Forma DEF IndTipo, TypeOK, Guardar

LEMMA TipoEscritura ==
  ASSUME IndTipo, NEW p \in Peticiones, Escribir(p) \/ EscribirFallido(p)
  PROVE  IndTipo'
<1> DEFINE r == peticion[p]
<1>1. r # Libre /\ r.paso = "comparada"
  BY DEF Escribir, EscribirFallido, EnPaso, Libre
<1>2. r \in Solicitud /\ r.leida \in EstadoFila /\ r.base \in EstadoFila /\ r.clave \in Claves
  BY <1>1, Forma DEF IndTipo, Solicitud
<1>3. r.op # "crear" => r.leida # "ausente"
  BY <1>1 DEF IndTipo, ConLeida, LeidaCuadra, ConFila
<1>4. fila' \in [Claves -> EstadoFila]
  BY <1>1, FilaGuardada DEF Escribir, EscribirFallido, IndTipo, TypeOK
<1>5. peticion' \in [Peticiones -> Solicitud \cup {Libre}] /\ ConLeida'
  <2>1. CASE Escribir(p)
    <3>1. peticion' = [peticion EXCEPT ![p] =
            [r EXCEPT !.paso = "escrita", !.leida = r.leida, !.base = r.base]]
      BY <2>1, <1>2 DEF IndTipo, TypeOK, Escribir, Avanzar, Solicitud
    <3>2. "escrita" \in EnCurso /\ r # Libre /\ r.leida \in EstadoFila /\ r.base \in EstadoFila
      BY <1>1, <1>2 DEF EnCurso
    <3>3. "escrita" = "validada" => r.op = "crear"
      OBVIOUS
    <3>4. QED
      BY <3>1, <3>2, <3>3, <1>3, TipoAvanzar, ZenonT(30)
  <2>2. CASE EscribirFallido(p)
    BY <2>2, TipoTerminar DEF EscribirFallido
  <2>3. QED
    BY <2>1, <2>2
<1>6. sinRegistro' \subseteq Claves
  BY <1>2 DEF Escribir, EscribirFallido, IndTipo, TypeOK
<1>7. QED
  BY <1>4, <1>5, <1>6 DEF Escribir, EscribirFallido, IndTipo, TypeOK

LEMMA TipoEmitir ==
  ASSUME IndTipo, NEW p \in Peticiones, Emitir(p)
  PROVE  IndTipo'
<1>1. NuevoRegistro(p, peticion[p].leida) \in Registro
  BY RegistroCorrecto DEF Emitir
<1>2. registros' \in Seq(Registro)
  BY <1>1 DEF IndTipo, TypeOK, Emitir
<1>3. peticion' \in [Peticiones -> Solicitud \cup {Libre}] /\ ConLeida'
  BY TipoTerminar DEF Emitir
<1>4. QED
  BY <1>2, <1>3 DEF IndTipo, TypeOK, Emitir

LEMMA TipoRegistrar ==
  ASSUME IndTipo, NEW i \in DOMAIN registros, Registrar(i)
  PROVE  IndTipo'
<1>1. registros \in Seq(Registro) /\ registros[i] \in Registro
  BY DEF IndTipo, TypeOK
<1>2. registros[i].clave \in Claves
  BY <1>1 DEF Registro
<1>3. \A e \in {"guardado", "perdido"} : [registros[i] EXCEPT !.estado = e] \in Registro
  BY <1>1 DEF Registro
<1>4. \E e \in {"guardado", "perdido"} :
        registros' = [registros EXCEPT ![i] = [registros[i] EXCEPT !.estado = e]]
  BY DEF Registrar
<1>5. registros' \in Seq(Registro)
  BY <1>1, <1>3, <1>4
<1>6. sinRegistro' \subseteq Claves
  BY <1>2 DEF IndTipo, TypeOK, Registrar
<1>7. QED
  BY <1>5, <1>6 DEF IndTipo, TypeOK, ConLeida, LeidaCuadra, Registrar

LEMMA TipoCaida ==
  ASSUME IndTipo, Caida
  PROVE  IndTipo'
<1>1. peticion' \in [Peticiones -> Solicitud \cup {Libre}] /\ ConLeida'
  BY DEF Caida, ConLeida, LeidaCuadra, Libre, ConFila
<1>2. \A r \in Registro : [r EXCEPT !.estado = "perdido"] \in Registro
  BY DEF Registro
<1>3. registros' \in Seq(Registro)
  <2>1. PICK n \in Nat : registros \in [1..n -> Registro] /\ DOMAIN registros = 1..n
    BY DEF IndTipo, TypeOK
  <2>2. registros' \in [1..n -> Registro]
    BY <2>1, <1>2 DEF Caida
  <2>3. QED
    BY <2>1, <2>2
<1>4. \A p \in Peticiones : EnPaso(p, "escrita") => peticion[p].clave \in Claves
  BY Forma DEF IndTipo, EnPaso, Libre
<1>5. \A i \in DOMAIN registros : registros[i].clave \in Claves
  <2>1. \A i \in DOMAIN registros : registros[i] \in Registro
    BY DEF IndTipo, TypeOK
  <2>2. QED
    BY <2>1 DEF Registro
<1>6. sinRegistro' \subseteq Claves
  <2> DEFINE cortadas   == {p \in Peticiones : EnPaso(p, "escrita")}
             pendientes == {i \in DOMAIN registros : registros[i].estado = "pendiente"}
             CC == {peticion[p].clave : p \in cortadas}
             CP == {registros[i].clave : i \in pendientes}
  <2>1. CC \subseteq Claves /\ CP \subseteq Claves
    BY <1>4, <1>5
  <2>2. sinRegistro' = sinRegistro \cup CC \cup CP
    BY DEF Caida
  <2> HIDE DEF CC, CP
  <2>3. QED
    BY <2>1, <2>2 DEF IndTipo, TypeOK
<1>7. QED
  BY <1>1, <1>3, <1>6 DEF IndTipo, TypeOK, Caida

LEMMA TipoPaso == IndTipo /\ [Next]_vars => IndTipo'
<1> SUFFICES ASSUME IndTipo, [Next]_vars PROVE IndTipo'
  OBVIOUS
<1>1. ASSUME NEW p \in Peticiones, Atender(p) PROVE IndTipo'
  BY <1>1, TipoEmpezar, TipoLectura, TipoEscritura, TipoEmitir DEF Atender
<1>2. ASSUME NEW i \in DOMAIN registros, Registrar(i) PROVE IndTipo'
  BY <1>2, TipoRegistrar
<1>3. CASE Caida
  BY <1>3, TipoCaida
<1>4. CASE UNCHANGED vars
  BY <1>4 DEF IndTipo, TypeOK, ConLeida, LeidaCuadra, vars
<1>5. QED
  BY <1>1, <1>2, <1>3, <1>4 DEF Next

\* Every variable keeps its type: no record of the audit trail and no row ever
\* takes a value the columns do not have.
THEOREM TipoCorrecto == Spec => []TypeOK
<1>1. IndTipo => TypeOK
  BY DEF IndTipo
<1>2. QED
  BY <1>1, TipoInicial, TipoPaso, PTL DEF Spec

-----------------------------------------------------------------------------
(***************************************************************************)
(* One active owner.                                                       *)
(***************************************************************************)

Regla == UnaActivaSinSolape /\ Solitaria /\ Coherente

\* Writing a row changes the active owners of its vehicle only, and adds none but
\* the owner in its key.
LEMMA EscribirFila ==
  ASSUME TypeOK, NEW k \in Claves, NEW e \in EstadoFila, fila' = [fila EXCEPT ![k] = e]
  PROVE  /\ \A v \in Vehiculos : v # k[2] => Activas(v)' = Activas(v)
         /\ Activas(k[2])' \subseteq Activas(k[2]) \cup {k[1]}
         /\ e # "activa" => Activas(k[2])' \subseteq Activas(k[2])
<1>1. fila \in [Claves -> EstadoFila] /\ k \in Usuarios \X Vehiculos
  BY DEF TypeOK, Claves
<1>2. \A u \in Usuarios, v \in Vehiculos :
        fila'[<<u, v>>] = IF <<u, v>> = k THEN e ELSE fila[<<u, v>>]
  BY <1>1 DEF Claves
<1>3. \A u \in Usuarios, v \in Vehiculos : <<u, v>> = k <=> u = k[1] /\ v = k[2]
  BY <1>1
<1>4. k[2] \in Vehiculos
  BY <1>1
<1>5. QED
  BY <1>2, <1>3, <1>4 DEF Activas

\* What a request relies on depends on itself and on the rows of its vehicle.
LEMMA VigenteEstable ==
  ASSUME NEW q \in Peticiones, peticion'[q] = peticion[q],
         fila'[peticion[q].clave] = fila[peticion[q].clave],
         Activas(peticion[q].clave[2])' = Activas(peticion[q].clave[2]),
         Vigente(q)
  PROVE  Vigente(q)'
BY DEF Vigente, Entidad, Activas

\* A step of one request that leaves the table alone keeps the rule, if what the
\* request relies on from then on is so.
LEMMA ReglaSinEscribir ==
  ASSUME Ind, NEW p \in Peticiones,
         fila' = fila, solapados' = solapados,
         \A q \in Peticiones \ {p} : peticion'[q] = peticion[q],
         \/ peticion'[p] = Libre
         \/ /\ peticion[p] # Libre
            /\ peticion'[p].clave = peticion[p].clave
            /\ VehiculoDe(peticion[p].clave) \notin solapados => Vigente(p)'
  PROVE  Regla'
<1>1. UnaActivaSinSolape'
  BY DEF Ind, UnaActivaSinSolape, Activas
<1>2. Solitaria'
  BY DEF Ind, Solitaria
<1>3. \A q \in Peticiones \ {p} : Vigente(q) => Vigente(q)'
  BY VigenteEstable DEF Activas
<1>4. Coherente'
  BY <1>3 DEF Ind, Coherente
<1>5. QED
  BY <1>1, <1>2, <1>4 DEF Regla

\* The write itself: it only goes to the row of a request that compared, and what
\* that request relies on keeps the rule.
LEMMA ReglaAlEscribir ==
  ASSUME Ind, NEW p \in Peticiones, EnPaso(p, "comparada"),
         fila' = fila \/ Guardar(p), solapados' = solapados,
         \A q \in Peticiones \ {p} : peticion'[q] = peticion[q],
         \/ peticion'[p] = Libre
         \/ peticion'[p].clave = peticion[p].clave /\ peticion'[p].paso = "escrita"
  PROVE  Regla'
<1>a. peticion[p] # Libre
  BY DEF EnPaso, Libre
<1>k. PICK k \in Claves : k = peticion[p].clave /\ k[2] \in Vehiculos
  BY <1>a, Forma DEF Ind, IndTipo
<1>e. PICK e \in EstadoFila : e = Entidad(p)
  BY <1>a, Forma DEF Ind, IndTipo
<1>1. peticion[p] # Libre /\ peticion[p].clave = k /\ k[2] \in Vehiculos
  BY <1>a, <1>k
<1>2. fila' = fila \/ fila' = [fila EXCEPT ![k] = e]
  BY <1>k, <1>e DEF Guardar
<1>3. \A v \in Vehiculos : v # k[2] => Activas(v)' = Activas(v)
  BY <1>1, <1>2, EscribirFila DEF Ind, IndTipo, Activas
<1>4. /\ Activas(k[2])' \subseteq Activas(k[2]) \cup {k[1]}
      /\ e # "activa" \/ fila' = fila => Activas(k[2])' \subseteq Activas(k[2])
  BY <1>1, <1>2, EscribirFila DEF Ind, IndTipo, Activas
<1>5. UnaActivaSinSolape'
  <2> SUFFICES ASSUME NEW v \in Vehiculos, v \notin solapados,
                      NEW u \in Activas(v)', NEW w \in Activas(v)'
               PROVE  u = w
    BY DEF UnaActivaSinSolape
  <2>1. \A x, y \in Activas(v) : x = y
    BY DEF Ind, UnaActivaSinSolape
  <2>2. CASE v = k[2] /\ e = "activa"
    <3>1. Vigente(p)
      BY <1>1, <2>2 DEF Ind, Coherente, VehiculoDe
    <3>2. Activas(v) \subseteq {k[1]}
      BY <3>1, <2>2, <1>k, <1>e DEF Vigente, EnPaso
    <3>3. QED
      BY <3>2, <1>4, <2>2
  <2>3. CASE v = k[2] /\ e # "activa"
    BY <2>1, <2>3, <1>4
  <2>4. CASE v # k[2]
    BY <2>1, <2>4, <1>3
  <2>5. QED
    BY <2>2, <2>3, <2>4
<1>6. Solitaria'
  BY <1>1 DEF Ind, Solitaria
<1>7. Coherente'
  <2> SUFFICES ASSUME NEW q \in Peticiones, peticion'[q] # Libre,
                      VehiculoDe(peticion'[q].clave) \notin solapados
               PROVE  Vigente(q)'
    BY DEF Coherente
  <2>1. CASE q = p
    BY <2>1 DEF Vigente, ConFila, Libre
  <2>2. CASE q # p
    <3>1. peticion'[q] = peticion[q] /\ peticion[q] # Libre
      BY <2>2
    <3>2. Vigente(q)
      BY <3>1 DEF Ind, Coherente
    <3>3. peticion[q].clave \in Claves /\ peticion[q].clave[2] \in Vehiculos
      BY <3>1, Forma DEF Ind, IndTipo
    <3>4. peticion[q].clave[2] # k[2]
      BY <3>1, <2>2, <1>1 DEF Ind, Solitaria, VehiculoDe
    <3>5. Activas(peticion[q].clave[2])' = Activas(peticion[q].clave[2])
      <4>1. PICK v \in Vehiculos : v = peticion[q].clave[2] /\ v # k[2]
        BY <3>3, <3>4
      <4>2. Activas(v)' = Activas(v)
        BY <4>1, <1>3
      <4>3. QED
        BY <4>1, <4>2, <3>1 DEF Activas
    <3>6. fila'[peticion[q].clave] = fila[peticion[q].clave]
      BY <3>3, <3>4, <1>1, <1>2 DEF Ind, IndTipo, TypeOK
    <3>7. QED
      BY <3>1, <3>2, <3>5, <3>6, VigenteEstable
  <2>3. QED
    BY <2>1, <2>2
<1>8. QED
  BY <1>5, <1>6, <1>7 DEF Regla

LEMMA ReglaInicial == Init => Ind
BY TipoInicial
DEF Init, Ind, UnaActivaSinSolape, Solitaria, Coherente, Activas, Claves, Libre

LEMMA ReglaEmpezar ==
  ASSUME Ind, NEW p \in Peticiones, NEW op \in Operacion, NEW clave \in Claves,
         Empezar(p, op, clave)
  PROVE  Regla'
<1>1. peticion \in [Peticiones -> Solicitud \cup {Libre}]
  BY DEF Ind, IndTipo, TypeOK
<1>2. /\ \A q \in Peticiones \ {p} : peticion'[q] = peticion[q]
      /\ peticion'[p].clave = clave /\ peticion'[p].paso = "recibida" /\ peticion'[p] # Libre
  BY <1>1 DEF Empezar, Libre
<1>3. fila' = fila /\ solapados \subseteq solapados'
  BY DEF Empezar
<1>4. \A q \in Peticiones : peticion[q] # Libre <=> peticion[q].paso \in EnCurso
  BY Forma DEF Ind, IndTipo
<1>5. Solitaria'
  <2>1. ASSUME NEW q \in Peticiones \ {p}, peticion[q] # Libre,
               VehiculoDe(peticion[q].clave) = VehiculoDe(clave)
        PROVE  VehiculoDe(clave) \in solapados'
    BY <2>1, <1>4 DEF Empezar, EnCursoSobre
  <2>2. QED
    BY <2>1, <1>2, <1>3 DEF Ind, Solitaria
<1>6. UnaActivaSinSolape'
  BY <1>3 DEF Ind, UnaActivaSinSolape, Activas
<1>7. Coherente'
  <2>1. \A q \in Peticiones \ {p} : Vigente(q) => Vigente(q)'
    BY <1>2, <1>3, VigenteEstable DEF Activas
  <2>2. Vigente(p)'
    BY <1>2 DEF Vigente, ConFila
  <2>3. QED
    BY <2>1, <2>2, <1>2, <1>3 DEF Ind, Coherente
<1>8. QED
  BY <1>5, <1>6, <1>7 DEF Regla

LEMMA ReglaLectura ==
  ASSUME Ind, NEW p \in Peticiones,
         \/ ValidarReferencias(p)
         \/ BuscarClave(p)
         \/ LeerFila(p)
         \/ BuscarActiva(p)
         \/ Comparar(p)
  PROVE  Regla'
<1> DEFINE r == peticion[p]
           v == VehiculoDe(r.clave)
<1>1. peticion \in [Peticiones -> Solicitud \cup {Libre}]
  BY DEF Ind, IndTipo, TypeOK
<1>2. r # Libre /\ r \in Solicitud /\ r.op \in Operacion
  BY Forma DEF Ind, IndTipo, ValidarReferencias, BuscarClave, LeerFila, BuscarActiva, Comparar, EnPaso, Libre
<1>3. fila' = fila /\ solapados' = solapados /\ \A q \in Peticiones \ {p} : peticion'[q] = peticion[q]
  BY <1>1 DEF ValidarReferencias, BuscarClave, LeerFila, BuscarActiva, Comparar, Avanzar, Terminar, SoloLee
<1>4. CASE Terminar(p)
  <2>1. peticion'[p] = Libre
    BY <1>1, <1>4 DEF Terminar
  <2>2. QED
    BY <2>1, <1>3, ReglaSinEscribir
<1>5. ASSUME NEW paso, NEW leida, NEW base,
             peticion'[p] = [r EXCEPT !.paso = paso, !.leida = leida, !.base = base],
             v \notin solapados => Vigente(p)'
      PROVE  Regla'
  BY <1>5, <1>2, <1>3, ReglaSinEscribir DEF Solicitud
<1>6. ASSUME NEW paso, Avanzar(p, paso)
      PROVE  peticion'[p] = [r EXCEPT !.paso = paso, !.leida = r.leida, !.base = r.base]
  BY <1>6, <1>1, <1>2 DEF Avanzar, Solicitud
<1>7. v \notin solapados => Vigente(p)
  BY <1>2 DEF Ind, Coherente
<1>8. CASE ValidarReferencias(p) /\ Avanzar(p, "validada")
  <2>1. peticion'[p].paso = "validada"
    BY <1>8, <1>6, <1>2 DEF Solicitud
  <2>2. Vigente(p)'
    BY <2>1 DEF Vigente, ConFila
  <2>3. QED
    BY <2>2, <1>8, <1>5, <1>6
<1>9. CASE BuscarClave(p) /\ Avanzar(p, "buscada")
  <2>1. r.op = "crear" /\ fila[r.clave] = "ausente"
    <3>1. r.op = "crear"
      BY <1>9 DEF BuscarClave, EnPaso, Ind, IndTipo, ConLeida, LeidaCuadra
    <3>2. Avanzar(p, "buscada") => ~Terminar(p)
      BY <1>1, <1>2 DEF Avanzar, Terminar, Libre, Solicitud
    <3>3. QED
      BY <3>1, <3>2, <1>9 DEF BuscarClave
  <2>2. peticion'[p].paso = "buscada" /\ peticion'[p].op = "crear" /\ peticion'[p].clave = r.clave
    <3>1. peticion'[p] = [r EXCEPT !.paso = "buscada", !.leida = r.leida, !.base = r.base]
      BY <1>9, <1>6
    <3>2. QED
      BY <3>1, <2>1, <1>2 DEF Solicitud
  <2>3. Vigente(p)'
    BY <2>1, <2>2, <1>3 DEF Vigente
  <2>4. QED
    BY <2>3, <1>9, <1>5, <1>6
<1>10. CASE BuscarActiva(p) /\ Avanzar(p, "aprobada")
  <2>1. Activas(v) = {}
    <3>1. Avanzar(p, "aprobada") => ~Terminar(p)
      BY <1>1, <1>2 DEF Avanzar, Terminar, Libre, Solicitud
    <3>2. QED
      BY <3>1, <1>10 DEF BuscarActiva
  <2>2. /\ peticion'[p].paso = "aprobada"
        /\ peticion'[p].op = r.op /\ peticion'[p].clave = r.clave /\ peticion'[p].leida = r.leida
    <3>1. peticion'[p] = [r EXCEPT !.paso = "aprobada", !.leida = r.leida, !.base = r.base]
      BY <1>10, <1>6
    <3>2. QED
      BY <3>1, <1>2 DEF Solicitud
  <2>3. ASSUME v \notin solapados PROVE Vigente(p)'
    BY <2>1, <2>2, <2>3, <1>3, <1>7, <1>10 DEF Vigente, BuscarActiva, EnPaso, ConFila, Activas, VehiculoDe
  <2>4. QED
    BY <2>3, <1>10, <1>5, <1>6
<1>11. CASE Comparar(p)
  <2>1. peticion'[p] = [r EXCEPT !.paso = "comparada", !.leida = r.leida, !.base = fila[r.clave]]
    BY <1>11, <1>1, <1>2 DEF Comparar, Solicitud
  <2>2. /\ peticion'[p].paso = "comparada" /\ peticion'[p].base = fila[r.clave]
        /\ peticion'[p].op = r.op /\ peticion'[p].clave = r.clave /\ peticion'[p].leida = r.leida
    BY <2>1, <1>2 DEF Solicitud
  <2>3. ASSUME v \notin solapados PROVE Vigente(p)'
    BY <2>2, <2>3, <1>3, <1>7, <1>11 DEF Vigente, Comparar, EnPaso, ConFila, Entidad, Activas
  <2>4. QED
    BY <2>1, <2>3, <1>5
<1>12. CASE LeerFila(p) /\ TrasLeer(r.op, fila[r.clave]) # "libre"
  <2> DEFINE f == fila[r.clave]
             s == TrasLeer(r.op, f)
  <2>1. peticion'[p] = [r EXCEPT !.paso = s, !.leida = f, !.base = r.base]
    <3>1. peticion' = [peticion EXCEPT ![p].leida = f, ![p].paso = s]
      BY <1>12 DEF LeerFila
    <3> HIDE DEF f, s
    <3>2. QED
      BY <3>1, <1>1, <1>2 DEF Solicitud
  <2>2. /\ peticion'[p].paso = s /\ peticion'[p].leida = f
        /\ peticion'[p].op = r.op /\ peticion'[p].clave = r.clave
    BY <2>1, <1>2 DEF Solicitud
  <2>3. s \in {"buscada", "aprobada"} /\ r.op # "crear"
    BY <1>12, <1>2, Forma, TipoTrasLeer DEF Ind, IndTipo, TypeOK, LeerFila
  <2>4. ASSUME v \notin solapados, s = "aprobada", Entidad(p)' = "activa"
        PROVE  Activas(v) \subseteq {r.clave[1]}
    <3>1. f = "activa"
      <4>1. f \in EstadoFila
        BY <1>2, Forma DEF Ind, IndTipo, TypeOK
      <4>2. r.op = "activar" \/ (r.op = "anotar" /\ Entidad(p)' = f)
        BY <2>2, <2>3, <2>4, <1>2 DEF Entidad, Operacion
      <4>3. r.op = "activar" => f # "inactiva" /\ f # "ausente"
        BY <2>4, <1>12 DEF TrasLeer
      <4>4. QED
        BY <4>1, <4>2, <4>3, <2>4 DEF EstadoFila
    <3>2. r.clave[1] \in Activas(v) /\ v \in Vehiculos
      BY <3>1, <1>2, Forma DEF Ind, IndTipo, Activas, VehiculoDe
    <3>3. QED
      BY <3>2, <2>4 DEF Ind, UnaActivaSinSolape
  <2>5. ASSUME v \notin solapados PROVE Vigente(p)'
    BY <2>2, <2>3, <2>4, <2>5, <1>3 DEF Vigente, ConFila, Activas, VehiculoDe
  <2>6. QED
    BY <2>1, <2>5, <1>5
<1>13. QED
  BY <1>4, <1>8, <1>9, <1>10, <1>11, <1>12
  DEF ValidarReferencias, BuscarClave, LeerFila, BuscarActiva

LEMMA ReglaEscritura ==
  ASSUME Ind, NEW p \in Peticiones, Escribir(p) \/ EscribirFallido(p)
  PROVE  Regla'
<1>1. peticion \in [Peticiones -> Solicitud \cup {Libre}]
  BY DEF Ind, IndTipo, TypeOK
<1>2. EnPaso(p, "comparada") /\ solapados' = solapados /\ (fila' = fila \/ Guardar(p))
  BY DEF Escribir, EscribirFallido
<1>3. \A q \in Peticiones \ {p} : peticion'[q] = peticion[q]
  BY <1>1 DEF Escribir, EscribirFallido, Avanzar, Terminar
<1>4. peticion[p] \in Solicitud
  BY <1>1, <1>2 DEF EnPaso, Libre
<1>5. \/ peticion'[p] = Libre
      \/ peticion'[p].clave = peticion[p].clave /\ peticion'[p].paso = "escrita"
  BY <1>1, <1>4 DEF Escribir, EscribirFallido, Avanzar, Terminar, Solicitud
<1>6. QED
  BY <1>2, <1>3, <1>5, ReglaAlEscribir

LEMMA ReglaEmitir ==
  ASSUME Ind, NEW p \in Peticiones, Emitir(p)
  PROVE  Regla'
<1>1. peticion \in [Peticiones -> Solicitud \cup {Libre}]
  BY DEF Ind, IndTipo, TypeOK
<1>2. peticion'[p] = Libre /\ \A q \in Peticiones \ {p} : peticion'[q] = peticion[q]
  BY <1>1 DEF Emitir, Terminar
<1>3. fila' = fila /\ solapados' = solapados
  BY DEF Emitir
<1>4. QED
  BY <1>2, <1>3, ReglaSinEscribir

\* Recording, and stuttering, touch nothing the rule speaks of.
LEMMA ReglaIgual ==
  ASSUME Ind, UNCHANGED <<peticion, fila, solapados>>
  PROVE  Regla'
<1>1. \A q \in Peticiones : Vigente(q) => Vigente(q)'
  BY VigenteEstable DEF Activas
<1>2. QED
  BY <1>1 DEF Ind, Regla, UnaActivaSinSolape, Solitaria, Coherente, Activas

LEMMA ReglaCaida ==
  ASSUME Ind, Caida
  PROVE  Regla'
BY DEF Ind, Caida, Regla, UnaActivaSinSolape, Solitaria, Coherente, Activas

LEMMA ReglaPaso == Ind /\ [Next]_vars => Ind'
<1> SUFFICES ASSUME Ind, [Next]_vars PROVE Ind'
  OBVIOUS
<1>1. IndTipo'
  BY TipoPaso DEF Ind
<1>2. Regla'
  <2>1. ASSUME NEW p \in Peticiones, Atender(p) PROVE Regla'
    BY <2>1, ReglaEmpezar, ReglaLectura, ReglaEscritura, ReglaEmitir DEF Atender
  <2>2. ASSUME NEW i \in DOMAIN registros, Registrar(i) PROVE Regla'
    BY <2>2, ReglaIgual DEF Registrar
  <2>3. CASE Caida
    BY <2>3, ReglaCaida
  <2>4. CASE UNCHANGED vars
    BY <2>4, ReglaIgual DEF vars
  <2>5. QED
    BY <2>1, <2>2, <2>3, <2>4 DEF Next
<1>3. QED
  BY <1>1, <1>2 DEF Ind, Regla

\* A vehicle whose requests never overlapped has one active owner at most,
\* through creations, removals, reactivations, failed writes and crashes: the
\* search before each save is enough when nobody else is between the two.
THEOREM UnaActiva == Spec => []UnaActivaSinSolape
<1>1. Ind => UnaActivaSinSolape
  BY DEF Ind
<1>2. QED
  BY <1>1, ReglaInicial, ReglaPaso, PTL DEF Spec

\* Only a request to reactivate writes TRUE over a removed assignment.
LEMMA SoloActivarRevive ==
  ASSUME Ind, NEW k \in Claves, fila[k] = "inactiva", fila'[k] = "activa",
         VehiculoDe(k) \notin solapados,
         NEW p \in Peticiones, EnPaso(p, "comparada"), Guardar(p)
  PROVE  peticion[p].op = "activar" /\ peticion[p].clave = k
<1>1. peticion[p] # Libre /\ peticion[p].op \in Operacion
  BY Forma DEF Ind, IndTipo, EnPaso, Libre
<1>2. peticion[p].clave = k /\ Entidad(p) = "activa"
  BY DEF Guardar, Ind, IndTipo, TypeOK
<1>3. Vigente(p)
  BY <1>1, <1>2 DEF Ind, Coherente
<1>4. fila[k] = IF peticion[p].op = "crear" THEN "ausente" ELSE peticion[p].leida
  BY <1>2, <1>3 DEF Vigente, EnPaso, ConFila
<1>5. QED
  BY <1>1, <1>2, <1>4 DEF Entidad, Operacion

\* A removed assignment comes back only because a client asks for it; an edit of
\* its notes or a failed write never brings it back, unless requests overlapped.
THEOREM Bajas == Spec => BajaDefinitiva
<1>1. Ind /\ [Next]_vars =>
        [\A k \in Claves :
           fila[k] = "inactiva" /\ fila'[k] = "activa" =>
             \/ VehiculoDe(k) \in solapados
             \/ \E p \in Peticiones : /\ EnPaso(p, "comparada")
                                      /\ peticion[p].op = "activar"
                                      /\ peticion[p].clave = k]_vars
  <2> SUFFICES ASSUME Ind, Next, NEW k \in Claves,
                      fila[k] = "inactiva", fila'[k] = "activa",
                      VehiculoDe(k) \notin solapados
               PROVE  \E p \in Peticiones : /\ EnPaso(p, "comparada")
                                            /\ peticion[p].op = "activar"
                                            /\ peticion[p].clave = k
    OBVIOUS
  <2>1. fila' # fila
    OBVIOUS
  <2>2. PICK p \in Peticiones : EnPaso(p, "comparada") /\ Guardar(p)
    BY <2>1
    DEF Next, Atender, Empezar, ValidarReferencias, BuscarClave, LeerFila, BuscarActiva,
        Comparar, Escribir, EscribirFallido, Emitir, Registrar, Caida, SoloLee
  <2>3. QED
    BY <2>2, SoloActivarRevive
<1>2. QED
  BY <1>1, ReglaInicial, ReglaPaso, PTL DEF Spec, BajaDefinitiva

-----------------------------------------------------------------------------
(***************************************************************************)
(* The record of a creation, whatever overlaps.                            *)
(***************************************************************************)

\* A row that a change or a removal has found is never deleted: no request writes
\* "ausente", so a key that has a row keeps one.
FilaPersiste ==
  \A p \in Peticiones :
    peticion[p].paso \in ConFila \cup {"escrita"} /\ peticion[p].op # "crear" =>
      fila[peticion[p].clave] # "ausente"

IndAlta == IndTipo /\ FilaPersiste /\ AltaRegistrada

Creado(k) == \E i \in DOMAIN registros : registros[i].clave = k /\ registros[i].accion = "CREACION"

Creando(p, k) == EnPaso(p, "escrita") /\ peticion[p].op = "crear" /\ peticion[p].clave = k

LEMMA EntidadPresente ==
  ASSUME IndTipo, NEW p \in Peticiones, EnPaso(p, "comparada")
  PROVE  Entidad(p) # "ausente"
<1>1. peticion[p].op \in Operacion
  BY Forma DEF IndTipo, EnPaso, Libre
<1>2. peticion[p].op # "crear" => peticion[p].leida # "ausente"
  BY DEF IndTipo, ConLeida, LeidaCuadra, ConFila, EnPaso
<1>3. QED
  BY <1>1, <1>2 DEF Entidad, Operacion

\* Rows stay, and a row appears only when a creation is saved.
LEMMA FilaNueva ==
  ASSUME IndAlta, [Next]_vars, NEW k \in Claves
  PROVE  /\ fila[k] # "ausente" => fila'[k] # "ausente"
         /\ fila[k] = "ausente" /\ fila'[k] # "ausente" =>
              \/ k \in sinRegistro'
              \/ \E p \in Peticiones : Creando(p, k)'
<1>1. CASE fila' = fila
  BY <1>1
<1>2. CASE fila' # fila
  <2>1. PICK p \in Peticiones : /\ EnPaso(p, "comparada")
                                /\ Guardar(p)
                                /\ \/ Escribir(p)
                                   \/ EscribirFallido(p) /\ peticion[p].clave \in sinRegistro'
    BY <1>2
    DEF Next, vars, Atender, Empezar, ValidarReferencias, BuscarClave, LeerFila, BuscarActiva,
        Comparar, Escribir, EscribirFallido, Emitir, Registrar, Caida, SoloLee
  <2>2. fila \in [Claves -> EstadoFila] /\ peticion[p] \in Solicitud
    BY <2>1, Forma DEF IndAlta, IndTipo, TypeOK, EnPaso, Libre
  <2>3. fila'[k] = fila[k] \/ (k = peticion[p].clave /\ fila'[k] = Entidad(p))
    BY <2>1, <2>2 DEF Guardar
  <2>4. Entidad(p) # "ausente"
    BY <2>1, EntidadPresente DEF IndAlta
  <2>5. ASSUME fila[k] = "ausente", fila'[k] # "ausente", Escribir(p)
        PROVE  Creando(p, k)'
    <3>1. k = peticion[p].clave
      BY <2>3, <2>5
    <3>2. peticion[p].op = "crear"
      BY <3>1, <2>1, <2>5 DEF IndAlta, FilaPersiste, ConFila, EnPaso
    <3>3. peticion' = [peticion EXCEPT ![p].paso = "escrita"]
      BY <2>5 DEF Escribir, Avanzar
    <3>4. /\ peticion'[p].paso = "escrita"
          /\ peticion'[p].op = peticion[p].op
          /\ peticion'[p].clave = peticion[p].clave
      BY <3>3, <2>2 DEF Solicitud, IndAlta, IndTipo, TypeOK
    <3>5. QED
      BY <3>1, <3>2, <3>4 DEF Creando, EnPaso
  <2>6. QED
    BY <2>1, <2>3, <2>4, <2>5
<1>3. QED
  BY <1>1, <1>2

\* How a request may change in one step: what the invariants over the requests
\* are carried through with.
LEMMA CambioPeticion ==
  ASSUME IndTipo, [Next]_vars, NEW p \in Peticiones
  PROVE  \/ peticion'[p] = peticion[p]
         \/ peticion'[p] = Libre
         \/ peticion'[p].paso \in {"recibida", "validada"}
         \/ peticion'[p].paso = "buscada" /\ peticion'[p].op = "crear"
         \/ /\ peticion[p] \in Solicitud
            /\ peticion'[p].op = peticion[p].op /\ peticion'[p].clave = peticion[p].clave
            /\ \/ /\ peticion'[p].leida = fila[peticion[p].clave]
                  /\ TrasLeer(peticion[p].op, fila[peticion[p].clave]) # "libre"
               \/ /\ peticion[p].paso \in ConFila
                  /\ peticion'[p].leida = peticion[p].leida
<1>1. peticion \in [Peticiones -> Solicitud \cup {Libre}]
  BY DEF IndTipo, TypeOK
<1>2. ASSUME NEW paso \in EnCurso, EnPaso(p, paso) PROVE peticion[p] \in Solicitud
  BY <1>2, <1>1 DEF EnPaso, EnCurso, Libre
<1>3. ASSUME peticion[p] \in Solicitud, NEW paso, Avanzar(p, paso)
      PROVE  /\ peticion'[p].paso = paso
             /\ peticion'[p].clave = peticion[p].clave
             /\ peticion'[p].op = peticion[p].op
             /\ peticion'[p].leida = peticion[p].leida
  BY <1>3, <1>1 DEF Avanzar, Solicitud
<1>4. CASE Terminar(p)
  BY <1>4, <1>1 DEF Terminar
<1>5. ASSUME NEW op \in Operacion, NEW clave \in Claves, Empezar(p, op, clave)
      PROVE  peticion'[p].paso = "recibida"
  BY <1>5, <1>1 DEF Empezar
<1>6. CASE ValidarReferencias(p)
  BY <1>2, <1>3, <1>4, <1>6 DEF ValidarReferencias, EnCurso
<1>7. CASE BuscarClave(p)
  <2>1. peticion[p].op = "crear" /\ peticion[p] \in Solicitud
    BY <1>2, <1>7 DEF BuscarClave, EnPaso, EnCurso, IndTipo, ConLeida, LeidaCuadra
  <2>2. QED
    BY <2>1, <1>3, <1>4, <1>7 DEF BuscarClave
<1>8. CASE LeerFila(p)
  <2> DEFINE f == fila[peticion[p].clave]
             s == TrasLeer(peticion[p].op, f)
  <2>1. peticion[p] \in Solicitud
    BY <1>2, <1>8 DEF LeerFila, EnCurso
  <2>2. CASE s # "libre"
    <3>1. peticion' = [peticion EXCEPT ![p].leida = f, ![p].paso = s]
      BY <2>2, <1>8 DEF LeerFila
    <3>2. /\ peticion'[p].clave = peticion[p].clave
          /\ peticion'[p].op = peticion[p].op
          /\ peticion'[p].leida = f
      <4> HIDE DEF f, s
      <4> QED
        BY <3>1, <2>1, <1>1 DEF Solicitud
    <3>3. QED
      BY <3>2, <2>1, <2>2
  <2>3. QED
    BY <2>2, <1>4, <1>8 DEF LeerFila
<1>9. CASE BuscarActiva(p)
  BY <1>2, <1>3, <1>4, <1>9 DEF BuscarActiva, EnPaso, EnCurso, ConFila
<1>10. CASE Comparar(p)
  <2>1. peticion[p] \in Solicitud
    BY <1>2, <1>10 DEF Comparar, EnCurso
  <2>2. /\ peticion'[p].clave = peticion[p].clave
        /\ peticion'[p].op = peticion[p].op
        /\ peticion'[p].leida = peticion[p].leida
    BY <2>1, <1>10, <1>1 DEF Comparar, Solicitud
  <2>3. QED
    BY <2>1, <2>2, <1>10 DEF Comparar, EnPaso, ConFila
<1>11. CASE Escribir(p)
  BY <1>2, <1>3, <1>11 DEF Escribir, EnPaso, EnCurso, ConFila
<1>12. ASSUME NEW q \in Peticiones \ {p}, Atender(q) PROVE peticion'[p] = peticion[p]
  BY <1>12, <1>1
  DEF Atender, Empezar, ValidarReferencias, BuscarClave, LeerFila, BuscarActiva,
      Comparar, Escribir, EscribirFallido, Emitir, Avanzar, Terminar
<1>13. CASE Caida
  BY <1>13 DEF Caida
<1>14. CASE Atender(p)
  BY <1>4, <1>5, <1>6, <1>7, <1>8, <1>9, <1>10, <1>11, <1>14 DEF Atender, EscribirFallido, Emitir
<1>15. QED
  BY <1>12, <1>13, <1>14 DEF Next, vars, Registrar

\* Where a request other than a creation gets to know its row, it has one.
LEMMA PersistePaso ==
  ASSUME IndAlta, [Next]_vars
  PROVE  FilaPersiste'
<1> SUFFICES ASSUME NEW p \in Peticiones,
                    peticion'[p].paso \in ConFila \cup {"escrita"}, peticion'[p].op # "crear"
             PROVE  fila'[peticion'[p].clave] # "ausente"
  BY DEF FilaPersiste, ConFila
<1>1. ASSUME peticion[p] \in Solicitud,
             fila[peticion[p].clave] # "ausente",
             peticion'[p].clave = peticion[p].clave
      PROVE  fila'[peticion'[p].clave] # "ausente"
  BY <1>1, FilaNueva DEF Solicitud
<1>2. CASE peticion'[p] = peticion[p]
  <2>1. peticion[p] \in Solicitud
    BY <1>2 DEF IndAlta, IndTipo, TypeOK, Libre, ConFila
  <2>2. QED
    BY <2>1, <1>1, <1>2 DEF IndAlta, FilaPersiste
<1>3. CASE /\ peticion[p] \in Solicitud
           /\ peticion'[p].op = peticion[p].op /\ peticion'[p].clave = peticion[p].clave
           /\ \/ TrasLeer(peticion[p].op, fila[peticion[p].clave]) # "libre"
              \/ peticion[p].paso \in ConFila
  BY <1>1, <1>3 DEF IndAlta, FilaPersiste, TrasLeer
<1>4. QED
  BY <1>2, <1>3, CambioPeticion DEF IndAlta, ConFila, Libre

\* What may hide the creation of a key only passes from one form to the next: the
\* request that is about to announce it, the record, the loss.
LEMMA AltaSigue ==
  ASSUME IndAlta, [Next]_vars, NEW k \in Claves,
         k \in sinRegistro \/ Creado(k) \/ \E p \in Peticiones : Creando(p, k)
  PROVE  k \in sinRegistro' \/ Creado(k)' \/ \E p \in Peticiones : Creando(p, k)'
<1>1. registros \in Seq(Registro) /\ peticion \in [Peticiones -> Solicitud \cup {Libre}]
  BY DEF IndAlta, IndTipo, TypeOK
<1>2. sinRegistro \subseteq sinRegistro'
  BY DEF Next, vars, Atender, Empezar, ValidarReferencias, BuscarClave, LeerFila, BuscarActiva,
         Comparar, Escribir, EscribirFallido, Emitir, Registrar, Caida, SoloLee
<1>3. ASSUME Creado(k) PROVE Creado(k)'
  <2>1. PICK i \in DOMAIN registros : registros[i].clave = k /\ registros[i].accion = "CREACION"
    BY <1>3 DEF Creado
  <2>2. ASSUME registros' = registros PROVE Creado(k)'
    BY <2>1, <2>2 DEF Creado
  <2>3. ASSUME NEW p \in Peticiones, Emitir(p) PROVE Creado(k)'
    <3>1. i \in DOMAIN registros' /\ registros'[i] = registros[i]
      BY <2>1, <2>3, <1>1 DEF Emitir
    <3>2. QED
      BY <3>1, <2>1 DEF Creado
  <2>4. ASSUME NEW j \in DOMAIN registros, NEW e,
               registros' = [registros EXCEPT ![j].estado = e]
        PROVE  Creado(k)'
    <3>1. /\ i \in DOMAIN registros'
          /\ registros'[i].clave = registros[i].clave
          /\ registros'[i].accion = registros[i].accion
      BY <2>1, <2>4, <1>1 DEF Registro
    <3>2. QED
      BY <3>1, <2>1 DEF Creado
  <2>5. ASSUME Caida PROVE Creado(k)'
    <3>1. /\ i \in DOMAIN registros'
          /\ registros'[i].clave = registros[i].clave
          /\ registros'[i].accion = registros[i].accion
      BY <2>1, <2>5, <1>1 DEF Caida, Registro
    <3>2. QED
      BY <3>1, <2>1 DEF Creado
  <2>6. QED
    BY <2>2, <2>3, <2>4, <2>5
    DEF Next, vars, Atender, Empezar, ValidarReferencias, BuscarClave, LeerFila, BuscarActiva,
        Comparar, Escribir, EscribirFallido, Registrar, SoloLee
<1>4. ASSUME NEW p \in Peticiones, Creando(p, k)
      PROVE  k \in sinRegistro' \/ Creado(k)' \/ Creando(p, k)'
  <2>1. peticion[p] \in Solicitud /\ peticion[p].paso = "escrita"
    BY <1>1, <1>4 DEF Creando, EnPaso, Libre
  <2>2. CASE peticion'[p] = peticion[p]
    BY <2>2, <1>4 DEF Creando, EnPaso
  <2>3. CASE Emitir(p)
    <3> DEFINE r == NuevoRegistro(p, peticion[p].leida)
    <3>1. r.clave = k /\ r.accion = "CREACION"
      BY <1>4 DEF Creando, NuevoRegistro, Accion
    <3>2. registros' = Append(registros, r)
      BY <2>3 DEF Emitir
    <3>3. r \in Registro
      BY <2>1, RegistroCorrecto DEF IndAlta, EnPaso
    <3> HIDE DEF r
    <3>4. Len(registros) + 1 \in DOMAIN registros' /\ registros'[Len(registros) + 1] = r
      BY <3>2, <3>3, <1>1
    <3>5. QED
      BY <3>1, <3>4 DEF Creado
  <2>4. CASE Caida
    BY <2>4, <1>4 DEF Caida, Creando
  <2>5. Atender(p) => Emitir(p)
    BY <2>1
    DEF Atender, Empezar, ValidarReferencias, BuscarClave, LeerFila, BuscarActiva,
        Comparar, Escribir, EscribirFallido, EnPaso, Libre
  <2>6. ASSUME NEW q \in Peticiones \ {p}, Atender(q) PROVE peticion'[p] = peticion[p]
    BY <2>6, <1>1
    DEF Atender, Empezar, ValidarReferencias, BuscarClave, LeerFila, BuscarActiva,
        Comparar, Escribir, EscribirFallido, Emitir, Avanzar, Terminar
  <2>7. QED
    BY <2>2, <2>3, <2>4, <2>5, <2>6 DEF Next, vars, Registrar
<1>5. QED
  BY <1>2, <1>3, <1>4

\* An assignment that exists has the record of its creation, a request about to
\* write it or a loss that was logged, whatever overlaps, fails or crashes: the
\* event is emitted by the handler that saved the row, and nothing deletes rows.
THEOREM Altas == Spec => []AltaRegistrada
<1>1. Init => IndAlta
  BY TipoInicial DEF Init, IndAlta, FilaPersiste, AltaRegistrada, ConFila, Libre
<1>2. IndAlta /\ [Next]_vars => IndAlta'
  <2> SUFFICES ASSUME IndAlta, [Next]_vars PROVE IndAlta'
    OBVIOUS
  <2>1. IndTipo' /\ FilaPersiste'
    BY TipoPaso, PersistePaso DEF IndAlta
  <2>2. ASSUME NEW k \in Claves, fila'[k] # "ausente"
        PROVE  k \in sinRegistro' \/ Creado(k)' \/ \E p \in Peticiones : Creando(p, k)'
    <3>1. CASE fila[k] = "ausente"
      BY <3>1, <2>2, FilaNueva
    <3>2. CASE fila[k] # "ausente"
      <4>1. k \in sinRegistro \/ Creado(k) \/ \E p \in Peticiones : Creando(p, k)
        BY <3>2 DEF IndAlta, AltaRegistrada, Creado, Creando
      <4>2. QED
        BY <4>1, AltaSigue
    <3>3. QED
      BY <3>1, <3>2
  <2>3. AltaRegistrada'
    BY <2>2 DEF AltaRegistrada, Creado, Creando
  <2>4. QED
    BY <2>1, <2>3 DEF IndAlta
<1>3. IndAlta => AltaRegistrada
  BY DEF IndAlta
<1>4. QED
  BY <1>1, <1>2, <1>3, PTL DEF Spec

-----------------------------------------------------------------------------
(***************************************************************************)
(* The audit trail tells the life of a key.                                *)
(*                                                                         *)
(* AuditoriaReconstruye speaks of a vehicle nobody is working on.  Between *)
(* the save of a row and the event that announces it the trail is one step *)
(* behind the table, so the invariant follows both: the records of a key   *)
(* form a chain (Cadena) that ends in the row, or in the state that the    *)
(* request about to announce its write will say it started from (Historia).*)
(***************************************************************************)

\* The audit records of a key.
De(k) == {i \in DOMAIN registros : registros[i].clave = k}

\* The first record of a key starts from no row, and any other from where the one
\* before it ended.
Cadena(k) ==
  /\ \A j \in De(k) : (\A m \in De(k) : j <= m) => Antes(registros[j]) = "ausente"
  /\ \A i, j \in De(k) :
       i < j /\ (\A m \in De(k) : m <= i \/ j <= m) => Despues(registros[i]) = Antes(registros[j])

\* The state the trail of a key leaves it in.
Final(k, s) ==
  /\ De(k) = {} => s = "ausente"
  /\ \A i \in De(k) : (\A m \in De(k) : m <= i) => Despues(registros[i]) = s

\* The requests that have written the row of a key and not announced it yet.
PorAnunciar(k) == {p \in Peticiones : EnPaso(p, "escrita") /\ peticion[p].clave = k}

Anuncio(p) == NuevoRegistro(p, peticion[p].leida)

HistoriaDe(k) ==
  /\ Cadena(k)
  /\ PorAnunciar(k) = {} => Final(k, fila[k])
  /\ \A p \in PorAnunciar(k) : Final(k, Antes(Anuncio(p))) /\ Despues(Anuncio(p)) = fila[k]

Historia ==
  \A k \in Claves : k \notin sinRegistro /\ VehiculoDe(k) \notin solapados => HistoriaDe(k)

\* A removal that goes on has read an active row.
BajaActiva ==
  \A p \in Peticiones :
    peticion[p].paso \in ConFila \cup {"escrita"} /\ peticion[p].op = "baja" =>
      peticion[p].leida = "activa"

IndHistoria == Ind /\ BajaActiva /\ Historia

\* The state of an audit record the trail is read with.
Igual(r, s) == r.clave = s.clave /\ r.anterior = s.anterior /\ r.nuevo = s.nuevo

\* A set of natural numbers that has an element has a least one: what gives the
\* CHOOSE of EstadoTras its value.
LEMMA Minimo ==
  ASSUME NEW S \in SUBSET Nat, S # {}
  PROVE  \E x \in S : \A y \in S : x <= y
<1> DEFINE R == {ss \in Nat \X Nat : ss[1] < ss[2]}
<1>1. IsWellFoundedOn(R, Nat)
  BY NatLessThanWellFounded DEF OpToRel
<1>2. \A x, y \in Nat : y < x => <<y, x>> \in R
  OBVIOUS
<1> HIDE DEF R
<1>3. PICK x \in S : \A y \in S : ~ (<<y, x>> \in R)
  BY <1>1, WFMin
<1>4. \A y \in S : x <= y
  <2> TAKE y \in S
  <2>1. x \in Nat /\ y \in Nat
    OBVIOUS
  <2>2. ~ (y < x)
    BY <2>1, <1>2, <1>3, Zenon
  <2>3. QED
    BY <2>1, <2>2
<1>5. QED
  BY <1>4

LEMMA BajaPaso ==
  ASSUME IndTipo, BajaActiva, [Next]_vars
  PROVE  BajaActiva'
<1> SUFFICES ASSUME NEW p \in Peticiones,
                    peticion'[p].paso \in ConFila \cup {"escrita"}, peticion'[p].op = "baja"
             PROVE  peticion'[p].leida = "activa"
  BY DEF BajaActiva, ConFila
<1>1. ASSUME peticion[p] \in Solicitud, peticion[p].op = "baja",
             TrasLeer(peticion[p].op, fila[peticion[p].clave]) # "libre"
      PROVE  fila[peticion[p].clave] = "activa"
  BY <1>1 DEF IndTipo, TypeOK, Solicitud, TrasLeer, EstadoFila
<1>2. QED
  BY <1>1, CambioPeticion DEF BajaActiva, ConFila, Libre

\* The trail of a key says the same as long as nobody adds a record of the key,
\* writes its row, or stops being about to announce a write of it.
LEMMA HistoriaIgual ==
  ASSUME NEW k, HistoriaDe(k), fila'[k] = fila[k],
         De(k)' = De(k), \A i \in De(k) : Igual(registros'[i], registros[i]),
         PorAnunciar(k)' = PorAnunciar(k),
         \A p \in PorAnunciar(k) : peticion'[p] = peticion[p]
  PROVE  HistoriaDe(k)'
<1>1. \A i \in De(k) : /\ Antes(registros'[i]) = Antes(registros[i])
                       /\ Despues(registros'[i]) = Despues(registros[i])
  BY DEF Igual, Antes, Despues
<1>2. Cadena(k)'
  BY <1>1 DEF HistoriaDe, Cadena, Antes, Despues
<1>3. ASSUME NEW s, Final(k, s) PROVE Final(k, s)'
  BY <1>1, <1>3 DEF Final, Despues
<1>4. \A p \in PorAnunciar(k) : Anuncio(p)' = Anuncio(p)
  <2> TAKE p \in PorAnunciar(k)
  <2>1. peticion'[p] = peticion[p]
    OBVIOUS
  <2>2. Entidad(p)' = Entidad(p)
    BY <2>1 DEF Entidad
  <2>3. QED
    BY <2>1, <2>2 DEF Anuncio, NuevoRegistro
<1>5. QED
  BY <1>2, <1>3, <1>4 DEF HistoriaDe, Antes, Despues

\* A step of a request on another key, of one that has written nothing, or none.
LEMMA HistoriaAjena ==
  ASSUME Ind, NEW k \in Claves, HistoriaDe(k), fila'[k] = fila[k], registros' = registros,
         \A p \in Peticiones :
           \/ peticion'[p] = peticion[p]
           \/ peticion[p].paso # "escrita" /\ (peticion'[p].paso # "escrita" \/ peticion'[p].clave # k)
  PROVE  HistoriaDe(k)'
<1>1. De(k)' = De(k) /\ \A i \in De(k) : Igual(registros'[i], registros[i])
  BY DEF De, Igual
<1>2. PorAnunciar(k)' = PorAnunciar(k)
  BY DEF PorAnunciar, EnPaso
<1>3. \A p \in PorAnunciar(k) : peticion'[p] = peticion[p]
  BY DEF PorAnunciar, EnPaso
<1>4. QED
  BY <1>1, <1>2, <1>3, HistoriaIgual

\* Alone on its vehicle, a request is the only one that may be announcing a write
\* of its key.
LEMMA AnunciaSolo ==
  ASSUME Ind, NEW p \in Peticiones, peticion[p] # Libre,
         VehiculoDe(peticion[p].clave) \notin solapados
  PROVE  PorAnunciar(peticion[p].clave) \subseteq {p}
<1> SUFFICES ASSUME NEW q \in PorAnunciar(peticion[p].clave), q # p PROVE FALSE
  OBVIOUS
<1>1. q \in Peticiones /\ peticion[q] # Libre /\ peticion[q].clave = peticion[p].clave
  BY DEF PorAnunciar, EnPaso, Libre
<1>2. QED
  BY <1>1 DEF Ind, Solitaria

\* A request that saves its row: the trail is one step behind, and what the
\* request will announce goes from the old row to the new one.
LEMMA HistoriaEscribir ==
  ASSUME Ind, BajaActiva, NEW k \in Claves, VehiculoDe(k) \notin solapados, HistoriaDe(k),
         NEW p \in Peticiones, peticion[p].clave = k, Escribir(p)
  PROVE  HistoriaDe(k)'
<1> DEFINE r == peticion[p]
<1>1. r # Libre /\ r \in Solicitud /\ r.op \in Operacion /\ r.clave \in Claves
  BY Forma DEF Ind, IndTipo, Escribir, EnPaso, Libre, Solicitud
<1>2. Vigente(p) /\ r.paso = "comparada"
  BY <1>1 DEF Ind, Coherente, Escribir, EnPaso
<1>3. PorAnunciar(k) = {}
  BY <1>1, <1>2, AnunciaSolo DEF PorAnunciar, EnPaso
<1>4. peticion \in [Peticiones -> Solicitud \cup {Libre}] /\ fila \in [Claves -> EstadoFila]
  BY DEF Ind, IndTipo, TypeOK
<1>5. /\ peticion'[p].paso = "escrita"
      /\ peticion'[p].clave = r.clave /\ peticion'[p].op = r.op /\ peticion'[p].leida = r.leida
      /\ \A q \in Peticiones \ {p} : peticion'[q] = peticion[q]
  BY <1>1, <1>4 DEF Escribir, Avanzar, Solicitud
<1>6. PorAnunciar(k)' = {p}
  BY <1>3, <1>5 DEF PorAnunciar, EnPaso
<1>7. fila'[k] = Entidad(p)
  BY <1>2, <1>4 DEF Escribir, Guardar, Vigente
<1>8. Anuncio(p)' = Anuncio(p)
  <2>1. Entidad(p)' = Entidad(p)
    BY <1>5 DEF Entidad
  <2>2. QED
    BY <2>1, <1>5 DEF Anuncio, NuevoRegistro
<1>9. Antes(Anuncio(p)) = fila[k] /\ Despues(Anuncio(p)) = Entidad(p)
  <2>1. fila[k] = IF r.op = "crear" THEN "ausente" ELSE r.leida
    BY <1>2 DEF Vigente, ConFila
  <2>2. r.op = "baja" => r.leida = "activa"
    BY <1>2 DEF BajaActiva, ConFila
  <2>3. r.op # "crear" => r.leida \in {"activa", "inactiva"}
    BY <1>1, <1>2, Forma DEF Ind, IndTipo, ConLeida, LeidaCuadra, ConFila, EstadoFila
  <2>4. /\ Anuncio(p).anterior = CASE r.op = "crear" -> "ninguno" [] r.op = "baja" -> "activa" [] OTHER -> r.leida
        /\ Anuncio(p).nuevo = IF r.op = "baja" THEN "ninguno" ELSE Entidad(p)
    BY DEF Anuncio, NuevoRegistro
  <2>5. Antes(Anuncio(p)) = fila[k]
    BY <2>1, <2>2, <2>3, <2>4, <1>1 DEF Antes, Operacion
  <2>6. Entidad(p) # "ninguno" /\ (r.op = "baja" => Entidad(p) = "inactiva")
    BY <1>1, <2>3 DEF Entidad, Operacion
  <2>7. QED
    BY <2>4, <2>5, <2>6 DEF Despues
<1>10. De(k)' = De(k) /\ registros' = registros
  BY DEF Escribir, De
<1>11. Cadena(k)'
  BY <1>3, <1>10 DEF HistoriaDe, Cadena, Antes, Despues
<1>12. Final(k, Antes(Anuncio(p)))'
  <2>1. PICK s : s = fila[k]
    OBVIOUS
  <2>2. Final(k, s)
    BY <1>3, <2>1 DEF HistoriaDe
  <2>3. Final(k, s)'
    BY <2>2, <1>10 DEF Final, Despues
  <2>4. Antes(Anuncio(p))' = s
    BY <2>1, <1>8, <1>9 DEF Antes
  <2>5. QED
    BY <2>3, <2>4 DEF Final
<1>13. Despues(Anuncio(p))' = fila'[k]
  BY <1>7, <1>8, <1>9 DEF Despues
<1>14. QED
  BY <1>6, <1>11, <1>12, <1>13 DEF HistoriaDe

\* The event of a saved row: its record continues the chain, and ends it.
LEMMA HistoriaEmitir ==
  ASSUME Ind, BajaActiva, NEW k \in Claves, VehiculoDe(k) \notin solapados, HistoriaDe(k),
         NEW p \in Peticiones, peticion[p].clave = k, Emitir(p)
  PROVE  HistoriaDe(k)'
<1> DEFINE n == Len(registros) + 1
<1>1. peticion[p] # Libre /\ registros \in Seq(Registro)
  BY DEF Ind, IndTipo, TypeOK, Emitir, EnPaso, Libre
<1>2. PICK r \in Registro : r = Anuncio(p)
  BY RegistroCorrecto DEF Ind, Emitir, Anuncio
<1>3. registros' = Append(registros, r)
  BY <1>2 DEF Emitir, Anuncio
<1>4. r.clave = k
  BY <1>2 DEF Anuncio, NuevoRegistro
<1>5. /\ n \in Nat
      /\ De(k)' = De(k) \cup {n} /\ registros'[n] = r
      /\ \A i \in De(k) : i \in Nat /\ i < n /\ registros'[i] = registros[i]
  BY <1>1, <1>3, <1>4 DEF De
<1>6. PorAnunciar(k) \subseteq {p} /\ p \in PorAnunciar(k)
  BY <1>1, AnunciaSolo DEF Emitir, PorAnunciar
<1>7. PorAnunciar(k)' = {}
  <2>1. peticion'[p] = Libre /\ \A q \in Peticiones \ {p} : peticion'[q] = peticion[q]
    BY DEF Ind, IndTipo, TypeOK, Emitir, Terminar
  <2>2. QED
    BY <2>1, <1>6 DEF PorAnunciar, EnPaso, Libre
<1>8. PICK e : e = fila[k] /\ e = Despues(r)
  BY <1>2, <1>6 DEF HistoriaDe
<1>9. PICK s : s = Antes(r) /\ Final(k, s)
  BY <1>2, <1>6 DEF HistoriaDe
<1> HIDE DEF n
<1>10. Cadena(k)'
  <2>1. ASSUME NEW j \in De(k)', \A m \in De(k)' : j <= m
        PROVE  Antes(registros'[j]) = "ausente"
    <3>1. CASE j = n
      <4>1. De(k) = {}
        BY <2>1, <3>1, <1>5
      <4>2. QED
        BY <4>1, <3>1, <1>5, <1>9 DEF Final
    <3>2. CASE j # n
      <4>1. j \in De(k) /\ registros'[j] = registros[j] /\ \A m \in De(k) : j <= m
        BY <2>1, <3>2, <1>5
      <4>2. QED
        BY <4>1 DEF HistoriaDe, Cadena
    <3>3. QED
      BY <3>1, <3>2
  <2>2. ASSUME NEW i \in De(k)', NEW j \in De(k)', i < j,
               \A m \in De(k)' : m <= i \/ j <= m
        PROVE  Despues(registros'[i]) = Antes(registros'[j])
    <3>1. i \in De(k) /\ registros'[i] = registros[i]
      BY <2>2, <1>5
    <3>2. CASE j = n
      <4>1. \A m \in De(k) : m <= i
        BY <2>2, <3>1, <3>2, <1>5
      <4>2. Despues(registros[i]) = s
        BY <4>1, <3>1, <1>9 DEF Final
      <4>3. QED
        BY <4>2, <3>1, <3>2, <1>5, <1>9
    <3>3. CASE j # n
      <4>1. j \in De(k) /\ registros'[j] = registros[j] /\ \A m \in De(k) : m <= i \/ j <= m
        BY <2>2, <3>3, <1>5
      <4>2. QED
        BY <4>1, <3>1, <2>2 DEF HistoriaDe, Cadena
    <3>4. QED
      BY <3>2, <3>3
  <2>3. QED
    BY <2>1, <2>2 DEF Cadena, Antes, Despues
<1>11. Final(k, e)'
  <2>1. ASSUME NEW i \in De(k)', \A m \in De(k)' : m <= i PROVE i = n
    BY <2>1, <1>5
  <2>2. Despues(registros'[n]) = e
    BY <1>5, <1>8
  <2>3. QED
    BY <2>1, <2>2, <1>5 DEF Final, Despues
<1>12. fila'[k] = e
  BY <1>8 DEF Emitir
<1>13. QED
  BY <1>7, <1>10, <1>11, <1>12 DEF HistoriaDe, Final

\* A step of the audit listener, or a crash, changes what becomes of a record and
\* not what it says.
LEMMA HistoriaRegistrar ==
  ASSUME Ind, NEW k \in Claves, HistoriaDe(k), NEW j \in DOMAIN registros, Registrar(j)
  PROVE  HistoriaDe(k)'
<1>1. registros \in Seq(Registro)
  BY DEF Ind, IndTipo, TypeOK
<1>2. DOMAIN registros' = DOMAIN registros /\ \A i \in DOMAIN registros : Igual(registros'[i], registros[i])
  <2>1. PICK e : registros' = [registros EXCEPT ![j] = [registros[j] EXCEPT !.estado = e]]
    BY DEF Registrar
  <2>2. registros[j] \in Registro
    BY <1>1
  <2>3. Igual([registros[j] EXCEPT !.estado = e], registros[j])
    BY <2>2 DEF Igual, Registro
  <2>4. QED
    BY <1>1, <2>1, <2>3 DEF Igual
<1>3. De(k)' = De(k) /\ \A i \in De(k) : Igual(registros'[i], registros[i])
  BY <1>2 DEF De, Igual
<1>4. PorAnunciar(k)' = PorAnunciar(k) /\ peticion' = peticion /\ fila' = fila
  BY DEF PorAnunciar, EnPaso, Registrar
<1>5. QED
  BY <1>3, <1>4, HistoriaIgual

LEMMA HistoriaCaida ==
  ASSUME Ind, NEW k \in Claves, HistoriaDe(k), Caida, k \notin sinRegistro'
  PROVE  HistoriaDe(k)'
<1>1. registros \in Seq(Registro)
  BY DEF Ind, IndTipo, TypeOK
<1>2. DOMAIN registros' = DOMAIN registros /\ \A i \in DOMAIN registros : Igual(registros'[i], registros[i])
  BY <1>1 DEF Caida, Registro, Igual
<1>3. De(k)' = De(k) /\ \A i \in De(k) : Igual(registros'[i], registros[i])
  BY <1>2 DEF De, Igual
<1>4. PorAnunciar(k) = {}
  BY DEF Caida, PorAnunciar
<1>5. PorAnunciar(k)' = {}
  BY DEF Caida, PorAnunciar, EnPaso, Libre
<1>6. fila' = fila
  BY DEF Caida
<1>7. QED
  BY <1>3, <1>4, <1>5, <1>6, HistoriaIgual

\* A step of a request other than the two above, on the key of the trail.
LEMMA HistoriaAtender ==
  ASSUME Ind, BajaActiva, NEW k \in Claves, HistoriaDe(k), NEW p \in Peticiones, Atender(p),
         k \notin sinRegistro', VehiculoDe(k) \notin solapados
  PROVE  HistoriaDe(k)'
<1> DEFINE r == peticion[p]
<1>1. peticion \in [Peticiones -> Solicitud \cup {Libre}] /\ fila \in [Claves -> EstadoFila]
  BY DEF Ind, IndTipo, TypeOK
<1>2. ASSUME NEW q \in Peticiones \ {p} PROVE peticion'[q] = peticion[q]
  BY <1>1
  DEF Atender, Empezar, ValidarReferencias, BuscarClave, LeerFila, BuscarActiva,
      Comparar, Escribir, EscribirFallido, Emitir, Avanzar, Terminar
<1>3. ASSUME fila'[k] = fila[k], registros' = registros, r.paso # "escrita",
             peticion'[p].paso # "escrita" \/ peticion'[p].clave # k
      PROVE  HistoriaDe(k)'
  BY <1>2, <1>3, HistoriaAjena
<1>4. Terminar(p) => peticion'[p].paso # "escrita"
  BY <1>1 DEF Terminar, Libre
<1>5. ASSUME r \in Solicitud, NEW paso, Avanzar(p, paso)
      PROVE  peticion'[p].paso = paso /\ peticion'[p].clave = r.clave
  BY <1>5, <1>1 DEF Avanzar, Solicitud
<1>6. ASSUME NEW paso \in EnCurso, EnPaso(p, paso) PROVE r \in Solicitud
  BY <1>6, <1>1 DEF EnPaso, EnCurso, Libre
<1>7. ASSUME NEW op \in Operacion, NEW clave \in Claves, Empezar(p, op, clave) PROVE HistoriaDe(k)'
  BY <1>7, <1>1, <1>3 DEF Empezar, Libre
<1>8. CASE ValidarReferencias(p) \/ BuscarClave(p) \/ BuscarActiva(p)
  BY <1>3, <1>4, <1>5, <1>6, <1>8 DEF ValidarReferencias, BuscarClave, BuscarActiva, SoloLee, EnPaso, EnCurso
<1>9. CASE LeerFila(p)
  <2> DEFINE s == TrasLeer(r.op, fila[r.clave])
  <2>1. s # "escrita"
    BY DEF TrasLeer
  <2>2. ASSUME peticion' = [peticion EXCEPT ![p].leida = fila[r.clave], ![p].paso = s]
        PROVE  peticion'[p].paso = s
    <3>1. r \in Solicitud
      BY <1>6, <1>9 DEF LeerFila, EnCurso
    <3> HIDE DEF s
    <3>2. QED
      BY <2>2, <3>1, <1>1 DEF Solicitud
  <2>3. peticion'[p].paso # "escrita"
    BY <2>1, <2>2, <1>4, <1>9 DEF LeerFila
  <2>4. QED
    BY <2>3, <1>3, <1>9 DEF LeerFila, SoloLee, EnPaso
<1>10. CASE Comparar(p)
  <2>1. peticion'[p].paso = "comparada"
    BY <1>1, <1>6, <1>10 DEF Comparar, EnCurso, Solicitud
  <2>2. QED
    BY <2>1, <1>3, <1>10 DEF Comparar, SoloLee, EnPaso
<1>11. CASE Escribir(p)
  <2>1. r \in Solicitud /\ r.paso = "comparada"
    BY <1>6, <1>11 DEF Escribir, EnPaso, EnCurso
  <2>2. CASE r.clave = k
    BY <2>2, <1>11, HistoriaEscribir
  <2>3. CASE r.clave # k
    <3>1. fila'[k] = fila[k] /\ peticion'[p].clave = r.clave
      BY <2>1, <2>3, <1>1, <1>5, <1>11 DEF Escribir, Guardar
    <3>2. QED
      BY <3>1, <2>1, <2>3, <1>3, <1>11 DEF Escribir
  <2>4. QED
    BY <2>2, <2>3
<1>12. CASE EscribirFallido(p)
  <2>1. fila'[k] = fila[k]
    BY <1>1, <1>12 DEF EscribirFallido, Guardar
  <2>2. QED
    BY <2>1, <1>3, <1>4, <1>12 DEF EscribirFallido, EnPaso
<1>13. CASE Emitir(p)
  <2>1. CASE r.clave = k
    BY <2>1, <1>13, HistoriaEmitir
  <2>2. CASE r.clave # k
    <3>1. registros \in Seq(Registro) /\ Anuncio(p) \in Registro
      BY <1>13, RegistroCorrecto DEF Ind, IndTipo, TypeOK, Emitir, Anuncio
    <3>2. registros' = Append(registros, Anuncio(p)) /\ Anuncio(p).clave # k
      BY <2>2, <1>13 DEF Emitir, Anuncio, NuevoRegistro
    <3>3. De(k)' = De(k) /\ \A i \in De(k) : Igual(registros'[i], registros[i])
      <4>1. PICK a \in Registro : a = Anuncio(p)
        BY <3>1
      <4>2. QED
        BY <3>1, <3>2, <4>1 DEF De, Igual
    <3>4. PorAnunciar(k)' = PorAnunciar(k) /\ \A q \in PorAnunciar(k) : peticion'[q] = peticion[q]
      <4>1. p \notin PorAnunciar(k) /\ p \notin PorAnunciar(k)'
        BY <2>2, <1>4, <1>13 DEF PorAnunciar, Emitir, EnPaso
      <4>2. QED
        BY <4>1, <1>2 DEF PorAnunciar, EnPaso
    <3>5. fila' = fila
      BY <1>13 DEF Emitir
    <3>6. QED
      BY <3>3, <3>4, <3>5, HistoriaIgual
  <2>3. QED
    BY <2>1, <2>2
<1>14. QED
  BY <1>7, <1>8, <1>9, <1>10, <1>11, <1>12, <1>13 DEF Atender

LEMMA HistoriaPaso == IndHistoria /\ [Next]_vars => IndHistoria'
<1> SUFFICES ASSUME IndHistoria, [Next]_vars PROVE IndHistoria'
  OBVIOUS
<1>1. Ind' /\ BajaActiva'
  BY ReglaPaso, BajaPaso DEF IndHistoria, Ind
<1>2. ASSUME NEW k \in Claves, k \notin sinRegistro', VehiculoDe(k) \notin solapados'
      PROVE  HistoriaDe(k)'
  <2>1. sinRegistro \subseteq sinRegistro' /\ solapados \subseteq solapados'
    BY DEF Next, vars, Atender, Empezar, ValidarReferencias, BuscarClave, LeerFila, BuscarActiva,
           Comparar, Escribir, EscribirFallido, Emitir, Registrar, Caida, SoloLee
  <2>2. HistoriaDe(k) /\ VehiculoDe(k) \notin solapados /\ Ind /\ BajaActiva
    BY <1>2, <2>1 DEF IndHistoria, Historia
  <2>3. ASSUME NEW p \in Peticiones, Atender(p) PROVE HistoriaDe(k)'
    BY <1>2, <2>2, <2>3, HistoriaAtender
  <2>4. ASSUME NEW j \in DOMAIN registros, Registrar(j) PROVE HistoriaDe(k)'
    BY <2>2, <2>4, HistoriaRegistrar
  <2>5. CASE Caida
    BY <1>2, <2>2, <2>5, HistoriaCaida
  <2>6. CASE UNCHANGED vars
    BY <2>2, <2>6, HistoriaAjena DEF vars
  <2>7. QED
    BY <2>3, <2>4, <2>5, <2>6 DEF Next
<1>3. QED
  BY <1>1, <1>2 DEF IndHistoria, Historia, VehiculoDe

\* The chain is what AuditoriaReconstruye reads: the record after a record is the
\* least of those that follow it.
LEMMA CadenaReconstruye ==
  ASSUME TypeOK, NEW k \in Claves, Cadena(k), Final(k, fila[k])
  PROVE  /\ De(k) # {} => EstadoTras(k, 0) = "ausente"
         /\ \A i \in De(k) : Despues(registros[i]) = EstadoTras(k, i)
<1> DEFINE Sig(i) == {j \in DOMAIN registros : j > i /\ registros[j].clave = k}
           Menor(i) == CHOOSE j \in Sig(i) : \A m \in Sig(i) : j <= m
<1>1. \A j \in DOMAIN registros : j \in Nat /\ j > 0
  BY DEF TypeOK
<1>2. \A i : Sig(i) = {j \in De(k) : j > i}
  BY DEF De
<1>3. \A i \in Nat : EstadoTras(k, i) = IF Sig(i) = {} THEN fila[k] ELSE Antes(registros[Menor(i)])
  BY DEF EstadoTras
<1>4. ASSUME NEW i \in Nat, Sig(i) # {}
      PROVE  Menor(i) \in Sig(i) /\ \A m \in Sig(i) : Menor(i) <= m
  <2>1. Sig(i) \in SUBSET Nat
    BY <1>1
  <2> HIDE DEF Sig
  <2>2. \E j \in Sig(i) : \A m \in Sig(i) : j <= m
    BY <1>4, <2>1, Minimo
  <2>3. QED
    BY <2>2
<1> HIDE DEF Sig, Menor
<1>5. ASSUME De(k) # {} PROVE EstadoTras(k, 0) = "ausente"
  <2>1. Sig(0) = De(k)
    BY <1>1, <1>2 DEF De
  <2>2. Antes(registros[Menor(0)]) = "ausente"
    BY <2>1, <1>4, <1>5 DEF Cadena
  <2>3. QED
    BY <2>1, <2>2, <1>3, <1>5
<1>6. ASSUME NEW i \in De(k) PROVE Despues(registros[i]) = EstadoTras(k, i)
  <2>1. i \in Nat /\ De(k) \subseteq Nat
    BY <1>1 DEF De
  <2>2. CASE Sig(i) = {}
    <3>1. \A m \in De(k) : m <= i
      BY <2>1, <2>2, <1>2
    <3>2. Despues(registros[i]) = fila[k]
      BY <3>1 DEF Final
    <3>3. QED
      BY <3>2, <2>1, <2>2, <1>3
  <2>3. CASE Sig(i) # {}
    <3>1. PICK j \in Nat : j = Menor(i) /\ j \in De(k) /\ i < j /\ \A m \in Sig(i) : j <= m
      BY <2>1, <2>3, <1>2, <1>4
    <3>2. \A m \in De(k) : m <= i \/ j <= m
      BY <3>1, <2>1, <1>2
    <3>3. Despues(registros[i]) = Antes(registros[j])
      BY <3>1, <3>2 DEF Cadena
    <3>4. QED
      BY <3>1, <3>3, <2>1, <2>3, <1>3
  <2>4. QED
    BY <2>2, <2>3
<1>7. QED
  BY <1>5, <1>6

\* Read by timestamp, the audit records of a key tell its whole life, from no row
\* to the row it has, for a vehicle whose requests never overlapped and a key none
\* of whose records was lost.
THEOREM Reconstruye == Spec => []AuditoriaReconstruye
<1>1. Init => IndHistoria
  <2>1. ASSUME Init, NEW k \in Claves PROVE HistoriaDe(k)
    <3>1. De(k) = {} /\ PorAnunciar(k) = {} /\ fila[k] = "ausente"
      BY <2>1 DEF Init, De, PorAnunciar, EnPaso, Libre
    <3>2. QED
      BY <3>1 DEF HistoriaDe, Cadena, Final
  <2>2. Init => BajaActiva
    BY DEF Init, BajaActiva, ConFila, Libre
  <2>3. QED
    BY <2>1, <2>2, ReglaInicial DEF IndHistoria, Historia
<1>2. IndHistoria => AuditoriaReconstruye
  <2> SUFFICES ASSUME IndHistoria, NEW k \in Claves, k \notin sinRegistro,
                      VehiculoDe(k) \notin solapados, EnCursoSobre(VehiculoDe(k)) = {}
               PROVE  /\ EstadoTras(k, 0) = "ausente" \/ De(k) = {}
                      /\ fila[k] # "ausente" => De(k) # {}
                      /\ \A i \in De(k) : Despues(registros[i]) = EstadoTras(k, i)
    BY DEF AuditoriaReconstruye, De
  <2>1. PorAnunciar(k) = {}
    BY DEF PorAnunciar, EnPaso, EnCurso, EnCursoSobre
  <2>2. Cadena(k) /\ Final(k, fila[k]) /\ TypeOK
    BY <2>1 DEF IndHistoria, Historia, HistoriaDe, Ind, IndTipo
  <2>3. QED
    BY <2>2, CadenaReconstruye DEF Final
<1>3. QED
  BY <1>1, <1>2, HistoriaPaso, PTL DEF Spec

=============================================================================
