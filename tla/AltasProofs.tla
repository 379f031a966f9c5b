----------------------------- MODULE AltasProofs -----------------------------
(***************************************************************************)
(* Proofs about Altas for any persons, names, requests, failures and       *)
(* stops.                                                                  *)
(*                                                                         *)
(* PersonaConUsuario is not inductive: a registration may be refused after *)
(* its person was committed.  That is when its username is taken, and      *)
(* Libres says that whoever took it put the registration among cruzadas:   *)
(* it found the username free when it chose it, and every username that    *)
(* is stored since then is compared with it.  A change of contact touches  *)
(* persons that are stored (Conocidas), so it stores none without a user.  *)
(***************************************************************************)
EXTENDS Altas, TLAPS

\* The root has a form, and what stands for no value is none.
Distintos ==
  /\ Raiz \in Formularios
  /\ ContactoDe \in [Formularios -> Contactos]
  /\ Nadie \notin Contactos
  /\ Nadie \notin Nombres
  /\ Semilla \notin Peticiones

\* The bounds are numbers.
Cotas == NumSemillas \in Nat /\ MaxPeticiones \in Nat /\ MaxFallas \in Nat

DeAlta == {"verificar", "guardar", "nombre", "comparar", "insertar", "cliente"}
DeCambio == {"leer", "revisar", "modificar"}
DeNombre == {"consultar", "disputar", "renombrar"}
PorEntregar == {"nombre", "comparar", "insertar"}

Nombre(s) == <<Base[s.f], s.n>>

\* A registration that found its username free finds it free still, or is crossed.
Libres ==
  \A q \in Quienes :
    alta[q].paso \in {"comparar", "insertar"} /\ alta[q].f \notin cruzadas => Nombre(alta[q]) \notin Ocupados

\* Only stored persons change their contact.
Conocidas ==
  \A q \in Quienes : alta[q].paso \in {"revisar", "modificar"} => alta[q].f \in Registradas

\* The registration of the boot runs only while it waits for it.
Solitaria == alta[Semilla] # Libre => servicio = "sembrando"

Ind == TypeOK /\ Solitaria /\ Libres /\ Conocidas /\ PersonaConUsuario

-----------------------------------------------------------------------------
(***************************************************************************)
(* What a request holds, and what its steps leave there.                   *)
(***************************************************************************)

LEMMA Formas ==
  ASSUME TypeOK, NEW q \in Quienes
  PROVE  /\ alta[q].paso \in DeAlta \cup DeCambio \cup DeNombre => alta[q] \in Solicitud /\ alta[q].f \in Formularios
         /\ alta[q].paso \in DeAlta => alta[q].n \in Nat
         /\ alta[q].paso \in DeCambio => alta[q].contacto \in Contactos
         /\ alta[q].paso \in DeNombre => alta[q].nombre \in Nombres
         /\ alta[q] # Libre => alta[q].paso \in DeAlta \cup DeCambio \cup DeNombre
BY DEF TypeOK, Solicitud, Libre, DeAlta, DeCambio, DeNombre

LEMMA Valores ==
  ASSUME TypeOK, NEW q \in Quienes, NEW s, alta' = [alta EXCEPT ![q] = s]
  PROVE  /\ \A r \in Quienes : alta'[r] = IF r = q THEN s ELSE alta[r]
         /\ s \in Solicitud \cup {Libre} => alta' \in [Quienes -> Solicitud \cup {Libre}]
BY DEF TypeOK

\* A request that goes on keeps what it is about.
LEMMA Avance ==
  ASSUME TypeOK, NEW q \in Quienes, NEW grupo \in {DeAlta, DeCambio, DeNombre},
         alta[q].paso \in grupo, NEW paso \in grupo, Avanzar(q, paso)
  PROVE  \E s \in Solicitud : /\ alta' = [alta EXCEPT ![q] = s]
                              /\ s.paso = paso /\ s.f = alta[q].f
                              /\ alta[q].paso \in DeAlta => s.n = alta[q].n
<1> DEFINE s == [alta[q] EXCEPT !.paso = paso]
<1>1. alta' = [alta EXCEPT ![q] = s]
  BY DEF Avanzar
<1>2. alta[q] \in Solicitud
  BY Formas
<1>3. s \in Solicitud /\ s.paso = paso /\ s.f = alta[q].f /\ (alta[q].paso \in DeAlta => s.n = alta[q].n)
  BY <1>2 DEF Solicitud, DeAlta, DeCambio, DeNombre
<1> HIDE DEF s
<1>4. QED
  BY <1>1, <1>3

\* One request changes, and with it the tables in the ways that keep the invariant.
LEMMA Paso ==
  ASSUME Ind, NEW q \in Quienes, NEW s \in Solicitud \cup {Libre}, alta' = [alta EXCEPT ![q] = s],
         cruzadas \subseteq cruzadas', cortadas \subseteq cortadas', Registradas \subseteq Registradas',
         \A f \in Registradas' : f \in Registradas \/ (s.paso = "nombre" /\ s.f = f),
         \A f \in Formularios : usuario[f] # Nadie => usuario'[f] # Nadie,
         \A r \in Quienes \ {q}, nombre \in Ocupados' \ Ocupados :
           alta[r].paso \in {"comparar", "insertar"} /\ Nombre(alta[r]) = nombre => alta[r].f \in cruzadas',
         s.paso \in {"comparar", "insertar"} => s.f \in cruzadas' \/ Nombre(s) \notin Ocupados',
         s.paso \in {"revisar", "modificar"} => s.f \in Registradas,
         alta[q].paso \in PorEntregar =>
           \/ s.paso \in PorEntregar /\ s.f = alta[q].f
           \/ alta[q].f \in cortadas' \cup cruzadas'
           \/ usuario'[alta[q].f] # Nadie
  PROVE  (Libres /\ Conocidas /\ PersonaConUsuario)'
<1>1. \A r \in Quienes : alta'[r] = IF r = q THEN s ELSE alta[r]
  BY Valores DEF Ind
<1>2. Libres'
  <2> SUFFICES ASSUME NEW r \in Quienes, alta'[r].paso \in {"comparar", "insertar"}, alta'[r].f \notin cruzadas',
                      <<Base[alta'[r].f], alta'[r].n>> \in Ocupados'
               PROVE  FALSE
    BY DEF Libres, Nombre
  <2>1. CASE r = q
    BY <1>1, <2>1 DEF Nombre
  <2>2. CASE r # q
    BY <1>1, <2>2 DEF Ind, Libres, Nombre
  <2>3. QED
    BY <2>1, <2>2
<1>3. Conocidas'
  BY <1>1 DEF Ind, Conocidas
<1>4. PersonaConUsuario'
  <2> SUFFICES ASSUME NEW f \in Registradas', usuario'[f] = Nadie, f \notin cortadas' \cup cruzadas'
               PROVE  \E r \in Quienes : alta'[r].paso \in PorEntregar /\ alta'[r].f = f
    BY DEF PersonaConUsuario, PorNombrar, PorEntregar
  <2>1. CASE f \notin Registradas
    BY <1>1, <2>1 DEF PorEntregar
  <2>2. CASE f \in Registradas
    <3>1. usuario[f] = Nadie
      BY <2>2 DEF Registradas
    <3>2. PICK r \in Quienes : alta[r].paso \in PorEntregar /\ alta[r].f = f
      BY <2>2, <3>1 DEF Ind, PersonaConUsuario, PorNombrar, PorEntregar
    <3>3. CASE r # q
      BY <1>1, <3>2, <3>3
    <3>4. CASE r = q
      BY <1>1, <3>2, <3>4
    <3>5. QED
      BY <3>3, <3>4
  <2>3. QED
    BY <2>1, <2>2
<1>5. QED
  BY <1>2, <1>3, <1>4

\* The same, when the step touches neither persons nor users.
LEMMA PasoSinTablas ==
  ASSUME Ind, NEW q \in Quienes, NEW s \in Solicitud \cup {Libre}, alta' = [alta EXCEPT ![q] = s],
         UNCHANGED <<contacto, usuario>>,
         cruzadas \subseteq cruzadas', cortadas \subseteq cortadas',
         s.paso \in {"comparar", "insertar"} => s.f \in cruzadas' \/ Nombre(s) \notin Ocupados,
         s.paso \in {"revisar", "modificar"} => s.f \in Registradas,
         alta[q].paso \in PorEntregar =>
           (s.paso \in PorEntregar /\ s.f = alta[q].f) \/ alta[q].f \in cortadas' \cup cruzadas'
  PROVE  (Libres /\ Conocidas /\ PersonaConUsuario)'
<1>1. Registradas' = Registradas /\ Ocupados' = Ocupados
  BY DEF Registradas, Ocupados
<1>2. QED
  BY <1>1, Paso

\* No request changes.
LEMMA PasoQuieto ==
  ASSUME Ind, UNCHANGED <<alta, contacto, usuario, cruzadas, cortadas>>
  PROVE  (Libres /\ Conocidas /\ PersonaConUsuario)'
BY DEF Ind, Libres, Conocidas, PersonaConUsuario, PorNombrar, Registradas, Ocupados, Nombre

-----------------------------------------------------------------------------
(***************************************************************************)
(* The steps of a registration.                                            *)
(***************************************************************************)

\* A request ends; if it still owed a user, somebody says why.
LEMMA Fin ==
  ASSUME Ind, NEW q \in Quienes, alta' = [alta EXCEPT ![q] = Libre],
         UNCHANGED <<contacto, usuario, cruzadas>>, cortadas \subseteq cortadas',
         alta[q].paso \in PorEntregar => alta[q].f \in cortadas' \cup cruzadas
  PROVE  (Libres /\ Conocidas /\ PersonaConUsuario)'
<1> DEFINE s == Libre
<1>1. s \in Solicitud \cup {Libre} /\ s.paso = "libre" /\ alta' = [alta EXCEPT ![q] = s]
  BY DEF Libre
<1> HIDE DEF s
<1>2. QED
  BY <1>1, PasoSinTablas

LEMMA PasoVerificar ==
  ASSUME Ind, NEW q \in Quienes, Verificar(q)
  PROVE  (Libres /\ Conocidas /\ PersonaConUsuario)'
<1>1. UNCHANGED <<contacto, usuario, cruzadas, cortadas>> /\ alta[q].paso = "verificar" /\ TypeOK
  BY DEF Verificar, SinTablas, Ind
<1>2. CASE Rechazar(q)
  BY <1>1, <1>2, Fin DEF Rechazar, PorEntregar
<1>3. CASE Avanzar(q, "guardar")
  <2>1. PICK s \in Solicitud : alta' = [alta EXCEPT ![q] = s] /\ s.paso = "guardar"
    BY <1>1, <1>3, Avance DEF DeAlta
  <2>2. QED
    BY <1>1, <2>1, PasoSinTablas DEF PorEntregar
<1>4. QED
  BY <1>2, <1>3 DEF Verificar

LEMMA PasoGuardar ==
  ASSUME Distintos, Ind, NEW q \in Quienes, Guardar(q)
  PROVE  (Libres /\ Conocidas /\ PersonaConUsuario)'
<1> DEFINE f == alta[q].f
<1>1. /\ UNCHANGED <<usuario, cruzadas, cortadas>> /\ alta[q].paso = "guardar" /\ TypeOK
      /\ f \in Formularios
  BY Formas DEF Guardar, Ind, DeAlta
<1>2. CASE Conocida(f)
  BY <1>1, <1>2, Fin DEF Guardar, Rechazar, PorEntregar
<1>3. CASE ~Conocida(f)
  <2>1. PICK s \in Solicitud : alta' = [alta EXCEPT ![q] = s] /\ s.paso = "nombre" /\ s.f = f
    BY <1>1, <1>3, Avance DEF Guardar, DeAlta
  <2>2. \A g \in Formularios : contacto'[g] = IF g = f THEN ContactoDe[f] ELSE contacto[g]
    BY <1>1, <1>3 DEF Guardar, TypeOK
  <2>3. ContactoDe[f] # Nadie
    BY <1>1 DEF Distintos
  <2>4. Registradas' = Registradas \cup {f} /\ Ocupados' = Ocupados
    BY <1>1, <2>2, <2>3 DEF Registradas, Ocupados
  <2>5. QED
    BY <1>1, <2>1, <2>4, Paso DEF PorEntregar
<1>4. QED
  BY <1>2, <1>3

LEMMA PasoBuscarNombre ==
  ASSUME Ind, NEW q \in Quienes, BuscarNombre(q)
  PROVE  (Libres /\ Conocidas /\ PersonaConUsuario)'
<1> DEFINE n == Candidato(alta[q].f, alta[q].n)
           s == [alta[q] EXCEPT !.n = n, !.paso = IF n = alta[q].n THEN "comparar" ELSE "nombre"]
<1>1. /\ UNCHANGED <<contacto, usuario, cruzadas, cortadas>> /\ alta[q].paso = "nombre"
      /\ alta[q] \in Solicitud /\ alta[q].n \in Nat
  BY Formas DEF BuscarNombre, SinTablas, Ind, DeAlta
<1>2. n \in Nat /\ (n = alta[q].n => <<Base[alta[q].f], n>> \notin Ocupados)
  BY <1>1 DEF Candidato
<1>3. alta' = [alta EXCEPT ![q] = s]
  BY DEF BuscarNombre
<1> HIDE DEF n
<1>4. /\ s \in Solicitud /\ s.f = alta[q].f /\ s.n = n
      /\ s.paso = IF n = alta[q].n THEN "comparar" ELSE "nombre"
  BY <1>1, <1>2 DEF Solicitud
<1> HIDE DEF s
<1>5. QED
  BY <1>1, <1>2, <1>3, <1>4, PasoSinTablas DEF PorEntregar, Nombre

\* A username is stored, and every registration that had chosen it is crossed.
LEMMA PasoNombrar ==
  ASSUME Distintos, Ind, NEW q \in Quienes, NEW s \in Solicitud \cup {Libre}, alta' = [alta EXCEPT ![q] = s],
         NEW f \in Formularios, NEW nombre \in Nombres,
         Nombrar(f, nombre, Elegido(nombre) \ {q}) \/ Nombrar(f, nombre, Elegido(nombre)),
         UNCHANGED <<contacto, cortadas>>,
         s.paso \notin {"comparar", "insertar", "revisar", "modificar", "nombre"},
         alta[q].paso \in PorEntregar => alta[q].f = f
  PROVE  (Libres /\ Conocidas /\ PersonaConUsuario)'
<1>1. \A g \in Formularios : usuario'[g] = IF g = f THEN nombre ELSE usuario[g]
  BY DEF Nombrar, Ind, TypeOK
<1>2. nombre # Nadie
  BY DEF Distintos
<1>3. Ocupados' \ Ocupados \subseteq {nombre}
  BY <1>1 DEF Ocupados
<1>4. \A r \in Quienes \ {q} :
        alta[r].paso \in {"comparar", "insertar"} /\ Nombre(alta[r]) = nombre => alta[r].f \in cruzadas'
  BY DEF Nombrar, Elegido, Nombre
<1>5. Registradas' = Registradas /\ cruzadas \subseteq cruzadas' /\ cortadas' = cortadas
  BY DEF Registradas, Nombrar
<1>6. \A r \in Quienes \ {q}, otro \in Ocupados' \ Ocupados :
        alta[r].paso \in {"comparar", "insertar"} /\ Nombre(alta[r]) = otro => alta[r].f \in cruzadas'
  BY <1>3, <1>4
<1>7. /\ \A g \in Formularios : usuario[g] # Nadie => usuario'[g] # Nadie
      /\ alta[q].paso \in PorEntregar => usuario'[alta[q].f] # Nadie
  BY <1>1, <1>2
<1>8. QED
  BY <1>5, <1>6, <1>7, Paso

LEMMA PasoEntregar ==
  ASSUME Distintos, Ind, NEW q \in Quienes, Entregar(q)
  PROVE  (Libres /\ Conocidas /\ PersonaConUsuario)'
<1> DEFINE f == alta[q].f
           nombre == <<Base[f], alta[q].n>>
<1>1. /\ UNCHANGED <<contacto, cortadas>> /\ alta[q].paso \in {"comparar", "insertar"}
      /\ f \in Formularios /\ alta[q].n \in Nat /\ TypeOK /\ nombre = Nombre(alta[q])
  BY Formas DEF Entregar, Ind, DeAlta, Nombre
<1>2. CASE nombre \in Ocupados
  <2>1. f \in cruzadas
    BY <1>1, <1>2 DEF Ind, Libres
  <2>2. QED
    BY <1>1, <1>2, <2>1, Fin DEF Entregar, Rechazar
<1>3. CASE nombre \notin Ocupados /\ alta[q].paso = "comparar"
  <2>1. UNCHANGED <<usuario, cruzadas>> /\ Avanzar(q, "insertar")
    BY <1>3 DEF Entregar
  <2>2. PICK s \in Solicitud : alta' = [alta EXCEPT ![q] = s] /\ s.paso = "insertar" /\ s.f = f /\ s.n = alta[q].n
    BY <1>1, <2>1, Avance DEF DeAlta
  <2>3. Nombre(s) \notin Ocupados
    BY <1>3, <2>2 DEF Nombre
  <2>4. QED
    BY <1>1, <2>1, <2>2, <2>3, PasoSinTablas DEF PorEntregar
<1>4. CASE nombre \notin Ocupados /\ alta[q].paso = "insertar"
  <2>1. Nombrar(f, nombre, Elegido(nombre) \ {q}) /\ Avanzar(q, "cliente")
    BY <1>4 DEF Entregar
  <2>2. PICK s \in Solicitud : alta' = [alta EXCEPT ![q] = s] /\ s.paso = "cliente"
    BY <1>1, <2>1, Avance DEF DeAlta
  <2>3. nombre \in Nombres
    BY <1>1 DEF Nombres
  <2>4. QED
    BY <1>1, <2>1, <2>2, <2>3, PasoNombrar
<1>5. QED
  BY <1>1, <1>2, <1>3, <1>4

LEMMA PasoOtorgarCliente ==
  ASSUME Ind, NEW q \in Quienes, OtorgarCliente(q)
  PROVE  (Libres /\ Conocidas /\ PersonaConUsuario)'
BY Fin DEF OtorgarCliente, Terminar, PorEntregar

LEMMA PasoRegistro ==
  ASSUME Distintos, Ind, NEW q \in Quienes, Registro(q)
  PROVE  (Libres /\ Conocidas /\ PersonaConUsuario)'
BY PasoVerificar, PasoGuardar, PasoBuscarNombre, PasoEntregar, PasoOtorgarCliente DEF Registro

-----------------------------------------------------------------------------
(***************************************************************************)
(* The other requests, failures and the boot.                              *)
(***************************************************************************)

\* A request starts, for somebody or for the boot.
LEMMA PasoNuevo ==
  ASSUME Ind, NEW q \in Quienes, alta[q] = Libre, NEW s \in Solicitud,
         s.paso \in {"verificar", "leer", "consultar"}, alta' = [alta EXCEPT ![q] = s],
         UNCHANGED <<contacto, usuario, cruzadas, cortadas>>
  PROVE  (Libres /\ Conocidas /\ PersonaConUsuario)'
<1>1. alta[q].paso \notin PorEntregar /\ s \in Solicitud \cup {Libre}
  BY DEF Libre, PorEntregar
<1>2. QED
  BY <1>1, PasoSinTablas

LEMMA PasoEmpezar ==
  ASSUME Ind, NEW p \in Peticiones, NEW s \in Solicitud,
         s.paso \in {"verificar", "leer", "consultar"}, Empezar(p, s)
  PROVE  (Libres /\ Conocidas /\ PersonaConUsuario)'
BY PasoNuevo DEF Empezar, SinTablas, Quienes

LEMMA PasoPeticiones ==
  ASSUME Distintos, Cotas, Ind, NEW p \in Peticiones, NEW f \in Formularios,
         \/ EmpezarAlta(p, f)
         \/ \E c \in Contactos : EmpezarCambio(p, f, c)
         \/ \E g \in Formularios, n \in 0..MaxPeticiones : EmpezarRenombre(p, f, <<Base[g], n>>)
  PROVE  (Libres /\ Conocidas /\ PersonaConUsuario)'
<1>1. CASE EmpezarAlta(p, f)
  <2>1. [paso |-> "verificar", f |-> f, n |-> 0] \in Solicitud
    BY DEF Solicitud
  <2>2. QED
    BY <1>1, <2>1, PasoEmpezar DEF EmpezarAlta
<1>2. ASSUME NEW c \in Contactos, EmpezarCambio(p, f, c)
      PROVE  (Libres /\ Conocidas /\ PersonaConUsuario)'
  <2>1. [paso |-> "leer", f |-> f, contacto |-> c] \in Solicitud
    BY DEF Solicitud
  <2>2. QED
    BY <1>2, <2>1, PasoEmpezar DEF EmpezarCambio
<1>3. ASSUME NEW g \in Formularios, NEW n \in 0..MaxPeticiones, EmpezarRenombre(p, f, <<Base[g], n>>)
      PROVE  (Libres /\ Conocidas /\ PersonaConUsuario)'
  <2>1. <<Base[g], n>> \in Nombres
    BY DEF Nombres, Cotas
  <2>2. [paso |-> "consultar", f |-> f, nombre |-> <<Base[g], n>>] \in Solicitud
    BY <2>1 DEF Solicitud
  <2>3. QED
    BY <1>3, <2>2, PasoEmpezar DEF EmpezarRenombre
<1>4. QED
  BY <1>1, <1>2, <1>3

LEMMA PasoCambiar ==
  ASSUME Distintos, Ind, NEW p \in Peticiones, Cambiar(p)
  PROVE  (Libres /\ Conocidas /\ PersonaConUsuario)'
<1> DEFINE f == alta[p].f
<1>1. /\ UNCHANGED <<usuario, cruzadas, cortadas>> /\ p \in Quienes /\ TypeOK
      /\ alta[p].paso \in DeCambio /\ alta[p].paso \notin PorEntregar
      /\ f \in Formularios /\ alta[p].contacto \in Contactos
  BY Formas DEF Cambiar, Quienes, Ind, DeCambio, PorEntregar
<1>2. Registradas' = Registradas /\ Ocupados' = Ocupados
  <2>1. \/ contacto' = contacto
        \/ f \in Registradas /\ contacto' = [contacto EXCEPT ![f] = alta[p].contacto]
    BY <1>1 DEF Cambiar, Ind, Conocidas
  <2>2. f \in Registradas => \A g \in Formularios : contacto'[g] = Nadie <=> contacto[g] = Nadie
    BY <1>1, <2>1 DEF Distintos, TypeOK, Registradas
  <2>3. QED
    BY <1>1, <2>1, <2>2 DEF Registradas, Ocupados
<1>3. CASE alta' = [alta EXCEPT ![p] = Libre]
  <2> DEFINE s == Libre
  <2>1. s \in Solicitud \cup {Libre} /\ s.paso = "libre" /\ alta' = [alta EXCEPT ![p] = s]
    BY <1>3 DEF Libre
  <2> HIDE DEF s
  <2>2. QED
    BY <1>1, <1>2, <2>1, Paso
<1>4. ASSUME NEW paso \in {"revisar", "modificar"}, Avanzar(p, paso), f \in Registradas
      PROVE  (Libres /\ Conocidas /\ PersonaConUsuario)'
  <2>1. PICK s \in Solicitud : alta' = [alta EXCEPT ![p] = s] /\ s.paso = paso /\ s.f = f
    BY <1>1, <1>4, Avance DEF DeCambio
  <2>2. QED
    BY <1>1, <1>2, <1>4, <2>1, Paso
<1>5. alta[p].paso = "revisar" => f \in Registradas
  BY <1>1 DEF Ind, Conocidas
<1>6. QED
  BY <1>3, <1>4, <1>5 DEF Cambiar

LEMMA PasoRenombrar ==
  ASSUME Distintos, Ind, NEW p \in Peticiones, Renombrar(p)
  PROVE  (Libres /\ Conocidas /\ PersonaConUsuario)'
<1>1. /\ UNCHANGED <<contacto, cortadas>> /\ p \in Quienes /\ TypeOK
      /\ alta[p].paso \in DeNombre /\ alta[p].paso \notin PorEntregar
      /\ alta[p].f \in Formularios /\ alta[p].nombre \in Nombres
  BY Formas DEF Renombrar, Quienes, Ind, DeNombre, PorEntregar
<1>2. CASE UNCHANGED <<usuario, cruzadas>> /\ alta' = [alta EXCEPT ![p] = Libre]
  BY <1>1, <1>2, Fin
<1>3. ASSUME NEW paso \in {"disputar", "renombrar"}, Avanzar(p, paso), UNCHANGED <<usuario, cruzadas>>
      PROVE  (Libres /\ Conocidas /\ PersonaConUsuario)'
  <2>1. PICK s \in Solicitud : alta' = [alta EXCEPT ![p] = s] /\ s.paso = paso
    BY <1>1, <1>3, Avance DEF DeNombre
  <2>2. QED
    BY <1>1, <1>3, <2>1, PasoSinTablas
<1>4. CASE /\ Nombrar(alta[p].f, alta[p].nombre, Elegido(alta[p].nombre))
           /\ alta' = [alta EXCEPT ![p] = Libre]
  <2> DEFINE s == Libre
  <2>1. s \in Solicitud \cup {Libre} /\ s.paso = "libre" /\ alta' = [alta EXCEPT ![p] = s]
    BY <1>4 DEF Libre
  <2> HIDE DEF s
  <2>2. QED
    BY <1>1, <1>4, <2>1, PasoNombrar
<1>5. QED
  BY <1>2, <1>3, <1>4 DEF Renombrar

LEMMA PasoFallarPeticion ==
  ASSUME Ind, NEW q \in Quienes, FallarPeticion(q)
  PROVE  (Libres /\ Conocidas /\ PersonaConUsuario)'
BY Fin DEF FallarPeticion, Rechazar, PorNombrar, PorEntregar

LEMMA PasoBuscarRaiz ==
  ASSUME Distintos, Ind, BuscarRaiz
  PROVE  (Libres /\ Conocidas /\ PersonaConUsuario)'
<1>1. /\ [paso |-> "verificar", f |-> Raiz, n |-> 0] \in Solicitud
      /\ Semilla \in Quienes /\ alta[Semilla] = Libre
  BY DEF Solicitud, Distintos, Quienes, BuscarRaiz, Ind, Solitaria
<1>2. QED
  BY <1>1, PasoNuevo, PasoQuieto DEF BuscarRaiz

LEMMA PasoCaida ==
  ASSUME Ind, Caida
  PROVE  (Libres /\ Conocidas /\ PersonaConUsuario)'
<1>1. /\ \A q \in Quienes : alta'[q].paso = "libre"
      /\ UNCHANGED <<contacto, usuario, cruzadas>> /\ cortadas \subseteq cortadas'
      /\ \A q \in Quienes : PorNombrar(q) => alta[q].f \in cortadas'
  BY DEF Caida, Libre
<1>2. Registradas' = Registradas
  BY <1>1 DEF Registradas
<1>3. Libres' /\ Conocidas'
  BY <1>1 DEF Libres, Conocidas
<1>4. PersonaConUsuario'
  BY <1>1, <1>2 DEF Ind, PersonaConUsuario
<1>5. QED
  BY <1>3, <1>4

\* No step but those of the boot runs, or starts, its registration.
LEMMA SolitariaPaso ==
  ASSUME Distintos, Ind, [Next]_vars
  PROVE  Solitaria'
<1>1. TypeOK /\ Semilla \in Quienes /\ \A p \in Peticiones : p \in Quienes /\ p # Semilla
  BY DEF Ind, Quienes, Distintos
<1>2. ASSUME NEW q \in Quienes, NEW s, alta' = [alta EXCEPT ![q] = s],
             \/ servicio' = servicio /\ (q = Semilla => alta[q] # Libre)
             \/ q = Semilla /\ s = Libre
      PROVE  Solitaria'
  <2>1. alta'[Semilla] = IF q = Semilla THEN s ELSE alta[Semilla]
    BY <1>1, <1>2, Valores
  <2>2. CASE servicio' = servicio /\ (q = Semilla => alta[q] # Libre)
    BY <2>1, <2>2 DEF Ind, Solitaria
  <2>3. CASE q = Semilla /\ s = Libre
    BY <2>1, <2>3 DEF Solitaria, Libre
  <2>4. QED
    BY <1>2, <2>2, <2>3
<1>3. ASSUME NEW q \in Quienes, NEW paso, alta[q] # Libre, Avanzar(q, paso), UNCHANGED servicio PROVE Solitaria'
  BY <1>2, <1>3 DEF Avanzar
<1>4. ASSUME NEW q \in Quienes, alta' = [alta EXCEPT ![q] = Libre], q = Semilla \/ servicio' = servicio
      PROVE  Solitaria'
  <2>1. CASE q = Semilla
    BY <1>2, <1>4, <2>1
  <2>2. CASE q # Semilla
    BY <1>2, <1>4, <2>2
  <2>3. QED
    BY <2>1, <2>2
<1>5. ASSUME NEW q \in Quienes, Rechazar(q) \/ Terminar(q) PROVE Solitaria'
  BY <1>4, <1>5 DEF Rechazar, Terminar
<1>6. ASSUME NEW q \in Quienes, Registro(q) PROVE Solitaria'
  <2>1. alta[q] # Libre
    BY <1>6 DEF Registro, Verificar, Guardar, BuscarNombre, Entregar, OtorgarCliente, Libre
  <2>2. CASE Verificar(q)
    BY <1>3, <1>5, <2>1, <2>2 DEF Verificar
  <2>3. CASE Guardar(q)
    BY <1>3, <1>5, <2>1, <2>3 DEF Guardar
  <2>4. CASE BuscarNombre(q)
    <3> DEFINE n == Candidato(alta[q].f, alta[q].n)
               s == [alta[q] EXCEPT !.n = n, !.paso = IF n = alta[q].n THEN "comparar" ELSE "nombre"]
    <3>1. alta' = [alta EXCEPT ![q] = s] /\ servicio' = servicio
      BY <2>4 DEF BuscarNombre
    <3> HIDE DEF s
    <3>2. QED
      BY <1>2, <2>1, <3>1
  <2>5. CASE Entregar(q)
    BY <1>3, <1>5, <2>1, <2>5 DEF Entregar
  <2>6. CASE OtorgarCliente(q)
    BY <1>5, <2>6 DEF OtorgarCliente
  <2>7. QED
    BY <1>6, <2>2, <2>3, <2>4, <2>5, <2>6 DEF Registro
<1>7. ASSUME NEW p \in Peticiones, NEW s, Empezar(p, s) PROVE Solitaria'
  BY <1>1, <1>2, <1>7 DEF Empezar
<1>8. ASSUME NEW p \in Peticiones, Peticion(p) PROVE Solitaria'
  <2>1. CASE Cambiar(p)
    <3>1. alta[p] # Libre /\ servicio' = servicio
      BY <2>1 DEF Cambiar, Libre
    <3>2. alta' = [alta EXCEPT ![p] = Libre] \/ \E paso : Avanzar(p, paso)
      BY <2>1 DEF Cambiar
    <3>3. QED
      BY <1>1, <1>3, <1>4, <3>1, <3>2
  <2>2. CASE Renombrar(p)
    <3>1. alta[p] # Libre /\ servicio' = servicio
      BY <2>2 DEF Renombrar, Libre
    <3>2. alta' = [alta EXCEPT ![p] = Libre] \/ \E paso : Avanzar(p, paso)
      BY <2>2 DEF Renombrar
    <3>3. QED
      BY <1>1, <1>3, <1>4, <3>1, <3>2
  <2>3. QED
    BY <1>7, <1>8, <2>1, <2>2 DEF Peticion, EmpezarAlta, EmpezarCambio, EmpezarRenombre
<1>9. ASSUME NEW q \in Quienes, FallarPeticion(q) PROVE Solitaria'
  BY <1>5, <1>9 DEF FallarPeticion
<1>10. CASE Arrancar \/ SembrarFila \/ OtorgarRaiz \/ BuscarRaiz
  BY <1>10 DEF Arrancar, SembrarFila, OtorgarRaiz, BuscarRaiz, SinPeticiones, Ind, Solitaria, Libre
<1>11. ASSUME NEW f \in Formularios, CambiarRaiz(f) PROVE Solitaria'
  BY <1>11 DEF CambiarRaiz, Ind, Solitaria, Libre
<1>12. CASE Caida
  BY <1>1, <1>12 DEF Caida, Solitaria, Libre
<1>13. CASE UNCHANGED vars
  BY <1>13 DEF vars, Ind, Solitaria, Libre
<1>14. QED
  BY <1>6, <1>8, <1>9, <1>10, <1>11, <1>12, <1>13 DEF Next, Arranque, Quienes

-----------------------------------------------------------------------------
(***************************************************************************)
(* Types.                                                                  *)
(***************************************************************************)

\* What TypeOK says of the requests and the tables they write.
TipoTablas ==
  /\ alta \in [Quienes -> Solicitud \cup {Libre}]
  /\ contacto \in [Formularios -> Contactos \cup {Nadie}]
  /\ usuario \in [Formularios -> Nombres \cup {Nadie}]

TipoDemas ==
  /\ servicio \in {"apagado", "roles", "sembrando", "otorgar", "sirviendo"}
  /\ indice \in 1..NumSemillas + 1
  /\ sembradas \subseteq 1..NumSemillas
  /\ roles \in [Formularios -> SUBSET {"CLIENTE", "ROOT"}]
  /\ recibidas \in 0..MaxPeticiones
  /\ fallas \in 0..MaxFallas
  /\ cortadas \subseteq Formularios
  /\ cruzadas \subseteq Formularios

LEMMA TiposJuntos == TypeOK <=> TipoTablas /\ TipoDemas
BY DEF TypeOK, TipoTablas, TipoDemas

LEMMA TablasPaso ==
  ASSUME Distintos, Cotas, TypeOK, [Next]_vars
  PROVE  TipoTablas'
<1>1. TipoTablas /\ Libre \in Solicitud \cup {Libre} /\ \A p \in Peticiones : p \in Quienes
  BY DEF TypeOK, TipoTablas, Quienes
<1>2. ASSUME NEW q \in Quienes, NEW grupo \in {DeAlta, DeCambio, DeNombre},
             alta[q].paso \in grupo, NEW paso \in grupo, Avanzar(q, paso)
      PROVE  alta' \in [Quienes -> Solicitud \cup {Libre}]
  BY <1>2, Avance, Valores
<1>3. ASSUME NEW q \in Quienes, Rechazar(q) \/ Terminar(q) \/ alta' = [alta EXCEPT ![q] = Libre]
      PROVE  alta' \in [Quienes -> Solicitud \cup {Libre}]
  BY <1>1, <1>3, Valores DEF Rechazar, Terminar
<1>4. ASSUME NEW q \in Quienes, Registro(q) PROVE TipoTablas'
  <2>1. CASE Verificar(q)
    BY <1>1, <1>2, <1>3, <2>1 DEF Verificar, SinTablas, TipoTablas, DeAlta
  <2>2. CASE Guardar(q)
    <3>1. alta[q].paso \in DeAlta /\ "nombre" \in DeAlta /\ alta[q].f \in Formularios
      BY <2>2, Formas DEF Guardar, DeAlta
    <3>2. contacto' \in [Formularios -> Contactos \cup {Nadie}]
      BY <1>1, <2>2, <3>1 DEF Guardar, TipoTablas, Distintos
    <3>3. alta' \in [Quienes -> Solicitud \cup {Libre}]
      BY <1>2, <1>3, <2>2, <3>1 DEF Guardar
    <3>4. QED
      BY <1>1, <2>2, <3>2, <3>3 DEF Guardar, TipoTablas
  <2>3. CASE BuscarNombre(q)
    <3> DEFINE n == Candidato(alta[q].f, alta[q].n)
               s == [alta[q] EXCEPT !.n = n, !.paso = IF n = alta[q].n THEN "comparar" ELSE "nombre"]
    <3>1. alta[q] \in Solicitud /\ alta[q].n \in Nat /\ alta[q].paso = "nombre"
      BY <2>3, Formas DEF BuscarNombre, DeAlta
    <3>2. n \in Nat
      BY <3>1 DEF Candidato
    <3>3. alta' = [alta EXCEPT ![q] = s]
      BY <2>3 DEF BuscarNombre
    <3> HIDE DEF n
    <3>4. s \in Solicitud
      BY <3>1, <3>2 DEF Solicitud
    <3> HIDE DEF s
    <3>5. QED
      BY <1>1, <2>3, <3>3, <3>4, Valores DEF BuscarNombre, SinTablas, TipoTablas
  <2>4. CASE Entregar(q)
    <3>1. alta[q].paso \in DeAlta /\ alta[q].f \in Formularios /\ alta[q].n \in Nat
      BY <2>4, Formas DEF Entregar, DeAlta
    <3>2. <<Base[alta[q].f], alta[q].n>> \in Nombres
      BY <3>1 DEF Nombres
    <3>3. usuario' \in [Formularios -> Nombres \cup {Nadie}]
      BY <1>1, <2>4, <3>1, <3>2 DEF Entregar, Nombrar, TipoTablas
    <3>4. alta' \in [Quienes -> Solicitud \cup {Libre}]
      BY <1>2, <1>3, <2>4, <3>1 DEF Entregar, DeAlta
    <3>5. QED
      BY <1>1, <2>4, <3>3, <3>4 DEF Entregar, TipoTablas
  <2>5. CASE OtorgarCliente(q)
    BY <1>1, <1>3, <2>5 DEF OtorgarCliente, TipoTablas
  <2>6. QED
    BY <1>4, <2>1, <2>2, <2>3, <2>4, <2>5 DEF Registro
<1>5. ASSUME NEW p \in Peticiones, NEW s \in Solicitud, Empezar(p, s) PROVE TipoTablas'
  BY <1>1, <1>5, Valores DEF Empezar, SinTablas, TipoTablas
<1>6. ASSUME NEW p \in Peticiones, Peticion(p) PROVE TipoTablas'
  <2>1. ASSUME NEW f \in Formularios, EmpezarAlta(p, f) PROVE TipoTablas'
    BY <1>5, <2>1 DEF EmpezarAlta, Solicitud
  <2>2. ASSUME NEW f \in Formularios, NEW c \in Contactos, EmpezarCambio(p, f, c) PROVE TipoTablas'
    BY <1>5, <2>2 DEF EmpezarCambio, Solicitud
  <2>3. ASSUME NEW f \in Formularios, NEW g \in Formularios, NEW n \in 0..MaxPeticiones,
               EmpezarRenombre(p, f, <<Base[g], n>>)
        PROVE  TipoTablas'
    <3>1. <<Base[g], n>> \in Nombres
      BY DEF Nombres, Cotas
    <3>2. [paso |-> "consultar", f |-> f, nombre |-> <<Base[g], n>>] \in Solicitud
      BY <3>1 DEF Solicitud
    <3>3. QED
      BY <1>5, <2>3, <3>2 DEF EmpezarRenombre
  <2>4. CASE Cambiar(p)
    <3>1. alta[p].paso \in DeCambio /\ alta[p].f \in Formularios /\ alta[p].contacto \in Contactos
      BY <1>1, <2>4, Formas DEF Cambiar, DeCambio
    <3>2. contacto' \in [Formularios -> Contactos \cup {Nadie}]
      BY <1>1, <2>4, <3>1 DEF Cambiar, TipoTablas
    <3>3. alta' = [alta EXCEPT ![p] = Libre] \/ \E paso \in DeCambio : Avanzar(p, paso)
      BY <2>4 DEF Cambiar, DeCambio
    <3>4. alta' \in [Quienes -> Solicitud \cup {Libre}]
      BY <1>1, <1>2, <1>3, <3>1, <3>3
    <3>5. QED
      BY <1>1, <2>4, <3>2, <3>4 DEF Cambiar, TipoTablas
  <2>5. CASE Renombrar(p)
    <3>1. alta[p].paso \in DeNombre /\ alta[p].f \in Formularios /\ alta[p].nombre \in Nombres
      BY <1>1, <2>5, Formas DEF Renombrar, DeNombre
    <3>2. usuario' \in [Formularios -> Nombres \cup {Nadie}]
      BY <1>1, <2>5, <3>1 DEF Renombrar, Nombrar, TipoTablas
    <3>3. alta' = [alta EXCEPT ![p] = Libre] \/ \E paso \in DeNombre : Avanzar(p, paso)
      BY <2>5 DEF Renombrar, DeNombre
    <3>4. alta' \in [Quienes -> Solicitud \cup {Libre}]
      BY <1>1, <1>2, <1>3, <3>1, <3>3
    <3>5. QED
      BY <1>1, <2>5, <3>2, <3>4 DEF Renombrar, TipoTablas
  <2>6. QED
    BY <1>6, <2>1, <2>2, <2>3, <2>4, <2>5 DEF Peticion
<1>7. ASSUME NEW q \in Quienes, FallarPeticion(q) PROVE TipoTablas'
  BY <1>1, <1>3, <1>7 DEF FallarPeticion, TipoTablas
<1>8. CASE Arrancar \/ SembrarFila \/ OtorgarRaiz
  BY <1>1, <1>8 DEF Arrancar, SembrarFila, OtorgarRaiz, SinPeticiones, TipoTablas
<1>9. CASE BuscarRaiz
  <2>1. [paso |-> "verificar", f |-> Raiz, n |-> 0] \in Solicitud /\ Semilla \in Quienes
    BY DEF Solicitud, Distintos, Quienes
  <2>2. QED
    BY <1>1, <1>9, <2>1, Valores DEF BuscarRaiz, TipoTablas
<1>10. ASSUME NEW f \in Formularios, CambiarRaiz(f) PROVE TipoTablas'
  BY <1>1, <1>10 DEF CambiarRaiz, TipoTablas
<1>11. CASE Caida
  BY <1>1, <1>11 DEF Caida, TipoTablas
<1>12. CASE UNCHANGED vars
  BY <1>1, <1>12 DEF vars, TipoTablas
<1>13. QED
  BY <1>4, <1>6, <1>7, <1>8, <1>9, <1>10, <1>11, <1>12 DEF Next, Arranque, Quienes

LEMMA DemasPaso ==
  ASSUME Distintos, Cotas, TypeOK, [Next]_vars
  PROVE  TipoDemas'
<1>1. TipoDemas
  BY DEF TypeOK, TipoDemas
<1>2. \A q \in Quienes : PorNombrar(q) \/ alta[q].paso \in {"comparar", "insertar"} => alta[q].f \in Formularios
  BY Formas DEF PorNombrar, DeAlta
<1>3. ASSUME NEW f, NEW nombre, NEW otras \in SUBSET Elegido(nombre), Nombrar(f, nombre, otras)
      PROVE  cruzadas' \subseteq Formularios
  BY <1>1, <1>2, <1>3 DEF Nombrar, Elegido, TipoDemas
<1>4. ASSUME NEW p \in Peticiones, NEW s, Empezar(p, s) PROVE TipoDemas'
  BY <1>1, <1>4 DEF Empezar, SinTablas, TipoDemas, Cotas
<1>5. ASSUME NEW p \in Peticiones, Cambiar(p) PROVE TipoDemas'
  BY <1>1, <1>5 DEF Cambiar, Contadores, TipoDemas
<1>6. ASSUME NEW p \in Peticiones, Renombrar(p) PROVE TipoDemas'
  <2>1. cruzadas' \subseteq Formularios
    BY <1>1, <1>3, <1>6 DEF Renombrar, TipoDemas
  <2>2. QED
    BY <1>1, <1>6, <2>1 DEF Renombrar, Contadores, TipoDemas
<1>7. ASSUME NEW q \in Quienes, Verificar(q) \/ Guardar(q) \/ BuscarNombre(q) PROVE TipoDemas'
  BY <1>1, <1>7 DEF Verificar, Guardar, BuscarNombre, Rechazar, SinTablas, Contadores, TipoDemas
<1>8. ASSUME NEW q \in Quienes, Entregar(q) PROVE TipoDemas'
  <2>1. cruzadas' \subseteq Formularios
    BY <1>1, <1>3, <1>8 DEF Entregar, TipoDemas
  <2>2. QED
    BY <1>1, <1>8, <2>1 DEF Entregar, Rechazar, Contadores, TipoDemas
<1>9. ASSUME NEW q \in Quienes, OtorgarCliente(q) PROVE TipoDemas'
  BY <1>1, <1>9 DEF OtorgarCliente, Terminar, TipoDemas, Cotas
<1>10. ASSUME NEW q \in Quienes, FallarPeticion(q) PROVE TipoDemas'
  BY <1>1, <1>2, <1>10 DEF FallarPeticion, Rechazar, TipoDemas, Cotas
<1>11. CASE Arrancar
  BY <1>1, <1>11 DEF Arrancar, SinPeticiones, TipoDemas, Cotas
<1>12. CASE SembrarFila
  BY <1>1, <1>12 DEF SembrarFila, SinPeticiones, TipoDemas, Cotas
<1>13. CASE BuscarRaiz
  BY <1>1, <1>13 DEF BuscarRaiz, TipoDemas
<1>14. CASE OtorgarRaiz
  BY <1>1, <1>14 DEF OtorgarRaiz, SinPeticiones, TipoDemas
<1>15. ASSUME NEW f \in Formularios, CambiarRaiz(f) PROVE TipoDemas'
  BY <1>1, <1>15 DEF CambiarRaiz, TipoDemas, Cotas
<1>16. CASE Caida
  BY <1>1, <1>2, <1>16 DEF Caida, TipoDemas, Cotas
<1>17. CASE UNCHANGED vars
  BY <1>1, <1>17 DEF vars, TipoDemas
<1>18. QED
  BY <1>4, <1>5, <1>6, <1>7, <1>8, <1>9, <1>10, <1>11, <1>12, <1>13, <1>14, <1>15, <1>16, <1>17
     DEF Next, Arranque, Registro, Peticion, Quienes, EmpezarAlta, EmpezarCambio, EmpezarRenombre

-----------------------------------------------------------------------------
(***************************************************************************)
(* The invariant.                                                          *)
(***************************************************************************)

LEMMA IndInicial == Distintos /\ Cotas /\ Init => Ind
<1> SUFFICES ASSUME Distintos, Cotas, Init PROVE Ind
  OBVIOUS
<1>1. PICK iniciado \in BOOLEAN :
        /\ sembradas = IF iniciado THEN 1..NumSemillas ELSE {}
        /\ contacto = [f \in Formularios |-> IF iniciado /\ f = Raiz THEN ContactoDe[Raiz] ELSE Nadie]
        /\ usuario = [f \in Formularios |-> IF iniciado /\ f = Raiz THEN <<Base[Raiz], 0>> ELSE Nadie]
        /\ roles = [f \in Formularios |-> IF iniciado /\ f = Raiz THEN {"CLIENTE", "ROOT"} ELSE {}]
  BY DEF Init
<1>2. <<Base[Raiz], 0>> \in Nombres /\ <<Base[Raiz], 0>> # Nadie /\ ContactoDe[Raiz] \in Contactos
  BY DEF Distintos, Nombres
<1>3. TipoTablas /\ TipoDemas
  BY <1>1, <1>2 DEF Init, TipoTablas, TipoDemas, Cotas
<1>4. PersonaConUsuario
  BY <1>1, <1>2 DEF PersonaConUsuario, Registradas, Distintos
<1>5. Solitaria /\ Libres /\ Conocidas
  BY DEF Init, Solitaria, Libres, Conocidas, Libre, Quienes
<1>6. QED
  BY <1>3, <1>4, <1>5, TiposJuntos DEF Ind

LEMMA IndPaso == Distintos /\ Cotas /\ Ind /\ [Next]_vars => Ind'
<1> SUFFICES ASSUME Distintos, Cotas, Ind, [Next]_vars PROVE Ind'
  OBVIOUS
<1>1. TypeOK'
  BY TablasPaso, DemasPaso, TiposJuntos DEF Ind, TypeOK, TipoTablas, TipoDemas
<1>2. (Libres /\ Conocidas /\ PersonaConUsuario)'
  <2>1. ASSUME NEW p \in Peticiones, Peticion(p) PROVE (Libres /\ Conocidas /\ PersonaConUsuario)'
    BY <2>1, PasoPeticiones, PasoCambiar, PasoRenombrar DEF Peticion
  <2>2. ASSUME NEW f \in Formularios, CambiarRaiz(f) PROVE (Libres /\ Conocidas /\ PersonaConUsuario)'
    BY <2>2, PasoQuieto DEF CambiarRaiz
  <2>3. CASE Arrancar \/ SembrarFila \/ OtorgarRaiz
    BY <2>3, PasoQuieto DEF Arrancar, SembrarFila, OtorgarRaiz, SinPeticiones
  <2>4. CASE UNCHANGED vars
    BY <2>4, PasoQuieto DEF vars
  <2>5. QED
    BY <2>1, <2>2, <2>3, <2>4, PasoRegistro, PasoFallarPeticion, PasoBuscarRaiz, PasoCaida
       DEF Next, Arranque, Quienes
<1>3. QED
  BY <1>1, <1>2, SolitariaPaso DEF Ind

LEMMA IndBasta == Ind => PersonaConUsuario /\ TypeOK
BY DEF Ind

\* Whoever is stored has a user, or its registration is still to give it one, was cut,
\* or lost its username to somebody else.
THEOREM NadieSinUsuario ==
  ASSUME Distintos, Cotas
  PROVE  Spec => []PersonaConUsuario
BY IndInicial, IndPaso, IndBasta, PTL DEF Spec

=============================================================================
