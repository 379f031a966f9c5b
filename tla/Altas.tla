------------------------------- MODULE Altas -------------------------------
(***************************************************************************)
(* Registration of persons with their users in gestion-usuarios, and the   *)
(* boot of that service, which seeds roles and a root user the same way.   *)
(*                                                                         *)
(* A registration checks that the person is new, commits the person, and   *)
(* only then looks for a free username, inserts the user and grants it the *)
(* role CLIENTE.  Users may be given other usernames meanwhile, also the   *)
(* one that a registration found free.  The boot seeds permissions and     *)
(* roles one row at a time and, when nobody holds ROOT, registers the root *)
(* person and grants it.                                                   *)
(***************************************************************************)
EXTENDS Naturals

CONSTANTS
  Formularios,  \* what persons send to register, by dni
  Raiz,         \* the one the seeder sends
  ContactoDe,   \* the email and phone in each
  Base,         \* the username each would get if it were free
  Peticiones,   \* requests being served at once
  Semilla,      \* the registration the boot makes
  NumSemillas,  \* rows of permissions, roles and role_permission to seed
  MaxPeticiones, MaxFallas,  \* bounds: requests in all; failures and stops
  Nadie         \* no value

VARIABLES
  servicio,   \* what the process is doing
  indice,     \* the next row to seed
  sembradas,  \* rows seeded
  alta,       \* the requests being served
  contacto,   \* column email of each stored person
  usuario,    \* username of the user of each person
  roles,      \* roles granted to the user of each person
  recibidas, fallas,
  cortadas,   \* history: persons stored whose registration a failure or a stop cut
  cruzadas    \* history: registrations whose username another user was given first

vars == <<servicio, indice, sembradas, alta, contacto, usuario, roles, recibidas, fallas, cortadas, cruzadas>>

Contactos == {ContactoDe[f] : f \in Formularios}
Nombres == {Base[f] : f \in Formularios} \X Nat
Quienes == Peticiones \cup {Semilla}

Libre == [paso |-> "libre"]

Solicitud ==
  [paso : {"verificar", "guardar", "nombre", "comparar", "insertar", "cliente"},
   f : Formularios, n : Nat]
    \cup [paso : {"leer", "revisar", "modificar"}, f : Formularios, contacto : Contactos]
    \cup [paso : {"consultar", "disputar", "renombrar"}, f : Formularios, nombre : Nombres]

TypeOK ==
  /\ servicio \in {"apagado", "roles", "sembrando", "otorgar", "sirviendo"}
  /\ indice \in 1..NumSemillas + 1
  /\ sembradas \subseteq 1..NumSemillas
  /\ alta \in [Quienes -> Solicitud \cup {Libre}]
  /\ contacto \in [Formularios -> Contactos \cup {Nadie}]
  /\ usuario \in [Formularios -> Nombres \cup {Nadie}]
  /\ roles \in [Formularios -> SUBSET {"CLIENTE", "ROOT"}]
  /\ recibidas \in 0..MaxPeticiones
  /\ fallas \in 0..MaxFallas
  /\ cortadas \subseteq Formularios
  /\ cruzadas \subseteq Formularios

\* The first boot, on an empty database, or a later one.
Init ==
  /\ servicio = "apagado"
  /\ indice = 1
  /\ alta = [q \in Quienes |-> Libre]
  /\ \E iniciado \in BOOLEAN :
       LET deRaiz(valor, nada) == [f \in Formularios |-> IF iniciado /\ f = Raiz THEN valor ELSE nada] IN
         /\ sembradas = IF iniciado THEN 1..NumSemillas ELSE {}
         /\ contacto = deRaiz(ContactoDe[Raiz], Nadie)
         /\ usuario = deRaiz(<<Base[Raiz], 0>>, Nadie)
         /\ roles = deRaiz({"CLIENTE", "ROOT"}, {})
  /\ recibidas = 0
  /\ fallas = 0
  /\ cortadas = {}
  /\ cruzadas = {}

Registradas == {f \in Formularios : contacto[f] # Nadie}
Ocupados == {usuario[f] : f \in Formularios} \ {Nadie}
ConRaiz == {f \in Formularios : "ROOT" \in roles[f]}

\* Registrations that stored their person and not its user, and those that chose
\* the username it will have.
PorNombrar(q) == alta[q].paso \in {"nombre", "comparar", "insertar"}
Elegido(nombre) == {q \in Quienes : /\ alta[q].paso \in {"comparar", "insertar"}
                                    /\ <<Base[alta[q].f], alta[q].n>> = nombre}

Avanzar(q, paso) == alta' = [alta EXCEPT ![q].paso = paso]

\* A request is answered; the boot goes on with what it called.
Terminar(q) ==
  /\ alta' = [alta EXCEPT ![q] = Libre]
  /\ servicio' = IF q = Semilla THEN "otorgar" ELSE servicio

\* An exception leaves the handler.  In the boot it ends the process.
Rechazar(q) ==
  /\ alta' = [alta EXCEPT ![q] = Libre]
  /\ servicio' = IF q = Semilla THEN "apagado" ELSE servicio

SinTablas == UNCHANGED <<contacto, usuario, roles, cortadas, cruzadas>>
Contadores == <<indice, sembradas, recibidas, fallas>>

-----------------------------------------------------------------------------

Empezar(p, solicitud) ==
  /\ servicio = "sirviendo" /\ alta[p] = Libre /\ recibidas < MaxPeticiones
  /\ alta' = [alta EXCEPT ![p] = solicitud]
  /\ recibidas' = recibidas + 1
  /\ UNCHANGED <<servicio, indice, sembradas, fallas>>
  /\ SinTablas

\* POST /personas
EmpezarAlta(p, f) == Empezar(p, [paso |-> "verificar", f |-> f, n |-> 0])

\* PATCH /personas/:id with another email or phone
EmpezarCambio(p, f, c) == Empezar(p, [paso |-> "leer", f |-> f, contacto |-> c])

\* PATCH /users/:id with a username, or with the one it has, which is what a body
\* without any saves.
EmpezarRenombre(p, f, nombre) ==
  /\ usuario[f] # Nadie
  /\ Empezar(p, [paso |-> "consultar", f |-> f, nombre |-> nombre])

\* A person is known by its dni or by its email or phone.
Conocida(f) == f \in Registradas \/ \E g \in Registradas : contacto[g] = ContactoDe[f]

Verificar(q) ==
  /\ alta[q].paso = "verificar"
  /\ IF Conocida(alta[q].f)
     THEN Rechazar(q)
     ELSE Avanzar(q, "guardar") /\ UNCHANGED servicio
  /\ SinTablas
  /\ UNCHANGED Contadores

\* The transaction holds the person alone, and is committed here.  The unique
\* indexes of the table decide between two registrations of one person.
Guardar(q) ==
  LET f == alta[q].f IN
    /\ alta[q].paso = "guardar"
    /\ IF Conocida(f)
       THEN Rechazar(q) /\ UNCHANGED contacto
       ELSE /\ contacto' = [contacto EXCEPT ![f] = ContactoDe[f]]
            /\ Avanzar(q, "nombre")
            /\ UNCHANGED servicio
    /\ UNCHANGED <<usuario, roles, cortadas, cruzadas>>
    /\ UNCHANGED Contadores

\* Variant: the first candidate is taken without looking.
PrimerNombre(f, n) == 0

\* generateUsername asks for one candidate after the other.
Candidato(f, n) == IF <<Base[f], n>> \in Ocupados THEN n + 1 ELSE n

BuscarNombre(q) ==
  LET n == Candidato(alta[q].f, alta[q].n) IN
    /\ alta[q].paso = "nombre"
    /\ alta' = [alta EXCEPT ![q].n = n, ![q].paso = IF n = alta[q].n THEN "comparar" ELSE "nombre"]
    /\ UNCHANGED servicio
    /\ SinTablas
    /\ UNCHANGED Contadores

\* A username is stored.  Registrations that had chosen it will be refused.
Nombrar(f, nombre, otras) ==
  /\ usuario' = [usuario EXCEPT ![f] = nombre]
  /\ cruzadas' = cruzadas \cup {alta[o].f : o \in otras}

\* The user is refused when its username was taken meanwhile: by the check of
\* create or by the unique index.
Entregar(q) ==
  LET f == alta[q].f
      nombre == <<Base[f], alta[q].n>>
  IN
    /\ alta[q].paso \in {"comparar", "insertar"}
    /\ IF nombre \in Ocupados
       THEN Rechazar(q) /\ UNCHANGED <<usuario, cruzadas>>
       ELSE /\ IF alta[q].paso = "insertar"
               THEN Nombrar(f, nombre, Elegido(nombre) \ {q}) /\ Avanzar(q, "cliente")
               ELSE UNCHANGED <<usuario, cruzadas>> /\ Avanzar(q, "insertar")
            /\ UNCHANGED servicio
    /\ UNCHANGED <<contacto, roles, cortadas>>
    /\ UNCHANGED Contadores

\* A failure to grant CLIENTE is logged and the registration succeeds.
OtorgarCliente(q) ==
  /\ alta[q].paso = "cliente"
  /\ \/ roles' = [roles EXCEPT ![alta[q].f] = @ \cup {"CLIENTE"}] /\ UNCHANGED fallas
     \/ fallas < MaxFallas /\ fallas' = fallas + 1 /\ UNCHANGED roles
  /\ Terminar(q)
  /\ UNCHANGED <<contacto, usuario, cortadas, indice, sembradas, recibidas, cruzadas>>

\* The person whose contact changes is read, the new contact is looked for when
\* it differs, and the row is saved under the unique index.
Cambiar(p) ==
  LET s == alta[p]
      ajeno == \E g \in Registradas \ {s.f} : contacto[g] = s.contacto
  IN
    /\ \/ /\ s.paso = "leer"
          /\ IF s.f \in Registradas
             THEN Avanzar(p, IF contacto[s.f] = s.contacto THEN "modificar" ELSE "revisar")
             ELSE alta' = [alta EXCEPT ![p] = Libre]
          /\ UNCHANGED contacto
       \/ /\ s.paso = "revisar"
          /\ IF ajeno THEN alta' = [alta EXCEPT ![p] = Libre] ELSE Avanzar(p, "modificar")
          /\ UNCHANGED contacto
       \/ /\ s.paso = "modificar"
          /\ contacto' = IF ajeno THEN contacto ELSE [contacto EXCEPT ![s.f] = s.contacto]
          /\ alta' = [alta EXCEPT ![p] = Libre]
    /\ UNCHANGED <<servicio, usuario, roles, cortadas, cruzadas>>
    /\ UNCHANGED Contadores

\* The user is read, the new username is looked for when it differs, and the row is
\* saved under the unique index.
Renombrar(p) ==
  LET s == alta[p]
      ajeno == \E g \in Formularios \ {s.f} : usuario[g] = s.nombre
  IN
    /\ \/ /\ s.paso = "consultar"
          /\ Avanzar(p, IF usuario[s.f] = s.nombre THEN "renombrar" ELSE "disputar")
          /\ UNCHANGED <<usuario, cruzadas>>
       \/ /\ s.paso = "disputar"
          /\ IF s.nombre \in Ocupados THEN alta' = [alta EXCEPT ![p] = Libre] ELSE Avanzar(p, "renombrar")
          /\ UNCHANGED <<usuario, cruzadas>>
       \/ /\ s.paso = "renombrar"
          /\ IF ajeno THEN UNCHANGED <<usuario, cruzadas>> ELSE Nombrar(s.f, s.nombre, Elegido(s.nombre))
          /\ alta' = [alta EXCEPT ![p] = Libre]
    /\ UNCHANGED <<servicio, contacto, roles, cortadas>>
    /\ UNCHANGED Contadores

\* Any query may fail.  After the commit there is nothing to roll back.
FallarPeticion(q) ==
  /\ alta[q] # Libre /\ fallas < MaxFallas
  /\ Rechazar(q)
  /\ fallas' = fallas + 1
  /\ cortadas' = IF PorNombrar(q) THEN cortadas \cup {alta[q].f} ELSE cortadas
  /\ UNCHANGED <<contacto, usuario, roles, indice, sembradas, recibidas, cruzadas>>

-----------------------------------------------------------------------------
(***************************************************************************)
(* The boot.  The port is opened when it is over.                          *)
(***************************************************************************)

SinPeticiones == UNCHANGED <<alta, contacto, usuario, recibidas, cruzadas>>

Arrancar ==
  /\ servicio = "apagado"
  /\ servicio' = "roles"
  /\ indice' = 1
  /\ UNCHANGED <<sembradas, roles, fallas, cortadas>>
  /\ SinPeticiones

\* Each permission, role and row of role_permission is looked for first.
SembrarFila ==
  /\ servicio = "roles" /\ indice <= NumSemillas
  /\ sembradas' = sembradas \cup {indice}
  /\ indice' = indice + 1
  /\ UNCHANGED <<servicio, roles, fallas, cortadas>>
  /\ SinPeticiones

\* Variant: the root person is registered without asking who holds ROOT.
BuscarRaizSiempre ==
  /\ servicio = "roles" /\ indice = NumSemillas + 1
  /\ servicio' = "sembrando"
  /\ alta' = [alta EXCEPT ![Semilla] = [paso |-> "verificar", f |-> Raiz, n |-> 0]]
  /\ UNCHANGED <<indice, sembradas, contacto, usuario, roles, recibidas, fallas, cortadas, cruzadas>>

\* seedRootUser: a root person is registered when the role ROOT has no grant.
BuscarRaiz ==
  /\ servicio = "roles" /\ indice = NumSemillas + 1
  /\ IF ConRaiz = {}
     THEN /\ servicio' = "sembrando"
          /\ alta' = [alta EXCEPT ![Semilla] = [paso |-> "verificar", f |-> Raiz, n |-> 0]]
     ELSE servicio' = "sirviendo" /\ UNCHANGED alta
  /\ UNCHANGED <<indice, sembradas, contacto, usuario, roles, recibidas, fallas, cortadas, cruzadas>>

OtorgarRaiz ==
  /\ servicio = "otorgar"
  /\ servicio' = "sirviendo"
  /\ roles' = [roles EXCEPT ![Raiz] = @ \cup {"ROOT"}]
  /\ UNCHANGED <<indice, sembradas, fallas, cortadas>>
  /\ SinPeticiones

\* DELETE and POST /roleusers, on the role ROOT.
CambiarRaiz(f) ==
  /\ servicio = "sirviendo" /\ usuario[f] # Nadie /\ recibidas < MaxPeticiones
  /\ recibidas' = recibidas + 1
  /\ roles' = [roles EXCEPT ![f] = IF "ROOT" \in @ THEN @ \ {"ROOT"} ELSE @ \cup {"ROOT"}]
  /\ UNCHANGED <<servicio, indice, sembradas, alta, contacto, usuario, fallas, cortadas, cruzadas>>

\* The process stops, or a query of the boot fails and ends it.
Caida ==
  /\ servicio # "apagado" /\ fallas < MaxFallas
  /\ servicio' = "apagado"
  /\ fallas' = fallas + 1
  /\ alta' = [q \in Quienes |-> Libre]
  /\ cortadas' = cortadas \cup {alta[q].f : q \in {r \in Quienes : PorNombrar(r)}}
  /\ UNCHANGED <<indice, sembradas, contacto, usuario, roles, recibidas, cruzadas>>

-----------------------------------------------------------------------------

Registro(q) ==
  \/ Verificar(q)
  \/ Guardar(q)
  \/ BuscarNombre(q)
  \/ Entregar(q)
  \/ OtorgarCliente(q)

Peticion(p) ==
  \/ \E f \in Formularios : EmpezarAlta(p, f)
  \/ \E f \in Formularios, c \in Contactos : EmpezarCambio(p, f, c)
  \/ \E f, g \in Formularios, n \in 0..MaxPeticiones : EmpezarRenombre(p, f, <<Base[g], n>>)
  \/ Cambiar(p)
  \/ Renombrar(p)

Arranque == Arrancar \/ SembrarFila \/ BuscarRaiz \/ OtorgarRaiz \/ Registro(Semilla)

Next ==
  \/ \E p \in Peticiones : Peticion(p) \/ Registro(p)
  \/ \E q \in Quienes : FallarPeticion(q)
  \/ Arranque
  \/ \E f \in Formularios : CambiarRaiz(f)
  \/ Caida

\* Somebody starts the service again when it stopped, and the boot does not wait
\* for anybody.
Spec == Init /\ [][Next]_vars /\ WF_vars(Arranque)

-----------------------------------------------------------------------------

\* A stored person has the user that its registration promised (comment of
\* create in personas.service.ts), although the commit comes before the user.
\* A person stays alone only when its registration was cut after the commit, or
\* when another user was given the very username it had chosen, by another
\* registration or by a PATCH, before it was stored.
PersonaConUsuario ==
  \A f \in Registradas :
    \/ usuario[f] # Nadie
    \/ \E q \in Quienes : PorNombrar(q) /\ alta[q].f = f
    \/ f \in cortadas \cup cruzadas

\* The root person is stored and nobody holds ROOT: the boot would register it again.
Atascada == Conocida(Raiz) /\ ConRaiz = {}

\* A boot that is not Atascada when it starts ends in a service that answers,
\* whatever was seeded before, unless a failure comes before it does.
ArranqueLlega ==
  \A k \in 0..MaxFallas :
    servicio = "apagado" /\ fallas = k /\ ~Atascada ~> servicio = "sirviendo" \/ fallas # k

=============================================================================
