------------------------------ MODULE Usuarios ------------------------------
(***************************************************************************)
(* Users, roles, permissions and the grants between them in                *)
(* gestion-usuarios, with the sessions that are opened on them.            *)
(*                                                                         *)
(* Every row has a column active.  A handler reads the rows it needs, one  *)
(* await each, and hands an entity to TypeORM's save, which reads the row  *)
(* again and inserts it or updates the columns that differ.  Deactivating  *)
(* a user or a role emits an event before the row is saved; the listener   *)
(* reads the grants once and saves each of them as inactive, on its own,   *)
(* while the request goes on and even after it is answered.  The login     *)
(* looks at the user and at its grants but not at whether a role is        *)
(* active: it relies on that cascade.  An edit assigns whatever its body   *)
(* carries to the entity, so it may set column active as well, and then    *)
(* nothing is emitted.                                                     *)
(***************************************************************************)
EXTENDS Naturals

CONSTANTS
  Cuentas,       \* the users
  Roles,
  Permisos,
  FilasPermiso,  \* ids of the rows of role_permission
  Peticiones,    \* the requests the service may be serving at once
  MaxPeticiones, \* bound: requests in all
  ConFallas      \* TRUE: the database fails and the process may stop

ASSUME UsuariosAssumption ==
  /\ ConFallas \in BOOLEAN
  /\ MaxPeticiones \in Nat

\* The keys of the five tables.
Usuario(u) == <<"usuario", u>>
Rol(r) == <<"rol", r>>
Permiso(m) == <<"permiso", m>>
Concesion(u, r) == <<"concesion", u, r>>
RolPermiso(r, m) == <<"rolpermiso", r, m>>

LosUsuarios == {Usuario(u) : u \in Cuentas}
LosRoles == {Rol(r) : r \in Roles}
LosPermisos == {Permiso(m) : m \in Permisos}
Concesiones == {Concesion(u, r) : u \in Cuentas, r \in Roles}
RolPermisos == {RolPermiso(r, m) : r \in Roles, m \in Permisos}

\* The rows that deactivation and sessions are about, and the tables with a
\* column active that some handler writes.
Duenos == LosUsuarios \cup LosRoles \cup LosPermisos
Claves == Duenos \cup Concesiones

Estado == {"ausente", "activa", "inactiva"}

VARIABLES
  peticion,   \* each request being served
  recibidas,  \* requests received so far
  fila,       \* column active of each row, by key
  permitido,  \* the rows of role_permission, by role and permission
  cascada,    \* the listener started by each request
  ficha,      \* the last token of each user: its subject, roles and permissions
  solapados,  \* history: keys that two requests or listeners touched at once
  heridas,    \* history: keys whose cascade was cut by a failure or a stop
  apagadas    \* history: users and roles that an edit made inactive

vars == <<peticion, recibidas, fila, permitido, cascada, ficha, solapados, heridas, apagadas>>

\* An edit whose body says nothing of column active, says true, or says false.
Edicion == {"editar", "encender", "apagar"}

\* The operations that hand save() an entity they have read.
Guardado == Edicion \cup {"activar", "desactivar"}

\* The endpoints that change state, each with the rows it may name.
Ordenes ==
  ((Guardado \cup {"entrar", "refrescar"}) \X LosUsuarios)
    \cup ((Guardado \cup {"crear", "eliminar"}) \X LosRoles)
    \cup ((Guardado \cup {"crear"}) \X LosPermisos)
    \cup ({"crear", "activar", "desactivar", "eliminar"} \X Concesiones)
    \cup ({"asignar", "quitar"} \X RolPermisos)

Operacion == Guardado \cup {"crear", "eliminar", "entrar", "refrescar", "asignar", "quitar"}

Paso == {"usuario", "rol", "permiso", "leer", "comparar", "escribir", "clave"}

\* A request and the locals of its handler: the row it read, the row save() read
\* again, and what else the first query brought with it.
Solicitud ==
  [paso : Paso, op : Operacion, clave : Claves \cup RolPermisos,
   leida : Estado, base : Estado, vistas : SUBSET (Claves \cup FilasPermiso)]

Libre == [paso |-> "libre"]

\* The listener: the grants it read and has not saved, and the one in save().
Oyente ==
  [paso : {"leer", "guardar"}, clave : Duenos, pendientes : SUBSET Concesiones]
    \cup [paso : {"comparada"}, clave : Duenos, pendientes : SUBSET Concesiones,
          actual : Concesiones, base : Estado]

Quieta == [paso |-> "quieta"]

TypeOK ==
  /\ peticion \in [Peticiones -> Solicitud \cup {Libre}]
  /\ recibidas \in 0..MaxPeticiones
  /\ fila \in [Claves -> Estado]
  /\ permitido \in [RolPermisos -> SUBSET FilasPermiso]
  /\ cascada \in [Peticiones -> Oyente \cup {Quieta}]
  /\ ficha \in [Cuentas -> SUBSET Duenos]
  /\ solapados \subseteq Duenos
  /\ heridas \subseteq Duenos
  /\ apagadas \subseteq Duenos

\* The rows a grant or a row of role_permission refers to.
Refiere(k) ==
  CASE k \in Concesiones -> {Usuario(k[2]), Rol(k[3])}
    [] k \in RolPermisos -> {Rol(k[2]), Permiso(k[3])}
    [] OTHER -> {}

ConcesionesDe(c) == {g \in Concesiones : c \in Refiere(g)}

Presentes(ks) == {k \in ks : fila[k] # "ausente"}
Activas(ks) == {k \in ks : fila[k] = "activa"}

\* The service has been running: users exist, roles and grants are in any state
\* that requests one after the other leave behind, edits included.
Init ==
  /\ peticion = [p \in Peticiones |-> Libre]
  /\ recibidas = 0
  /\ fila \in [Claves -> Estado]
  /\ \A c \in LosUsuarios : fila[c] # "ausente"
  /\ \A g \in Concesiones :
       fila[g] # "ausente" => \A c \in Refiere(g) : fila[c] # "ausente"
  /\ \E i \in FilasPermiso :
       permitido = [k \in RolPermisos |->
         IF \A c \in Refiere(k) : fila[c] # "ausente" THEN {i} ELSE {}]
  /\ cascada = [p \in Peticiones |-> Quieta]
  /\ ficha = [u \in Cuentas |-> {}]
  /\ solapados = {}
  /\ heridas = {}
  /\ apagadas = {c \in LosUsuarios \cup LosRoles :
                   fila[c] = "inactiva" /\ Activas(ConcesionesDe(c)) # {}}

-----------------------------------------------------------------------------

EnPaso(p, paso) == peticion[p].paso = paso

Avanzar(p, paso) == peticion' = [peticion EXCEPT ![p].paso = paso]

Terminar(p) == peticion' = [peticion EXCEPT ![p] = Libre]

SoloLee == UNCHANGED <<recibidas, fila, permitido, cascada, ficha, solapados, heridas, apagadas>>

\* What a request reads or writes: a session all roles and permissions.
Toca(op, k) ==
  (IF k \in Duenos THEN {k} ELSE Refiere(k))
    \cup (IF op \in {"entrar", "refrescar"} THEN LosRoles \cup LosPermisos ELSE {})

\* The requests and the listeners that are busy with a row.
EnCursoSobre(c) ==
  {p \in Peticiones :
     \/ peticion[p] # Libre /\ c \in Toca(peticion[p].op, peticion[p].clave)
     \/ cascada[p] # Quieta /\ cascada[p].clave = c}

\* Where each handler begins: a grant first wants its user and its role, a row
\* of role_permission its role and its permission.
PrimerPaso(op, k) ==
  CASE op = "crear" /\ k \in Concesiones -> "usuario"
    [] op = "asignar"                    -> "rol"
    [] OTHER                             -> "leer"

\* And where it goes on to.  Reactivating a grant reads it before its owners.
Siguiente(op, k, paso) ==
  CASE paso = "usuario" -> "rol"
    [] paso = "rol" /\ op = "crear" -> "leer"
    [] paso = "rol" /\ op = "activar" -> "comparar"
    [] paso = "rol" /\ op = "asignar" -> "permiso"
    [] paso = "permiso" -> "leer"
    [] paso = "leer" /\ op = "activar" /\ k \in Concesiones -> "usuario"
    [] paso = "leer" /\ op \in {"asignar", "quitar", "eliminar"} -> "escribir"
    [] paso = "leer" /\ op = "entrar" -> "clave"
    [] OTHER -> "comparar"

\* A token can only be refreshed by who was given one.
Empezar(p, op, k) ==
  /\ peticion[p] = Libre
  /\ cascada[p] = Quieta
  /\ recibidas < MaxPeticiones
  /\ op = "refrescar" => ficha[k[2]] # {}
  /\ recibidas' = recibidas + 1
  /\ peticion' = [peticion EXCEPT ![p] =
       [paso |-> PrimerPaso(op, k), op |-> op, clave |-> k,
        leida |-> "ausente", base |-> "ausente", vistas |-> {}]]
  /\ solapados' = solapados \cup {c \in Toca(op, k) : EnCursoSobre(c) # {}}
  /\ UNCHANGED <<fila, permitido, cascada, ficha, heridas, apagadas>>

-----------------------------------------------------------------------------
(***************************************************************************)
(* Reading.  A refusal changes nothing, so each is taken at the read that  *)
(* shows its reason.                                                       *)
(***************************************************************************)

\* The owner that a grant or a row of role_permission is being checked for.
Requerida(k, paso) ==
  CASE paso = "usuario" -> Usuario(k[2])
    [] paso = "permiso" -> Permiso(k[3])
    [] OTHER -> Rol(IF k \in Concesiones THEN k[3] ELSE k[2])

\* The user, the role or the permission has to be there and to be active.
Comprobar(p) ==
  LET r == peticion[p] IN
    /\ r.paso \in {"usuario", "rol", "permiso"}
    /\ IF fila[Requerida(r.clave, r.paso)] = "activa"
       THEN Avanzar(p, Siguiente(r.op, r.clave, r.paso))
       ELSE Terminar(p)
    /\ SoloLee

\* Variant: deactivating a role emits no event.
EmitirSoloUsuarios(p, op, k) ==
  cascada' = IF op = "desactivar" /\ k \in LosUsuarios
             THEN [cascada EXCEPT ![p] = [paso |-> "leer", clave |-> k, pendientes |-> {}]]
             ELSE cascada

\* Deactivating a user or a role emits the event, which starts the listener.
Emitir(p, op, k) ==
  cascada' = IF op = "desactivar" /\ k \in LosUsuarios \cup LosRoles
             THEN [cascada EXCEPT ![p] = [paso |-> "leer", clave |-> k, pendientes |-> {}]]
             ELSE cascada

\* Variant: reactivating a grant makes one when there is none.
AdmiteSiempre(op, k, f) ==
  IF op = "crear" THEN f = "ausente" ELSE f # "ausente" \/ op = "activar"

\* A creation wants no row of its key, anything else wants one.
Admite(op, k, f) == IF op = "crear" THEN f = "ausente" ELSE f # "ausente"

\* The row itself.  A role comes with its grants.
Leer(p) ==
  LET r == peticion[p]
      f == fila[r.clave]
  IN
    /\ EnPaso(p, "leer")
    /\ r.op \in Guardado \cup {"crear", "eliminar"}
    /\ IF Admite(r.op, r.clave, f)
       THEN /\ peticion' = [peticion EXCEPT
                 ![p].leida = f,
                 ![p].vistas = IF r.clave \in LosRoles THEN Presentes(ConcesionesDe(r.clave)) ELSE {},
                 ![p].paso = Siguiente(r.op, r.clave, "leer")]
            /\ Emitir(p, r.op, r.clave)
            /\ apagadas' = apagadas \ (IF r.op = "desactivar" THEN {r.clave} ELSE {})
       ELSE Terminar(p) /\ UNCHANGED <<cascada, apagadas>>
    /\ UNCHANGED <<recibidas, fila, permitido, ficha, solapados, heridas>>

\* Variant: an assignment does not look for the row it is about to insert.
LeerPermitidoSinBuscar(p) ==
  LET r == peticion[p] IN
    /\ EnPaso(p, "leer")
    /\ \/ r.op = "asignar" /\ Avanzar(p, "escribir")
       \/ /\ r.op = "quitar"
          /\ \E i \in permitido[r.clave] :
               peticion' = [peticion EXCEPT ![p].vistas = {i}, ![p].paso = "escribir"]
    /\ SoloLee

\* The rows of role_permission of a role and a permission: an assignment wants
\* none, a removal takes the one it finds.
LeerPermitido(p) ==
  LET r == peticion[p] IN
    /\ EnPaso(p, "leer")
    /\ \/ /\ r.op = "asignar"
          /\ IF permitido[r.clave] = {} THEN Avanzar(p, "escribir") ELSE Terminar(p)
       \/ /\ r.op = "quitar"
          /\ IF permitido[r.clave] = {}
             THEN Terminar(p)
             ELSE \E i \in permitido[r.clave] :
                    peticion' = [peticion EXCEPT ![p].vistas = {i}, ![p].paso = "escribir"]
    /\ SoloLee

\* Variant: the grants of the user are not filtered.
FichaSinFiltro(u) ==
  LET suyos == {r \in Roles : fila[Concesion(u, r)] # "ausente"}
      puede == {m \in Permisos : \E r \in suyos : permitido[RolPermiso(r, m)] # {}}
  IN {Usuario(u)} \cup {Rol(r) : r \in suyos} \cup Activas({Permiso(m) : m \in puede})

\* What login puts in a token: the roles of the active grants, whatever the
\* roles themselves are, and the active permissions of those roles.
Ficha(u) ==
  LET suyos == {r \in Roles : fila[Concesion(u, r)] = "activa"}
      puede == {m \in Permisos : \E r \in suyos : permitido[RolPermiso(r, m)] # {}}
  IN {Usuario(u)} \cup {Rol(r) : r \in suyos} \cup Activas({Permiso(m) : m \in puede})

\* One query brings the user with its grants, roles and permissions.  The login
\* then compares the password; a refresh has nothing more to wait for.
LeerSesion(p) ==
  LET r == peticion[p]
      u == r.clave[2]
  IN
    /\ EnPaso(p, "leer")
    /\ r.op \in {"entrar", "refrescar"}
    /\ \/ /\ r.op = "entrar" /\ fila[r.clave] = "activa"
          /\ peticion' = [peticion EXCEPT ![p].vistas = Ficha(u), ![p].paso = "clave"]
          /\ UNCHANGED ficha
       \/ /\ r.op = "refrescar" /\ fila[r.clave] = "activa"
          /\ ficha' = [ficha EXCEPT ![u] = Ficha(u)]
          /\ Terminar(p)
       \/ fila[r.clave] # "activa" /\ Terminar(p) /\ UNCHANGED ficha
    /\ UNCHANGED <<recibidas, fila, permitido, cascada, solapados, heridas, apagadas>>

\* The password was compared: the token is what the query had brought.
Autenticar(p) ==
  /\ EnPaso(p, "clave")
  /\ \/ ficha' = [ficha EXCEPT ![peticion[p].clave[2]] = peticion[p].vistas]
     \/ UNCHANGED ficha
  /\ Terminar(p)
  /\ UNCHANGED <<recibidas, fila, permitido, cascada, solapados, heridas, apagadas>>

-----------------------------------------------------------------------------
(***************************************************************************)
(* Writing.                                                                *)
(***************************************************************************)

\* Variant: a role is created with its flag unset.
EntidadSinActive(op, f) ==
  CASE op = "crear" -> "nula"
    [] op \in {"activar", "encender"} -> "activa"
    [] op \in {"desactivar", "apagar"} -> "inactiva"
    [] OTHER -> f

\* What a handler hands to save(): an edit the row it read with its body laid
\* over it, and the body may name column active.
Entidad(op, f) ==
  CASE op \in {"crear", "activar", "encender"} -> "activa"
    [] op \in {"desactivar", "apagar"} -> "inactiva"
    [] OTHER -> f

\* save(), first half.  A new user, role or permission has no id to look for.
\* A grant of the role that was not there when the role was read would have its
\* key set to NULL, which the table refuses.
Comparar(p) ==
  LET r == peticion[p]
      k == r.clave
  IN
    /\ EnPaso(p, "comparar")
    /\ IF k \in LosRoles /\ r.op # "crear" /\ ~(Presentes(ConcesionesDe(k)) \subseteq r.vistas)
       THEN Terminar(p)
       ELSE peticion' = [peticion EXCEPT
              ![p].base = IF r.op = "crear" /\ k \in Duenos THEN "ausente" ELSE fila[k],
              ![p].paso = "escribir"]
    /\ SoloLee

\* save(), second half: the column after the INSERT or the UPDATE.
Guardada(e, base, actual) ==
  IF base = "ausente" THEN e
  ELSE IF e = base \/ actual = "ausente" THEN actual
  ELSE e

\* The INSERT meets a row of its key, or misses one it refers to.
InsertRechazado(k, base) ==
  base = "ausente" /\ (fila[k] # "ausente" \/ \E c \in Refiere(k) : fila[c] = "ausente")

Escribir(p) ==
  LET r == peticion[p] IN
    /\ EnPaso(p, "escribir")
    /\ r.op \in Guardado \cup {"crear"}
    /\ ~InsertRechazado(r.clave, r.base)
    /\ fila' = [fila EXCEPT ![r.clave] = Guardada(Entidad(r.op, r.leida), r.base, @)]
    /\ apagadas' = apagadas \cup {c \in LosUsuarios \cup LosRoles :
                                    r.op = "apagar" /\ fila[c] = "activa" /\ fila'[c] = "inactiva"}
    /\ Terminar(p)
    /\ UNCHANGED <<recibidas, permitido, cascada, ficha, solapados, heridas>>

\* Rows that refer to a role keep it from being deleted.
Referida(c) ==
  \/ Presentes(ConcesionesDe(c)) # {}
  \/ \E k \in RolPermisos : c \in Refiere(k) /\ permitido[k] # {}

Borrar(p) ==
  LET k == peticion[p].clave IN
    /\ EnPaso(p, "escribir")
    /\ peticion[p].op = "eliminar"
    /\ ~Referida(k)
    /\ fila' = [fila EXCEPT ![k] = "ausente"]
    /\ Terminar(p)
    /\ UNCHANGED <<recibidas, permitido, cascada, ficha, solapados, heridas, apagadas>>

\* role_permission has no unique index: two assignments at once add two rows.
EscribirPermitido(p) ==
  LET r == peticion[p]
      k == r.clave
  IN
    /\ EnPaso(p, "escribir")
    /\ \/ /\ r.op = "asignar"
          /\ \A c \in Refiere(k) : fila[c] # "ausente"
          /\ \E i \in FilasPermiso \ permitido[k] :
               permitido' = [permitido EXCEPT ![k] = @ \cup {i}]
       \/ /\ r.op = "quitar"
          /\ permitido' = [permitido EXCEPT ![k] = @ \ r.vistas]
    /\ Terminar(p)
    /\ UNCHANGED <<recibidas, fila, cascada, ficha, solapados, heridas, apagadas>>

\* A constraint refuses the write, or the database does not answer.
Fallar(p) ==
  LET r == peticion[p] IN
    /\ r # Libre
    /\ \/ ConFallas
       \/ /\ r.paso = "escribir" /\ r.op \in Guardado \cup {"crear"}
          /\ InsertRechazado(r.clave, r.base)
       \/ r.paso = "escribir" /\ r.op = "eliminar" /\ Referida(r.clave)
       \/ r.paso = "escribir" /\ r.op = "asignar" /\ \E c \in Refiere(r.clave) : fila[c] = "ausente"
    /\ Terminar(p)
    /\ SoloLee

-----------------------------------------------------------------------------
(***************************************************************************)
(* The listener.                                                           *)
(***************************************************************************)

SoloCascada == UNCHANGED <<peticion, recibidas, permitido, ficha, solapados, apagadas>>

\* The listener goes on with these grants, or is done.
Seguir(p, c, resto) ==
  cascada' = [cascada EXCEPT ![p] =
    IF resto = {} THEN Quieta ELSE [paso |-> "guardar", clave |-> c, pendientes |-> resto]]

\* findByUser or findByRole, once.
CascadaLeer(p) ==
  /\ cascada[p].paso = "leer"
  /\ Seguir(p, cascada[p].clave, Presentes(ConcesionesDe(cascada[p].clave)))
  /\ UNCHANGED <<fila, heridas>>
  /\ SoloCascada

\* The first half of save() of the next grant.
CascadaComparar(p) ==
  /\ cascada[p].paso = "guardar"
  /\ \E g \in cascada[p].pendientes :
       cascada' = [cascada EXCEPT ![p] =
         [paso |-> "comparada", clave |-> cascada[p].clave, pendientes |-> cascada[p].pendientes,
          actual |-> g, base |-> fila[g]]]
  /\ UNCHANGED <<fila, heridas>>
  /\ SoloCascada

\* The second half.
CascadaGuardar(p) ==
  LET o == cascada[p] IN
    /\ o.paso = "comparada"
    /\ ~InsertRechazado(o.actual, o.base)
    /\ fila' = [fila EXCEPT ![o.actual] = Guardada("inactiva", o.base, @)]
    /\ Seguir(p, o.clave, o.pendientes \ {o.actual})
    /\ UNCHANGED heridas
    /\ SoloCascada

\* An error ends the loop; it is logged and the other grants stay as they are.
CascadaFallar(p) ==
  LET o == cascada[p] IN
    /\ o # Quieta
    /\ ConFallas \/ (o.paso = "comparada" /\ InsertRechazado(o.actual, o.base))
    /\ cascada' = [cascada EXCEPT ![p] = Quieta]
    /\ heridas' = heridas \cup {o.clave}
    /\ UNCHANGED fila
    /\ SoloCascada

\* The process stops; rows and tokens stay.
Caida ==
  /\ ConFallas
  /\ peticion' = [p \in Peticiones |-> Libre]
  /\ cascada' = [p \in Peticiones |-> Quieta]
  /\ heridas' = heridas \cup {c \in Duenos : \E p \in Peticiones :
                                cascada[p] # Quieta /\ cascada[p].clave = c}
  /\ UNCHANGED <<recibidas, fila, permitido, ficha, solapados, apagadas>>

-----------------------------------------------------------------------------

Atender(p) ==
  \/ \E o \in Ordenes : Empezar(p, o[1], o[2])
  \/ Comprobar(p)
  \/ Leer(p)
  \/ LeerPermitido(p)
  \/ LeerSesion(p)
  \/ Autenticar(p)
  \/ Comparar(p)
  \/ Escribir(p)
  \/ Borrar(p)
  \/ EscribirPermitido(p)
  \/ Fallar(p)

Escuchar(p) ==
  \/ CascadaLeer(p)
  \/ CascadaComparar(p)
  \/ CascadaGuardar(p)
  \/ CascadaFallar(p)

Next ==
  \/ \E p \in Peticiones : Atender(p) \/ Escuchar(p)
  \/ Caida

Spec == Init /\ [][Next]_vars

-----------------------------------------------------------------------------
(***************************************************************************)
(* Properties.                                                             *)
(***************************************************************************)

\* What the observer is for (README of the service): once the listener is done,
\* a user or role that was deactivated has no active grant left, though the
\* listener works from one reading of the table, before or after the row itself
\* is saved.  What can leave one is a request that overlapped, a listener that
\* was cut, or an edit that set active to false with no deactivation since.
CascadaCompleta ==
  \A c \in (LosUsuarios \cup LosRoles) \ (solapados \cup heridas \cup apagadas) :
    /\ fila[c] = "inactiva"
    /\ \A p \in Peticiones : cascada[p] = Quieta \/ cascada[p].clave # c
    => Activas(ConcesionesDe(c)) = {}

\* A token speaks of an active user with active roles and permissions when it
\* is given, although the login never looks at column active of a role and the
\* password is compared after the reading.  Besides overlaps and cut listeners,
\* only a role that an edit made inactive can be in one: its grants stay active.
SesionVigente ==
  [][\A u \in Cuentas :
       ficha'[u] # ficha[u] =>
         \A c \in ficha'[u] :
           fila[c] = "activa" \/ c \in solapados \cup heridas \cup (apagadas \cap LosRoles)]_vars

\* A grant that was removed comes back only when it is granted again: a save of
\* the entity that somebody still holds does not insert it anew, unless that
\* somebody overlapped with the removal.
ConcesionNoRevive ==
  [][\A g \in Concesiones :
       fila[g] = "ausente" /\ fila'[g] # "ausente" =>
         \/ \E p \in Peticiones : peticion[p] # Libre /\ peticion[p].op = "crear" /\ peticion[p].clave = g
         \/ Refiere(g) \cap solapados # {}]_vars

\* However requests come one after the other, a role has a permission at most
\* once, so that one removal takes it away.
PermisoUnico ==
  \A k \in RolPermisos :
    Refiere(k) \cap solapados = {} => \A i, j \in permitido[k] : i = j

=============================================================================
