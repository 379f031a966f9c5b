--------------------------- MODULE UsuariosProofs ---------------------------
(***************************************************************************)
(* Proofs about Usuarios for any number of users, roles, permissions and   *)
(* requests, with a database that fails and a process that stops.          *)
(*                                                                         *)
(* Nothing in the service keeps two requests apart, so every property      *)
(* speaks of rows that no two requests or listeners touched at once.  The  *)
(* argument is that of Solas: whoever is busy with a row that is not among *)
(* solapados is alone with it, so that what its handler read some awaits   *)
(* ago is what the table still holds.                                      *)
(***************************************************************************)
EXTENDS Usuarios, TLAPS

\* What the endpoint of a request says of its steps.
Encaja(r) ==
  /\ <<r.op, r.clave>> \in Ordenes
  /\ r.paso \in {"usuario", "rol", "permiso"} =>
       \/ r.op \in {"crear", "activar"} /\ r.clave \in Concesiones
       \/ r.op = "asignar"
  /\ r.paso = "permiso" => r.op = "asignar"
  /\ r.paso = "comparar" => r.op \in Guardado \cup {"crear"}
  /\ r.paso = "clave" => r.op = "entrar" /\ r.vistas \subseteq Duenos

Encajan == \A p \in Peticiones : peticion[p] # Libre => Encaja(peticion[p])

\* The listener works through grants of the row that was deactivated.
Escucha(o) ==
  /\ o.clave \in LosUsuarios \cup LosRoles
  /\ o.pendientes \subseteq ConcesionesDe(o.clave)
  /\ o.paso = "comparada" => o.actual \in o.pendientes

Escuchan == \A p \in Peticiones : cascada[p] # Quieta => Escucha(cascada[p])

IndTipo == TypeOK /\ Encajan /\ Escuchan

-----------------------------------------------------------------------------
(***************************************************************************)
(* Keys.                                                                   *)
(***************************************************************************)

LEMMA ClavesDistintas ==
  /\ \A k \in Duenos : k \notin Concesiones /\ k \notin RolPermisos
  /\ \A k \in Concesiones : k \notin RolPermisos
  /\ \A k \in LosUsuarios : k \notin LosRoles /\ k \notin LosPermisos
  /\ \A k \in LosRoles : k \notin LosPermisos
BY DEF Duenos, LosUsuarios, LosRoles, LosPermisos, Concesiones, RolPermisos,
       Usuario, Rol, Permiso, Concesion, RolPermiso

LEMMA DeConcesion ==
  ASSUME NEW g \in Concesiones
  PROVE  /\ g[2] \in Cuentas /\ g[3] \in Roles
         /\ g = Concesion(g[2], g[3])
         /\ Refiere(g) = {Usuario(g[2]), Rol(g[3])}
         /\ Refiere(g) \subseteq LosUsuarios \cup LosRoles
<1>1. g[2] \in Cuentas /\ g[3] \in Roles /\ g = Concesion(g[2], g[3])
  BY DEF Concesiones, Concesion
<1>2. Refiere(g) = {Usuario(g[2]), Rol(g[3])}
  BY ClavesDistintas DEF Refiere
<1>3. QED
  BY <1>1, <1>2 DEF LosUsuarios, LosRoles

LEMMA DeRolPermiso ==
  ASSUME NEW k \in RolPermisos
  PROVE  /\ k[2] \in Roles /\ k[3] \in Permisos
         /\ Refiere(k) = {Rol(k[2]), Permiso(k[3])}
         /\ Refiere(k) \subseteq LosRoles \cup LosPermisos
<1>1. k[2] \in Roles /\ k[3] \in Permisos
  BY DEF RolPermisos, RolPermiso
<1>2. Refiere(k) = {Rol(k[2]), Permiso(k[3])}
  BY ClavesDistintas DEF Refiere
<1>3. QED
  BY <1>1, <1>2 DEF LosRoles, LosPermisos

\* What the endpoints may name.
LEMMA DeOrden ==
  ASSUME NEW op, NEW k, <<op, k>> \in Ordenes
  PROVE  /\ op \in Operacion /\ k \in Claves \cup RolPermisos
         /\ op \in {"entrar", "refrescar"} => k \in LosUsuarios
         /\ op = "asignar" => k \in RolPermisos
         /\ op = "quitar" => k \in RolPermisos
         /\ op \in Guardado \cup {"crear", "eliminar"} => k \in Claves
         /\ op = "desactivar" /\ k \in Duenos => k \notin Concesiones
         /\ k \in RolPermisos => op \in {"asignar", "quitar"}
         /\ k \in Concesiones => op \in {"crear", "activar", "desactivar", "eliminar"}
         /\ op \in Edicion => k \in Duenos
         /\ op = "crear" => k \notin LosUsuarios
         /\ op = "eliminar" => k \in LosRoles \cup Concesiones
BY ClavesDistintas DEF Ordenes, Operacion, Guardado, Edicion, Claves, Duenos

LEMMA OrdenEsPar == \A o \in Ordenes : o = <<o[1], o[2]>>
BY DEF Ordenes

LEMMA DeToca ==
  ASSUME NEW op, NEW k, <<op, k>> \in Ordenes
  PROVE  /\ Toca(op, k) \subseteq Duenos
         /\ k \in Duenos => k \in Toca(op, k)
         /\ k \in Concesiones \cup RolPermisos => Toca(op, k) = Refiere(k)
         /\ op \in {"entrar", "refrescar"} => LosRoles \cup LosPermisos \subseteq Toca(op, k)
<1>1. CASE k \in Duenos
  <2>1. k \notin Concesiones \cup RolPermisos
    BY <1>1, ClavesDistintas
  <2>2. QED
    BY <1>1, <2>1 DEF Toca, Duenos
<1>2. CASE k \notin Duenos
  <2>1. /\ k \in Concesiones \cup RolPermisos
        /\ op \notin {"entrar", "refrescar"}
    BY <1>2, DeOrden DEF Claves, Duenos
  <2>2. Toca(op, k) = Refiere(k)
    BY <1>2, <2>1 DEF Toca
  <2>3. QED
    BY <1>2, <2>1, <2>2, DeConcesion, DeRolPermiso DEF Duenos
<1>3. QED
  BY <1>1, <1>2

-----------------------------------------------------------------------------
(***************************************************************************)
(* IndTipo.                                                                *)
(***************************************************************************)

LEMMA Forma ==
  ASSUME TypeOK, NEW p \in Peticiones
  PROVE  /\ peticion[p] # Libre <=> peticion[p].paso \in Paso
         /\ peticion[p] # Libre =>
              /\ peticion[p] \in Solicitud
              /\ peticion[p].clave \in Claves \cup RolPermisos
              /\ peticion[p].op \in Operacion
         /\ cascada[p] # Quieta <=> cascada[p].paso \in {"leer", "guardar", "comparada"}
         /\ cascada[p] # Quieta =>
              /\ cascada[p] \in Oyente
              /\ cascada[p].clave \in Duenos
              /\ cascada[p].pendientes \subseteq Concesiones
         /\ cascada[p].paso = "comparada" =>
              cascada[p].actual \in Concesiones /\ cascada[p].base \in Estado
BY DEF TypeOK, Solicitud, Libre, Paso, Oyente, Quieta

LEMMA EncajaPaso ==
  ASSUME NEW r, Encaja(r), r.paso \in {"usuario", "rol", "permiso"}
  PROVE  LET s == Siguiente(r.op, r.clave, r.paso) IN
         /\ s \in Paso \ {"clave", "usuario", "escribir"}
         /\ s = "permiso" => r.op = "asignar"
         /\ s \in {"rol", "permiso"} => (r.op \in {"crear", "activar"} /\ r.clave \in Concesiones) \/ r.op = "asignar"
         /\ s = "comparar" => r.op \in Guardado \cup {"crear"}
BY DEF Encaja, Siguiente, Paso, Guardado, Edicion

LEMMA TipoInicial == Init => IndTipo
<1> SUFFICES ASSUME Init PROVE IndTipo
  OBVIOUS
<1>1. permitido \in [RolPermisos -> SUBSET FilasPermiso]
  BY DEF Init
<1>2. apagadas \subseteq Duenos
  BY DEF Init, Duenos
<1>3. QED
  BY <1>1, <1>2, UsuariosAssumption DEF Init, IndTipo, TypeOK, Encajan, Escuchan

\* A request is replaced by a well formed one.
LEMMA TipoPeticion ==
  ASSUME IndTipo, NEW p \in Peticiones, NEW r \in Solicitud \cup {Libre},
         r # Libre => Encaja(r),
         peticion' = [peticion EXCEPT ![p] = r]
  PROVE  peticion' \in [Peticiones -> Solicitud \cup {Libre}] /\ Encajan'
<1>1. \A q \in Peticiones : peticion'[q] = IF q = p THEN r ELSE peticion[q]
  BY DEF IndTipo, TypeOK
<1>2. Encajan'
  BY <1>1 DEF IndTipo, Encajan, Encaja
<1>3. QED
  BY <1>2 DEF IndTipo, TypeOK

LEMMA TipoTerminar ==
  ASSUME IndTipo, NEW p \in Peticiones, Terminar(p)
  PROVE  peticion' \in [Peticiones -> Solicitud \cup {Libre}] /\ Encajan'
BY TipoPeticion DEF Terminar

\* The listeners when none is touched.
LEMMA TipoCascadaIgual ==
  ASSUME IndTipo, UNCHANGED cascada
  PROVE  cascada' \in [Peticiones -> Oyente \cup {Quieta}] /\ Escuchan'
BY DEF IndTipo, TypeOK, Escuchan, Escucha

LEMMA TipoCascada ==
  ASSUME IndTipo, NEW p \in Peticiones, NEW o \in Oyente \cup {Quieta},
         o # Quieta => Escucha(o),
         cascada' = [cascada EXCEPT ![p] = o]
  PROVE  cascada' \in [Peticiones -> Oyente \cup {Quieta}] /\ Escuchan'
<1>1. \A q \in Peticiones : cascada'[q] = IF q = p THEN o ELSE cascada[q]
  BY DEF IndTipo, TypeOK
<1>2. Escuchan'
  BY <1>1 DEF IndTipo, Escuchan, Escucha
<1>3. QED
  BY <1>2 DEF IndTipo, TypeOK

LEMMA TipoSoloPeticion ==
  ASSUME IndTipo, peticion' \in [Peticiones -> Solicitud \cup {Libre}], Encajan', SoloLee
  PROVE  IndTipo'
<1>1. cascada' \in [Peticiones -> Oyente \cup {Quieta}] /\ Escuchan'
  BY TipoCascadaIgual DEF SoloLee
<1>2. QED
  BY <1>1 DEF IndTipo, TypeOK, SoloLee

LEMMA TipoEmpezar ==
  ASSUME IndTipo, NEW p \in Peticiones, NEW op, NEW k, <<op, k>> \in Ordenes, Empezar(p, op, k)
  PROVE  IndTipo'
<1> DEFINE r == [paso |-> PrimerPaso(op, k), op |-> op, clave |-> k,
                 leida |-> "ausente", base |-> "ausente", vistas |-> {}]
<1>1. op \in Operacion /\ k \in Claves \cup RolPermisos
  BY DeOrden
<1>2. PrimerPaso(op, k) \in {"usuario", "rol", "leer"}
  BY DEF PrimerPaso
<1>3. PrimerPaso(op, k) \in {"usuario", "rol"} => (op = "crear" /\ k \in Concesiones) \/ op = "asignar"
  BY DEF PrimerPaso
<1>4. r \in Solicitud
  BY <1>1, <1>2 DEF Solicitud, Paso, Estado
<1>5. Encaja(r)
  BY <1>2, <1>3 DEF Encaja
<1>6. peticion' = [peticion EXCEPT ![p] = r]
  BY DEF Empezar
<1> HIDE DEF r
<1>7. peticion' \in [Peticiones -> Solicitud \cup {Libre}] /\ Encajan'
  BY <1>4, <1>5, <1>6, TipoPeticion
<1>8. recibidas' \in 0..MaxPeticiones
  BY UsuariosAssumption DEF IndTipo, TypeOK, Empezar
<1>9. solapados' \subseteq Duenos
  BY DeToca DEF IndTipo, TypeOK, Empezar
<1>10. cascada' \in [Peticiones -> Oyente \cup {Quieta}] /\ Escuchan'
  BY TipoCascadaIgual DEF Empezar
<1>11. QED
  BY <1>7, <1>8, <1>9, <1>10 DEF IndTipo, TypeOK, Empezar

LEMMA TipoComprobar ==
  ASSUME IndTipo, NEW p \in Peticiones, Comprobar(p)
  PROVE  IndTipo'
<1> DEFINE r == peticion[p]
           t == Siguiente(r.op, r.clave, r.paso)
           s == [r EXCEPT !.paso = t]
<1>1. r # Libre /\ r \in Solicitud /\ Encaja(r) /\ r.paso \in {"usuario", "rol", "permiso"}
  BY Forma DEF IndTipo, Encajan, Comprobar, Libre
<1>2. CASE Terminar(p)
  BY <1>2, TipoTerminar, TipoSoloPeticion DEF Comprobar
<1>3. CASE peticion' = [peticion EXCEPT ![p].paso = t]
  <2>1. /\ t \in Paso \ {"clave", "usuario", "escribir"}
        /\ t = "permiso" => r.op = "asignar"
        /\ t \in {"rol", "permiso"} => (r.op \in {"crear", "activar"} /\ r.clave \in Concesiones) \/ r.op = "asignar"
        /\ t = "comparar" => r.op \in Guardado \cup {"crear"}
    BY <1>1, EncajaPaso
  <2> HIDE DEF t
  <2>2. s \in Solicitud /\ s.paso = t /\ s.op = r.op /\ s.clave = r.clave
    BY <1>1, <2>1 DEF Solicitud
  <2>3. Encaja(s)
    BY <1>1, <2>1, <2>2 DEF Encaja
  <2>4. peticion' = [peticion EXCEPT ![p] = s]
    BY <1>1, <1>3 DEF IndTipo, TypeOK, Solicitud
  <2> HIDE DEF s
  <2>5. QED
    BY <2>2, <2>3, <2>4, TipoPeticion, TipoSoloPeticion DEF Comprobar
<1>4. QED
  BY <1>2, <1>3 DEF Comprobar, Avanzar

LEMMA TipoEmitir ==
  ASSUME IndTipo, NEW p \in Peticiones, NEW op, NEW k, Emitir(p, op, k)
  PROVE  cascada' \in [Peticiones -> Oyente \cup {Quieta}] /\ Escuchan'
<1> DEFINE o == [paso |-> "leer", clave |-> k, pendientes |-> {}]
<1>1. CASE k \in LosUsuarios \cup LosRoles /\ cascada' = [cascada EXCEPT ![p] = o]
  <2>1. o \in Oyente /\ Escucha(o)
    BY <1>1 DEF Oyente, Duenos, Escucha
  <2> HIDE DEF o
  <2>2. QED
    BY <1>1, <2>1, TipoCascada
<1>2. CASE UNCHANGED cascada
  BY <1>2, TipoCascadaIgual
<1>3. QED
  BY <1>1, <1>2 DEF Emitir

LEMMA TipoLeer ==
  ASSUME IndTipo, NEW p \in Peticiones, Leer(p)
  PROVE  IndTipo'
<1> DEFINE r == peticion[p]
           f == fila[r.clave]
           v == IF r.clave \in LosRoles THEN Presentes(ConcesionesDe(r.clave)) ELSE {}
           t == Siguiente(r.op, r.clave, "leer")
           s == [r EXCEPT !.leida = f, !.vistas = v, !.paso = t]
<1>1. r # Libre /\ r \in Solicitud /\ Encaja(r) /\ r.paso = "leer"
  BY Forma DEF IndTipo, Encajan, Leer, EnPaso, Libre
<1>2. r.op \in Guardado \cup {"crear", "eliminar"} /\ r.clave \in Claves
  BY <1>1, DeOrden DEF Leer, Encaja
<1>3. f \in Estado /\ v \in SUBSET (Claves \cup FilasPermiso)
  BY <1>2 DEF IndTipo, TypeOK, Presentes, ConcesionesDe, Claves
<1>4. /\ t \in {"usuario", "escribir", "comparar"}
      /\ t = "usuario" => r.op = "activar" /\ r.clave \in Concesiones
      /\ t = "comparar" => r.op \in Guardado \cup {"crear"}
  BY <1>2 DEF Siguiente, Guardado, Edicion
<1> HIDE DEF f, v, t
<1>5. s \in Solicitud /\ s.paso = t /\ s.op = r.op /\ s.clave = r.clave
  BY <1>1, <1>3, <1>4 DEF Solicitud, Paso
<1>6. Encaja(s)
  BY <1>1, <1>4, <1>5 DEF Encaja
<1>7. peticion' \in [Peticiones -> Solicitud \cup {Libre}] /\ Encajan'
  <2>1. CASE Terminar(p)
    BY <2>1, TipoTerminar
  <2>2. CASE ~Terminar(p)
    <3>1. peticion' = [peticion EXCEPT ![p].leida = f, ![p].vistas = v, ![p].paso = t]
      BY <2>2 DEF Leer, f, v, t
    <3>2. peticion' = [peticion EXCEPT ![p] = s]
      BY <1>1, <3>1 DEF IndTipo, TypeOK, Solicitud
    <3> HIDE DEF s
    <3>3. QED
      BY <1>5, <1>6, <3>2, TipoPeticion
  <2>3. QED
    BY <2>1, <2>2
<1>8. cascada' \in [Peticiones -> Oyente \cup {Quieta}] /\ Escuchan'
  BY TipoEmitir, TipoCascadaIgual DEF Leer
<1>9. QED
  BY <1>7, <1>8 DEF IndTipo, TypeOK, Leer

LEMMA TipoLeerPermitido ==
  ASSUME IndTipo, NEW p \in Peticiones, LeerPermitido(p)
  PROVE  IndTipo'
<1> DEFINE r == peticion[p]
<1>1. r # Libre /\ r \in Solicitud /\ Encaja(r) /\ r.paso = "leer"
  BY Forma DEF IndTipo, Encajan, LeerPermitido, EnPaso, Libre
<1>2. CASE Terminar(p)
  BY <1>2, TipoTerminar, TipoSoloPeticion DEF LeerPermitido
<1>3. CASE Avanzar(p, "escribir")
  <2> DEFINE s == [r EXCEPT !.paso = "escribir"]
  <2>1. s \in Solicitud /\ Encaja(s)
    BY <1>1 DEF Solicitud, Paso, Encaja
  <2>2. peticion' = [peticion EXCEPT ![p] = s]
    BY <1>1, <1>3 DEF IndTipo, TypeOK, Solicitud, Avanzar
  <2> HIDE DEF s
  <2>3. QED
    BY <2>1, <2>2, TipoPeticion, TipoSoloPeticion DEF LeerPermitido
<1>4. CASE r.op = "quitar" /\ \E i \in permitido[r.clave] :
             peticion' = [peticion EXCEPT ![p].vistas = {i}, ![p].paso = "escribir"]
  <2>1. PICK i \in permitido[r.clave] :
          peticion' = [peticion EXCEPT ![p].vistas = {i}, ![p].paso = "escribir"]
    BY <1>4
  <2> DEFINE s == [r EXCEPT !.vistas = {i}, !.paso = "escribir"]
  <2>2. r.clave \in RolPermisos
    BY <1>1, <1>4, DeOrden DEF Encaja
  <2>3. i \in FilasPermiso
    BY <2>1, <2>2 DEF IndTipo, TypeOK
  <2>4. s \in Solicitud /\ Encaja(s)
    BY <1>1, <2>3 DEF Solicitud, Paso, Encaja
  <2>5. peticion' = [peticion EXCEPT ![p] = s]
    BY <1>1, <2>1 DEF IndTipo, TypeOK, Solicitud
  <2> HIDE DEF s
  <2>6. QED
    BY <2>4, <2>5, TipoPeticion, TipoSoloPeticion DEF LeerPermitido
<1>5. QED
  BY <1>2, <1>3, <1>4 DEF LeerPermitido

LEMMA TipoFicha ==
  ASSUME NEW u \in Cuentas
  PROVE  Ficha(u) \subseteq Duenos
BY DEF Ficha, Activas, Duenos, LosUsuarios, LosRoles, LosPermisos

LEMMA TipoLeerSesion ==
  ASSUME IndTipo, NEW p \in Peticiones, LeerSesion(p)
  PROVE  IndTipo'
<1> DEFINE r == peticion[p]
           u == r.clave[2]
<1>1. r # Libre /\ r \in Solicitud /\ Encaja(r) /\ r.paso = "leer"
  BY Forma DEF IndTipo, Encajan, LeerSesion, EnPaso, Libre
<1>2. r.clave \in LosUsuarios /\ u \in Cuentas
  BY <1>1, DeOrden DEF LeerSesion, Encaja, LosUsuarios, Usuario
<1>3. Ficha(u) \subseteq Duenos
  BY <1>2, TipoFicha
<1>4. ficha' \in [Cuentas -> SUBSET Duenos]
  BY <1>3 DEF IndTipo, TypeOK, LeerSesion
<1>5. peticion' \in [Peticiones -> Solicitud \cup {Libre}] /\ Encajan'
  <2>1. CASE Terminar(p)
    BY <2>1, TipoTerminar
  <2>2. CASE r.op = "entrar" /\ peticion' = [peticion EXCEPT ![p].vistas = Ficha(u), ![p].paso = "clave"]
    <3> DEFINE s == [r EXCEPT !.vistas = Ficha(u), !.paso = "clave"]
    <3>1. s \in Solicitud
      BY <1>1, <1>3 DEF Solicitud, Paso, Claves
    <3>2. Encaja(s)
      BY <1>1, <1>3, <2>2 DEF Encaja, Solicitud
    <3>3. peticion' = [peticion EXCEPT ![p] = s]
      BY <1>1, <2>2 DEF IndTipo, TypeOK, Solicitud
    <3> HIDE DEF s
    <3>4. QED
      BY <3>1, <3>2, <3>3, TipoPeticion
  <2>3. QED
    BY <2>1, <2>2 DEF LeerSesion
<1>6. cascada' \in [Peticiones -> Oyente \cup {Quieta}] /\ Escuchan'
  BY TipoCascadaIgual DEF LeerSesion
<1>7. QED
  BY <1>4, <1>5, <1>6 DEF IndTipo, TypeOK, LeerSesion

LEMMA TipoAutenticar ==
  ASSUME IndTipo, NEW p \in Peticiones, Autenticar(p)
  PROVE  IndTipo'
<1>1. peticion[p] # Libre /\ peticion[p].paso = "clave"
  BY DEF Autenticar, EnPaso, Libre
<1>2. peticion[p].vistas \subseteq Duenos
  BY <1>1 DEF IndTipo, Encajan, Encaja
<1>3. ficha' \in [Cuentas -> SUBSET Duenos]
  BY <1>2 DEF IndTipo, TypeOK, Autenticar
<1>4. peticion' \in [Peticiones -> Solicitud \cup {Libre}] /\ Encajan'
  BY TipoTerminar DEF Autenticar
<1>5. cascada' \in [Peticiones -> Oyente \cup {Quieta}] /\ Escuchan'
  BY TipoCascadaIgual DEF Autenticar
<1>6. QED
  BY <1>3, <1>4, <1>5 DEF IndTipo, TypeOK, Autenticar

LEMMA TipoComparar ==
  ASSUME IndTipo, NEW p \in Peticiones, Comparar(p)
  PROVE  IndTipo'
<1> DEFINE r == peticion[p]
           b == IF r.op = "crear" /\ r.clave \in Duenos THEN "ausente" ELSE fila[r.clave]
           s == [r EXCEPT !.base = b, !.paso = "escribir"]
<1>1. r # Libre /\ r \in Solicitud /\ Encaja(r) /\ r.paso = "comparar"
  BY Forma DEF IndTipo, Encajan, Comparar, EnPaso, Libre
<1>2. r.clave \in Claves
  BY <1>1, DeOrden DEF Encaja
<1>3. b \in Estado
  BY <1>2 DEF IndTipo, TypeOK, Estado
<1> HIDE DEF b
<1>4. CASE Terminar(p)
  BY <1>4, TipoTerminar, TipoSoloPeticion DEF Comparar
<1>5. CASE peticion' = [peticion EXCEPT ![p].base = b, ![p].paso = "escribir"]
  <2>1. s \in Solicitud /\ Encaja(s)
    BY <1>1, <1>3 DEF Solicitud, Paso, Encaja
  <2>2. peticion' = [peticion EXCEPT ![p] = s]
    BY <1>1, <1>5 DEF IndTipo, TypeOK, Solicitud
  <2> HIDE DEF s
  <2>3. QED
    BY <2>1, <2>2, TipoPeticion, TipoSoloPeticion DEF Comparar
<1>6. QED
  BY <1>4, <1>5 DEF Comparar, b

LEMMA TipoGuardada ==
  ASSUME NEW e \in Estado, NEW b \in Estado, NEW f \in Estado
  PROVE  Guardada(e, b, f) \in Estado
BY DEF Guardada, Estado

\* What a row write needs of a request in its last step.
LEMMA FormaEscribir ==
  ASSUME IndTipo, NEW p \in Peticiones, EnPaso(p, "escribir"),
         peticion[p].op \in Guardado \cup {"crear", "eliminar"}
  PROVE  /\ peticion[p] # Libre /\ peticion[p] \in Solicitud /\ Encaja(peticion[p])
         /\ peticion[p].clave \in Claves
         /\ fila[peticion[p].clave] \in Estado
         /\ peticion[p].leida \in Estado /\ peticion[p].base \in Estado
         /\ Entidad(peticion[p].op, peticion[p].leida) \in Estado
<1>1. peticion[p] # Libre /\ peticion[p] \in Solicitud /\ Encaja(peticion[p])
  BY Forma DEF IndTipo, Encajan, EnPaso, Libre
<1>2. peticion[p].clave \in Claves
  BY <1>1, DeOrden DEF Encaja
<1>3. QED
  BY <1>1, <1>2 DEF IndTipo, TypeOK, Solicitud, Entidad, Estado

LEMMA TipoEscribir ==
  ASSUME IndTipo, NEW p \in Peticiones, Escribir(p)
  PROVE  IndTipo'
<1>1. fila' \in [Claves -> Estado]
  BY FormaEscribir, TipoGuardada DEF Escribir, IndTipo, TypeOK
<1>2. peticion' \in [Peticiones -> Solicitud \cup {Libre}] /\ Encajan'
  BY TipoTerminar DEF Escribir
<1>3. cascada' \in [Peticiones -> Oyente \cup {Quieta}] /\ Escuchan'
  BY TipoCascadaIgual DEF Escribir
<1>4. apagadas' \subseteq Duenos
  BY DEF Escribir, IndTipo, TypeOK, Duenos
<1>5. QED
  BY <1>1, <1>2, <1>3, <1>4 DEF IndTipo, TypeOK, Escribir

LEMMA TipoBorrar ==
  ASSUME IndTipo, NEW p \in Peticiones, Borrar(p)
  PROVE  IndTipo'
<1>1. fila' \in [Claves -> Estado]
  BY DEF Borrar, IndTipo, TypeOK, Estado
<1>2. peticion' \in [Peticiones -> Solicitud \cup {Libre}] /\ Encajan'
  BY TipoTerminar DEF Borrar
<1>3. cascada' \in [Peticiones -> Oyente \cup {Quieta}] /\ Escuchan'
  BY TipoCascadaIgual DEF Borrar
<1>4. QED
  BY <1>1, <1>2, <1>3 DEF IndTipo, TypeOK, Borrar

LEMMA TipoEscribirPermitido ==
  ASSUME IndTipo, NEW p \in Peticiones, EscribirPermitido(p)
  PROVE  IndTipo'
<1>1. permitido' \in [RolPermisos -> SUBSET FilasPermiso]
  BY DEF EscribirPermitido, IndTipo, TypeOK
<1>2. peticion' \in [Peticiones -> Solicitud \cup {Libre}] /\ Encajan'
  BY TipoTerminar DEF EscribirPermitido
<1>3. cascada' \in [Peticiones -> Oyente \cup {Quieta}] /\ Escuchan'
  BY TipoCascadaIgual DEF EscribirPermitido
<1>4. QED
  BY <1>1, <1>2, <1>3 DEF IndTipo, TypeOK, EscribirPermitido

LEMMA TipoFallar ==
  ASSUME IndTipo, NEW p \in Peticiones, Fallar(p)
  PROVE  IndTipo'
BY TipoTerminar, TipoSoloPeticion DEF Fallar

LEMMA TipoSeguir ==
  ASSUME IndTipo, NEW p \in Peticiones, NEW c \in LosUsuarios \cup LosRoles,
         NEW resto \in SUBSET ConcesionesDe(c), Seguir(p, c, resto)
  PROVE  cascada' \in [Peticiones -> Oyente \cup {Quieta}] /\ Escuchan'
<1> DEFINE o == IF resto = {} THEN Quieta ELSE [paso |-> "guardar", clave |-> c, pendientes |-> resto]
<1>1. o \in Oyente \cup {Quieta}
  BY DEF Oyente, Duenos, ConcesionesDe
<1>2. o # Quieta => Escucha(o)
  BY DEF Escucha
<1>3. cascada' = [cascada EXCEPT ![p] = o]
  BY DEF Seguir
<1> HIDE DEF o
<1>4. QED
  BY <1>1, <1>2, <1>3, TipoCascada

\* The requests when none is touched.
LEMMA TipoPeticionIgual ==
  ASSUME IndTipo, UNCHANGED peticion
  PROVE  peticion' \in [Peticiones -> Solicitud \cup {Libre}] /\ Encajan'
BY DEF IndTipo, TypeOK, Encajan, Encaja

LEMMA TipoCascadaLeer ==
  ASSUME IndTipo, NEW p \in Peticiones, CascadaLeer(p)
  PROVE  IndTipo'
<1>1. cascada[p] # Quieta /\ cascada[p].clave \in LosUsuarios \cup LosRoles
  BY DEF IndTipo, Escuchan, Escucha, CascadaLeer, Quieta
<1>2. cascada' \in [Peticiones -> Oyente \cup {Quieta}] /\ Escuchan'
  BY <1>1, TipoSeguir DEF CascadaLeer, Presentes
<1>3. QED
  BY <1>2, TipoPeticionIgual DEF IndTipo, TypeOK, CascadaLeer, SoloCascada

LEMMA TipoCascadaComparar ==
  ASSUME IndTipo, NEW p \in Peticiones, CascadaComparar(p)
  PROVE  IndTipo'
<1>1. PICK g \in cascada[p].pendientes :
        cascada' = [cascada EXCEPT ![p] =
          [paso |-> "comparada", clave |-> cascada[p].clave, pendientes |-> cascada[p].pendientes,
           actual |-> g, base |-> fila[g]]]
  BY DEF CascadaComparar
<1> DEFINE o == [paso |-> "comparada", clave |-> cascada[p].clave, pendientes |-> cascada[p].pendientes,
                 actual |-> g, base |-> fila[g]]
<1>2. cascada[p] # Quieta /\ Escucha(cascada[p])
  BY DEF IndTipo, Escuchan, CascadaComparar, Quieta
<1>3. cascada[p].clave \in Duenos /\ cascada[p].pendientes \subseteq Concesiones
  BY <1>2, Forma DEF IndTipo
<1>4. fila[g] \in Estado
  BY <1>3 DEF IndTipo, TypeOK, Claves
<1>5. o \in Oyente /\ Escucha(o)
  BY <1>2, <1>3, <1>4 DEF Oyente, Escucha
<1>6. cascada' = [cascada EXCEPT ![p] = o]
  BY <1>1
<1> HIDE DEF o
<1>7. cascada' \in [Peticiones -> Oyente \cup {Quieta}] /\ Escuchan'
  BY <1>5, <1>6, TipoCascada
<1>8. QED
  BY <1>7, TipoPeticionIgual DEF IndTipo, TypeOK, CascadaComparar, SoloCascada

LEMMA TipoCascadaGuardar ==
  ASSUME IndTipo, NEW p \in Peticiones, CascadaGuardar(p)
  PROVE  IndTipo'
<1>1. cascada[p] # Quieta /\ Escucha(cascada[p])
  BY DEF IndTipo, Escuchan, CascadaGuardar, Quieta
<1>2. cascada[p].actual \in Claves /\ cascada[p].base \in Estado
  BY Forma DEF IndTipo, CascadaGuardar, Claves
<1>3. fila' \in [Claves -> Estado]
  BY <1>2, TipoGuardada DEF CascadaGuardar, IndTipo, TypeOK, Estado
<1>4. cascada' \in [Peticiones -> Oyente \cup {Quieta}] /\ Escuchan'
  BY <1>1, TipoSeguir DEF CascadaGuardar, Escucha
<1>5. QED
  BY <1>3, <1>4, TipoPeticionIgual DEF IndTipo, TypeOK, CascadaGuardar, SoloCascada

LEMMA TipoCascadaFallar ==
  ASSUME IndTipo, NEW p \in Peticiones, CascadaFallar(p)
  PROVE  IndTipo'
<1>1. cascada' \in [Peticiones -> Oyente \cup {Quieta}] /\ Escuchan'
  BY TipoCascada DEF CascadaFallar
<1>2. heridas' \subseteq Duenos
  BY Forma DEF IndTipo, TypeOK, CascadaFallar
<1>3. QED
  BY <1>1, <1>2, TipoPeticionIgual DEF IndTipo, TypeOK, CascadaFallar, SoloCascada

LEMMA TipoCaida ==
  ASSUME IndTipo, Caida
  PROVE  IndTipo'
BY DEF IndTipo, TypeOK, Encajan, Escuchan, Caida

LEMMA TipoPaso ==
  ASSUME IndTipo, [Next]_vars
  PROVE  IndTipo'
<1>1. CASE UNCHANGED vars
  BY <1>1, TipoPeticionIgual, TipoCascadaIgual DEF vars, IndTipo, TypeOK
<1>2. CASE Caida
  BY <1>2, TipoCaida
<1>3. ASSUME NEW p \in Peticiones, Atender(p) PROVE IndTipo'
  BY <1>3, TipoEmpezar, TipoComprobar, TipoLeer, TipoLeerPermitido, TipoLeerSesion, TipoAutenticar,
     TipoComparar, TipoEscribir, TipoBorrar, TipoEscribirPermitido, TipoFallar, OrdenEsPar
     DEF Atender
<1>4. ASSUME NEW p \in Peticiones, Escuchar(p) PROVE IndTipo'
  BY <1>4, TipoCascadaLeer, TipoCascadaComparar, TipoCascadaGuardar, TipoCascadaFallar DEF Escuchar
<1>5. QED
  BY <1>1, <1>2, <1>3, <1>4 DEF Next

\* Type correctness: every request, listener and row has the shape its handler
\* gives it, however requests overlap, fail or are cut off.
THEOREM TipoCorrecto == Spec => []TypeOK
<1>1. Spec => []IndTipo
  BY TipoInicial, TipoPaso, PTL DEF Spec
<1>2. IndTipo => TypeOK
  BY DEF IndTipo
<1>3. QED
  BY <1>1, <1>2, PTL

-----------------------------------------------------------------------------
(***************************************************************************)
(* Who is alone with a row.                                                *)
(***************************************************************************)

\* A row that is not among solapados has one request, with its own listener, or
\* one listener to itself.
Sola ==
  \A c \in Duenos \ solapados : \A p, q \in EnCursoSobre(c) : p = q

\* A request that is still there when its listener runs is the deactivation
\* that started it, past its reading.
SuOyente ==
  \A p \in Peticiones :
    peticion[p] # Libre /\ cascada[p] # Quieta =>
      /\ peticion[p].op = "desactivar"
      /\ peticion[p].clave = cascada[p].clave
      /\ peticion[p].paso \in {"comparar", "escribir"}

Solas == Sola /\ SuOyente

\* A step that starts no request: nobody becomes busy with another row.
Mengua ==
  /\ solapados' = solapados
  /\ heridas \subseteq heridas'
  /\ \A q \in Peticiones : peticion'[q] # Libre =>
       /\ peticion[q] # Libre
       /\ peticion'[q].op = peticion[q].op
       /\ peticion'[q].clave = peticion[q].clave
  /\ \A q \in Peticiones : cascada'[q] # Quieta =>
       \/ /\ cascada[q] # Quieta
          /\ cascada'[q].clave = cascada[q].clave
       \/ /\ peticion[q] # Libre
          /\ peticion[q].op = "desactivar"
          /\ cascada'[q].clave = peticion[q].clave
          /\ peticion[q].clave \in LosUsuarios \cup LosRoles

\* One request moves.
LEMMA SoloUna ==
  ASSUME IndTipo, NEW p \in Peticiones, Atender(p)
  PROVE  \A q \in Peticiones \ {p} : peticion'[q] = peticion[q] /\ cascada'[q] = cascada[q]
<1> USE DEF IndTipo, TypeOK
<1>1. ASSUME NEW op, NEW k, Empezar(p, op, k)
      PROVE  \A q \in Peticiones \ {p} : peticion'[q] = peticion[q] /\ cascada'[q] = cascada[q]
  BY <1>1 DEF Empezar
<1>2. CASE Comprobar(p) \/ LeerPermitido(p) \/ Comparar(p) \/ Fallar(p)
  BY <1>2 DEF Comprobar, LeerPermitido, Comparar, Fallar, SoloLee, Avanzar, Terminar
<1>3. CASE Leer(p)
  BY <1>3 DEF Leer, Terminar, Emitir
<1>4. CASE LeerSesion(p) \/ Autenticar(p)
  BY <1>4 DEF LeerSesion, Autenticar, Terminar
<1>5. CASE Escribir(p) \/ Borrar(p) \/ EscribirPermitido(p)
  BY <1>5 DEF Escribir, Borrar, EscribirPermitido, Terminar
<1>6. QED
  BY <1>1, <1>2, <1>3, <1>4, <1>5 DEF Atender

\* One listener moves.
LEMMA SoloUnOyente ==
  ASSUME IndTipo, NEW p \in Peticiones, Escuchar(p)
  PROVE  /\ \A q \in Peticiones \ {p} : cascada'[q] = cascada[q]
         /\ SoloCascada
         /\ cascada[p] # Quieta
<1>1. CASE CascadaLeer(p) \/ CascadaComparar(p)
  BY <1>1 DEF CascadaLeer, CascadaComparar, Seguir, IndTipo, TypeOK, Quieta
<1>2. CASE CascadaGuardar(p) \/ CascadaFallar(p)
  BY <1>2 DEF CascadaGuardar, CascadaFallar, Seguir, IndTipo, TypeOK, Quieta
<1>3. QED
  BY <1>1, <1>2 DEF Escuchar

\* What becomes of the request that moves.
LEMMA MismaPeticion ==
  ASSUME IndTipo, NEW p \in Peticiones, Atender(p), ~\E o \in Ordenes : Empezar(p, o[1], o[2])
  PROVE  /\ peticion[p] # Libre
         /\ solapados' = solapados /\ heridas' = heridas
         /\ peticion'[p] # Libre => peticion'[p].op = peticion[p].op /\ peticion'[p].clave = peticion[p].clave
         /\ ~Leer(p) => UNCHANGED cascada
<1> USE DEF IndTipo, TypeOK
<1>1. CASE Comprobar(p)
  <2>1. peticion[p] \in Solicitud
    BY <1>1, Forma DEF Comprobar, Libre
  <2>2. QED
    BY <1>1, <2>1 DEF Comprobar, SoloLee, Avanzar, Terminar, Solicitud, Libre
<1>2. CASE LeerPermitido(p)
  <2>1. peticion[p] \in Solicitud
    BY <1>2, Forma DEF LeerPermitido, EnPaso, Libre
  <2>2. CASE Terminar(p) \/ Avanzar(p, "escribir")
    BY <1>2, <2>1, <2>2 DEF LeerPermitido, EnPaso, SoloLee, Avanzar, Terminar, Solicitud, Libre
  <2>3. ASSUME NEW i, peticion' = [peticion EXCEPT ![p].vistas = {i}, ![p].paso = "escribir"]
        PROVE  peticion'[p].op = peticion[p].op /\ peticion'[p].clave = peticion[p].clave
    BY <2>1, <2>3 DEF Solicitud
  <2>4. peticion[p] # Libre /\ SoloLee
    BY <1>2 DEF LeerPermitido, EnPaso, Libre
  <2>5. QED
    BY <1>2, <2>2, <2>3, <2>4 DEF LeerPermitido, SoloLee
<1>3. CASE Comparar(p)
  <2>1. peticion[p] \in Solicitud
    BY <1>3, Forma DEF Comparar, EnPaso, Libre
  <2>2. QED
    BY <1>3, <2>1 DEF Comparar, EnPaso, SoloLee, Terminar, Solicitud, Libre
<1>4. CASE Leer(p)
  <2>1. peticion[p] \in Solicitud
    BY <1>4, Forma DEF Leer, EnPaso, Libre
  <2>2. QED
    BY <1>4, <2>1 DEF Leer, EnPaso, Terminar, Solicitud, Libre
<1>5. CASE LeerSesion(p)
  <2>1. peticion[p] \in Solicitud
    BY <1>5, Forma DEF LeerSesion, EnPaso, Libre
  <2>2. QED
    BY <1>5, <2>1 DEF LeerSesion, EnPaso, Terminar, Solicitud, Libre
<1>6. CASE Autenticar(p) \/ Fallar(p)
  BY <1>6 DEF Autenticar, Fallar, EnPaso, SoloLee, Terminar, Libre
<1>7. CASE Escribir(p) \/ Borrar(p) \/ EscribirPermitido(p)
  BY <1>7 DEF Escribir, Borrar, EscribirPermitido, EnPaso, Terminar, Libre
<1>8. QED
  BY <1>1, <1>2, <1>3, <1>4, <1>5, <1>6, <1>7 DEF Atender

\* And of the listener.
LEMMA MismoOyente ==
  ASSUME IndTipo, NEW p \in Peticiones, Escuchar(p)
  PROVE  /\ cascada'[p] # Quieta => cascada'[p].clave = cascada[p].clave
         /\ heridas \subseteq heridas'
<1>1. CASE CascadaLeer(p) \/ CascadaComparar(p)
  BY <1>1 DEF CascadaLeer, CascadaComparar, Seguir, IndTipo, TypeOK, Quieta
<1>2. CASE CascadaGuardar(p) \/ CascadaFallar(p)
  BY <1>2 DEF CascadaGuardar, CascadaFallar, Seguir, IndTipo, TypeOK, Quieta
<1>3. QED
  BY <1>1, <1>2 DEF Escuchar

LEMMA TodoMengua ==
  ASSUME IndTipo, [Next]_vars, ~\E p \in Peticiones : \E o \in Ordenes : Empezar(p, o[1], o[2])
  PROVE  Mengua
<1>1. CASE UNCHANGED vars
  BY <1>1 DEF vars, Mengua
<1>2. CASE Caida
  BY <1>2 DEF Caida, Mengua
<1>3. ASSUME NEW p \in Peticiones, Atender(p) PROVE Mengua
  <2>1. /\ peticion[p] # Libre
        /\ solapados' = solapados /\ heridas' = heridas
        /\ peticion'[p] # Libre => peticion'[p].op = peticion[p].op /\ peticion'[p].clave = peticion[p].clave
        /\ ~Leer(p) => UNCHANGED cascada
    BY <1>3, MismaPeticion
  <2>2. \A q \in Peticiones \ {p} : peticion'[q] = peticion[q] /\ cascada'[q] = cascada[q]
    BY <1>3, SoloUna
  <2>3. cascada'[p] # Quieta =>
          \/ cascada[p] # Quieta /\ cascada'[p].clave = cascada[p].clave
          \/ /\ peticion[p].op = "desactivar"
             /\ cascada'[p].clave = peticion[p].clave
             /\ peticion[p].clave \in LosUsuarios \cup LosRoles
    BY <2>1 DEF Leer, Emitir, IndTipo, TypeOK
  <2>4. QED
    BY <2>1, <2>2, <2>3 DEF Mengua
<1>4. ASSUME NEW p \in Peticiones, Escuchar(p) PROVE Mengua
  BY <1>4, SoloUnOyente, MismoOyente DEF Mengua, SoloCascada
<1>5. QED
  BY <1>1, <1>2, <1>3, <1>4 DEF Next

\* A step that starts no request.
LEMMA EnCursoMengua ==
  ASSUME IndTipo, Mengua, NEW c \in Duenos
  PROVE  EnCursoSobre(c)' \subseteq EnCursoSobre(c)
<1> SUFFICES ASSUME NEW q \in Peticiones, q \in EnCursoSobre(c)'
             PROVE  q \in EnCursoSobre(c)
  BY DEF EnCursoSobre
<1>1. CASE peticion'[q] # Libre /\ c \in Toca(peticion'[q].op, peticion'[q].clave)
  BY <1>1 DEF Mengua, EnCursoSobre
<1>2. CASE cascada'[q] # Quieta /\ cascada'[q].clave = c
  <2>1. CASE cascada[q] # Quieta /\ cascada[q].clave = c
    BY <2>1 DEF EnCursoSobre
  <2>2. CASE peticion[q] # Libre /\ peticion[q].clave = c
    <3>1. c \in Toca(peticion[q].op, peticion[q].clave)
      BY <2>2 DEF Toca
    <3>2. QED
      BY <2>2, <3>1 DEF EnCursoSobre
  <2>3. QED
    BY <1>2, <2>1, <2>2 DEF Mengua
<1>3. QED
  BY <1>1, <1>2 DEF EnCursoSobre

\* A step that starts one.
LEMMA EnCursoEmpezar ==
  ASSUME IndTipo, NEW p \in Peticiones, NEW op, NEW k, <<op, k>> \in Ordenes, Empezar(p, op, k),
         NEW c \in Duenos
  PROVE  /\ EnCursoSobre(c)' \subseteq EnCursoSobre(c) \cup {p}
         /\ p \notin EnCursoSobre(c)
         /\ p \in EnCursoSobre(c)' => c \in Toca(op, k)
         /\ c \in Toca(op, k) /\ EnCursoSobre(c) # {} => c \in solapados'
<1>1. \A q \in Peticiones \ {p} : peticion'[q] = peticion[q]
  BY DEF Empezar, IndTipo, TypeOK
<1>2. peticion'[p].op = op /\ peticion'[p].clave = k
  BY DEF Empezar, IndTipo, TypeOK
<1>3. cascada' = cascada /\ cascada[p] = Quieta /\ peticion[p] = Libre
  BY DEF Empezar
<1>4. QED
  BY <1>1, <1>2, <1>3 DEF EnCursoSobre, Empezar

LEMMA SolaPaso ==
  ASSUME IndTipo, Sola, [Next]_vars
  PROVE  Sola'
<1>1. CASE \E p \in Peticiones : \E o \in Ordenes : Empezar(p, o[1], o[2])
  <2>1. PICK p \in Peticiones, o \in Ordenes : Empezar(p, o[1], o[2])
    BY <1>1
  <2>2. <<o[1], o[2]>> \in Ordenes
    BY OrdenEsPar
  <2>3. solapados \subseteq solapados'
    BY <2>1 DEF Empezar
  <2> SUFFICES ASSUME NEW c \in Duenos, c \notin solapados',
                      NEW q \in EnCursoSobre(c)', NEW s \in EnCursoSobre(c)'
               PROVE  q = s
    BY DEF Sola
  <2>4. CASE c \in Toca(o[1], o[2])
    <3>1. EnCursoSobre(c) = {}
      BY <2>1, <2>2, <2>4, EnCursoEmpezar
    <3>2. QED
      BY <2>1, <2>2, <3>1, EnCursoEmpezar
  <2>5. CASE c \notin Toca(o[1], o[2])
    <3>1. q \in EnCursoSobre(c) /\ s \in EnCursoSobre(c)
      BY <2>1, <2>2, <2>5, EnCursoEmpezar
    <3>2. QED
      BY <2>3, <3>1 DEF Sola
  <2>6. QED
    BY <2>4, <2>5
<1>2. CASE ~\E p \in Peticiones : \E o \in Ordenes : Empezar(p, o[1], o[2])
  <2>1. Mengua
    BY <1>2, TodoMengua
  <2>2. \A c \in Duenos : EnCursoSobre(c)' \subseteq EnCursoSobre(c)
    BY <2>1, EnCursoMengua
  <2>3. solapados' = solapados
    BY <2>1 DEF Mengua
  <2>4. QED
    BY <2>2, <2>3 DEF Sola
<1>3. QED
  BY <1>1, <1>2

LEMMA SuOyenteAtender ==
  ASSUME IndTipo, SuOyente, NEW p \in Peticiones, Atender(p)
  PROVE  SuOyente'
<1> SUFFICES ASSUME peticion'[p] # Libre, cascada'[p] # Quieta
             PROVE  /\ peticion'[p].op = "desactivar"
                    /\ peticion'[p].clave = cascada'[p].clave
                    /\ peticion'[p].paso \in {"comparar", "escribir"}
  BY SoloUna DEF SuOyente
<1> USE DEF IndTipo, TypeOK
<1>1. ASSUME NEW op, NEW k, Empezar(p, op, k) PROVE FALSE
  BY <1>1 DEF Empezar
<1>2. CASE Leer(p)
  <2> DEFINE r == peticion[p]
  <2>1. r \in Solicitud /\ r # Libre /\ r.paso = "leer"
    BY <1>2, Forma DEF Leer, EnPaso, Libre
  <2>2. cascada[p] = Quieta
    BY <2>1 DEF SuOyente
  <2>3. r.op = "desactivar" /\ cascada'[p].clave = r.clave /\ r.clave \in LosUsuarios \cup LosRoles
    BY <1>2, <2>2 DEF Leer, Emitir
  <2>4. peticion' = [peticion EXCEPT
          ![p].leida = fila[r.clave],
          ![p].vistas = IF r.clave \in LosRoles THEN Presentes(ConcesionesDe(r.clave)) ELSE {},
          ![p].paso = Siguiente(r.op, r.clave, "leer")]
    BY <1>2 DEF Leer, Terminar
  <2>5. Siguiente(r.op, r.clave, "leer") = "comparar"
    BY <2>3 DEF Siguiente
  <2>6. QED
    BY <2>1, <2>3, <2>4, <2>5 DEF Solicitud
<1>3. CASE ~Leer(p) /\ ~\E o \in Ordenes : Empezar(p, o[1], o[2])
  <2>1. /\ peticion[p] # Libre /\ cascada' = cascada
        /\ peticion'[p].op = peticion[p].op /\ peticion'[p].clave = peticion[p].clave
    BY <1>3, MismaPeticion
  <2>2. peticion[p].op = "desactivar" /\ peticion[p].clave = cascada[p].clave
        /\ peticion[p].paso \in {"comparar", "escribir"}
    BY <2>1 DEF SuOyente
  <2>3. Comparar(p)
    BY <1>3, <2>2 DEF Atender, Comprobar, LeerPermitido, LeerSesion, Autenticar, Escribir, Borrar,
         EscribirPermitido, Fallar, EnPaso, Terminar
  <2>4. peticion[p] \in Solicitud
    BY <2>1, Forma
  <2>5. peticion'[p].paso = "escribir"
    BY <2>3, <2>4 DEF Comparar, Terminar, Solicitud
  <2>6. QED
    BY <2>1, <2>2, <2>5
<1>4. QED
  BY <1>1, <1>2, <1>3

LEMMA SuOyentePaso ==
  ASSUME IndTipo, SuOyente, [Next]_vars
  PROVE  SuOyente'
<1>1. CASE UNCHANGED vars
  BY <1>1 DEF vars, SuOyente
<1>2. CASE Caida
  BY <1>2 DEF Caida, SuOyente
<1>3. ASSUME NEW p \in Peticiones, Escuchar(p) PROVE SuOyente'
  BY <1>3, SoloUnOyente, MismoOyente DEF SuOyente, SoloCascada
<1>4. QED
  BY <1>1, <1>2, <1>3, SuOyenteAtender DEF Next

IndSolas == IndTipo /\ Solas

LEMMA SolasInicial == Init => IndSolas
<1> SUFFICES ASSUME Init PROVE IndSolas
  OBVIOUS
<1>1. \A c : EnCursoSobre(c) = {}
  BY DEF Init, EnCursoSobre
<1>2. QED
  BY <1>1, TipoInicial DEF Init, IndSolas, Solas, Sola, SuOyente

LEMMA SolasPaso ==
  ASSUME IndSolas, [Next]_vars
  PROVE  IndSolas'
BY TipoPaso, SolaPaso, SuOyentePaso DEF IndSolas, Solas

\* The rows a request names are among those it is busy with.
LEMMA EnCursoPeticion ==
  ASSUME IndTipo, NEW p \in Peticiones, peticion[p] # Libre
  PROVE  /\ <<peticion[p].op, peticion[p].clave>> \in Ordenes
         /\ Toca(peticion[p].op, peticion[p].clave) \subseteq Duenos
         /\ \A c \in Toca(peticion[p].op, peticion[p].clave) : p \in EnCursoSobre(c)
         /\ peticion[p].clave \in Duenos => p \in EnCursoSobre(peticion[p].clave)
         /\ peticion[p].clave \in Concesiones \cup RolPermisos =>
              \A c \in Refiere(peticion[p].clave) : c \in Duenos /\ p \in EnCursoSobre(c)
<1>1. <<peticion[p].op, peticion[p].clave>> \in Ordenes
  BY DEF IndTipo, Encajan, Encaja
<1>2. QED
  BY <1>1, DeToca DEF EnCursoSobre

\* Two requests on one key.
LEMMA UnaPorClave ==
  ASSUME IndSolas, NEW p \in Peticiones, NEW q \in Peticiones, p # q,
         peticion[p] # Libre, peticion[q] # Libre, peticion[p].clave = peticion[q].clave
  PROVE  /\ peticion[p].clave \in Duenos => peticion[p].clave \in solapados
         /\ peticion[p].clave \in Concesiones \cup RolPermisos =>
              Refiere(peticion[p].clave) \cap solapados # {}
<1>1. CASE peticion[p].clave \in Duenos
  BY <1>1, EnCursoPeticion, ClavesDistintas DEF IndSolas, Solas, Sola
<1>2. CASE peticion[p].clave \in Concesiones \cup RolPermisos
  <2>1. PICK c : c \in Refiere(peticion[p].clave)
    BY <1>2, DeConcesion, DeRolPermiso
  <2>2. c \in Duenos /\ p \in EnCursoSobre(c) /\ q \in EnCursoSobre(c)
    BY <1>2, <2>1, EnCursoPeticion DEF IndSolas
  <2>3. c \in solapados
    BY <2>2 DEF IndSolas, Solas, Sola
  <2>4. QED
    BY <1>2, <2>1, <2>3, ClavesDistintas
<1>3. QED
  BY <1>1, <1>2

-----------------------------------------------------------------------------
(***************************************************************************)
(* PermisoUnico.                                                           *)
(***************************************************************************)

\* An assignment that is about to insert its row, alone with its role and its
\* permission, still finds none.
SinRepetir ==
  \A p \in Peticiones :
    LET r == peticion[p] IN
      /\ r # Libre /\ r.op = "asignar" /\ r.paso = "escribir"
      /\ Refiere(r.clave) \cap solapados = {}
      => permitido[r.clave] = {}

IndPermiso == IndSolas /\ PermisoUnico /\ SinRepetir

\* Who comes to be in its last step.
LEMMA LlegaAEscribir ==
  ASSUME IndTipo, NEW p \in Peticiones, Atender(p),
         peticion'[p] # Libre, peticion'[p].paso = "escribir"
  PROVE  /\ peticion[p] # Libre
         /\ peticion'[p].op = peticion[p].op /\ peticion'[p].clave = peticion[p].clave
         /\ UNCHANGED <<fila, permitido, solapados, heridas>>
         /\ \/ LeerPermitido(p)
            \/ Leer(p) /\ peticion[p].op = "eliminar"
            \/ Comparar(p) /\ peticion[p].op \in Guardado \cup {"crear"}
<1> USE DEF IndTipo, TypeOK
<1>1. ~\E o \in Ordenes : Empezar(p, o[1], o[2])
  <2>1. SUFFICES ASSUME NEW op, NEW k, Empezar(p, op, k) PROVE FALSE
    OBVIOUS
  <2>2. peticion'[p].paso = PrimerPaso(op, k)
    BY <2>1 DEF Empezar
  <2>3. PrimerPaso(op, k) # "escribir"
    BY DEF PrimerPaso
  <2>4. QED
    BY <2>2, <2>3
<1>2. /\ peticion[p] # Libre /\ peticion[p] \in Solicitud /\ Encaja(peticion[p])
      /\ peticion'[p].op = peticion[p].op /\ peticion'[p].clave = peticion[p].clave
  BY <1>1, MismaPeticion, Forma DEF Encajan
<1>3. ~Comprobar(p)
  <2>1. SUFFICES ASSUME Comprobar(p) PROVE FALSE
    OBVIOUS
  <2>2. peticion'[p].paso = Siguiente(peticion[p].op, peticion[p].clave, peticion[p].paso)
    BY <2>1, <1>2 DEF Comprobar, Avanzar, Terminar, Solicitud
  <2>3. QED
    BY <2>1, <2>2, <1>2, EncajaPaso DEF Comprobar
<1>4. ~LeerSesion(p)
  <2>1. SUFFICES ASSUME LeerSesion(p) PROVE FALSE
    OBVIOUS
  <2>2. CASE Terminar(p)
    BY <2>2 DEF Terminar
  <2>3. CASE ~Terminar(p)
    BY <2>1, <2>3, <1>2 DEF LeerSesion, Solicitud
  <2>4. QED
    BY <2>2, <2>3
<1>5. ~(Autenticar(p) \/ Escribir(p) \/ Borrar(p) \/ EscribirPermitido(p) \/ Fallar(p))
  BY DEF Autenticar, Escribir, Borrar, EscribirPermitido, Fallar, Terminar
<1>6. CASE LeerPermitido(p)
  BY <1>2, <1>6 DEF LeerPermitido, SoloLee
<1>7. CASE Comparar(p)
  BY <1>2, <1>7 DEF Comparar, SoloLee, EnPaso, Encaja
<1>8. CASE Leer(p)
  <2>1. peticion'[p].paso = Siguiente(peticion[p].op, peticion[p].clave, "leer")
    BY <1>2, <1>8 DEF Leer, Terminar, Solicitud
  <2>2. peticion[p].op = "eliminar"
    BY <1>8, <2>1 DEF Leer, Siguiente, Guardado, Edicion
  <2>3. QED
    BY <1>2, <1>8, <2>2 DEF Leer
<1>9. QED
  BY <1>1, <1>3, <1>4, <1>5, <1>6, <1>7, <1>8 DEF Atender

\* Who changes the rows of role_permission.
LEMMA CambiaPermitido ==
  ASSUME IndTipo, [Next]_vars, permitido' # permitido
  PROVE  \E p \in Peticiones : EscribirPermitido(p)
<1>1. ~Caida /\ ~UNCHANGED vars
  BY DEF Caida, vars
<1>2. \A p \in Peticiones : ~Escuchar(p)
  BY SoloUnOyente DEF SoloCascada
<1>3. PICK p \in Peticiones : Atender(p)
  BY <1>1, <1>2 DEF Next
<1>4. EscribirPermitido(p)
  BY <1>3 DEF Atender, Empezar, Comprobar, Leer, LeerPermitido, LeerSesion, Autenticar, Comparar,
       Escribir, Borrar, Fallar, SoloLee
<1>5. QED
  BY <1>4

LEMMA SolapadosCrece ==
  ASSUME IndTipo, [Next]_vars
  PROVE  solapados \subseteq solapados' /\ heridas \subseteq heridas'
<1>1. CASE \E p \in Peticiones : \E o \in Ordenes : Empezar(p, o[1], o[2])
  BY <1>1 DEF Empezar
<1>2. QED
  BY <1>1, TodoMengua DEF Mengua

LEMMA EscribirPermitidoPaso ==
  ASSUME IndPermiso, NEW p \in Peticiones, EscribirPermitido(p)
  PROVE  PermisoUnico' /\ SinRepetir'
<1> DEFINE r == peticion[p]
           k == r.clave
<1>1. r # Libre /\ r \in Solicitud /\ Encaja(r)
  BY Forma DEF IndPermiso, IndSolas, IndTipo, Encajan, EscribirPermitido, EnPaso, Libre
<1>2. r.op \in {"asignar", "quitar"} /\ k \in RolPermisos
  BY <1>1, DeOrden DEF EscribirPermitido, Encaja
<1>3. solapados' = solapados /\ peticion'[p] = Libre
  BY DEF EscribirPermitido, Terminar, IndPermiso, IndSolas, IndTipo, TypeOK
<1>4. \A j \in RolPermisos \ {k} : permitido'[j] = permitido[j]
  BY <1>2 DEF EscribirPermitido, IndPermiso, IndSolas, IndTipo, TypeOK
<1>5. Refiere(k) \cap solapados = {} => \A i, j \in permitido'[k] : i = j
  <2>1. SUFFICES ASSUME Refiere(k) \cap solapados = {} PROVE \A i, j \in permitido'[k] : i = j
    OBVIOUS
  <2>2. CASE r.op = "asignar"
    <3>1. permitido[k] = {}
      BY <1>1, <2>1, <2>2 DEF EscribirPermitido, EnPaso, IndPermiso, SinRepetir
    <3>2. \E i \in FilasPermiso : permitido'[k] = {i}
      BY <1>2, <2>2, <3>1 DEF EscribirPermitido, IndPermiso, IndSolas, IndTipo, TypeOK
    <3>3. QED
      BY <3>2
  <2>3. CASE r.op = "quitar"
    <3>1. permitido'[k] \subseteq permitido[k]
      BY <1>2, <2>3 DEF EscribirPermitido, IndPermiso, IndSolas, IndTipo, TypeOK
    <3>2. QED
      BY <1>2, <2>1, <3>1 DEF IndPermiso, PermisoUnico
  <2>4. QED
    BY <1>2, <2>2, <2>3
<1>6. PermisoUnico'
  <2>1. ASSUME NEW j \in RolPermisos PROVE Refiere(j)' = Refiere(j)
    BY DEF Refiere
  <2>2. QED
    BY <1>3, <1>4, <1>5, <2>1 DEF IndPermiso, PermisoUnico
<1>7. SinRepetir'
  <2>1. SUFFICES ASSUME NEW q \in Peticiones, q # p, peticion[q] # Libre, peticion[q].op = "asignar",
                        peticion[q].paso = "escribir", Refiere(peticion[q].clave) \cap solapados = {}
                 PROVE  permitido'[peticion[q].clave] = {}
    <3>1. \A q \in Peticiones \ {p} : peticion'[q] = peticion[q]
      BY DEF EscribirPermitido, Terminar, IndPermiso, IndSolas, IndTipo, TypeOK
    <3>2. QED
      BY <1>3, <3>1 DEF SinRepetir, Refiere
  <2>2. peticion[q].clave \in RolPermisos
    BY <2>1, DeOrden DEF IndPermiso, IndSolas, IndTipo, Encajan, Encaja
  <2>3. peticion[q].clave # k
    BY <1>1, <1>2, <2>1, <2>2, UnaPorClave DEF IndPermiso
  <2>4. permitido[peticion[q].clave] = {}
    BY <2>1 DEF IndPermiso, SinRepetir
  <2>5. QED
    BY <1>4, <2>2, <2>3, <2>4
<1>8. QED
  BY <1>6, <1>7

LEMMA PermisoPaso ==
  ASSUME IndPermiso, [Next]_vars
  PROVE  IndPermiso'
<1>1. IndSolas'
  BY SolasPaso DEF IndPermiso
<1>2. CASE permitido' # permitido
  BY <1>1, <1>2, CambiaPermitido, EscribirPermitidoPaso DEF IndPermiso, IndSolas
<1>3. CASE permitido' = permitido
  <2>1. solapados \subseteq solapados'
    BY SolapadosCrece DEF IndPermiso, IndSolas
  <2>2. PermisoUnico'
    BY <1>3, <2>1 DEF IndPermiso, PermisoUnico, Refiere
  <2>3. ASSUME NEW p \in Peticiones, peticion'[p] # Libre, peticion'[p].op = "asignar",
               peticion'[p].paso = "escribir", Refiere(peticion'[p].clave) \cap solapados' = {}
        PROVE  permitido[peticion'[p].clave] = {}
    <3>1. CASE peticion'[p] = peticion[p]
      BY <2>1, <2>3, <3>1 DEF IndPermiso, SinRepetir
    <3>2. CASE peticion'[p] # peticion[p]
      <4>1. ~Caida /\ ~UNCHANGED vars
        BY <2>3, <3>2 DEF Caida, vars
      <4>2. \A q \in Peticiones : ~Escuchar(q)
        BY <3>2, SoloUnOyente DEF SoloCascada, IndPermiso, IndSolas
      <4>3. Atender(p)
        BY <3>2, <4>1, <4>2, SoloUna DEF Next, IndPermiso, IndSolas
      <4>4. LeerPermitido(p) /\ peticion'[p].clave = peticion[p].clave /\ peticion[p].op = "asignar"
        BY <2>3, <4>3, LlegaAEscribir DEF IndPermiso, IndSolas, Guardado, Edicion
      <4>5. permitido[peticion[p].clave] = {}
        BY <2>3, <4>4 DEF LeerPermitido, Terminar, IndPermiso, IndSolas, IndTipo, TypeOK
      <4>6. QED
        BY <4>4, <4>5
    <3>3. QED
      BY <3>1, <3>2
  <2>4. SinRepetir'
    BY <1>3, <2>3 DEF SinRepetir, Refiere
  <2>5. QED
    BY <1>1, <2>2, <2>4 DEF IndPermiso
<1>4. QED
  BY <1>2, <1>3

LEMMA PermisoInicial == Init => IndPermiso
<1> SUFFICES ASSUME Init PROVE IndPermiso
  OBVIOUS
<1>1. PermisoUnico
  BY DEF Init, PermisoUnico
<1>2. QED
  BY <1>1, SolasInicial DEF Init, IndPermiso, SinRepetir

\* A role has a permission at most once, unless two requests on one of the two
\* overlapped: the assignment looks for the row it is about to insert.
THEOREM Unico == Spec => []PermisoUnico
<1>1. Spec => []IndPermiso
  BY PermisoInicial, PermisoPaso, PTL DEF Spec
<1>2. IndPermiso => PermisoUnico
  BY DEF IndPermiso
<1>3. QED
  BY <1>1, <1>2, PTL

-----------------------------------------------------------------------------
(***************************************************************************)
(* ConcesionNoRevive.                                                      *)
(***************************************************************************)

\* A request on a grant it has read, alone with its user and its role, still
\* finds it in the table.
GuardanPresentes ==
  \A p \in Peticiones :
    LET r == peticion[p] IN
      /\ r # Libre /\ r.op \in {"activar", "desactivar"} /\ r.clave \in Concesiones
      /\ r.paso # "leer"
      /\ Refiere(r.clave) \cap solapados = {}
      => fila[r.clave] # "ausente"

\* So does a listener, of each grant it has not saved yet.
OyenPresentes ==
  \A p \in Peticiones : cascada[p] # Quieta =>
    \A g \in cascada[p].pendientes : Refiere(g) \cap solapados = {} => fila[g] # "ausente"

IndRevive == IndSolas /\ GuardanPresentes /\ OyenPresentes

\* Who changes a row, and to what.
LEMMA CambiaFila ==
  ASSUME IndTipo, [Next]_vars, NEW k \in Claves, fila'[k] # fila[k]
  PROVE  \/ \E p \in Peticiones :
              /\ Escribir(p) /\ peticion[p].clave = k
              /\ fila'[k] = Guardada(Entidad(peticion[p].op, peticion[p].leida), peticion[p].base, fila[k])
         \/ \E p \in Peticiones : Borrar(p) /\ peticion[p].clave = k /\ fila'[k] = "ausente"
         \/ \E p \in Peticiones :
              /\ CascadaGuardar(p) /\ cascada[p].actual = k
              /\ fila'[k] = Guardada("inactiva", cascada[p].base, fila[k])
<1> USE DEF IndTipo, TypeOK
<1>1. ~Caida /\ ~UNCHANGED vars
  BY DEF Caida, vars
<1>2. ASSUME NEW p \in Peticiones, Atender(p)
      PROVE  \/ /\ Escribir(p) /\ peticion[p].clave = k
                /\ fila'[k] = Guardada(Entidad(peticion[p].op, peticion[p].leida), peticion[p].base, fila[k])
             \/ Borrar(p) /\ peticion[p].clave = k /\ fila'[k] = "ausente"
  <2>1. Escribir(p) \/ Borrar(p)
    BY <1>2 DEF Atender, Empezar, Comprobar, Leer, LeerPermitido, LeerSesion, Autenticar, Comparar,
         EscribirPermitido, Fallar, SoloLee
  <2>2. QED
    BY <2>1 DEF Escribir, Borrar
<1>3. ASSUME NEW p \in Peticiones, Escuchar(p)
      PROVE  /\ CascadaGuardar(p) /\ cascada[p].actual = k
             /\ fila'[k] = Guardada("inactiva", cascada[p].base, fila[k])
  <2>1. CascadaGuardar(p)
    BY <1>3 DEF Escuchar, CascadaLeer, CascadaComparar, CascadaFallar
  <2>2. QED
    BY <2>1 DEF CascadaGuardar
<1>4. QED
  BY <1>1, <1>2, <1>3 DEF Next

\* A grant leaves the table only when a request removes it.
LEMMA Desaparece ==
  ASSUME IndTipo, [Next]_vars, NEW g \in Concesiones, fila[g] # "ausente", fila'[g] = "ausente"
  PROVE  \E p \in Peticiones : Borrar(p) /\ peticion[p].clave = g
<1>1. g \in Claves
  BY DEF Claves
<1>2. ASSUME NEW p \in Peticiones, Escribir(p), peticion[p].clave = g
      PROVE  Entidad(peticion[p].op, peticion[p].leida) \in {"activa", "inactiva"}
  <2>1. Encaja(peticion[p]) /\ peticion[p].op \in Guardado \cup {"crear"}
    BY <1>2, FormaEscribir DEF Escribir
  <2>2. peticion[p].op \in {"crear", "activar", "desactivar"}
    BY <1>2, <2>1, DeOrden DEF Encaja, Guardado, Edicion
  <2>3. QED
    BY <2>2 DEF Entidad
<1>3. \A e \in {"activa", "inactiva"} : \A b : Guardada(e, b, fila[g]) # "ausente"
  BY DEF Guardada
<1>4. QED
  BY <1>1, <1>2, <1>3, CambiaFila

\* Who makes one appear.
LEMMA Aparece ==
  ASSUME IndRevive, [Next]_vars, NEW g \in Concesiones, fila[g] = "ausente", fila'[g] # "ausente"
  PROVE  \/ \E p \in Peticiones : peticion[p] # Libre /\ peticion[p].op = "crear" /\ peticion[p].clave = g
         \/ Refiere(g) \cap solapados # {}
<1>1. g \in Claves
  BY DEF Claves
<1>2. ASSUME NEW p \in Peticiones, Escribir(p), peticion[p].clave = g, peticion[p].op # "crear"
      PROVE  Refiere(g) \cap solapados # {}
  <2>1. peticion[p] # Libre /\ peticion[p].op \in {"activar", "desactivar"} /\ peticion[p].paso # "leer"
    BY <1>2, FormaEscribir, DeOrden DEF Escribir, EnPaso, Encaja, Guardado, Edicion, IndRevive, IndSolas
  <2>2. QED
    BY <1>2, <2>1 DEF IndRevive, GuardanPresentes
<1>3. ASSUME NEW p \in Peticiones, Escribir(p), peticion[p].clave = g
      PROVE  peticion[p] # Libre
  BY <1>3, FormaEscribir DEF Escribir, IndRevive, IndSolas
<1>4. ASSUME NEW p \in Peticiones, CascadaGuardar(p), cascada[p].actual = g
      PROVE  Refiere(g) \cap solapados # {}
  BY <1>4 DEF CascadaGuardar, Quieta, IndRevive, OyenPresentes, IndSolas, IndTipo, Escuchan, Escucha
<1>5. QED
  BY <1>1, <1>2, <1>3, <1>4, CambiaFila DEF IndRevive, IndSolas

\* What the listener still has to save.
LEMMA Pendientes ==
  ASSUME IndTipo, [Next]_vars, NEW p \in Peticiones, cascada'[p] # Quieta
  PROVE  \/ cascada[p] # Quieta /\ cascada'[p].pendientes \subseteq cascada[p].pendientes
         \/ UNCHANGED fila /\ \A g \in cascada'[p].pendientes : g \in Concesiones /\ fila[g] # "ausente"
<1> USE DEF IndTipo, TypeOK
<1>1. ~Caida
  BY DEF Caida
<1>2. CASE cascada'[p] = cascada[p]
  BY <1>2
<1>3. ASSUME cascada'[p] # cascada[p]
      PROVE  \/ cascada[p] # Quieta /\ cascada'[p].pendientes \subseteq cascada[p].pendientes
             \/ UNCHANGED fila /\ \A g \in cascada'[p].pendientes : g \in Concesiones /\ fila[g] # "ausente"
  <2>1. Atender(p) \/ Escuchar(p)
    BY <1>1, <1>3, SoloUna, SoloUnOyente DEF Next, vars
  <2>2. CASE Atender(p)
    <3>1. Leer(p)
      BY <1>3, <2>2, MismaPeticion DEF Empezar
    <3>2. cascada'[p].pendientes = {} /\ UNCHANGED fila
      BY <1>3, <3>1 DEF Leer, Emitir
    <3>3. QED
      BY <3>2
  <2>3. CASE Escuchar(p)
    <3>1. CASE CascadaLeer(p)
      <4>1. cascada'[p].pendientes = Presentes(ConcesionesDe(cascada[p].clave)) /\ UNCHANGED fila
        BY <3>1 DEF CascadaLeer, Seguir
      <4>2. QED
        BY <4>1 DEF Presentes, ConcesionesDe
    <3>2. CASE CascadaComparar(p)
      BY <3>2 DEF CascadaComparar, Quieta
    <3>3. CASE CascadaGuardar(p)
      BY <3>3 DEF CascadaGuardar, Seguir, Quieta
    <3>4. CASE CascadaFallar(p)
      BY <3>4 DEF CascadaFallar
    <3>5. QED
      BY <2>3, <3>1, <3>2, <3>3, <3>4 DEF Escuchar
  <2>4. QED
    BY <2>1, <2>2, <2>3
<1>4. QED
  BY <1>2, <1>3

\* The removal of a grant and a listener of its user or role.
LEMMA BorrarConOyente ==
  ASSUME IndSolas, NEW q \in Peticiones, Borrar(q), NEW g \in Concesiones, peticion[q].clave = g,
         NEW p \in Peticiones, cascada[p] # Quieta, g \in cascada[p].pendientes
  PROVE  Refiere(g) \cap solapados # {}
<1>1. peticion[q] # Libre /\ peticion[q].op = "eliminar"
  BY FormaEscribir DEF Borrar, IndSolas
<1>2. cascada[p].clave \in Refiere(g)
  BY DEF IndSolas, IndTipo, Escuchan, Escucha, ConcesionesDe
<1>3. p # q
  BY <1>1 DEF IndSolas, Solas, SuOyente
<1>4. cascada[p].clave \in Duenos /\ q \in EnCursoSobre(cascada[p].clave)
  BY <1>1, <1>2, EnCursoPeticion DEF IndSolas
<1>5. p \in EnCursoSobre(cascada[p].clave)
  BY DEF EnCursoSobre
<1>6. QED
  BY <1>2, <1>3, <1>4, <1>5 DEF IndSolas, Solas, Sola

LEMMA OyenPresentesPaso ==
  ASSUME IndRevive, [Next]_vars
  PROVE  OyenPresentes'
<1>1. solapados \subseteq solapados'
  BY SolapadosCrece DEF IndRevive, IndSolas
<1>2. SUFFICES ASSUME NEW p \in Peticiones, cascada'[p] # Quieta, NEW g \in cascada'[p].pendientes,
                      Refiere(g) \cap solapados = {}
               PROVE  fila'[g] # "ausente"
  BY <1>1 DEF OyenPresentes, Refiere
<1>3. CASE cascada[p] # Quieta /\ g \in cascada[p].pendientes
  <2>1. g \in Concesiones /\ fila[g] # "ausente"
    BY <1>2, <1>3, Forma DEF IndRevive, OyenPresentes, IndSolas, IndTipo
  <2>2. QED
    BY <1>2, <1>3, <2>1, Desaparece, BorrarConOyente DEF IndRevive, IndSolas
<1>4. QED
  BY <1>2, <1>3, Pendientes DEF IndRevive, IndSolas

\* A request before and after a step.
LEMMA AntesYDespues ==
  ASSUME IndTipo, [Next]_vars, NEW p \in Peticiones, peticion'[p] # Libre
  PROVE  \/ peticion'[p] = peticion[p]
         \/ /\ Atender(p) /\ peticion[p] # Libre
            /\ peticion'[p].op = peticion[p].op /\ peticion'[p].clave = peticion[p].clave
         \/ \E o \in Ordenes :
              /\ Empezar(p, o[1], o[2])
              /\ peticion'[p] = [paso |-> PrimerPaso(o[1], o[2]), op |-> o[1], clave |-> o[2],
                                 leida |-> "ausente", base |-> "ausente", vistas |-> {}]
<1>1. SUFFICES ASSUME peticion'[p] # peticion[p]
               PROVE  \/ /\ Atender(p) /\ peticion[p] # Libre
                         /\ peticion'[p].op = peticion[p].op /\ peticion'[p].clave = peticion[p].clave
                      \/ \E o \in Ordenes :
                           /\ Empezar(p, o[1], o[2])
                           /\ peticion'[p] = [paso |-> PrimerPaso(o[1], o[2]), op |-> o[1], clave |-> o[2],
                                              leida |-> "ausente", base |-> "ausente", vistas |-> {}]
  OBVIOUS
<1>2. ~Caida /\ ~UNCHANGED vars
  BY <1>1 DEF Caida, vars, IndTipo, TypeOK
<1>3. \A q \in Peticiones : ~Escuchar(q)
  BY <1>1, SoloUnOyente DEF SoloCascada
<1>4. Atender(p)
  BY <1>1, <1>2, <1>3, SoloUna DEF Next
<1>5. CASE \E o \in Ordenes : Empezar(p, o[1], o[2])
  BY <1>5 DEF Empezar, IndTipo, TypeOK
<1>6. QED
  BY <1>4, <1>5, MismaPeticion

LEMMA GuardanPresentesPaso ==
  ASSUME IndRevive, [Next]_vars
  PROVE  GuardanPresentes'
<1>1. solapados \subseteq solapados'
  BY SolapadosCrece DEF IndRevive, IndSolas
<1>2. SUFFICES ASSUME NEW p \in Peticiones, peticion'[p] # Libre,
                      peticion'[p].op \in {"activar", "desactivar"}, peticion'[p].clave \in Concesiones,
                      peticion'[p].paso # "leer", Refiere(peticion'[p].clave) \cap solapados = {}
               PROVE  fila'[peticion'[p].clave] # "ausente"
  BY <1>1 DEF GuardanPresentes, Refiere
<1>3. CASE /\ peticion[p] # Libre /\ peticion[p].paso # "leer"
           /\ peticion'[p].op = peticion[p].op /\ peticion'[p].clave = peticion[p].clave
  <2>1. fila[peticion[p].clave] # "ausente"
    BY <1>2, <1>3 DEF IndRevive, GuardanPresentes
  <2>2. ASSUME NEW q \in Peticiones, Borrar(q), peticion[q].clave = peticion[p].clave PROVE FALSE
    <3>1. peticion[q] # Libre /\ peticion[q].op = "eliminar"
      BY <2>2, FormaEscribir DEF Borrar, IndRevive, IndSolas
    <3>2. QED
      BY <1>2, <1>3, <2>2, <3>1, UnaPorClave DEF IndRevive
  <2>3. QED
    BY <1>2, <1>3, <2>1, <2>2, Desaparece DEF IndRevive, IndSolas
<1>4. CASE /\ Atender(p) /\ peticion[p] # Libre /\ peticion[p].paso = "leer"
           /\ peticion'[p].op = peticion[p].op /\ peticion'[p].clave = peticion[p].clave
  <2>1. Leer(p) \/ Fallar(p)
    BY <1>2, <1>4 DEF Atender, Empezar, Comprobar, LeerPermitido, LeerSesion, Autenticar, Comparar,
         Escribir, Borrar, EscribirPermitido, EnPaso
  <2>2. Leer(p) /\ ~Terminar(p)
    BY <1>2, <2>1 DEF Fallar, Terminar, IndRevive, IndSolas, IndTipo, TypeOK
  <2>3. Admite(peticion[p].op, peticion[p].clave, fila[peticion[p].clave]) /\ fila' = fila
    BY <2>2 DEF Leer
  <2>4. QED
    BY <1>2, <1>4, <2>3 DEF Admite
<1>5. ASSUME NEW o \in Ordenes,
             peticion'[p] = [paso |-> PrimerPaso(o[1], o[2]), op |-> o[1], clave |-> o[2],
                             leida |-> "ausente", base |-> "ausente", vistas |-> {}]
      PROVE  FALSE
  BY <1>2, <1>5 DEF PrimerPaso
<1>6. QED
  BY <1>2, <1>3, <1>4, <1>5, AntesYDespues DEF IndRevive, IndSolas

LEMMA ReviveInicial == Init => IndRevive
BY SolasInicial DEF Init, IndRevive, GuardanPresentes, OyenPresentes

LEMMA RevivePaso ==
  ASSUME IndRevive, [Next]_vars
  PROVE  IndRevive'
BY SolasPaso, GuardanPresentesPaso, OyenPresentesPaso DEF IndRevive

\* A grant that was removed comes back only through a request that grants it:
\* no save of an entity that a request or a listener still holds inserts it
\* anew, unless two of them overlapped on its user or its role.
THEOREM NoRevive == Spec => ConcesionNoRevive
<1>1. Spec => []IndRevive
  BY ReviveInicial, RevivePaso, PTL DEF Spec
<1>2. ASSUME IndRevive, [Next]_vars
      PROVE  [\A g \in Concesiones :
                fila[g] = "ausente" /\ fila'[g] # "ausente" =>
                  \/ \E p \in Peticiones : peticion[p] # Libre /\ peticion[p].op = "crear" /\ peticion[p].clave = g
                  \/ Refiere(g) \cap solapados # {}]_vars
  BY <1>2, Aparece
<1>3. QED
  BY <1>1, <1>2, PTL DEF Spec, ConcesionNoRevive

-----------------------------------------------------------------------------
(***************************************************************************)
(* CascadaCompleta.                                                        *)
(***************************************************************************)

\* A request that makes a grant active has been past the check of its owner c.
Pasada(r, c) ==
  /\ r # Libre /\ r.clave \in Concesiones /\ r.op \in {"crear", "activar"}
  /\ c \in Refiere(r.clave)
  /\ \/ r.paso \in {"comparar", "escribir"}
     \/ r.paso = "leer" /\ r.op = "crear"
     \/ r.paso = "rol" /\ c \in LosUsuarios

\* The owner is still active when the grant is written.
DuenoActivo ==
  \A p \in Peticiones : \A c \in Duenos \ solapados : Pasada(peticion[p], c) => fila[c] = "activa"

\* What a request on a user, role or permission read is what the table holds.
LeidaFresca ==
  \A p \in Peticiones :
    LET r == peticion[p] IN
      /\ r # Libre /\ r.op \in Guardado /\ r.clave \in Duenos \ solapados
      => /\ r.paso \in {"comparar", "escribir"} => r.leida = fila[r.clave]
         /\ r.paso = "escribir" => r.base = fila[r.clave]

\* A row changes in the hands of the only request that is busy with it.
LEMMA DuenoCambia ==
  ASSUME IndSolas, [Next]_vars, NEW c \in Duenos, c \notin solapados, fila'[c] # fila[c],
         NEW p \in EnCursoSobre(c)
  PROVE  peticion[p] # Libre /\ peticion[p].clave = c /\ (Escribir(p) \/ Borrar(p))
<1>1. c \in Claves /\ c \notin Concesiones
  BY ClavesDistintas DEF Claves
<1>2. ASSUME NEW q \in Peticiones, Escribir(q) \/ Borrar(q), peticion[q].clave = c
      PROVE  q = p /\ peticion[q] # Libre
  <2>1. peticion[q] # Libre
    BY <1>2, FormaEscribir DEF Escribir, Borrar, IndSolas
  <2>2. q \in EnCursoSobre(c)
    BY <1>2, <2>1, EnCursoPeticion DEF IndSolas
  <2>3. QED
    BY <2>1, <2>2 DEF IndSolas, Solas, Sola
<1>3. ASSUME NEW q \in Peticiones, CascadaGuardar(q), cascada[q].actual = c PROVE FALSE
  BY <1>1, <1>3, Forma DEF CascadaGuardar, IndSolas, IndTipo
<1>4. QED
  BY <1>1, <1>2, <1>3, CambiaFila DEF IndSolas

\* A grant becomes active only when a request writes it so.
LEMMA SeActiva ==
  ASSUME IndTipo, [Next]_vars, NEW g \in Concesiones, fila[g] # "activa", fila'[g] = "activa"
  PROVE  \E p \in Peticiones :
           /\ Escribir(p) /\ peticion[p].clave = g /\ peticion[p] # Libre
           /\ peticion[p].op \in {"crear", "activar"} /\ peticion[p].paso = "escribir"
<1>1. g \in Claves
  BY DEF Claves
<1>2. \A b : Guardada("inactiva", b, fila[g]) # "activa"
  BY DEF Guardada
<1>3. ASSUME NEW p \in Peticiones, Escribir(p), peticion[p].clave = g,
             fila'[g] = Guardada(Entidad(peticion[p].op, peticion[p].leida), peticion[p].base, fila[g])
      PROVE  /\ peticion[p] # Libre /\ peticion[p].paso = "escribir"
             /\ peticion[p].op \in {"crear", "activar"}
  <2>1. peticion[p] # Libre /\ Encaja(peticion[p]) /\ peticion[p].paso = "escribir"
        /\ peticion[p].op \in Guardado \cup {"crear"}
    BY <1>3, FormaEscribir DEF Escribir, EnPaso
  <2>2. peticion[p].op \in {"crear", "activar", "desactivar"}
    BY <1>3, <2>1, DeOrden DEF Encaja, Guardado, Edicion
  <2>3. peticion[p].op # "desactivar"
    BY <1>2, <1>3 DEF Entidad
  <2>4. QED
    BY <2>1, <2>2, <2>3
<1>4. QED
  BY <1>1, <1>2, <1>3, CambiaFila

LEMMA LlegaAPasada ==
  ASSUME IndTipo, NEW p \in Peticiones, Atender(p), NEW c \in Duenos,
         peticion[p] # Libre, peticion'[p].op = peticion[p].op, peticion'[p].clave = peticion[p].clave,
         Pasada(peticion'[p], c), ~Pasada(peticion[p], c)
  PROVE  fila[c] = "activa" /\ fila' = fila
<1> DEFINE r == peticion[p]
           k == r.clave
<1> USE DEF IndTipo, TypeOK
<1>1. /\ r \in Solicitud /\ Encaja(r) /\ k \in Concesiones /\ r.op \in {"crear", "activar"}
      /\ peticion'[p] # Libre /\ c \in Refiere(k)
  BY Forma DEF Encajan, Pasada
<1>2. r.paso \notin {"comparar", "escribir"} /\ (r.op = "crear" => r.paso # "leer")
      /\ (c \in LosUsuarios => r.paso # "rol")
  BY <1>1 DEF Pasada
<1>3. CASE Comprobar(p)
  <2>1. peticion'[p].paso = Siguiente(r.op, k, r.paso)
    BY <1>1, <1>3 DEF Comprobar, Avanzar, Terminar, Solicitud
  <2>2. fila[Requerida(k, r.paso)] = "activa" /\ fila' = fila
    BY <1>1, <1>3 DEF Comprobar, Terminar, SoloLee
  <2>3. Refiere(k) = {Usuario(k[2]), Rol(k[3])} /\ k[2] \in Cuentas /\ k[3] \in Roles
    BY <1>1, DeConcesion
  <2>4. r.paso \in {"usuario", "rol"}
    BY <1>1, <1>3 DEF Comprobar, Encaja
  <2>5. CASE r.paso = "usuario"
    <3>1. peticion'[p].paso = "rol"
      BY <2>1, <2>5 DEF Siguiente
    <3>2. c \in LosUsuarios
      BY <3>1 DEF Pasada
    <3>3. Rol(k[3]) \in LosRoles
      BY <2>3 DEF LosRoles
    <3>4. c = Usuario(k[2])
      BY <1>1, <2>3, <3>2, <3>3, ClavesDistintas
    <3>5. Requerida(k, r.paso) = Usuario(k[2])
      BY <2>5 DEF Requerida
    <3>6. QED
      BY <2>2, <3>4, <3>5
  <2>6. CASE r.paso = "rol"
    <3>1. Usuario(k[2]) \in LosUsuarios
      BY <2>3 DEF LosUsuarios
    <3>2. c = Rol(k[3])
      BY <1>1, <1>2, <2>3, <2>6, <3>1
    <3>3. Requerida(k, r.paso) = Rol(k[3])
      BY <1>1, <2>6 DEF Requerida
    <3>4. QED
      BY <2>2, <3>2, <3>3
  <2>7. QED
    BY <2>4, <2>5, <2>6
<1>4. ~Leer(p)
  <2>1. SUFFICES ASSUME Leer(p) PROVE FALSE
    OBVIOUS
  <2>2. r.op = "activar"
    BY <1>1, <1>2, <2>1 DEF Leer, EnPaso
  <2>3. peticion'[p].paso = "usuario"
    BY <1>1, <2>1, <2>2 DEF Leer, Terminar, Siguiente, Solicitud
  <2>4. QED
    BY <2>3 DEF Pasada
<1>5. ~Fallar(p)
  BY <1>1 DEF Fallar, Terminar
<1>6. ~\E o \in Ordenes : Empezar(p, o[1], o[2])
  BY DEF Empezar
<1>7. Comprobar(p)
  BY <1>1, <1>2, <1>4, <1>5, <1>6 DEF Atender, LeerPermitido, LeerSesion, Autenticar, Comparar, Escribir, Borrar,
     EscribirPermitido, EnPaso, Encaja
<1>8. QED
  BY <1>3, <1>7

LEMMA DuenoActivoPaso ==
  ASSUME IndSolas, DuenoActivo, [Next]_vars
  PROVE  DuenoActivo'
<1>1. solapados \subseteq solapados'
  BY SolapadosCrece DEF IndSolas
<1>2. \A r, c : Pasada(r, c)' <=> Pasada(r', c)
  BY DEF Pasada, Refiere
<1>3. SUFFICES ASSUME NEW p \in Peticiones, NEW c \in Duenos, c \notin solapados', Pasada(peticion'[p], c)
               PROVE  fila'[c] = "activa"
  BY DEF DuenoActivo, Pasada, Refiere
<1>4. peticion'[p] # Libre /\ peticion'[p].clave \in Concesiones
  BY <1>3 DEF Pasada
<1>5. CASE Pasada(peticion[p], c)
  <2>1. fila[c] = "activa"
    BY <1>1, <1>3, <1>5 DEF DuenoActivo
  <2>2. peticion[p] # Libre /\ peticion[p].clave \in Concesiones /\ p \in EnCursoSobre(c)
    BY <1>5, EnCursoPeticion DEF Pasada, IndSolas
  <2>3. peticion[p].clave # c
    BY <2>2, ClavesDistintas
  <2>4. QED
    BY <1>1, <1>3, <2>1, <2>2, <2>3, DuenoCambia
<1>6. CASE ~Pasada(peticion[p], c)
  <2>1. ASSUME NEW o \in Ordenes,
               peticion'[p] = [paso |-> PrimerPaso(o[1], o[2]), op |-> o[1], clave |-> o[2],
                               leida |-> "ausente", base |-> "ausente", vistas |-> {}]
        PROVE  FALSE
    <3>1. o[1] \in {"crear", "activar"} /\ o[2] \in Concesiones /\ peticion'[p].paso = PrimerPaso(o[1], o[2])
      BY <1>3, <2>1 DEF Pasada
    <3>2. o[1] = "crear" => PrimerPaso(o[1], o[2]) = "usuario"
      BY <3>1 DEF PrimerPaso
    <3>3. o[1] = "activar" => PrimerPaso(o[1], o[2]) = "leer"
      BY <3>1 DEF PrimerPaso
    <3>4. peticion'[p].op = o[1]
      BY <2>1
    <3>5. QED
      BY <1>3, <3>1, <3>2, <3>3, <3>4 DEF Pasada
  <2>2. peticion'[p] # peticion[p]
    BY <1>3, <1>6
  <2>3. /\ Atender(p) /\ peticion[p] # Libre
        /\ peticion'[p].op = peticion[p].op /\ peticion'[p].clave = peticion[p].clave
    BY <1>4, <2>1, <2>2, AntesYDespues DEF IndSolas
  <2>4. QED
    BY <1>3, <1>6, <2>3, LlegaAPasada DEF IndSolas
<1>7. QED
  BY <1>5, <1>6

\* How a request on an owner goes on.
LEMMA AvanzaDueno ==
  ASSUME IndTipo, NEW p \in Peticiones, Atender(p), peticion[p] # Libre, peticion'[p] # Libre,
         peticion[p].op \in Guardado, peticion[p].clave \in Duenos
  PROVE  /\ UNCHANGED <<fila, permitido>>
         /\ \/ /\ Leer(p)
               /\ peticion'[p].paso = "comparar" /\ peticion'[p].leida = fila[peticion[p].clave]
            \/ /\ Comparar(p) /\ peticion[p].paso = "comparar"
               /\ peticion'[p].paso = "escribir" /\ peticion'[p].leida = peticion[p].leida
               /\ peticion'[p].base = fila[peticion[p].clave]
<1> DEFINE r == peticion[p]
<1> USE DEF IndTipo, TypeOK
<1>1. r \in Solicitud /\ Encaja(r) /\ r.clave \notin Concesiones
  BY Forma, ClavesDistintas DEF Encajan
<1>2. r.op \notin {"crear", "eliminar", "asignar", "quitar", "entrar", "refrescar"}
  BY DEF Guardado, Edicion
<1>3. Leer(p) \/ Comparar(p)
  BY <1>1, <1>2 DEF Atender, Empezar, Comprobar, LeerPermitido, LeerSesion, Autenticar, Escribir, Borrar,
     EscribirPermitido, Fallar, EnPaso, Encaja, Terminar
<1>4. CASE Leer(p)
  <2>1. peticion' = [peticion EXCEPT
          ![p].leida = fila[r.clave],
          ![p].vistas = IF r.clave \in LosRoles THEN Presentes(ConcesionesDe(r.clave)) ELSE {},
          ![p].paso = Siguiente(r.op, r.clave, "leer")]
    BY <1>4 DEF Leer, Terminar
  <2>2. Siguiente(r.op, r.clave, "leer") = "comparar"
    BY <1>1, <1>2 DEF Siguiente
  <2>3. QED
    BY <1>1, <1>4, <2>1, <2>2 DEF Leer, Solicitud
<1>5. CASE Comparar(p)
  <2>1. peticion' = [peticion EXCEPT ![p].base = fila[r.clave], ![p].paso = "escribir"]
    BY <1>2, <1>5 DEF Comparar, Terminar
  <2>2. QED
    BY <1>1, <1>5, <2>1 DEF Comparar, EnPaso, SoloLee, Solicitud
<1>6. QED
  BY <1>3, <1>4, <1>5

LEMMA LeidaFrescaPaso ==
  ASSUME IndSolas, LeidaFresca, [Next]_vars
  PROVE  LeidaFresca'
<1>1. solapados \subseteq solapados'
  BY SolapadosCrece DEF IndSolas
<1>2. SUFFICES ASSUME NEW p \in Peticiones, peticion'[p] # Libre, peticion'[p].op \in Guardado,
                      peticion'[p].clave \in Duenos, peticion'[p].clave \notin solapados
               PROVE  /\ peticion'[p].paso \in {"comparar", "escribir"} =>
                           peticion'[p].leida = fila'[peticion'[p].clave]
                      /\ peticion'[p].paso = "escribir" => peticion'[p].base = fila'[peticion'[p].clave]
  BY <1>1 DEF LeidaFresca
<1>3. CASE peticion'[p] = peticion[p]
  <2>1. p \in EnCursoSobre(peticion[p].clave)
    BY <1>2, <1>3, EnCursoPeticion DEF IndSolas
  <2>2. ~Escribir(p) /\ ~Borrar(p)
    BY <1>2, <1>3 DEF Escribir, Borrar, Terminar, IndSolas, IndTipo, TypeOK
  <2>3. fila'[peticion[p].clave] = fila[peticion[p].clave]
    BY <1>2, <1>3, <2>1, <2>2, DuenoCambia
  <2>4. QED
    BY <1>2, <1>3, <2>3 DEF LeidaFresca
<1>4. CASE /\ Atender(p) /\ peticion[p] # Libre
           /\ peticion'[p].op = peticion[p].op /\ peticion'[p].clave = peticion[p].clave
  BY <1>2, <1>4, AvanzaDueno DEF LeidaFresca, IndSolas
<1>5. ASSUME NEW o \in Ordenes,
             peticion'[p] = [paso |-> PrimerPaso(o[1], o[2]), op |-> o[1], clave |-> o[2],
                             leida |-> "ausente", base |-> "ausente", vistas |-> {}]
      PROVE  peticion'[p].paso \notin {"comparar", "escribir"}
  BY <1>5 DEF PrimerPaso
<1>6. QED
  BY <1>2, <1>3, <1>4, <1>5, AntesYDespues DEF IndSolas

Cascadas == (LosUsuarios \cup LosRoles) \ (solapados \cup heridas)

\* No listener is at work on c.
Callada(c) == \A p \in Peticiones : cascada[p] = Quieta \/ cascada[p].clave # c

\* c is out of use, or about to be written so.
DeBaja(c) ==
  \/ fila[c] # "activa"
  \/ \E p \in Peticiones :
       /\ peticion[p] # Libre /\ peticion[p].op = "desactivar" /\ peticion[p].clave = c
       /\ peticion[p].paso \in {"comparar", "escribir"}

\* The listener has done all its work when it is gone; an edit starts none.
CascadaHecha == \A c \in Cascadas \ apagadas : DeBaja(c) /\ Callada(c) => Activas(ConcesionesDe(c)) = {}

\* While it is at work, what is active is what it still has to save.
PendientesCubren ==
  \A p \in Peticiones :
    LET o == cascada[p] IN
      o # Quieta /\ o.clave \in Cascadas =>
        /\ o.paso \in {"guardar", "comparada"} =>
             \A g \in ConcesionesDe(o.clave) : fila[g] = "activa" => g \in o.pendientes
        /\ o.paso = "comparada" /\ o.base = "inactiva" => fila[o.actual] # "activa"

IndCascada == IndSolas /\ DuenoActivo /\ LeidaFresca /\ CascadaHecha /\ PendientesCubren

LEMMA CascadasMengua ==
  ASSUME IndTipo, [Next]_vars
  PROVE  Cascadas' \subseteq Cascadas /\ \A c \in Cascadas : c \in Duenos /\ c \notin solapados /\ c \notin heridas
BY SolapadosCrece DEF Cascadas, Duenos, LosUsuarios, LosRoles

\* Nobody makes a grant of c active while c is going out of use.
LEMMA NadieActiva ==
  ASSUME IndCascada, [Next]_vars, NEW c \in Cascadas, NEW g \in ConcesionesDe(c),
         fila[g] # "activa", fila'[g] = "activa"
  PROVE  /\ fila[c] = "activa" /\ fila'[c] = "activa" /\ UNCHANGED cascada
         /\ Callada(c)
         /\ \A q \in Peticiones : peticion'[q] # Libre => peticion'[q] = peticion[q] /\ peticion[q].clave # c
<1>1. g \in Concesiones /\ c \in Refiere(g) /\ c \in Duenos /\ c \notin solapados
  BY DEF ConcesionesDe, Cascadas, Duenos
<1>2. PICK p \in Peticiones :
        /\ Escribir(p) /\ peticion[p].clave = g /\ peticion[p] # Libre
        /\ peticion[p].op \in {"crear", "activar"} /\ peticion[p].paso = "escribir"
  BY <1>1, SeActiva DEF IndCascada, IndSolas
<1>3. fila[c] = "activa"
  BY <1>1, <1>2 DEF Pasada, IndCascada, DuenoActivo
<1>4. g # c
  BY <1>1, ClavesDistintas
<1>5. fila'[c] = "activa" /\ UNCHANGED cascada
  BY <1>2, <1>3, <1>4 DEF Escribir, IndCascada, IndSolas, IndTipo, TypeOK
<1>6. p \in EnCursoSobre(c)
  BY <1>1, <1>2, EnCursoPeticion DEF IndCascada, IndSolas
<1>7. Callada(c)
  <2>1. SUFFICES ASSUME NEW q \in Peticiones, cascada[q] # Quieta, cascada[q].clave = c PROVE FALSE
    BY DEF Callada
  <2>2. q = p
    BY <1>1, <1>6, <2>1 DEF EnCursoSobre, IndCascada, IndSolas, Solas, Sola
  <2>3. QED
    BY <1>2, <2>1, <2>2 DEF IndCascada, IndSolas, Solas, SuOyente
<1>8. ASSUME NEW q \in Peticiones, peticion'[q] # Libre
      PROVE  peticion'[q] = peticion[q] /\ peticion[q].clave # c
  <2>1. q # p /\ peticion'[q] = peticion[q]
    BY <1>2, <1>8 DEF Escribir, Terminar, IndCascada, IndSolas, IndTipo, TypeOK
  <2>2. peticion[q].clave = c => q \in EnCursoSobre(c)
    BY <1>1, <1>8, <2>1, EnCursoPeticion DEF IndCascada, IndSolas
  <2>3. QED
    BY <1>1, <1>6, <2>1, <2>2 DEF IndCascada, IndSolas, Solas, Sola
<1>9. QED
  BY <1>3, <1>5, <1>7, <1>8

LEMMA TrasSeguir ==
  ASSUME IndTipo, NEW p \in Peticiones, NEW c, NEW resto, Seguir(p, c, resto)
  PROVE  /\ resto = {} => cascada'[p] = Quieta
         /\ resto # {} => /\ cascada'[p] # Quieta /\ cascada'[p].paso = "guardar"
                          /\ cascada'[p].clave = c /\ cascada'[p].pendientes = resto
<1>1. cascada'[p] = IF resto = {} THEN Quieta ELSE [paso |-> "guardar", clave |-> c, pendientes |-> resto]
  BY DEF Seguir, IndTipo, TypeOK
<1>2. QED
  BY <1>1 DEF Quieta

\* The end of a listener.
LEMMA OyenteAcaba ==
  ASSUME IndCascada, [Next]_vars, NEW c \in Cascadas', ~Callada(c), Callada(c)'
  PROVE  Activas(ConcesionesDe(c))' = {}
<1> USE DEF IndCascada, IndSolas
<1>1. c \in Cascadas /\ c \notin heridas' /\ c \in Duenos
  BY CascadasMengua DEF Cascadas
<1>2. PICK q \in Peticiones : cascada[q] # Quieta /\ cascada[q].clave = c
  BY DEF Callada
<1>3. cascada'[q] = Quieta \/ cascada'[q].clave # c
  BY DEF Callada
<1>4. ~Caida /\ ~UNCHANGED vars
  BY <1>1, <1>2, <1>3 DEF Caida, vars
<1>5. ~Atender(q)
  <2>1. SUFFICES ASSUME Atender(q) PROVE FALSE
    OBVIOUS
  <2>2. Leer(q)
    BY <1>2, <1>3, <2>1, MismaPeticion DEF Empezar
  <2>3. peticion[q] # Libre /\ peticion[q].paso = "leer"
    BY <2>2 DEF Leer, EnPaso, Libre
  <2>4. QED
    BY <1>2, <2>3 DEF Solas, SuOyente
<1>6. Escuchar(q)
  BY <1>2, <1>3, <1>4, <1>5, SoloUna, SoloUnOyente DEF Next
<1>7. ~CascadaComparar(q) /\ ~CascadaFallar(q)
  BY <1>1, <1>2, <1>3 DEF CascadaComparar, CascadaFallar, Quieta, IndTipo, TypeOK
<1>8. CASE CascadaLeer(q)
  <2>1. Presentes(ConcesionesDe(c)) = {} /\ fila' = fila
    BY <1>2, <1>3, <1>8, TrasSeguir DEF CascadaLeer
  <2>2. QED
    BY <2>1 DEF Presentes, Activas, ConcesionesDe, Refiere
<1>9. CASE CascadaGuardar(q)
  <2> DEFINE o == cascada[q]
  <2>1. o.pendientes \ {o.actual} = {} /\ o.paso = "comparada"
    BY <1>2, <1>3, <1>9, TrasSeguir DEF CascadaGuardar
  <2>2. Activas(ConcesionesDe(c)) \subseteq {o.actual}
    BY <1>1, <1>2, <2>1 DEF PendientesCubren, Activas
  <2>3. o.actual \in Concesiones /\ (o.base = "inactiva" => fila[o.actual] # "activa")
    BY <1>1, <1>2, <2>1, Forma DEF PendientesCubren, IndTipo
  <2>4. fila' = [fila EXCEPT ![o.actual] = Guardada("inactiva", o.base, fila[o.actual])]
    BY <1>9 DEF CascadaGuardar
  <2>5. Guardada("inactiva", o.base, fila[o.actual]) # "activa"
    BY <2>3 DEF Guardada
  <2>6. \A g \in ConcesionesDe(c) : fila'[g] # "activa"
    BY <2>2, <2>4, <2>5 DEF Activas, ConcesionesDe, Claves, IndTipo, TypeOK
  <2>7. QED
    BY <2>6 DEF Activas, ConcesionesDe, Refiere
<1>10. QED
  BY <1>6, <1>7, <1>8, <1>9 DEF Escuchar

\* The row of c goes out of use, or is about to, with no listener on it.
LEMMA SeDaDeBaja ==
  ASSUME IndCascada, [Next]_vars, NEW c \in Cascadas', c \notin apagadas', Callada(c)', DeBaja(c)', ~DeBaja(c)
  PROVE  Activas(ConcesionesDe(c)) = {}
<1> USE DEF IndCascada, IndSolas
<1>1. c \in Cascadas /\ c \in Duenos /\ c \notin solapados /\ c \notin Concesiones
  BY CascadasMengua, ClavesDistintas
<1>2. fila[c] = "activa"
  BY DEF DeBaja
<1>3. ASSUME NEW p \in Peticiones, peticion'[p] # Libre, peticion'[p].op = "desactivar",
             peticion'[p].clave = c, peticion'[p].paso \in {"comparar", "escribir"}
      PROVE  FALSE
  <2>1. peticion'[p] # peticion[p]
    BY <1>3 DEF DeBaja
  <2>2. ASSUME NEW o \in Ordenes,
               peticion'[p] = [paso |-> PrimerPaso(o[1], o[2]), op |-> o[1], clave |-> o[2],
                               leida |-> "ausente", base |-> "ausente", vistas |-> {}]
        PROVE  FALSE
    BY <1>3, <2>2 DEF PrimerPaso
  <2>3. /\ Atender(p) /\ peticion[p] # Libre
        /\ peticion[p].op = "desactivar" /\ peticion[p].clave = c
    BY <1>3, <2>1, <2>2, AntesYDespues
  <2>4. Leer(p)
    BY <1>1, <1>3, <2>3, AvanzaDueno DEF DeBaja, Guardado, Edicion
  <2>5. c \in LosUsuarios \cup LosRoles
    BY <1>1 DEF Cascadas
  <2>6. Emitir(p, "desactivar", c)
    BY <1>3, <2>3, <2>4 DEF Leer, Terminar, IndTipo, TypeOK
  <2>7. cascada'[p] # Quieta /\ cascada'[p].clave = c
    BY <2>5, <2>6 DEF Emitir, IndTipo, TypeOK, Quieta
  <2>8. QED
    BY <2>7 DEF Callada
<1>4. fila'[c] # "activa"
  BY <1>3 DEF DeBaja
<1>5. CASE \E p \in Peticiones : Borrar(p) /\ peticion[p].clave = c
  BY <1>5 DEF Borrar, Referida, Presentes, Activas
<1>6. ASSUME NEW p \in Peticiones, Escribir(p), peticion[p].clave = c,
             fila'[c] = Guardada(Entidad(peticion[p].op, peticion[p].leida), peticion[p].base, fila[c])
      PROVE  FALSE
  <2>1. peticion[p] # Libre /\ peticion[p].op \in Guardado \cup {"crear"} /\ peticion[p].paso = "escribir"
    BY <1>6, FormaEscribir DEF Escribir, EnPaso
  <2>2. CASE peticion[p].op \in {"crear", "activar", "encender"}
    BY <1>2, <1>4, <1>6, <2>2 DEF Guardada, Entidad
  <2>3. CASE peticion[p].op = "desactivar"
    BY <1>6, <2>1, <2>3 DEF DeBaja
  <2>4. CASE peticion[p].op = "editar"
    <3>1. peticion[p].leida = fila[c] /\ peticion[p].base = fila[c]
      BY <1>1, <1>6, <2>1, <2>4 DEF LeidaFresca, Guardado, Edicion
    <3>2. QED
      BY <1>2, <1>4, <1>6, <2>4, <3>1 DEF Guardada, Entidad
  <2>5. CASE peticion[p].op = "apagar"
    <3>1. fila'[c] = "inactiva"
      BY <1>2, <1>4, <1>6, <2>5 DEF Guardada, Entidad
    <3>2. c \in LosUsuarios \cup LosRoles
      BY <1>1 DEF Cascadas
    <3>3. QED
      BY <1>2, <1>6, <2>5, <3>1, <3>2 DEF Escribir
  <2>6. QED
    BY <2>1, <2>2, <2>3, <2>4, <2>5 DEF Guardado, Edicion
<1>7. ASSUME NEW p \in Peticiones, CascadaGuardar(p), cascada[p].actual = c PROVE FALSE
  BY <1>1, <1>7, Forma DEF CascadaGuardar, IndTipo
<1>8. c \in Claves /\ fila'[c] # fila[c]
  BY <1>1, <1>2, <1>4 DEF Claves
<1>9. QED
  BY <1>5, <1>6, <1>7, <1>8, CambiaFila

\* A deactivation that makes up for an edit has its listener at work.
LEMMA SeRemedia ==
  ASSUME IndTipo, [Next]_vars, NEW c \in Duenos, c \in apagadas, c \notin apagadas'
  PROVE  \E p \in Peticiones :
           /\ Leer(p) /\ peticion[p] # Libre /\ peticion[p].clave = c
           /\ peticion[p].op = "desactivar" /\ Emitir(p, "desactivar", c)
<1>1. ~Caida /\ ~UNCHANGED vars
  BY DEF Caida, vars
<1>2. \A p \in Peticiones : ~Escuchar(p)
  BY SoloUnOyente DEF SoloCascada
<1>3. PICK p \in Peticiones : Atender(p)
  BY <1>1, <1>2 DEF Next
<1>4. Leer(p)
  BY <1>3 DEF Atender, Empezar, Comprobar, LeerPermitido, LeerSesion, Autenticar, Comparar,
       Escribir, Borrar, EscribirPermitido, Fallar, SoloLee
<1>5. /\ peticion[p].clave = c /\ peticion[p].op = "desactivar"
      /\ Emitir(p, peticion[p].op, peticion[p].clave)
  BY <1>4 DEF Leer
<1>6. peticion[p] # Libre
  BY <1>4 DEF Leer, EnPaso, Libre
<1>7. QED
  BY <1>4, <1>5, <1>6

LEMMA CascadaHechaPaso ==
  ASSUME IndCascada, [Next]_vars
  PROVE  CascadaHecha'
<1> SUFFICES ASSUME NEW c \in Cascadas', c \notin apagadas', DeBaja(c)', Callada(c)'
             PROVE  Activas(ConcesionesDe(c))' = {}
  BY DEF CascadaHecha
<1> USE DEF IndCascada, IndSolas
<1>1. c \in Cascadas
  BY CascadasMengua
<1>2. CASE ~Callada(c)
  BY <1>2, OyenteAcaba
<1>3. CASE Callada(c)
  <2>0. c \notin apagadas
    <3>1. SUFFICES ASSUME c \in apagadas PROVE FALSE
      OBVIOUS
    <3>2. PICK p \in Peticiones : Emitir(p, "desactivar", c)
      BY <1>1, <3>1, SeRemedia, CascadasMengua
    <3>3. cascada'[p] # Quieta /\ cascada'[p].clave = c
      BY <1>1, <3>2 DEF Cascadas, Emitir, IndTipo, TypeOK, Quieta
    <3>4. QED
      BY <3>3 DEF Callada
  <2>1. Activas(ConcesionesDe(c)) = {}
    BY <1>1, <1>3, <2>0, SeDaDeBaja DEF CascadaHecha
  <2>2. ASSUME NEW g \in ConcesionesDe(c), fila'[g] = "activa" PROVE FALSE
    <3>1. fila[g] # "activa"
      BY <2>1 DEF Activas
    <3>2. /\ fila[c] = "activa" /\ fila'[c] = "activa"
          /\ \A q \in Peticiones : peticion'[q] # Libre => peticion'[q] = peticion[q] /\ peticion[q].clave # c
      BY <1>1, <2>2, <3>1, NadieActiva
    <3>3. QED
      BY <3>2 DEF DeBaja
  <2>3. QED
    BY <2>2 DEF Activas, ConcesionesDe, Refiere
<1>4. QED
  BY <1>2, <1>3

LEMMA PendientesCubrenPaso ==
  ASSUME IndCascada, [Next]_vars
  PROVE  PendientesCubren'
<1> USE DEF IndCascada, IndSolas
<1> SUFFICES ASSUME NEW p \in Peticiones, cascada'[p] # Quieta,
                    NEW c \in Cascadas', cascada'[p].clave = c
             PROVE  /\ cascada'[p].paso \in {"guardar", "comparada"} =>
                         \A g \in ConcesionesDe(c) : fila'[g] = "activa" => g \in cascada'[p].pendientes
                    /\ cascada'[p].paso = "comparada" /\ cascada'[p].base = "inactiva" =>
                         fila'[cascada'[p].actual] # "activa"
  BY DEF PendientesCubren, ConcesionesDe, Refiere
<1> DEFINE o == cascada[p]
<1>1. c \in Cascadas /\ c \in Duenos
  BY CascadasMengua
<1>2. ASSUME NEW g \in ConcesionesDe(c), fila'[g] = "activa" PROVE fila[g] = "activa"
  <2>1. SUFFICES ASSUME fila[g] # "activa" PROVE FALSE
    OBVIOUS
  <2>2. UNCHANGED cascada /\ Callada(c)
    BY <1>1, <1>2, <2>1, NadieActiva
  <2>3. QED
    BY <2>2 DEF Callada
<1>3. CASE cascada'[p] = o
  <2>1. o.paso = "comparada" => o.actual \in ConcesionesDe(c)
    BY <1>3 DEF IndTipo, Escuchan, Escucha
  <2>2. QED
    BY <1>1, <1>2, <1>3, <2>1 DEF PendientesCubren
<1>4. CASE Atender(p) /\ cascada'[p] # o
  <2>1. Leer(p)
    BY <1>4, MismaPeticion DEF Empezar
  <2>2. cascada'[p].paso = "leer"
    BY <1>4, <2>1 DEF Leer, Emitir, IndTipo, TypeOK
  <2>3. QED
    BY <2>2
<1>5. CASE CascadaLeer(p)
  <2>1. /\ cascada'[p].pendientes = Presentes(ConcesionesDe(c))
        /\ cascada'[p].paso = "guardar"
    BY <1>5, TrasSeguir DEF CascadaLeer
  <2>2. QED
    BY <1>2, <2>1 DEF Presentes
<1>6. CASE CascadaComparar(p)
  <2>1. PICK g \in o.pendientes :
          cascada'[p] = [paso |-> "comparada", clave |-> o.clave, pendientes |-> o.pendientes,
                         actual |-> g, base |-> fila[g]]
    BY <1>6 DEF CascadaComparar, IndTipo, TypeOK
  <2>2. o # Quieta /\ o.paso = "guardar" /\ o.clave = c /\ fila' = fila
    BY <1>6, <2>1 DEF CascadaComparar, Quieta
  <2>3. \A h \in ConcesionesDe(c) : fila[h] = "activa" => h \in o.pendientes
    BY <1>1, <2>2 DEF PendientesCubren
  <2>4. QED
    BY <2>1, <2>2, <2>3
<1>7. CASE CascadaGuardar(p)
  <2>1. o # Quieta /\ o.paso = "comparada"
    BY <1>7 DEF CascadaGuardar, Quieta
  <2>2. /\ cascada'[p].pendientes = o.pendientes \ {o.actual}
        /\ cascada'[p].paso = "guardar" /\ c = o.clave
    BY <1>7, TrasSeguir DEF CascadaGuardar
  <2>3. /\ \A h \in ConcesionesDe(c) : fila[h] = "activa" => h \in o.pendientes
        /\ o.base = "inactiva" => fila[o.actual] # "activa"
    BY <1>1, <2>1, <2>2 DEF PendientesCubren
  <2>4. o.actual \in Claves
    BY <2>1, Forma DEF Claves, IndTipo
  <2>5. fila'[o.actual] = Guardada("inactiva", o.base, fila[o.actual])
    BY <1>7, <2>4 DEF CascadaGuardar, IndTipo, TypeOK
  <2>6. fila'[o.actual] # "activa"
    BY <2>3, <2>5 DEF Guardada
  <2>7. QED
    BY <1>2, <2>2, <2>3, <2>6
<1>8. CASE cascada'[p] # o
  <2>1. ~Caida /\ ~UNCHANGED vars
    BY <1>8 DEF Caida, vars
  <2>2. Atender(p) \/ Escuchar(p)
    BY <1>8, <2>1, SoloUna, SoloUnOyente DEF Next
  <2>3. ~CascadaFallar(p)
    BY DEF CascadaFallar, IndTipo, TypeOK
  <2>4. QED
    BY <1>4, <1>5, <1>6, <1>7, <1>8, <2>2, <2>3 DEF Escuchar
<1>9. QED
  BY <1>3, <1>8

LEMMA CascadaInicial == Init => IndCascada
<1> SUFFICES ASSUME Init PROVE IndCascada
  OBVIOUS
<1>1. CascadaHecha
  <2>1. SUFFICES ASSUME NEW c \in Cascadas \ apagadas, fila[c] # "activa"
                PROVE  Activas(ConcesionesDe(c)) = {}
    BY DEF Init, CascadaHecha, DeBaja
  <2>2. c \in LosUsuarios \cup LosRoles /\ c \in Claves
    BY DEF Cascadas, Claves, Duenos
  <2>3. CASE fila[c] = "ausente"
    BY <2>3 DEF Init, Activas, ConcesionesDe
  <2>4. CASE fila[c] = "inactiva"
    BY <2>2, <2>4 DEF Init
  <2>5. fila[c] \in Estado
    BY <2>2 DEF Init
  <2>6. QED
    BY <2>1, <2>3, <2>4, <2>5 DEF Estado
<1>2. DuenoActivo /\ LeidaFresca /\ PendientesCubren
  BY DEF Init, DuenoActivo, LeidaFresca, PendientesCubren, Pasada
<1>3. QED
  BY <1>1, <1>2, SolasInicial DEF IndCascada

LEMMA CascadaPaso ==
  ASSUME IndCascada, [Next]_vars
  PROVE  IndCascada'
BY SolasPaso, DuenoActivoPaso, LeidaFrescaPaso, CascadaHechaPaso, PendientesCubrenPaso DEF IndCascada

\* What the observer promises: a user or role out of use, with its listener
\* done, has no active grant, though the listener worked from one reading of
\* the table that came before the row itself was saved; unless two requests
\* overlapped on it, a failure cut its listener or an edit wrote the column.
THEOREM Cascada == Spec => []CascadaCompleta
<1>1. Spec => []IndCascada
  BY CascadaInicial, CascadaPaso, PTL DEF Spec
<1>2. IndCascada => CascadaCompleta
  BY DEF IndCascada, CascadaHecha, CascadaCompleta, Cascadas, DeBaja, Callada
<1>3. QED
  BY <1>1, <1>2, PTL

-----------------------------------------------------------------------------
(***************************************************************************)
(* SesionVigente.                                                          *)
(***************************************************************************)

Vigente(c) == fila[c] = "activa" \/ c \in solapados \cup heridas \cup (apagadas \cap LosRoles)

\* While the password is compared, what the query brought stays as it was.
VistasVigentes ==
  \A p \in Peticiones :
    LET r == peticion[p] IN
      r # Libre /\ r.paso = "clave" => \A c \in r.vistas : c \in Toca(r.op, r.clave) /\ Vigente(c)

IndSesion == IndCascada /\ VistasVigentes

\* The login does not look at column active of a role, but an active grant of
\* an inactive role means that its listener is at work, beside the login, or
\* that an edit left it so.
LEMMA FichaVigente ==
  ASSUME IndCascada, NEW p \in Peticiones, peticion[p] # Libre,
         peticion[p].op \in {"entrar", "refrescar"}, fila[peticion[p].clave] = "activa",
         NEW c \in Ficha(peticion[p].clave[2])
  PROVE  c \in Toca(peticion[p].op, peticion[p].clave) /\ Vigente(c)
<1> USE DEF IndCascada, IndSolas
<1> DEFINE r == peticion[p]
           u == r.clave[2]
<1>1. <<r.op, r.clave>> \in Ordenes /\ r.clave \in LosUsuarios
  BY EnCursoPeticion, DeOrden
<1>2. u \in Cuentas /\ r.clave = Usuario(u)
  BY <1>1 DEF LosUsuarios, Usuario
<1>3. Toca(r.op, r.clave) = {r.clave} \cup LosRoles \cup LosPermisos
  BY <1>1 DEF Toca, Duenos
<1>4. CASE c = Usuario(u)
  BY <1>2, <1>3, <1>4 DEF Vigente
<1>5. CASE c \in LosPermisos /\ fila[c] = "activa"
  BY <1>3, <1>5 DEF Vigente
<1>6. ASSUME NEW s \in Roles, c = Rol(s), fila[Concesion(u, s)] = "activa"
      PROVE  c \in Toca(r.op, r.clave) /\ Vigente(c)
  <2> DEFINE g == Concesion(u, s)
  <2>1. c \in LosRoles /\ c \in Duenos
    BY <1>6 DEF LosRoles, Duenos
  <2>2. g \in Concesiones /\ g[3] = s
    BY <1>2 DEF Concesiones, Concesion
  <2>3. g \in Activas(ConcesionesDe(c))
    BY <1>6, <2>2, DeConcesion DEF Activas, ConcesionesDe
  <2>4. SUFFICES ASSUME fila[c] # "activa", c \notin solapados, c \notin heridas, c \notin apagadas PROVE FALSE
    BY <1>3, <2>1 DEF Vigente
  <2>5. c \in Cascadas \ apagadas /\ DeBaja(c)
    BY <2>1, <2>4 DEF Cascadas, DeBaja
  <2>6. PICK q \in Peticiones : cascada[q] # Quieta /\ cascada[q].clave = c
    BY <2>3, <2>5 DEF CascadaHecha, Callada
  <2>7. q \in EnCursoSobre(c) /\ p \in EnCursoSobre(c)
    BY <1>3, <2>1, <2>6 DEF EnCursoSobre
  <2>8. p = q
    BY <2>1, <2>4, <2>7 DEF Solas, Sola
  <2>9. QED
    BY <2>6, <2>8 DEF Solas, SuOyente
<1>7. QED
  BY <1>4, <1>5, <1>6 DEF Ficha, Activas, LosPermisos

\* What a session saw does not change under it.
LEMMA SigueVigente ==
  ASSUME IndCascada, [Next]_vars, NEW p \in Peticiones, peticion[p] # Libre,
         peticion[p].op \in {"entrar", "refrescar"},
         NEW c \in Toca(peticion[p].op, peticion[p].clave), Vigente(c)
  PROVE  Vigente(c)'
<1> USE DEF IndCascada, IndSolas
<1>1. solapados \subseteq solapados' /\ heridas \subseteq heridas'
  BY SolapadosCrece
<1>2. c \in Duenos /\ p \in EnCursoSobre(c)
  BY EnCursoPeticion
<1>3. ~Escribir(p) /\ ~Borrar(p)
  BY DEF Escribir, Borrar, Guardado, Edicion
<1>4. c \notin solapados => fila'[c] = fila[c]
  BY <1>2, <1>3, DuenoCambia
<1>5. c \notin solapados /\ c \in apagadas => c \in apagadas'
  <2>1. SUFFICES ASSUME c \notin solapados, c \in apagadas, c \notin apagadas' PROVE FALSE
    OBVIOUS
  <2>2. PICK q \in Peticiones : peticion[q] # Libre /\ peticion[q].clave = c /\ peticion[q].op = "desactivar"
    BY <1>2, <2>1, SeRemedia
  <2>3. q \in EnCursoSobre(c)
    BY <1>2, <2>2, EnCursoPeticion
  <2>4. QED
    BY <1>2, <2>1, <2>2, <2>3 DEF Solas, Sola
<1>6. QED
  BY <1>1, <1>4, <1>5 DEF Vigente

LEMMA VistasVigentesPaso ==
  ASSUME IndSesion, [Next]_vars
  PROVE  VistasVigentes'
<1> USE DEF IndSesion, IndCascada, IndSolas
<1> SUFFICES ASSUME NEW p \in Peticiones, peticion'[p] # Libre, peticion'[p].paso = "clave",
                    NEW c \in peticion'[p].vistas
             PROVE  c \in Toca(peticion'[p].op, peticion'[p].clave) /\ Vigente(c)'
  BY DEF VistasVigentes, Toca, Refiere
<1>1. CASE peticion'[p] = peticion[p]
  <2>1. c \in Toca(peticion[p].op, peticion[p].clave) /\ Vigente(c)
    BY <1>1 DEF VistasVigentes
  <2>2. peticion[p].op = "entrar"
    BY <1>1 DEF IndTipo, Encajan, Encaja
  <2>3. QED
    BY <1>1, <2>1, <2>2, SigueVigente
<1>2. CASE /\ Atender(p) /\ peticion[p] # Libre
           /\ peticion'[p].op = peticion[p].op /\ peticion'[p].clave = peticion[p].clave
           /\ peticion'[p] # peticion[p]
  <2> DEFINE r == peticion[p]
  <2>1. r \in Solicitud /\ Encaja(r)
    BY <1>2, Forma DEF IndTipo, Encajan
  <2>2. r.op = "entrar"
    <3>1. IndTipo'
      BY TipoPaso
    <3>2. peticion'[p].op = "entrar"
      BY <3>1 DEF IndTipo, Encajan, Encaja
    <3>3. QED
      BY <1>2, <3>2
  <2>3. LeerSesion(p)
    <3>1. ~\E o \in Ordenes : Empezar(p, o[1], o[2])
      BY <1>2 DEF Empezar
    <3>2. ~(Autenticar(p) \/ Escribir(p) \/ Borrar(p) \/ EscribirPermitido(p) \/ Fallar(p))
      BY DEF Autenticar, Escribir, Borrar, EscribirPermitido, Fallar, Terminar, IndTipo, TypeOK
    <3>3. ~(Comprobar(p) \/ Leer(p) \/ LeerPermitido(p) \/ Comparar(p))
      BY <2>1, <2>2 DEF Comprobar, Leer, LeerPermitido, Comparar, EnPaso, Guardado, Edicion, Encaja
    <3>4. QED
      BY <1>2, <3>1, <3>2, <3>3 DEF Atender
  <2>4. fila[r.clave] = "activa" /\ peticion' = [peticion EXCEPT ![p].vistas = Ficha(r.clave[2]), ![p].paso = "clave"]
    BY <2>2, <2>3 DEF LeerSesion, Terminar, IndTipo, TypeOK
  <2>5. c \in Ficha(r.clave[2])
    BY <2>1, <2>4 DEF Solicitud, IndTipo, TypeOK
  <2>6. c \in Toca(r.op, r.clave) /\ Vigente(c)
    BY <1>2, <2>2, <2>4, <2>5, FichaVigente
  <2>7. QED
    BY <1>2, <2>2, <2>6, SigueVigente
<1>3. ASSUME NEW o \in Ordenes,
             peticion'[p] = [paso |-> PrimerPaso(o[1], o[2]), op |-> o[1], clave |-> o[2],
                             leida |-> "ausente", base |-> "ausente", vistas |-> {}]
      PROVE  FALSE
  BY <1>3
<1>4. QED
  BY <1>1, <1>2, <1>3, AntesYDespues

\* What a step puts in a token.
LEMMA FichaNueva ==
  ASSUME IndSesion, [Next]_vars, NEW u \in Cuentas, ficha'[u] # ficha[u], NEW c \in ficha'[u]
  PROVE  Vigente(c)
<1> USE DEF IndSesion, IndCascada, IndSolas
<1>1. PICK p \in Peticiones : LeerSesion(p) \/ Autenticar(p)
  <2>1. ~Caida /\ ~UNCHANGED vars
    BY DEF Caida, vars
  <2>2. \A q \in Peticiones : ~Escuchar(q)
    BY SoloUnOyente DEF SoloCascada
  <2>3. QED
    BY <2>1, <2>2 DEF Next, Atender, Empezar, Comprobar, Leer, LeerPermitido, Comparar, Escribir, Borrar,
       EscribirPermitido, Fallar, SoloLee
<1> DEFINE r == peticion[p]
<1>2. r # Libre
  BY <1>1 DEF LeerSesion, Autenticar, EnPaso, Libre
<1>3. CASE LeerSesion(p)
  <2>1. /\ r.op = "refrescar" /\ fila[r.clave] = "activa"
        /\ ficha' = [ficha EXCEPT ![r.clave[2]] = Ficha(r.clave[2])]
    BY <1>3 DEF LeerSesion
  <2>2. c \in Ficha(r.clave[2])
    BY <2>1 DEF IndTipo, TypeOK
  <2>3. QED
    BY <1>2, <2>1, <2>2, FichaVigente
<1>4. CASE Autenticar(p)
  <2>1. ficha' = [ficha EXCEPT ![r.clave[2]] = r.vistas] /\ r.paso = "clave"
    BY <1>4 DEF Autenticar, EnPaso
  <2>2. c \in r.vistas
    BY <2>1 DEF IndTipo, TypeOK
  <2>3. QED
    BY <1>2, <2>1, <2>2 DEF VistasVigentes
<1>5. QED
  BY <1>1, <1>3, <1>4

LEMMA SesionInicial == Init => IndSesion
BY CascadaInicial DEF Init, IndSesion, VistasVigentes

LEMMA SesionPaso ==
  ASSUME IndSesion, [Next]_vars
  PROVE  IndSesion'
BY CascadaPaso, VistasVigentesPaso DEF IndSesion

\* A token names an active user with active roles and permissions when it is
\* given, though the login relies on the cascade for the roles and compares the
\* password after its reading; unless somebody overlapped, a cascade was cut or
\* the role was made inactive by an edit, which has no cascade.
THEOREM Sesiones == Spec => SesionVigente
<1>1. Spec => []IndSesion
  BY SesionInicial, SesionPaso, PTL DEF Spec
<1>2. ASSUME IndSesion, [Next]_vars
      PROVE  [\A u \in Cuentas :
                ficha'[u] # ficha[u] =>
                  \A c \in ficha'[u] :
                    fila[c] = "activa" \/ c \in solapados \cup heridas \cup (apagadas \cap LosRoles)]_vars
  BY <1>2, FichaNueva DEF Vigente
<1>3. QED
  BY <1>1, <1>2, PTL DEF Spec, SesionVigente

=============================================================================
