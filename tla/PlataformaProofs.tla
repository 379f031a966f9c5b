-------------------------- MODULE PlataformaProofs --------------------------
(***************************************************************************)
(* Proofs about the parts of Plataforma, as the platform runs them.        *)
(*                                                                         *)
(* A behaviour is about the part that its first state chose, and each of   *)
(* its steps is a step of that part or leaves it alone (ParteElegida).     *)
(* What was proved of Altas and of Sesion in modules of their own holds    *)
(* here because their instances there and here are the same formulas.      *)
(* The audit trail, the dashboard and the pages are proved about in place: *)
(*                                                                         *)
(* - UnaConexion is not inductive: an attempt that has not opened its      *)
(*   connection yet will add one.  IndConexion counts it, and says when    *)
(*   no open connection is accounted for by the publisher itself.          *)
(* - TypeOK of the audit trail and of the dashboard bound numbers, so      *)
(*   Copias says when an event is stored again (IndAuditoria), and         *)
(*   IndTablero what the queue of a stream may hold.                       *)
(* - VistaAlDia is about a page at rest.  IndVista says what a request in  *)
(*   flight still owes the table (TablaFiel) and the list of tickets       *)
(*   (ListaFiel), and that nothing is in doubt only while one request at   *)
(*   a time is in flight (Suelta).                                         *)
(***************************************************************************)
EXTENDS Plataforma, Sequences, FiniteSetTheorems, TLAPS

EnAltas == INSTANCE AltasProofs WITH MaxFallas <- MaxFallas["Altas"]

EnSesion == INSTANCE SesionProofs WITH Envios <- Datos, Nula <- Nadie

\* A step is about the part that was chosen.
LEMMA ParteElegida ==
  ASSUME [Next]_vars
  PROVE  /\ modo' = modo
         /\ modo = "Altas" => [Altas!Next]_(Altas!vars)
         /\ modo = "Tablero" => [Tablero!Next]_(Tablero!vars)
         /\ modo = "Auditoria" => [Auditoria!Next]_(Auditoria!vars)
         /\ modo = "Sesion" => [Sesion!Next]_(Sesion!vars)
         /\ modo = "Paginas" => [Paginas!Next]_(Paginas!vars)
<1>1. CASE UNCHANGED vars
  BY <1>1 DEF vars, deAltas, deTablero, deAuditoria, deSesion, dePaginas, Altas!vars, Tablero!vars, Auditoria!vars,
     Auditoria!editor, Sesion!vars, Paginas!vars
<1>2. CASE Next
  BY <1>2 DEF Next, SoloAltas, SoloTablero, SoloAuditoria, SoloSesion, SoloPaginas
<1>3. QED
  BY <1>1, <1>2

-----------------------------------------------------------------------------
(***************************************************************************)
(* Persons and their users.                                                *)
(***************************************************************************)

LEMMA AltasDistintos == EnAltas!Distintos
BY PlataformaAssumption DEF EnAltas!Distintos, EnAltas!Contactos, Altas!Contactos, EnAltas!Nombres, Altas!Nombres

LEMMA AltasCotas == EnAltas!Cotas
BY PlataformaAssumption DEF EnAltas!Cotas

LEMMA MismasAltas ==
  /\ Altas!Init <=> EnAltas!Init
  /\ [Altas!Next]_(Altas!vars) <=> [EnAltas!Next]_(EnAltas!vars)
  /\ Altas!PersonaConUsuario <=> EnAltas!PersonaConUsuario
  /\ Altas!TypeOK <=> EnAltas!TypeOK
BY DEF Altas!TypeOK, EnAltas!TypeOK, Altas!Nombres, EnAltas!Nombres,
     Altas!vars, EnAltas!vars, Altas!Contactos, EnAltas!Contactos, Altas!Quienes, EnAltas!Quienes, Altas!Libre,
     EnAltas!Libre, Altas!Solicitud, EnAltas!Solicitud, Altas!Init, EnAltas!Init, Altas!Registradas,
     EnAltas!Registradas, Altas!Ocupados, EnAltas!Ocupados, Altas!ConRaiz, EnAltas!ConRaiz, Altas!PorNombrar,
     EnAltas!PorNombrar, Altas!Elegido, EnAltas!Elegido, Altas!Nombrar, EnAltas!Nombrar, Altas!Empezar,
     EnAltas!Empezar, Altas!EmpezarRenombre, EnAltas!EmpezarRenombre, Altas!Renombrar, EnAltas!Renombrar,
     Altas!Avanzar, EnAltas!Avanzar, Altas!Terminar,
     EnAltas!Terminar, Altas!Rechazar, EnAltas!Rechazar, Altas!SinTablas, EnAltas!SinTablas, Altas!Contadores,
     EnAltas!Contadores, Altas!EmpezarAlta, EnAltas!EmpezarAlta,
     Altas!EmpezarCambio, EnAltas!EmpezarCambio, Altas!Conocida, EnAltas!Conocida, Altas!Verificar,
     EnAltas!Verificar, Altas!Guardar, EnAltas!Guardar, Altas!Candidato, EnAltas!Candidato, Altas!BuscarNombre,
     EnAltas!BuscarNombre, Altas!Entregar, EnAltas!Entregar, Altas!OtorgarCliente, EnAltas!OtorgarCliente,
     Altas!Cambiar, EnAltas!Cambiar, Altas!FallarPeticion, EnAltas!FallarPeticion, Altas!SinPeticiones,
     EnAltas!SinPeticiones, Altas!Arrancar, EnAltas!Arrancar, Altas!SembrarFila, EnAltas!SembrarFila,
     Altas!BuscarRaiz, EnAltas!BuscarRaiz, Altas!OtorgarRaiz, EnAltas!OtorgarRaiz, Altas!CambiarRaiz,
     EnAltas!CambiarRaiz, Altas!Caida, EnAltas!Caida, Altas!Registro, EnAltas!Registro, Altas!Peticion,
     EnAltas!Peticion, Altas!Arranque, EnAltas!Arranque, Altas!Next, EnAltas!Next, Altas!PersonaConUsuario,
     EnAltas!PersonaConUsuario

\* A registration that ran to its end gave its person a user, whether a client sent
\* it or the seeder, unless somebody else was given the username it had chosen before
\* it stored it: create of personas.service.ts keeps its promise without one
\* transaction but for that and for failures after the commit.
THEOREM Personas == Spec => []PersonaConUsuario
<1> DEFINE I == modo = "Altas" => EnAltas!Ind
<1>1. Init => I
  BY AltasDistintos, AltasCotas, MismasAltas, EnAltas!IndInicial DEF Init
<1>2. I /\ [Next]_vars => I'
  BY ParteElegida, AltasDistintos, AltasCotas, MismasAltas, EnAltas!IndPaso
<1>3. I => PersonaConUsuario
  BY MismasAltas, EnAltas!IndBasta DEF PersonaConUsuario
<1>4. QED
  BY <1>1, <1>2, <1>3, PTL DEF Spec

-----------------------------------------------------------------------------
(***************************************************************************)
(* The session of the tabs.                                                *)
(***************************************************************************)

LEMMA SesionConocidas == EnSesion!Conocidas
BY PlataformaAssumption DEF EnSesion!Conocidas

LEMMA MismaSesion ==
  /\ Sesion!Init <=> EnSesion!Init
  /\ [Sesion!Next]_(Sesion!vars) <=> [EnSesion!Next]_(EnSesion!vars)
  /\ Sesion!IdentidadCoherente <=> EnSesion!IdentidadCoherente
  /\ Sesion!TypeOK <=> EnSesion!TypeOK
BY DEF Sesion!TypeOK, EnSesion!TypeOK,
     Sesion!vars, EnSesion!vars, Sesion!Administracion, EnSesion!Administracion, Sesion!Recaudacion,
     EnSesion!Recaudacion, Sesion!Cliente, EnSesion!Cliente, Sesion!Libre, EnSesion!Libre, Sesion!Envio,
     EnSesion!Envio, Sesion!Lugares, EnSesion!Lugares, Sesion!Init, EnSesion!Init, Sesion!Decodificar,
     EnSesion!Decodificar, Sesion!Guardar, EnSesion!Guardar, Sesion!GuardadoIgual, EnSesion!GuardadoIgual,
     Sesion!Mostrar, EnSesion!Mostrar, Sesion!MostrarIgual, EnSesion!MostrarIgual, Sesion!Enviar, EnSesion!Enviar,
     Sesion!Pendiente, EnSesion!Pendiente, Sesion!CargarEn, EnSesion!CargarEn, Sesion!Cargar, EnSesion!Cargar,
     Sesion!Irse, EnSesion!Irse, Sesion!LeerUsuarioSinQuitar, EnSesion!LeerUsuarioSinQuitar, Sesion!LeerUsuario,
     EnSesion!LeerUsuario, Sesion!LeerFicha, EnSesion!LeerFicha, Sesion!Validar, EnSesion!Validar, Sesion!Rol,
     EnSesion!Rol, Sesion!EsAdmin, EnSesion!EsAdmin, Sesion!EsRecaudador, EnSesion!EsRecaudador, Sesion!EsCliente,
     EnSesion!EsCliente, Sesion!AdmiteSinCliente, EnSesion!AdmiteSinCliente, Sesion!Admite, EnSesion!Admite,
     Sesion!Inicio, EnSesion!Inicio, Sesion!Muestra, EnSesion!Muestra, Sesion!Destino, EnSesion!Destino,
     Sesion!Asentada, EnSesion!Asentada, Sesion!IrA, EnSesion!IrA, Sesion!Redirigir, EnSesion!Redirigir,
     Sesion!EnPagina, EnSesion!EnPagina, Sesion!Enlaces, EnSesion!Enlaces, Sesion!Navegar, EnSesion!Navegar,
     Sesion!Regresar, EnSesion!Regresar, Sesion!Pedir, EnSesion!Pedir, Sesion!Entrar, EnSesion!Entrar,
     Sesion!Aceptar, EnSesion!Aceptar, Sesion!Rechazar, EnSesion!Rechazar, Sesion!Atender, EnSesion!Atender,
     Sesion!Fallar, EnSesion!Fallar, Sesion!Salir, EnSesion!Salir, Sesion!Pagina, EnSesion!Pagina, Sesion!Responder,
     EnSesion!Responder, Sesion!Next, EnSesion!Next, Sesion!IdentidadCoherente, EnSesion!IdentidadCoherente

\* A tab shows the user of the token that its requests carry, whatever the others
\* do and however late its answers are, unless another tab changed the stored
\* token or a 401 is taking it to /login (AuthContext.tsx, request of api/index.ts).
THEOREM Identidad == Spec => []IdentidadCoherente
<1> DEFINE I == modo = "Sesion" => EnSesion!Ind
<1>1. Init => I
  BY SesionConocidas, MismaSesion, EnSesion!SesionInicial DEF Init
<1>2. I /\ [Next]_vars => I'
  BY ParteElegida, SesionConocidas, MismaSesion, EnSesion!IndPaso
<1>3. I => IdentidadCoherente
  BY MismaSesion DEF IdentidadCoherente, EnSesion!Ind
<1>4. QED
  BY <1>1, <1>2, <1>3, PTL DEF Spec

-----------------------------------------------------------------------------
(***************************************************************************)
(* The audit publisher.                                                    *)
(***************************************************************************)

\* The constants of other kinds are not connections.
LEMMA Distintos == {"no", "abriendo", Nadie} \cap Conexiones = {}
BY PlataformaAssumption

TipoEditor ==
  /\ intento \in {"no", "abriendo"} \cup Conexiones
  /\ canal \in Conexiones \cup {Nadie}
  /\ vivas \subseteq usadas /\ usadas \subseteq Conexiones
  /\ IsFiniteSet(vivas)
  /\ cruces \in Nat

\* An attempt has a place of its own among the connections that are not lost, and
\* a publisher that neither holds an open one nor tries has none.
Contadas ==
  /\ intento = "abriendo" => Cardinality(vivas) <= cruces
  /\ Cardinality(vivas) <= 1 + cruces
  /\ intento # "abriendo" /\ intento \notin vivas /\ (intento # "no" \/ canal \notin vivas) =>
       Cardinality(vivas) <= cruces

IndConexion == TipoEditor /\ Contadas

LEMMA VivasNat ==
  ASSUME IndConexion
  PROVE  Cardinality(vivas) \in Nat
BY FS_CardinalityType DEF IndConexion, TipoEditor

LEMMA ConexionInicial == Auditoria!Init => IndConexion
BY FS_EmptySet DEF Auditoria!Init, IndConexion, TipoEditor, Contadas

\* The connections stay the same ones.
LEMMA ConexionAtiende ==
  ASSUME IndConexion,
         \/ \E e \in Eventos : Auditoria!Publicar(e) \/ Auditoria!FallarPublicacion(e)
         \/ Auditoria!Establecer \/ Auditoria!FallarIntento \/ Auditoria!Vencer
         \/ \E c \in Conexiones : Auditoria!Avisar(c)
  PROVE  IndConexion'
<1>1. Cardinality(vivas) \in Nat /\ vivas' = vivas
  BY VivasNat DEF Auditoria!Publicar, Auditoria!FallarPublicacion, Auditoria!Establecer, Auditoria!FallarIntento, Auditoria!Vencer,
       Auditoria!Avisar
<1>2. ASSUME NEW e \in Eventos, Auditoria!Publicar(e) PROVE IndConexion'
  <2>1. canal \notin vivas \/ intento' = intento
    BY <1>2, Distintos DEF Auditoria!Publicar, IndConexion, TipoEditor
  <2>2. QED
    BY <1>1, <1>2, <2>1, Distintos DEF Auditoria!Publicar, Auditoria!Conectar, IndConexion, TipoEditor, Contadas
<1>3. CASE Auditoria!Establecer
  BY <1>1, <1>3, Distintos DEF Auditoria!Establecer, IndConexion, TipoEditor, Contadas
<1>4. CASE Auditoria!FallarIntento
  BY <1>1, <1>4, Distintos DEF Auditoria!FallarIntento, IndConexion, TipoEditor, Contadas
<1>5. CASE Auditoria!Vencer
  BY <1>1, <1>5, Distintos DEF Auditoria!Vencer, Auditoria!Conectar, IndConexion, TipoEditor, Contadas
<1>6. ASSUME NEW c \in Conexiones, Auditoria!Avisar(c) PROVE IndConexion'
  BY <1>1, <1>6, Distintos DEF Auditoria!Avisar, IndConexion, TipoEditor, Contadas
<1>7. ASSUME NEW e \in Eventos, Auditoria!FallarPublicacion(e) PROVE IndConexion'
  BY <1>1, <1>7, Distintos DEF Auditoria!FallarPublicacion, IndConexion, TipoEditor, Contadas
<1>8. QED
  BY <1>2, <1>3, <1>4, <1>5, <1>6, <1>7

LEMMA ConexionAbre ==
  ASSUME IndConexion, Auditoria!Abrir
  PROVE  IndConexion'
<1>1. PICK c \in Conexiones \ usadas : intento' = c /\ vivas' = vivas \cup {c} /\ usadas' = usadas \cup {c}
  BY DEF Auditoria!Abrir
<1>2. IsFiniteSet(vivas') /\ Cardinality(vivas') = Cardinality(vivas) + 1
  BY <1>1, FS_AddElement DEF IndConexion, TipoEditor
<1>3. TipoEditor'
  BY <1>1, <1>2 DEF Auditoria!Abrir, IndConexion, TipoEditor
<1>4. Contadas'
  BY <1>1, <1>2, VivasNat, Distintos DEF Auditoria!Abrir, IndConexion, TipoEditor, Contadas
<1>5. QED
  BY <1>3, <1>4 DEF IndConexion

LEMMA ConexionCae ==
  ASSUME IndConexion, NEW c \in Conexiones, Auditoria!Cortar(c)
  PROVE  IndConexion'
<1>1. c \in vivas /\ vivas' = vivas \ {c}
  BY DEF Auditoria!Cortar
<1>2. IsFiniteSet(vivas') /\ Cardinality(vivas') = Cardinality(vivas) - 1
  BY <1>1, FS_RemoveElement DEF IndConexion, TipoEditor
<1>3. TipoEditor'
  BY <1>1, <1>2 DEF Auditoria!Cortar, IndConexion, TipoEditor
<1>4. Contadas'
  BY <1>1, <1>2, VivasNat, Distintos DEF Auditoria!Cortar, IndConexion, TipoEditor, Contadas
<1>5. QED
  BY <1>3, <1>4 DEF IndConexion

LEMMA ConexionPaso == IndConexion /\ [Auditoria!Next]_(Auditoria!vars) => IndConexion'
<1> SUFFICES ASSUME IndConexion, [Auditoria!Next]_(Auditoria!vars) PROVE IndConexion'
  OBVIOUS
<1>1. CASE UNCHANGED Auditoria!editor
  BY <1>1 DEF Auditoria!editor, IndConexion, TipoEditor, Contadas
<1>2. CASE Auditoria!Editar
  <2>1. ASSUME NEW e \in Eventos, Auditoria!PublicarSuelto(e) PROVE IndConexion'
    BY <1>1, <2>1 DEF Auditoria!PublicarSuelto
  <2>2. QED
    BY <1>2, <2>1, ConexionAtiende, ConexionAbre, ConexionCae DEF Auditoria!Editar
<1>3. CASE \/ \E e \in Eventos : Auditoria!Procesar(e)
           \/ Auditoria!IniciarConsumidor \/ Auditoria!Reintentar
           \/ Auditoria!CortarConsumidor \/ Auditoria!Reiniciar
  BY <1>1, <1>3 DEF Auditoria!Procesar, Auditoria!Recibir, Auditoria!Validar, Auditoria!GuardarEvento,
       Auditoria!Confirmar, Auditoria!IniciarConsumidor, Auditoria!Reintentar,
     Auditoria!CortarConsumidor, Auditoria!Reiniciar
<1>4. QED
  BY <1>1, <1>2, <1>3 DEF Auditoria!Next, Auditoria!vars

\* The publisher opens a second connection only where it loses sight of the first:
\* connectionPromise of event-publisher.ts holds back every other attempt, whatever
\* events, drops, timers and handlers come in between.
THEOREM Conexion == Spec => []UnaConexion
<1> DEFINE I == modo = "Auditoria" => IndConexion
<1>1. Init => I
  BY ConexionInicial DEF Init
<1>2. I /\ [Next]_vars => I'
  BY ParteElegida, ConexionPaso
<1>3. I => UnaConexion
  BY DEF UnaConexion, Auditoria!UnaConexion, Auditoria!Cardinality, Cardinality, IndConexion, Contadas
<1>4. QED
  BY <1>1, <1>2, <1>3, PTL DEF Spec

-----------------------------------------------------------------------------
(***************************************************************************)
(* The pages.                                                              *)
(***************************************************************************)

LEMMA Cota == MaxPedidos \in Nat
BY PlataformaAssumption

\* Two requests are in flight only where the history says so.
Suelta ==
  ~tablaDudosa \/ ~listaDudosa => \A q, r \in Paginas!Ocupados : q = r

\* What ends with the table asked for again, or is that.
Refresca(q) ==
  envio[q].tipo = "listar" \/ (envio[q].tipo # "buscar" /\ envio[q].paso = "hecho")

\* A table without doubt is the one of the service, or is on its way.
TablaFiel ==
  ~tablaDudosa =>
    /\ tabla = Paginas!Lista \/ \E q \in Paginas!Ocupados : Refresca(q)
    /\ \A q \in Paginas!Ocupados :
         envio[q].tipo = "listar" =>
           envio[q].paso = "enviado" \/ (envio[q].paso = "hecho" /\ envio[q].tabla = Paginas!Lista)

\* The answer of a closing that the list does not show yet.
PorCerrar(f) ==
  \E q \in Paginas!Ocupados : envio[q].tipo = "cerrar" /\ envio[q].paso = "hecho" /\ envio[q].fila = f

\* What a request knows of the list it will change: whether its ticket was in it,
\* and how the service left the row.
Sabe(q) ==
  /\ envio[q].estaba = Paginas!EnLista(envio[q].fila)
  /\ envio[q].paso = "hecho" =>
       /\ envio[q].estado = filas[envio[q].fila]
       /\ envio[q].tipo = "crear" => ~Paginas!EnLista(envio[q].fila)

SinRepetir == \A i, j \in 1..Len(tickets) : tickets[i][1] = tickets[j][1] => i = j

ListaFiel ==
  ~listaDudosa =>
    /\ SinRepetir
    /\ \A i \in 1..Len(tickets) : tickets[i][2] = filas[tickets[i][1]] \/ PorCerrar(tickets[i][1])
    /\ \A q \in Paginas!Ocupados : envio[q].tipo # "listar" => Sabe(q)

\* TypeOK, that tickets is a sequence, that only TicketsPage has any, and that an
\* answer is about a row that exists.
TipoPagina ==
  /\ Paginas!TypeOK
  /\ tickets \in Seq(Filas \X (Paginas!Estados \ {"no"}))
  /\ clase # "tickets" => tickets = <<>>
  /\ \A q \in Paginas!Ocupados : envio[q].tipo # "listar" /\ envio[q].paso = "hecho" => envio[q].estado # "no"

IndVista == TipoPagina /\ Suelta /\ TablaFiel /\ ListaFiel

LEMMA Formas ==
  ASSUME Paginas!TypeOK, NEW q \in Envios, envio[q] # Paginas!Libre
  PROVE  /\ envio[q] \in Paginas!Envio
         /\ envio[q].tipo \in {"listar", "crear", "cerrar", "buscar"}
         /\ envio[q].paso \in {"enviado", "hecho", "error"}
         /\ envio[q].tipo = "listar" /\ envio[q].paso = "hecho" => envio[q].tabla \in Paginas!Tabla
         /\ envio[q].tipo # "listar" => envio[q].fila \in Filas /\ envio[q].estaba \in BOOLEAN
         /\ envio[q].tipo # "listar" /\ envio[q].paso = "hecho" => envio[q].estado \in Paginas!Estados
<1>1. envio[q] \in Paginas!Envio
  BY DEF Paginas!TypeOK
<1>2. QED
  BY <1>1 DEF Paginas!Envio

LEMMA ListaTabla ==
  ASSUME Paginas!TypeOK
  PROVE  Paginas!Lista \in Paginas!Tabla
BY DEF Paginas!TypeOK, Paginas!Lista, Paginas!Tabla, Paginas!Estados

LEMMA ListaIgual ==
  ASSUME UNCHANGED <<filas, retenidos>>
  PROVE  Paginas!Lista' = Paginas!Lista
BY DEF Paginas!Lista

LEMMA NoLibre == Paginas!Libre \notin Paginas!Envio
BY DEF Paginas!Libre, Paginas!Envio

\* One request changes.
LEMMA Cambia ==
  ASSUME Paginas!TypeOK, NEW q \in Envios, NEW v, envio' = [envio EXCEPT ![q] = v]
  PROVE  /\ envio'[q] = v
         /\ \A o \in Envios : o # q => envio'[o] = envio[o]
         /\ v # Paginas!Libre => Paginas!Ocupados' = Paginas!Ocupados \cup {q}
         /\ v = Paginas!Libre => Paginas!Ocupados' = Paginas!Ocupados \ {q}
<1>1. envio'[q] = v /\ \A o \in Envios : o # q => envio'[o] = envio[o]
  BY DEF Paginas!TypeOK
<1>2. Paginas!Libre' = Paginas!Libre
  BY DEF Paginas!Libre
<1>3. QED
  BY <1>1, <1>2 DEF Paginas!Ocupados

\* A request that failed.
LEMMA Falla ==
  ASSUME Paginas!TypeOK, NEW q \in Envios, envio[q] # Paginas!Libre, envio[q].paso = "enviado",
         envio' = [envio EXCEPT ![q].paso = "error"]
  PROVE  \E v \in Paginas!Envio :
             /\ envio' = [envio EXCEPT ![q] = v]
             /\ v.tipo = envio[q].tipo /\ v.paso = "error"
             /\ v.tipo # "listar" => v.fila = envio[q].fila /\ v.estaba = envio[q].estaba
<1> DEFINE v == [envio[q] EXCEPT !.paso = "error"]
<1>1. envio[q] \in Paginas!Envio
  BY Formas
<1>2. v \in Paginas!Envio /\ v.tipo = envio[q].tipo /\ v.paso = "error"
        /\ (v.tipo # "listar" => v.fila = envio[q].fila /\ v.estaba = envio[q].estaba)
  BY <1>1 DEF Paginas!Envio
<1>3. envio' = [envio EXCEPT ![q] = v]
  BY DEF Paginas!TypeOK
<1>4. QED
  BY <1>2, <1>3

\* What a service leaves in a row it was asked to change.
LEMMA Queda ==
  ASSUME TipoPagina, NEW q \in Envios, envio[q] # Paginas!Libre, envio[q].tipo # "listar",
         Paginas!Puede(envio[q].tipo, envio[q].fila),
         filas' = [filas EXCEPT ![envio[q].fila] = Paginas!Resultado(envio[q].tipo, envio[q].fila)]
  PROVE  /\ Paginas!Resultado(envio[q].tipo, envio[q].fila) \in Paginas!Estados \ {"no"}
         /\ filas' \in Paginas!Tabla
         /\ filas'[envio[q].fila] = Paginas!Resultado(envio[q].tipo, envio[q].fila)
         /\ \A g \in Filas : g # envio[q].fila => filas'[g] = filas[g]
         /\ envio[q].tipo = "buscar" => filas' = filas
<1>1. filas \in Paginas!Tabla /\ envio[q].fila \in Filas /\ envio[q].tipo \in {"crear", "cerrar", "buscar"}
  BY Formas DEF TipoPagina, Paginas!TypeOK
<1>2. Paginas!Resultado(envio[q].tipo, envio[q].fila) \in Paginas!Estados \ {"no"}
  BY <1>1 DEF Paginas!Puede, Paginas!Resultado, Paginas!Tabla, Paginas!Estados
<1>3. filas' \in Paginas!Tabla /\ filas'[envio[q].fila] = Paginas!Resultado(envio[q].tipo, envio[q].fila)
        /\ \A g \in Filas : g # envio[q].fila => filas'[g] = filas[g]
  BY <1>1, <1>2 DEF Paginas!Tabla
<1>4. ASSUME envio[q].tipo = "buscar" PROVE filas' = filas
  <2>1. Paginas!Resultado(envio[q].tipo, envio[q].fila) = filas[envio[q].fila]
    BY <1>4 DEF Paginas!Resultado
  <2>2. QED
    BY <1>1, <2>1 DEF Paginas!Tabla
<1>5. QED
  BY <1>2, <1>3, <1>4

LEMMA AtenderVista ==
  ASSUME IndVista, NEW q \in Envios, Paginas!Atender(q)
  PROVE  IndVista'
<1> USE DEF IndVista
<1>1. /\ Paginas!TypeOK /\ envio[q] # Paginas!Libre /\ envio[q].paso = "enviado"
      /\ UNCHANGED <<clase, cargando, tabla, tickets, registro, pedidos, tablaDudosa, listaDudosa>>
  BY DEF Paginas!Atender, Paginas!PaginaIgual, Paginas!HistoriaIgual, TipoPagina
<1>2. \E v \in Paginas!Envio :
        /\ envio' = [envio EXCEPT ![q] = v] /\ v.tipo = envio[q].tipo /\ v.paso # "enviado"
        /\ v.tipo # "listar" => v.fila = envio[q].fila /\ v.estaba = envio[q].estaba
        /\ v.tipo = "listar" => v.paso = "hecho" /\ v.tabla = Paginas!Lista
        /\ v.tipo # "listar" /\ v.paso = "hecho" =>
             /\ Paginas!Puede(v.tipo, v.fila)
             /\ v.estado = Paginas!Resultado(v.tipo, v.fila)
             /\ filas' = [filas EXCEPT ![v.fila] = v.estado]
        /\ v.tipo = "listar" \/ v.paso # "hecho" => filas' = filas
        /\ v.tipo \in {"listar", "buscar"} \/ v.paso # "hecho" => retenidos' = retenidos
  <2>1. CASE envio[q].tipo = "listar"
    <3> DEFINE v == [tipo |-> "listar", paso |-> "hecho", tabla |-> Paginas!Lista]
    <3>1. v \in Paginas!Envio
      BY <1>1, ListaTabla DEF Paginas!Envio
    <3>2. envio' = [envio EXCEPT ![q] = v] /\ UNCHANGED <<filas, retenidos>>
      BY <2>1 DEF Paginas!Atender, Paginas!ServicioIgual
    <3>3. QED
      BY <2>1, <3>1, <3>2
  <2>2. CASE envio[q].tipo # "listar" /\ Paginas!Puede(envio[q].tipo, envio[q].fila)
    <3> DEFINE v == [tipo |-> envio[q].tipo, paso |-> "hecho", fila |-> envio[q].fila, estaba |-> envio[q].estaba,
                     estado |-> Paginas!Resultado(envio[q].tipo, envio[q].fila)]
    <3>1. /\ filas' = [filas EXCEPT ![envio[q].fila] = Paginas!Resultado(envio[q].tipo, envio[q].fila)]
          /\ envio' = [envio EXCEPT ![q] = v]
          /\ envio[q].tipo = "buscar" => retenidos' = retenidos
      BY <2>2 DEF Paginas!Atender, Paginas!Hacer
    <3>2. v.estado \in Paginas!Estados
      BY <1>1, <2>2, <3>1, Queda
    <3>3. v \in Paginas!Envio
      BY <1>1, <2>2, <3>2, Formas DEF Paginas!Envio
    <3>4. QED
      BY <2>2, <3>1, <3>3
  <2>3. CASE envio[q].tipo # "listar" /\ ~Paginas!Puede(envio[q].tipo, envio[q].fila)
    <3>1. envio' = [envio EXCEPT ![q].paso = "error"] /\ UNCHANGED <<filas, retenidos>>
      BY <2>3 DEF Paginas!Atender, Paginas!ServicioIgual
    <3>2. PICK v \in Paginas!Envio :
            /\ envio' = [envio EXCEPT ![q] = v]
            /\ v.tipo = envio[q].tipo /\ v.paso = "error"
            /\ v.tipo # "listar" => v.fila = envio[q].fila /\ v.estaba = envio[q].estaba
      <4>1. envio[q] # Paginas!Libre /\ envio[q].paso = "enviado" /\ Paginas!TypeOK
        BY <1>1
      <4>2. QED
        BY <3>1, <4>1, Falla
    <3>3. WITNESS v \in Paginas!Envio
    <3>4. QED
      BY <2>3, <3>1, <3>2
  <2>4. QED
    BY <2>1, <2>2, <2>3
<1>3. PICK v \in Paginas!Envio :
        /\ envio' = [envio EXCEPT ![q] = v] /\ v.tipo = envio[q].tipo /\ v.paso # "enviado"
        /\ v.tipo # "listar" => v.fila = envio[q].fila /\ v.estaba = envio[q].estaba
        /\ v.tipo = "listar" => v.paso = "hecho" /\ v.tabla = Paginas!Lista
        /\ v.tipo # "listar" /\ v.paso = "hecho" =>
             /\ Paginas!Puede(v.tipo, v.fila)
             /\ v.estado = Paginas!Resultado(v.tipo, v.fila)
             /\ filas' = [filas EXCEPT ![v.fila] = v.estado]
        /\ v.tipo = "listar" \/ v.paso # "hecho" => filas' = filas
        /\ v.tipo \in {"listar", "buscar"} \/ v.paso # "hecho" => retenidos' = retenidos
  BY <1>2
<1>4. /\ envio'[q] = v /\ \A o \in Envios : o # q => envio'[o] = envio[o]
      /\ Paginas!Ocupados' = Paginas!Ocupados /\ q \in Paginas!Ocupados
  BY <1>1, <1>3, Cambia, NoLibre DEF Paginas!Ocupados
<1>5. v.tipo # "listar" /\ v.paso = "hecho" =>
        /\ v.fila \in Filas /\ v.estado # "no"
        /\ filas'[v.fila] = v.estado
        /\ \A g \in Filas : g # v.fila => filas'[g] = filas[g]
        /\ v.tipo = "buscar" => filas' = filas
  BY <1>1, <1>3, Queda, Formas
<1>6. filas' \in Paginas!Tabla /\ retenidos' \subseteq Filas
  <2>1. filas' \in Paginas!Tabla
    BY <1>1, <1>3, Queda DEF Paginas!TypeOK
  <2>2. retenidos' \subseteq Filas
    BY <1>1, Formas DEF Paginas!Atender, Paginas!Hacer, Paginas!ServicioIgual, Paginas!TypeOK
  <2>3. QED
    BY <2>1, <2>2
<1>7. TipoPagina'
  <2>1. envio' \in [Envios -> Paginas!Envio \cup {Paginas!Libre}]
    BY <1>1, <1>3 DEF Paginas!TypeOK
  <2>2. Paginas!TypeOK'
    BY <1>1, <1>6, <2>1 DEF Paginas!TypeOK, Paginas!Envio, Paginas!Tabla, Paginas!Estados, Paginas!Libre
  <2>3. QED
    BY <1>1, <1>4, <1>5, <2>2 DEF TipoPagina, Paginas!Estados, Paginas!Ocupados
<1>8. Suelta'
  BY <1>1, <1>4 DEF Suelta
<1>9. TablaFiel'
  <2> SUFFICES ASSUME ~tablaDudosa
               PROVE  /\ tabla = Paginas!Lista' \/ \E r \in Paginas!Ocupados : Refresca(r)'
                      /\ \A r \in Paginas!Ocupados : envio'[r].tipo = "listar" =>
                           envio'[r].paso = "enviado" \/ (envio'[r].paso = "hecho" /\ envio'[r].tabla = Paginas!Lista')
    BY <1>1, <1>4 DEF TablaFiel
  <2>1. \A r \in Paginas!Ocupados : r = q
    BY <1>4 DEF Suelta
  <2>2. tabla = Paginas!Lista \/ envio[q].tipo = "listar"
    BY <1>1, <2>1 DEF TablaFiel, Refresca
  <2>3. Refresca(q)' \/ Paginas!Lista' = Paginas!Lista
    BY <1>1, <1>3, <1>4, <1>5, ListaIgual DEF Refresca
  <2>4. v.tipo = "listar" => Paginas!Lista' = Paginas!Lista
    BY <1>3, ListaIgual
  <2>5. tabla = Paginas!Lista' \/ \E r \in Paginas!Ocupados : Refresca(r)'
    BY <1>3, <1>4, <2>2, <2>3 DEF Refresca
  <2>6. QED
    BY <1>3, <1>4, <2>1, <2>4, <2>5
<1>10. ListaFiel'
  <2> SUFFICES ASSUME ~listaDudosa PROVE ListaFiel'
    BY <1>1 DEF ListaFiel
  <2>1. \A r \in Paginas!Ocupados : r = q
    BY <1>4 DEF Suelta
  <2>2. SinRepetir'
    BY <1>1 DEF ListaFiel, SinRepetir
  <2>3. \A i \in 1..Len(tickets) : tickets[i][1] \in Filas /\ tickets[i][2] \in Paginas!Estados \ {"no"}
                                   /\ tickets[i][2] = filas[tickets[i][1]]
    BY <1>1, <2>1 DEF ListaFiel, PorCerrar, Paginas!TypeOK
  <2>4. v.tipo = "crear" /\ v.paso = "hecho" => ~Paginas!EnLista(v.fila)
    BY <1>3, <2>3 DEF Paginas!Puede, Paginas!Lista, Paginas!EnLista
  <2>5. \A i \in 1..Len(tickets) : tickets[i][2] = filas'[tickets[i][1]] \/ PorCerrar(tickets[i][1])'
    <3> SUFFICES ASSUME NEW i \in 1..Len(tickets), filas'[tickets[i][1]] # tickets[i][2]
                 PROVE  PorCerrar(tickets[i][1])'
      OBVIOUS
    <3>1. v.tipo # "listar" /\ v.paso = "hecho" /\ tickets[i][1] = v.fila
      BY <1>3, <1>5, <2>3
    <3>2. v.tipo = "cerrar"
      BY <1>1, <1>3, <1>5, <2>3, <2>4, <3>1, Formas DEF Paginas!EnLista
    <3>3. QED
      BY <1>1, <1>4, <3>1, <3>2 DEF PorCerrar
  <2>6. v.tipo # "listar" => Sabe(q)'
    <3> SUFFICES ASSUME v.tipo # "listar" PROVE Sabe(q)'
      OBVIOUS
    <3>1. envio[q].estaba = Paginas!EnLista(envio[q].fila)
      BY <1>3, <1>4 DEF ListaFiel, Sabe
    <3>2. (envio[q].estaba = Paginas!EnLista(envio[q].fila))'
      <4>1. envio'[q].estaba = envio[q].estaba /\ envio'[q].fila = envio[q].fila /\ tickets' = tickets
        BY <1>1, <1>3, <1>4
      <4>2. QED
        BY <3>1, <4>1 DEF Paginas!EnLista
    <3>3. envio'[q].paso = "hecho" =>
            /\ envio'[q].estado = filas'[envio'[q].fila]
            /\ envio'[q].tipo = "crear" => ~Paginas!EnLista(envio[q].fila)'
      BY <1>1, <1>4, <1>5, <2>4 DEF Paginas!EnLista
    <3>4. QED
      BY <3>2, <3>3 DEF Sabe
  <2>7. \A r \in Paginas!Ocupados' : envio'[r].tipo # "listar" => Sabe(r)'
    BY <1>4, <2>1, <2>6
  <2>8. QED
    BY <1>1, <2>2, <2>5, <2>7 DEF ListaFiel
<1>11. QED
  BY <1>7, <1>8, <1>9, <1>10

\* A lost request and a stranger leave doubt about everything.
LEMMA DudaVista ==
  ASSUME IndVista, TipoPagina', tablaDudosa', listaDudosa'
  PROVE  IndVista'
BY DEF IndVista, Suelta, TablaFiel, ListaFiel

LEMMA AjenoVista ==
  ASSUME IndVista, NEW f \in Filas, Paginas!Ajeno(f)
  PROVE  IndVista'
<1>1. filas' \in Paginas!Tabla /\ retenidos' \subseteq Filas
  <2>1. PICK tipo \in {"crear", "cerrar"} : Paginas!Hacer(tipo, f)
    BY DEF Paginas!Ajeno
  <2>2. filas \in Paginas!Tabla /\ retenidos \subseteq Filas
    BY DEF IndVista, TipoPagina, Paginas!TypeOK
  <2>3. Paginas!Resultado(tipo, f) \in Paginas!Estados
    BY DEF Paginas!Resultado, Paginas!Estados
  <2>4. QED
    BY <2>1, <2>2, <2>3 DEF Paginas!Hacer, Paginas!Tabla
<1>2. Paginas!TypeOK' /\ Paginas!Ocupados' = Paginas!Ocupados
  BY <1>1 DEF Paginas!Ajeno, Paginas!PaginaIgual, IndVista, TipoPagina, Paginas!TypeOK, Paginas!Ocupados,
       Paginas!Envio, Paginas!Tabla, Paginas!Estados, Paginas!Libre
<1>3. TipoPagina'
  BY <1>2 DEF Paginas!Ajeno, Paginas!PaginaIgual, IndVista, TipoPagina, Paginas!Estados, Paginas!Ocupados
<1>4. QED
  BY <1>3, DudaVista DEF Paginas!Ajeno

\* Nothing that a request knows has changed.
LEMMA SabeIgual ==
  ASSUME NEW q, Sabe(q), envio'[q] = envio[q], UNCHANGED <<tickets, filas>>
  PROVE  Sabe(q)'
<1>1. /\ envio[q].estaba = Paginas!EnLista(envio[q].fila)
      /\ envio[q].paso = "hecho" => envio[q].estado = filas[envio[q].fila]
      /\ envio[q].paso = "hecho" /\ envio[q].tipo = "crear" => ~Paginas!EnLista(envio[q].fila)
  BY DEF Sabe
<1>2. (envio[q].estaba = Paginas!EnLista(envio[q].fila))'
  BY <1>1 DEF Paginas!EnLista
<1>3. (envio[q].paso = "hecho" /\ envio[q].tipo = "crear" => ~Paginas!EnLista(envio[q].fila))'
  BY <1>1 DEF Paginas!EnLista
<1>4. (envio[q].paso = "hecho" => envio[q].estado = filas[envio[q].fila])'
  BY <1>1
<1>5. QED
  BY <1>2, <1>3, <1>4 DEF Sabe

LEMMA ListaFielIgual ==
  ASSUME ListaFiel, UNCHANGED <<tickets, filas, envio, listaDudosa>>
  PROVE  ListaFiel'
<1> SUFFICES ASSUME ~listaDudosa PROVE ListaFiel'
  BY DEF ListaFiel
<1>1. Paginas!Ocupados' = Paginas!Ocupados
  BY DEF Paginas!Ocupados, Paginas!Libre
<1>2. SinRepetir'
  BY DEF ListaFiel, SinRepetir
<1>3. \A i \in 1..Len(tickets) : tickets[i][2] = filas[tickets[i][1]] \/ PorCerrar(tickets[i][1])'
  BY <1>1 DEF ListaFiel, PorCerrar
<1>4. \A q \in Paginas!Ocupados : envio[q].tipo # "listar" => Sabe(q)'
  BY SabeIgual DEF ListaFiel
<1>5. QED
  BY <1>1, <1>2, <1>3, <1>4 DEF ListaFiel

LEMMA RetrasarVista ==
  ASSUME IndVista, NEW f \in Filas, Paginas!Retrasar(f)
  PROVE  IndVista'
<1>1. /\ TipoPagina /\ Paginas!TypeOK /\ tablaDudosa'
      /\ UNCHANGED <<clase, cargando, tabla, tickets, registro, filas, envio, pedidos, listaDudosa>>
  BY DEF Paginas!Retrasar, Paginas!PaginaIgual, IndVista, TipoPagina
<1>2. retenidos' \subseteq Filas
  BY <1>1 DEF Paginas!Retrasar, Paginas!TypeOK
<1>3. tablaDudosa' \in BOOLEAN
  BY DEF Paginas!Retrasar
<1>4. Paginas!Ocupados' = Paginas!Ocupados
  BY <1>1 DEF Paginas!Ocupados, Paginas!Libre
<1>5. Paginas!TypeOK'
  BY <1>1, <1>2, <1>3 DEF Paginas!TypeOK, Paginas!Envio, Paginas!Tabla, Paginas!Estados, Paginas!Libre
<1>6. TipoPagina'
  BY <1>1, <1>4, <1>5 DEF TipoPagina, Paginas!Estados
<1>7. Suelta' /\ TablaFiel'
  BY <1>1, <1>4 DEF IndVista, Suelta, TablaFiel
<1>8. ListaFiel'
  BY <1>1, ListaFielIgual DEF IndVista
<1>9. QED
  BY <1>6, <1>7, <1>8 DEF IndVista

LEMMA PerderVista ==
  ASSUME IndVista, NEW q \in Envios, Paginas!Perder(q)
  PROVE  IndVista'
<1>1. TipoPagina /\ Paginas!TypeOK /\ envio[q] # Paginas!Libre /\ envio[q].paso = "enviado"
  BY DEF Paginas!Perder, IndVista, TipoPagina
<1>2. PICK v \in Paginas!Envio :
        /\ envio' = [envio EXCEPT ![q] = v]
        /\ v.tipo = envio[q].tipo /\ v.paso = "error"
        /\ v.tipo # "listar" => v.fila = envio[q].fila /\ v.estaba = envio[q].estaba
  <2>1. envio' = [envio EXCEPT ![q].paso = "error"]
    BY DEF Paginas!Perder
  <2>2. envio[q] # Paginas!Libre /\ envio[q].paso = "enviado" /\ Paginas!TypeOK
    BY <1>1
  <2>3. QED
    BY <2>1, <2>2, Falla
<1>3. /\ envio'[q] = v /\ \A o \in Envios : o # q => envio'[o] = envio[o]
      /\ Paginas!Ocupados' = Paginas!Ocupados \cup {q}
  BY <1>1, <1>2, Cambia, NoLibre
<1>4. filas' \in Paginas!Tabla /\ retenidos' \subseteq Filas
  <2>1. filas \in Paginas!Tabla /\ retenidos \subseteq Filas
    BY <1>1 DEF Paginas!TypeOK
  <2>2. CASE Paginas!ServicioIgual
    BY <2>1, <2>2 DEF Paginas!ServicioIgual
  <2>3. CASE /\ envio[q].tipo # "listar" /\ Paginas!Puede(envio[q].tipo, envio[q].fila)
             /\ Paginas!Hacer(envio[q].tipo, envio[q].fila)
    <3>1. envio[q].fila \in Filas /\ filas' \in Paginas!Tabla
      BY <1>1, <2>3, Queda, Formas DEF Paginas!Hacer
    <3>2. QED
      BY <2>1, <2>3, <3>1 DEF Paginas!Hacer
  <2>4. CASE envio[q].tipo = "crear" /\ retenidos' = retenidos \cup {envio[q].fila} /\ UNCHANGED filas
    BY <1>1, <2>1, <2>4, Formas
  <2>5. QED
    BY <2>2, <2>3, <2>4 DEF Paginas!Perder
<1>5. envio' \in [Envios -> Paginas!Envio \cup {Paginas!Libre}]
  BY <1>1, <1>2 DEF Paginas!TypeOK
<1>6. Paginas!TypeOK'
  BY <1>1, <1>4, <1>5 DEF Paginas!Perder, Paginas!PaginaIgual, Paginas!TypeOK, Paginas!Envio, Paginas!Tabla,
       Paginas!Estados, Paginas!Libre
<1>7. TipoPagina'
  BY <1>1, <1>2, <1>3, <1>6 DEF Paginas!Perder, Paginas!PaginaIgual, TipoPagina, Paginas!Estados, Paginas!Ocupados
<1>8. QED
  BY <1>7, DudaVista DEF Paginas!Perder

LEMMA RecibirTablaVista ==
  ASSUME IndVista, NEW q \in Envios, Paginas!RecibirTabla(q)
  PROVE  IndVista'
<1>1. /\ TipoPagina /\ Paginas!TypeOK /\ q \in Paginas!Ocupados /\ envio[q].tipo = "listar" /\ envio[q].paso # "enviado"
      /\ envio' = [envio EXCEPT ![q] = Paginas!Libre]
      /\ UNCHANGED <<clase, tickets, filas, retenidos, pedidos, tablaDudosa, listaDudosa>>
  BY DEF Paginas!RecibirTabla, Paginas!HistoriaIgual, IndVista, TipoPagina, Paginas!Ocupados
<1>2. (\A o \in Envios : o # q => envio'[o] = envio[o]) /\ Paginas!Ocupados' = Paginas!Ocupados \ {q}
  BY <1>1, Cambia DEF Paginas!Ocupados
<1>3. tabla' \in Paginas!Tabla /\ registro' \in BOOLEAN /\ cargando' \in BOOLEAN
  BY <1>1, Formas DEF Paginas!RecibirTabla, Paginas!TrasFallar, Paginas!TypeOK, Paginas!Vacia, Paginas!Tabla,
       Paginas!Estados, Paginas!Ocupados
<1>4. TipoPagina'
  <2>1. envio' \in [Envios -> Paginas!Envio \cup {Paginas!Libre}]
    BY <1>1 DEF Paginas!TypeOK
  <2>2. Paginas!TypeOK'
    BY <1>1, <1>3, <2>1 DEF Paginas!TypeOK, Paginas!Envio, Paginas!Tabla, Paginas!Estados, Paginas!Libre
  <2>3. QED
    BY <1>1, <1>2, <2>2 DEF TipoPagina, Paginas!Estados, Paginas!Ocupados
<1>5. Suelta'
  BY <1>1, <1>2 DEF IndVista, Suelta
<1>6. ASSUME \A r, s \in Paginas!Ocupados : r = s PROVE Paginas!Ocupados' = {}
  BY <1>1, <1>2, <1>6
<1>7. TablaFiel'
  <2> SUFFICES ASSUME ~tablaDudosa PROVE tabla' = Paginas!Lista /\ Paginas!Ocupados' = {}
    BY <1>1, ListaIgual DEF TablaFiel
  <2>1. Paginas!Ocupados' = {}
    BY <1>6 DEF IndVista, Suelta
  <2>2. envio[q].paso = "hecho" /\ envio[q].tabla = Paginas!Lista
    BY <1>1 DEF IndVista, TablaFiel
  <2>3. QED
    BY <2>1, <2>2 DEF Paginas!RecibirTabla
<1>8. ListaFiel'
  <2> SUFFICES ASSUME ~listaDudosa PROVE ListaFiel'
    BY <1>1 DEF ListaFiel
  <2>1. Paginas!Ocupados' = {} /\ Paginas!Ocupados = {q}
    BY <1>1, <1>6 DEF IndVista, Suelta
  <2>2. \A i \in 1..Len(tickets) : tickets[i][2] = filas[tickets[i][1]]
    BY <1>1, <2>1 DEF IndVista, ListaFiel, PorCerrar
  <2>3. SinRepetir'
    BY <1>1 DEF IndVista, ListaFiel, SinRepetir
  <2>4. QED
    BY <1>1, <2>1, <2>2, <2>3 DEF ListaFiel
<1>9. QED
  BY <1>4, <1>5, <1>7, <1>8 DEF IndVista

LEMMA RecibirErrorVista ==
  ASSUME IndVista, NEW q \in Envios, Paginas!RecibirError(q)
  PROVE  IndVista'
<1>1. /\ TipoPagina /\ Paginas!TypeOK /\ q \in Paginas!Ocupados /\ envio[q].tipo # "listar" /\ envio[q].paso = "error"
      /\ envio' = [envio EXCEPT ![q] = Paginas!Libre]
      /\ UNCHANGED <<clase, cargando, tabla, tickets, registro, filas, retenidos, pedidos, tablaDudosa, listaDudosa>>
  BY DEF Paginas!RecibirError, Paginas!PaginaIgual, Paginas!HistoriaIgual, IndVista, TipoPagina, Paginas!Ocupados
<1>2. (\A o \in Envios : o # q => envio'[o] = envio[o]) /\ Paginas!Ocupados' = Paginas!Ocupados \ {q}
  BY <1>1, Cambia DEF Paginas!Ocupados
<1>3. TipoPagina'
  <2>1. envio' \in [Envios -> Paginas!Envio \cup {Paginas!Libre}]
    BY <1>1 DEF Paginas!TypeOK
  <2>2. Paginas!TypeOK'
    BY <1>1, <2>1 DEF Paginas!TypeOK, Paginas!Envio, Paginas!Tabla, Paginas!Estados, Paginas!Libre
  <2>3. QED
    BY <1>1, <1>2, <2>2 DEF TipoPagina, Paginas!Estados, Paginas!Ocupados
<1>4. Suelta'
  BY <1>1, <1>2 DEF IndVista, Suelta
<1>5. ASSUME \A r, s \in Paginas!Ocupados : r = s PROVE Paginas!Ocupados' = {} /\ Paginas!Ocupados = {q}
  BY <1>1, <1>2, <1>5
<1>6. TablaFiel'
  <2> SUFFICES ASSUME ~tablaDudosa PROVE tabla = Paginas!Lista /\ Paginas!Ocupados' = {}
    BY <1>1, ListaIgual DEF TablaFiel
  <2>1. Paginas!Ocupados' = {} /\ Paginas!Ocupados = {q}
    BY <1>5 DEF IndVista, Suelta
  <2>2. QED
    BY <1>1, <2>1 DEF IndVista, TablaFiel, Refresca
<1>7. ListaFiel'
  <2> SUFFICES ASSUME ~listaDudosa PROVE ListaFiel'
    BY <1>1 DEF ListaFiel
  <2>1. Paginas!Ocupados' = {} /\ Paginas!Ocupados = {q}
    BY <1>5 DEF IndVista, Suelta
  <2>2. \A i \in 1..Len(tickets) : tickets[i][2] = filas[tickets[i][1]]
    BY <1>1, <2>1 DEF IndVista, ListaFiel, PorCerrar
  <2>3. SinRepetir'
    BY <1>1 DEF IndVista, ListaFiel, SinRepetir
  <2>4. QED
    BY <1>1, <2>1, <2>2, <2>3 DEF ListaFiel
<1>8. QED
  BY <1>3, <1>4, <1>6, <1>7 DEF IndVista

\* What the page does without its service.
LEMMA QuietaVista ==
  ASSUME IndVista, Paginas!Abrir \/ Paginas!Alternar \/ UNCHANGED Paginas!vars
  PROVE  IndVista'
<1>1. UNCHANGED <<clase, cargando, tabla, tickets, filas, retenidos, envio, tablaDudosa, listaDudosa>>
  BY DEF Paginas!Abrir, Paginas!Alternar, Paginas!PaginaIgual, Paginas!HistoriaIgual, Paginas!vars
<1>2. Paginas!TypeOK /\ registro' \in BOOLEAN /\ pedidos' \in 0..MaxPedidos
  <2>1. Paginas!TypeOK /\ registro \in BOOLEAN /\ pedidos \in 0..MaxPedidos
    BY DEF IndVista, TipoPagina, Paginas!TypeOK
  <2>2. CASE Paginas!Abrir
    BY <2>1, <2>2 DEF Paginas!Abrir
  <2>3. CASE Paginas!Alternar
    BY <2>1, <2>3, Cota DEF Paginas!Alternar, Paginas!PaginaIgual
  <2>4. CASE UNCHANGED Paginas!vars
    BY <2>1, <2>4 DEF Paginas!vars
  <2>5. QED
    BY <2>1, <2>2, <2>3, <2>4
<1>3. Paginas!Ocupados' = Paginas!Ocupados
  BY <1>1 DEF Paginas!Ocupados, Paginas!Libre
<1>4. Paginas!TypeOK'
  BY <1>1, <1>2 DEF Paginas!TypeOK, Paginas!Envio, Paginas!Tabla, Paginas!Estados, Paginas!Libre
<1>5. TipoPagina'
  BY <1>1, <1>3, <1>4 DEF IndVista, TipoPagina, Paginas!Estados
<1>6. Suelta' /\ TablaFiel'
  BY <1>1, <1>3, ListaIgual DEF IndVista, Suelta, TablaFiel, Refresca
<1>7. ListaFiel'
  BY <1>1, ListaFielIgual DEF IndVista
<1>8. QED
  BY <1>5, <1>6, <1>7 DEF IndVista

LEMMA PulsarVista ==
  ASSUME IndVista, NEW q \in Envios, NEW f \in Filas, NEW tipo \in {"crear", "cerrar", "buscar"},
         Paginas!Pulsar(q, tipo, f)
  PROVE  IndVista'
<1> DEFINE v == [tipo |-> tipo, paso |-> "enviado", fila |-> f, estaba |-> Paginas!EnLista(f)]
<1>1. /\ TipoPagina /\ Paginas!TypeOK /\ envio[q] = Paginas!Libre
      /\ envio' = [envio EXCEPT ![q] = v]
      /\ UNCHANGED <<clase, cargando, tabla, tickets, registro, filas, retenidos>>
  BY DEF Paginas!Pulsar, Paginas!PaginaIgual, Paginas!ServicioIgual, IndVista, TipoPagina
<1>2. Paginas!EnLista(f) \in BOOLEAN /\ v \in Paginas!Envio
  BY DEF Paginas!EnLista, Paginas!Envio
<1>3. /\ envio'[q] = v /\ \A o \in Envios : o # q => envio'[o] = envio[o]
      /\ q \notin Paginas!Ocupados /\ Paginas!Ocupados' = Paginas!Ocupados \cup {q}
  BY <1>1, <1>2, Cambia, NoLibre DEF Paginas!Ocupados
<1>4. IF Paginas!Ocupados # {} THEN tablaDudosa' = TRUE /\ listaDudosa' = TRUE
      ELSE tablaDudosa' = tablaDudosa /\ listaDudosa' = listaDudosa
  BY <1>1 DEF Paginas!Pulsar, Paginas!Perturbar, Paginas!TypeOK
<1>5. TipoPagina'
  <2>1. envio' \in [Envios -> Paginas!Envio \cup {Paginas!Libre}]
    BY <1>1, <1>2 DEF Paginas!TypeOK
  <2>2. pedidos' \in 0..MaxPedidos
    BY <1>1, Cota DEF Paginas!Pulsar, Paginas!TypeOK
  <2>3. Paginas!TypeOK'
    BY <1>1, <1>4, <2>1, <2>2 DEF Paginas!TypeOK, Paginas!Envio, Paginas!Tabla, Paginas!Estados, Paginas!Libre
  <2>4. QED
    BY <1>1, <1>3, <2>3 DEF TipoPagina, Paginas!Estados
<1>6. CASE Paginas!Ocupados # {}
  BY <1>4, <1>5, <1>6, DudaVista
<1>7. CASE Paginas!Ocupados = {}
  <2>1. Paginas!Ocupados' = {q} /\ UNCHANGED <<tablaDudosa, listaDudosa>>
    BY <1>3, <1>4, <1>7
  <2>2. Suelta'
    BY <2>1 DEF Suelta
  <2>3. TablaFiel'
    BY <1>1, <1>3, <1>7, <2>1, ListaIgual DEF IndVista, TablaFiel
  <2>4. ListaFiel'
    <3> SUFFICES ASSUME ~listaDudosa PROVE ListaFiel'
      BY <2>1 DEF ListaFiel
    <3>1. \A i \in 1..Len(tickets) : tickets[i][2] = filas[tickets[i][1]]
      BY <1>7 DEF IndVista, ListaFiel, PorCerrar
    <3>2. SinRepetir'
      BY <1>1 DEF IndVista, ListaFiel, SinRepetir
    <3>3. Sabe(q)'
      <4>1. envio'[q].estaba = Paginas!EnLista(f) /\ envio'[q].fila = f /\ envio'[q].paso = "enviado"
        BY <1>3
      <4>2. (envio[q].estaba = Paginas!EnLista(envio[q].fila))'
        BY <1>1, <4>1 DEF Paginas!EnLista
      <4>3. QED
        BY <4>1, <4>2 DEF Sabe
    <3>4. QED
      BY <1>1, <2>1, <3>1, <3>2, <3>3 DEF ListaFiel
  <2>5. QED
    BY <1>5, <2>2, <2>3, <2>4 DEF IndVista
<1>8. QED
  BY <1>6, <1>7

\* An answer goes into the list where its request saw it, or in front.
LEMMA Incorporada ==
  ASSUME TipoPagina, NEW q \in Paginas!Ocupados, envio[q].tipo # "listar", envio[q].paso = "hecho",
         tickets' = Paginas!Incorporar(envio[q]), UNCHANGED <<clase, filas>>
  PROVE  /\ tickets' \in Seq(Filas \X (Paginas!Estados \ {"no"}))
         /\ clase # "tickets" => tickets' = <<>>
         /\ SinRepetir /\ Sabe(q)
              /\ (\A i \in 1..Len(tickets) : tickets[i][2] = filas[tickets[i][1]] \/ tickets[i][1] = envio[q].fila) =>
              /\ SinRepetir'
              /\ \A i \in 1..Len(tickets') : tickets'[i][2] = filas[tickets'[i][1]]
<1> DEFINE T == Filas \X (Paginas!Estados \ {"no"})
           e == envio[q]
           n == <<e.fila, e.estado>>
<1>1. n \in T /\ n[1] = e.fila /\ n[2] = e.estado /\ e.tipo \in {"crear", "cerrar", "buscar"}
  BY Formas DEF TipoPagina, Paginas!Ocupados
<1> HIDE DEF n
<1>2. tickets \in Seq(T) /\ Len(tickets) \in Nat /\ \A i \in 1..Len(tickets) : tickets[i] \in T
  BY DEF TipoPagina
<1>3. CASE clase # "tickets"
  BY <1>3 DEF Paginas!Incorporar, TipoPagina, SinRepetir
<1>4. CASE clase = "tickets" /\ (e.tipo = "crear" \/ (e.tipo = "buscar" /\ ~e.estaba))
  <2>1. tickets' = <<n>> \o tickets
    BY <1>4 DEF Paginas!Incorporar, n
  <2>2. /\ tickets' \in Seq(T) /\ Len(tickets') = Len(tickets) + 1
        /\ tickets'[1] = n
        /\ \A i \in 1..Len(tickets) : tickets'[i + 1] = tickets[i]
    BY <1>1, <1>2, <2>1
  <2>3. \A i \in 1..Len(tickets') : i = 1 \/ (i - 1 \in 1..Len(tickets) /\ tickets'[i] = tickets[i - 1])
    <3> SUFFICES ASSUME NEW i \in 1..Len(tickets'),
    i # 1 PROVE i - 1 \in 1..Len(tickets) /\ tickets'[i] = tickets[i - 1]
      OBVIOUS
    <3>1. i - 1 \in 1..Len(tickets) /\ (i - 1) + 1 = i
      BY <1>2, <2>2
    <3>2. QED
      BY <2>2, <3>1
  <2>4. ASSUME SinRepetir, Sabe(q),
               \A i \in 1..Len(tickets) : tickets[i][2] = filas[tickets[i][1]] \/ tickets[i][1] = e.fila
        PROVE  /\ SinRepetir'
               /\ \A i \in 1..Len(tickets') : tickets'[i][2] = filas[tickets'[i][1]]
    <3>1. (\A i \in 1..Len(tickets) : tickets[i][1] # e.fila) /\ e.estado = filas[e.fila]
      BY <1>4, <2>4 DEF Sabe, Paginas!EnLista
    <3>2. SinRepetir'
      <4> SUFFICES ASSUME NEW i \in 1..Len(tickets'), NEW j \in 1..Len(tickets'), tickets'[i][1] = tickets'[j][1]
                   PROVE  i = j
        BY DEF SinRepetir
      <4>1. \A k \in 1..Len(tickets') : tickets'[k][1] = e.fila <=> k = 1
        BY <1>1, <2>2, <2>3, <3>1
      <4>2. ASSUME i # 1, j # 1 PROVE i = j
        <5>1. i - 1 = j - 1
          BY <2>3, <2>4, <4>2 DEF SinRepetir
        <5>2. QED
          BY <5>1
      <4>3. QED
        BY <4>1, <4>2
    <3>3. \A i \in 1..Len(tickets') : tickets'[i][2] = filas[tickets'[i][1]]
      BY <1>1, <2>2, <2>3, <2>4, <3>1
    <3>4. QED
      BY <3>2, <3>3
  <2>5. QED
    BY <1>4, <2>2, <2>4
<1>5. CASE clase = "tickets" /\ ~(e.tipo = "crear" \/ (e.tipo = "buscar" /\ ~e.estaba))
  <2>1. tickets' = [i \in 1..Len(tickets) |-> IF tickets[i][1] = e.fila THEN n ELSE tickets[i]]
    BY <1>5 DEF Paginas!Incorporar, Paginas!Reemplazar, n
  <2>2. /\ tickets' \in Seq(T) /\ Len(tickets') = Len(tickets)
        /\ \A i \in 1..Len(tickets) : tickets'[i] = IF tickets[i][1] = e.fila THEN n ELSE tickets[i]
    BY <1>1, <1>2, <2>1
  <2>3. ASSUME SinRepetir, Sabe(q),
               \A i \in 1..Len(tickets) : tickets[i][2] = filas[tickets[i][1]] \/ tickets[i][1] = e.fila
        PROVE  /\ SinRepetir'
               /\ \A i \in 1..Len(tickets') : tickets'[i][2] = filas[tickets'[i][1]]
    BY <1>1, <2>2, <2>3 DEF SinRepetir, Sabe
  <2>4. QED
    BY <1>5, <2>2, <2>3
<1>6. QED
  BY <1>3, <1>4, <1>5

LEMMA RecibirVista ==
  ASSUME IndVista, NEW q \in Envios, Paginas!Recibir(q)
  PROVE  IndVista'
<1> DEFINE v == IF envio[q].tipo = "buscar" THEN Paginas!Libre ELSE [tipo |-> "listar", paso |-> "enviado"]
<1>1. /\ TipoPagina /\ Paginas!TypeOK /\ q \in Paginas!Ocupados /\ envio[q].tipo # "listar" /\ envio[q].paso = "hecho"
      /\ tickets' = Paginas!Incorporar(envio[q])
      /\ UNCHANGED <<clase, cargando, tabla, filas, retenidos, pedidos>>
  BY DEF Paginas!Recibir, IndVista, TipoPagina, Paginas!Ocupados
<1>2. envio' = [envio EXCEPT ![q] = v]
  BY DEF Paginas!Recibir, Paginas!Recargar
<1>3. /\ envio[q].tipo = "buscar" => UNCHANGED <<tablaDudosa, listaDudosa>>
      /\ envio[q].tipo # "buscar" =>
           IF Paginas!Ocupados = {q} THEN tablaDudosa' = FALSE /\ listaDudosa' = listaDudosa
           ELSE tablaDudosa' = TRUE /\ listaDudosa' = TRUE
  BY DEF Paginas!Recibir, Paginas!Recargar, Paginas!HistoriaIgual
<1>4. v \in Paginas!Envio \cup {Paginas!Libre} /\ (v # Paginas!Libre => v.tipo = "listar" /\ v.paso = "enviado")
        /\ (envio[q].tipo # "buscar" => v # Paginas!Libre)
  BY DEF Paginas!Envio, Paginas!Libre
<1> HIDE DEF v
<1>5. /\ envio'[q] = v /\ \A o \in Envios : o # q => envio'[o] = envio[o]
      /\ v # Paginas!Libre => Paginas!Ocupados' = Paginas!Ocupados
      /\ v = Paginas!Libre => Paginas!Ocupados' = Paginas!Ocupados \ {q}
  BY <1>1, <1>2, Cambia DEF Paginas!Ocupados
<1>6. TipoPagina'
  <2>1. registro' \in BOOLEAN
    BY DEF Paginas!Recibir
  <2>2. envio' \in [Envios -> Paginas!Envio \cup {Paginas!Libre}]
    BY <1>1, <1>2, <1>4 DEF Paginas!TypeOK
  <2>3. tickets' \in Seq(Filas \X (Paginas!Estados \ {"no"})) /\ (clase # "tickets" => tickets' = <<>>)
    BY <1>1, Incorporada
  <2>4. \A i \in 1..Len(tickets') : tickets'[i] \in Filas \X (Paginas!Estados \ {"no"})
    BY <2>3
  <2>5. Paginas!TypeOK'
    BY <1>1, <1>3, <2>1, <2>2, <2>4 DEF Paginas!TypeOK, Paginas!Envio, Paginas!Tabla, Paginas!Estados, Paginas!Libre
  <2>6. QED
    BY <1>1, <1>4, <1>5, <2>3, <2>5 DEF TipoPagina, Paginas!Estados, Paginas!Ocupados
<1>7. CASE Paginas!Ocupados # {q}
  <2>1. tablaDudosa /\ listaDudosa
    BY <1>1, <1>7 DEF IndVista, Suelta, Paginas!TypeOK
  <2>2. tablaDudosa' /\ listaDudosa'
    BY <1>3, <1>7, <2>1
  <2>3. QED
    BY <1>6, <2>2, DudaVista
<1>8. CASE Paginas!Ocupados = {q}
  <2>1. Suelta'
    BY <1>5, <1>8 DEF Suelta
  <2>2. TablaFiel'
    <3>1. CASE v = Paginas!Libre
      <4>1. ~tablaDudosa => tabla = Paginas!Lista
        BY <1>1, <1>4, <1>8, <3>1 DEF IndVista, TablaFiel, Refresca
      <4>2. QED
        BY <1>1, <1>3, <1>4, <1>5, <1>8, <3>1, <4>1, ListaIgual DEF TablaFiel
    <3>2. CASE v # Paginas!Libre
      BY <1>4, <1>5, <1>8, <3>2 DEF TablaFiel, Refresca
    <3>3. QED
      BY <3>1, <3>2
  <2>3. ListaFiel'
    <3> SUFFICES ASSUME ~listaDudosa PROVE ListaFiel'
      BY <1>3, <1>8 DEF ListaFiel
    <3>1. SinRepetir /\ Sabe(q)
      BY <1>1 DEF IndVista, ListaFiel
    <3>2. \A i \in 1..Len(tickets) : tickets[i][2] = filas[tickets[i][1]] \/ tickets[i][1] = envio[q].fila
      BY <1>8 DEF IndVista, ListaFiel, PorCerrar
    <3>3. SinRepetir' /\ \A i \in 1..Len(tickets') : tickets'[i][2] = filas[tickets'[i][1]]
      BY <1>1, <3>1, <3>2, Incorporada
    <3>4. \A r \in Paginas!Ocupados' : envio'[r].tipo = "listar"
      BY <1>4, <1>5, <1>8
    <3>5. QED
      BY <1>1, <3>3, <3>4 DEF ListaFiel
  <2>4. QED
    BY <1>6, <2>1, <2>2, <2>3 DEF IndVista
<1>9. QED
  BY <1>7, <1>8

LEMMA VistaInicial == Paginas!Init => IndVista
<1> SUFFICES ASSUME Paginas!Init PROVE IndVista
  OBVIOUS
<1>1. PICK q \in Envios :
        envio = [o \in Envios |-> IF o = q THEN [tipo |-> "listar", paso |-> "enviado"] ELSE Paginas!Libre]
  BY DEF Paginas!Init
<1>2. [tipo |-> "listar", paso |-> "enviado"] \in Paginas!Envio
  BY DEF Paginas!Envio
<1>3. /\ envio \in [Envios -> Paginas!Envio \cup {Paginas!Libre}]
      /\ envio[q].tipo = "listar" /\ envio[q].paso = "enviado" /\ Paginas!Ocupados = {q}
  BY <1>1, <1>2, NoLibre DEF Paginas!Ocupados
<1>4. tickets = <<>> /\ Len(tickets) = 0
  BY DEF Paginas!Init
<1>5. Paginas!TypeOK
  <2>1. filas \in Paginas!Tabla /\ tabla \in Paginas!Tabla
    BY DEF Paginas!Init, Paginas!Vacia, Paginas!Tabla, Paginas!Estados
  <2>2. pedidos \in 0..MaxPedidos
    <3>1. pedidos = 0
      BY DEF Paginas!Init
    <3>2. QED
      BY <3>1, Cota
  <2>3. cargando \in BOOLEAN /\ registro \in BOOLEAN /\ tablaDudosa \in BOOLEAN /\ listaDudosa \in BOOLEAN
    BY DEF Paginas!Init
  <2>4. clase \in Clases /\ retenidos \subseteq Filas
    BY DEF Paginas!Init
  <2>5. QED
    BY <1>3, <1>4, <2>1, <2>2, <2>3, <2>4 DEF Paginas!TypeOK
<1>6. TipoPagina
  BY <1>3, <1>4, <1>5 DEF TipoPagina
<1>7. Suelta /\ TablaFiel
  BY <1>3 DEF Suelta, TablaFiel, Refresca
<1>8. ListaFiel
  BY <1>3, <1>4 DEF ListaFiel, SinRepetir
<1>9. QED
  BY <1>6, <1>7, <1>8 DEF IndVista

LEMMA VistaPaso == IndVista /\ [Paginas!Next]_(Paginas!vars) => IndVista'
<1> SUFFICES ASSUME IndVista, [Paginas!Next]_(Paginas!vars) PROVE IndVista'
  OBVIOUS
<1>1. CASE Paginas!Alternar \/ Paginas!Abrir \/ UNCHANGED Paginas!vars
  BY <1>1, QuietaVista
<1>2. ASSUME NEW q \in Envios,
Paginas!Atender(q) \/ Paginas!Perder(q) \/ Paginas!RecibirTabla(q) \/ Paginas!Recibir(q) \/ Paginas!RecibirError(q)
      PROVE  IndVista'
  BY <1>2, AtenderVista, PerderVista, RecibirTablaVista, RecibirVista, RecibirErrorVista
<1>3. ASSUME NEW q \in Envios, NEW f \in Filas, NEW tipo \in {"crear", "cerrar", "buscar"}, Paginas!Pulsar(q, tipo, f)
      PROVE  IndVista'
  BY <1>3, PulsarVista
<1>4. ASSUME NEW f \in Filas, Paginas!Ajeno(f) \/ Paginas!Retrasar(f) PROVE IndVista'
  BY <1>4, AjenoVista, RetrasarVista
<1>5. QED
  BY <1>1, <1>2, <1>3, <1>4 DEF Paginas!Next

LEMMA VistaBasta == IndVista => Paginas!VistaAlDia
<1> SUFFICES ASSUME IndVista, Paginas!Ocupados = {}, ~cargando
             PROVE  /\ ~tablaDudosa => Paginas!SeVe(tabla) = Paginas!SeVe(Paginas!Lista)
                    /\ ~listaDudosa => \A i, j \in 1..Len(tickets) :
                         tickets[i][2] = filas[tickets[i][1]] /\ (tickets[i][1] = tickets[j][1] => i = j)
  BY DEF Paginas!VistaAlDia
<1>1. ~tablaDudosa => tabla = Paginas!Lista
  BY DEF IndVista, TablaFiel
<1>2. ~listaDudosa => \A i, j \in 1..Len(tickets) :
        tickets[i][2] = filas[tickets[i][1]] /\ (tickets[i][1] = tickets[j][1] => i = j)
  BY DEF IndVista, ListaFiel, SinRepetir, PorCerrar
<1>3. QED
  BY <1>1, <1>2

\* A page at rest shows what can be seen of what its service keeps, and each ticket of
\* its list once and as it is, in whatever order its own requests were answered one
\* after the other: loadData after each change, and handleCreate, handleSearch,
\* handleSalida and handleAnular of TicketsPage on the list they closed over.  A space
\* that a close leaves occupied, because the call that frees it failed, is shown
\* occupied; once its event frees it, the page is behind until it asks again.
THEOREM Vista == Spec => []VistaAlDia
<1> DEFINE I == modo = "Paginas" => IndVista
<1>1. Init => I
  BY VistaInicial DEF Init
<1>2. I /\ [Next]_vars => I'
  BY ParteElegida, VistaPaso
<1>3. I => VistaAlDia
  BY VistaBasta DEF VistaAlDia
<1>4. QED
  BY <1>1, <1>2, <1>3, PTL DEF Spec

-----------------------------------------------------------------------------
(***************************************************************************)
(* The rows of the audit trail.                                            *)
(***************************************************************************)

LEMMA CotaAuditoria == MaxFallas["Auditoria"] \in Nat
BY PlataformaAssumption

\* An event is stored again only after a failure.
Copias ==
  \A e \in Eventos :
    /\ e \in pendientes \cup esperando => copias[e] = 0 /\ entrega[e] = "no" /\ e \notin cola
    /\ e \in pendientes => e \notin esperando
    /\ e \in cola \/ entrega[e] \in {"validar", "guardar"} => copias[e] <= fallas
    /\ entrega[e] # "no" => e \notin cola
    /\ copias[e] <= fallas + 1

IndAuditoria == Auditoria!TypeOK /\ Copias

LEMMA AuditoriaInicial == Auditoria!Init => IndAuditoria
<1> SUFFICES ASSUME Auditoria!Init PROVE IndAuditoria
  OBVIOUS
<1>1. fallas = 0 /\ cruces = 0 /\ copias \in [Eventos -> {0}] /\ 0 \in 0..MaxFallas["Auditoria"]
  BY CotaAuditoria DEF Auditoria!Init
<1>2. copias \in [Eventos -> 0..MaxFallas["Auditoria"] + 1]
  BY <1>1, CotaAuditoria
<1>3. temporizador \in BOOLEAN /\ ligada \in BOOLEAN
  BY DEF Auditoria!Init
<1>4. /\ cola = {} /\ esperando = {} /\ perdidos = {} /\ pendientes = Eventos
      /\ entrega = [e \in Eventos |-> "no"]
  BY DEF Auditoria!Init
<1>5. Auditoria!TypeOK
  BY <1>1, <1>2, <1>3, <1>4 DEF Auditoria!Init, Auditoria!TypeOK
<1>6. Copias
  BY <1>1, <1>4 DEF Copias
<1>7. QED
  BY <1>5, <1>6 DEF IndAuditoria

\* The publisher, whose events nobody has stored.
LEMMA AuditoriaPublica ==
  ASSUME IndAuditoria, NEW e \in Eventos,
         Auditoria!Publicar(e) \/ Auditoria!FallarPublicacion(e) \/ Auditoria!PublicarSuelto(e)
  PROVE  IndAuditoria'
<1>1. Auditoria!TypeOK'
  <2>1. CASE Auditoria!Publicar(e)
    BY <2>1, CotaAuditoria DEF Auditoria!Publicar, Auditoria!Conectar, Auditoria!Encolar, Auditoria!Perder,
       Auditoria!Consumidor, IndAuditoria, Auditoria!TypeOK
  <2>2. CASE Auditoria!PublicarSuelto(e)
    BY <2>2, CotaAuditoria DEF Auditoria!PublicarSuelto, Auditoria!Encolar, Auditoria!Perder,
       Auditoria!Consumidor, Auditoria!editor, IndAuditoria, Auditoria!TypeOK
  <2>3. CASE Auditoria!FallarPublicacion(e)
    BY <2>3, CotaAuditoria DEF Auditoria!FallarPublicacion, Auditoria!Perder, Auditoria!Consumidor, IndAuditoria,
       Auditoria!TypeOK
  <2>4. QED
    BY <2>1, <2>2, <2>3
<1>2. /\ e \in pendientes /\ pendientes' = pendientes \ {e}
      /\ esperando' \subseteq esperando \cup {e} /\ cola' \subseteq cola \cup {e}
      /\ e \notin esperando' \/ e \notin cola'
      /\ UNCHANGED <<entrega, copias>> /\ fallas' \in {fallas, fallas + 1}
  <2>1. CASE Auditoria!Publicar(e)
    BY <2>1 DEF Auditoria!Publicar, Auditoria!Encolar, Auditoria!Perder, Auditoria!Consumidor, IndAuditoria, Copias
  <2>2. CASE Auditoria!PublicarSuelto(e)
    BY <2>2 DEF Auditoria!PublicarSuelto, Auditoria!Encolar, Auditoria!Perder, Auditoria!Consumidor,
       Auditoria!editor, IndAuditoria, Copias
  <2>3. CASE Auditoria!FallarPublicacion(e)
    BY <2>3 DEF Auditoria!FallarPublicacion, Auditoria!Perder, Auditoria!Consumidor, IndAuditoria, Copias
  <2>4. QED
    BY <2>1, <2>2, <2>3
<1>3. fallas \in Nat /\ copias \in [Eventos -> Nat]
  BY CotaAuditoria DEF IndAuditoria, Auditoria!TypeOK
<1>4. Copias'
  BY <1>2, <1>3 DEF IndAuditoria, Copias
<1>5. QED
  BY <1>1, <1>4 DEF IndAuditoria

LEMMA AuditoriaConecta ==
  ASSUME IndAuditoria,
         \/ Auditoria!Abrir \/ Auditoria!Establecer \/ Auditoria!FallarIntento \/ Auditoria!Vencer
         \/ \E c \in Conexiones : Auditoria!Cortar(c) \/ Auditoria!Avisar(c)
  PROVE  IndAuditoria'
<1>1. Auditoria!TypeOK'
  <2>1. CASE Auditoria!Abrir
    BY <2>1 DEF Auditoria!Abrir, Auditoria!Consumidor, IndAuditoria, Auditoria!TypeOK
  <2>2. CASE Auditoria!Establecer
    BY <2>2 DEF Auditoria!Establecer, Auditoria!Encolar, Auditoria!Consumidor, IndAuditoria, Auditoria!TypeOK
  <2>3. CASE Auditoria!FallarIntento
    BY <2>3, CotaAuditoria DEF Auditoria!FallarIntento, Auditoria!Perder, Auditoria!Consumidor, IndAuditoria,
       Auditoria!TypeOK
  <2>4. CASE Auditoria!Vencer
    <3>1. temporizador' \in BOOLEAN
      BY <2>4 DEF Auditoria!Vencer
    <3>2. cruces' \in Nat /\ intento' \in {"no", "abriendo"} \cup Conexiones
      BY <2>4 DEF Auditoria!Vencer, Auditoria!Conectar, IndAuditoria, Auditoria!TypeOK
    <3>3. UNCHANGED <<canal, vivas, atendidas, avisos, usadas, esperando, pendientes, ligada, cola, entrega,
                      consumidor, copias, perdidos, fallas>>
      BY <2>4 DEF Auditoria!Vencer, Auditoria!Consumidor
    <3>4. QED
      BY <3>1, <3>2, <3>3 DEF IndAuditoria, Auditoria!TypeOK
  <2>5. ASSUME NEW c \in Conexiones, Auditoria!Cortar(c) PROVE Auditoria!TypeOK'
    BY <2>5, CotaAuditoria DEF Auditoria!Cortar, Auditoria!Consumidor, IndAuditoria, Auditoria!TypeOK
  <2>6. ASSUME NEW c \in Conexiones, Auditoria!Avisar(c) PROVE Auditoria!TypeOK'
    BY <2>6 DEF Auditoria!Avisar, Auditoria!Consumidor, IndAuditoria, Auditoria!TypeOK
  <2>7. QED
    BY <2>1, <2>2, <2>3, <2>4, <2>5, <2>6
<1>2. /\ pendientes' = pendientes /\ esperando' \subseteq esperando /\ cola' \subseteq cola \cup esperando
      /\ cola' = cola \/ esperando' = {}
      /\ UNCHANGED <<entrega, copias>> /\ fallas' \in {fallas, fallas + 1}
  BY DEF Auditoria!Abrir, Auditoria!Establecer, Auditoria!FallarIntento, Auditoria!Vencer, Auditoria!Cortar,
     Auditoria!Avisar, Auditoria!Encolar, Auditoria!Perder, Auditoria!Consumidor
<1>3. fallas \in Nat /\ copias \in [Eventos -> Nat]
  BY CotaAuditoria DEF IndAuditoria, Auditoria!TypeOK
<1>4. Copias'
  BY <1>2, <1>3 DEF IndAuditoria, Copias
<1>5. QED
  BY <1>1, <1>4 DEF IndAuditoria

LEMMA AuditoriaProcesa ==
  ASSUME IndAuditoria, NEW e \in Eventos, Auditoria!Procesar(e)
  PROVE  IndAuditoria'
<1>1. /\ fallas \in Nat /\ fallas <= MaxFallas["Auditoria"] /\ copias \in [Eventos -> Nat]
      /\ entrega \in [Eventos -> {"no", "validar", "guardar", "confirmar"}]
      /\ Auditoria!TypeOK /\ Copias
  BY CotaAuditoria DEF IndAuditoria, Auditoria!TypeOK
<1>2. UNCHANGED <<intento, temporizador, canal, vivas, atendidas, avisos, usadas, esperando, cruces,
                  pendientes, ligada, consumidor>>
  BY DEF Auditoria!Procesar, Auditoria!Recibir, Auditoria!Validar, Auditoria!GuardarEvento, Auditoria!Confirmar,
     Auditoria!editor
<1>3. /\ perdidos' \subseteq perdidos \cup {e} /\ cola' \subseteq cola
      /\ fallas' \in Nat /\ fallas' \in {fallas, fallas + 1} /\ fallas' <= MaxFallas["Auditoria"]
      /\ \E p \in {"no", "validar", "guardar", "confirmar"} :
           /\ entrega' = [entrega EXCEPT ![e] = p]
           /\ \/ copias' = copias /\ (p \in {"validar", "guardar"} => e \in cola \/ entrega[e] \in {"validar", "guardar"})
              \/ p = "confirmar" /\ entrega[e] = "guardar" /\ copias' = [copias EXCEPT ![e] = @ + 1]
           /\ p # "no" => e \notin cola'
      /\ e \in cola \/ entrega[e] # "no"
  <2>1. CASE Auditoria!Recibir(e)
    BY <1>1, <2>1 DEF Auditoria!Recibir, Auditoria!Paso, Copias
  <2>2. CASE Auditoria!Validar(e)
    BY <1>1, <2>2 DEF Auditoria!Validar, Auditoria!Paso, Copias
  <2>3. CASE Auditoria!GuardarEvento(e)
    BY <1>1, <2>3, CotaAuditoria DEF Auditoria!GuardarEvento, Auditoria!Paso, Copias
  <2>4. CASE Auditoria!Confirmar(e)
    BY <1>1, <2>4 DEF Auditoria!Confirmar, Auditoria!Paso
  <2>5. QED
    BY <2>1, <2>2, <2>3, <2>4 DEF Auditoria!Procesar
<1>4. entrega' \in [Eventos -> {"no", "validar", "guardar", "confirmar"}] /\ copias' \in [Eventos -> Nat]
  BY <1>1, <1>3
<1>5. Copias'
  BY <1>1, <1>2, <1>3 DEF Copias
<1>6. copias' \in [Eventos -> 0..MaxFallas["Auditoria"] + 1]
  BY <1>3, <1>4, <1>5, CotaAuditoria DEF Copias
<1>7. Auditoria!TypeOK'
  BY <1>1, <1>2, <1>3, <1>4, <1>6 DEF Auditoria!TypeOK
<1>8. QED
  BY <1>5, <1>7 DEF IndAuditoria

LEMMA AuditoriaConsumidor ==
  ASSUME IndAuditoria, Auditoria!IniciarConsumidor \/ Auditoria!Reintentar \/ Auditoria!Reiniciar
  PROVE  IndAuditoria'
<1>1. /\ UNCHANGED <<intento, temporizador, canal, vivas, atendidas, avisos, usadas, esperando, cruces,
                     pendientes, cola, entrega, copias, perdidos>>
      /\ ligada' \in BOOLEAN /\ consumidor' \in {"detenido", "reintentando", "sordo", "consumiendo"}
      /\ fallas' \in {fallas, fallas + 1} /\ fallas' \in 0..MaxFallas["Auditoria"]
  <2>1. ligada \in BOOLEAN /\ fallas \in 0..MaxFallas["Auditoria"]
    BY DEF IndAuditoria, Auditoria!TypeOK
  <2>2. CASE Auditoria!IniciarConsumidor
    <3>1. ligada' \in BOOLEAN /\ consumidor' \in {"detenido", "reintentando", "sordo", "consumiendo"}
      BY <2>1, <2>2 DEF Auditoria!IniciarConsumidor
    <3>2. fallas' \in {fallas, fallas + 1} /\ fallas' \in 0..MaxFallas["Auditoria"]
      BY <2>1, <2>2, CotaAuditoria DEF Auditoria!IniciarConsumidor
    <3>3. QED
      BY <2>2, <3>1, <3>2 DEF Auditoria!IniciarConsumidor, Auditoria!editor
  <2>3. CASE Auditoria!Reintentar
    BY <2>1, <2>3 DEF Auditoria!Reintentar, Auditoria!editor
  <2>4. CASE Auditoria!Reiniciar
    BY <2>1, <2>4 DEF Auditoria!Reiniciar, Auditoria!editor
  <2>5. QED
    BY <2>2, <2>3, <2>4
<1>2. Auditoria!TypeOK'
  BY <1>1 DEF IndAuditoria, Auditoria!TypeOK
<1>3. fallas \in Nat /\ copias \in [Eventos -> Nat]
  BY CotaAuditoria DEF IndAuditoria, Auditoria!TypeOK
<1>4. Copias'
  BY <1>1, <1>3 DEF IndAuditoria, Copias
<1>5. QED
  BY <1>2, <1>4 DEF IndAuditoria

LEMMA AuditoriaCorta ==
  ASSUME IndAuditoria, Auditoria!CortarConsumidor
  PROVE  IndAuditoria'
<1>1. /\ fallas \in Nat /\ copias \in [Eventos -> Nat] /\ Auditoria!TypeOK /\ Copias
  BY CotaAuditoria DEF IndAuditoria, Auditoria!TypeOK
<1>2. PICK es \in SUBSET {e \in Eventos : entrega[e] = "guardar"} :
        copias' = [e \in Eventos |-> IF e \in es THEN copias[e] + 1 ELSE copias[e]]
  BY DEF Auditoria!CortarConsumidor
<1>3. /\ UNCHANGED <<intento, temporizador, canal, vivas, atendidas, avisos, usadas, esperando, cruces,
                     pendientes, ligada, perdidos>>
      /\ consumidor' \in {"detenido", "sordo"}
      /\ cola' = cola \cup {e \in Eventos : entrega[e] # "no"}
      /\ entrega' = [e \in Eventos |-> "no"]
      /\ fallas' = fallas + 1 /\ fallas' \in 0..MaxFallas["Auditoria"]
  BY <1>1, CotaAuditoria DEF Auditoria!CortarConsumidor, Auditoria!SinConfirmar, Auditoria!editor, Auditoria!TypeOK
<1>4. Copias'
  BY <1>1, <1>2, <1>3 DEF Copias
<1>5. copias' \in [Eventos -> 0..MaxFallas["Auditoria"] + 1]
  BY <1>1, <1>2, <1>3, <1>4, CotaAuditoria DEF Copias
<1>6. Auditoria!TypeOK'
  BY <1>1, <1>3, <1>5 DEF Auditoria!TypeOK
<1>7. QED
  BY <1>4, <1>6 DEF IndAuditoria

LEMMA AuditoriaPaso == IndAuditoria /\ [Auditoria!Next]_(Auditoria!vars) => IndAuditoria'
<1>1. ASSUME IndAuditoria, UNCHANGED Auditoria!vars PROVE IndAuditoria'
  BY <1>1 DEF Auditoria!vars, Auditoria!editor, IndAuditoria, Auditoria!TypeOK, Copias
<1>2. QED
  BY <1>1, AuditoriaPublica, AuditoriaConecta, AuditoriaProcesa, AuditoriaConsumidor, AuditoriaCorta
  DEF Auditoria!Next, Auditoria!Editar

-----------------------------------------------------------------------------
(***************************************************************************)
(* The public dashboard.                                                   *)
(***************************************************************************)

LEMMA CotasTablero == MaxEntradas \in Nat /\ MaxCambios \in Nat /\ MaxFallas["Tablero"] \in Nat
BY PlataformaAssumption

\* A queue holds no more events than there were changes.
IndTablero ==
  /\ Tablero!TypeOK
  /\ formulario \in Nat /\ entradas \in Nat
  /\ \A s \in Tablero!Entradas : colas[s] <= espacios

LEMMA Quietos ==
  /\ Tablero!Consulta' = Tablero!Consulta /\ Tablero!Libre' = Tablero!Libre
  /\ Tablero!Entradas' = Tablero!Entradas /\ Tablero!Entradas = 1..MaxEntradas
BY DEF Tablero!Consulta, Tablero!Libre, Tablero!Entradas

LEMMA TableroInicial == Tablero!Init => IndTablero
<1> SUFFICES ASSUME Tablero!Init PROVE IndTablero
  OBVIOUS
<1>1. token = 0 /\ formulario = 0 /\ entradas = 0 /\ espacios = 0 /\ vista = 0 /\ eventSource = 0 /\ fallas = 0
  BY DEF Tablero!Init
<1>2. /\ caducados = {} /\ intervalo = FALSE
      /\ consulta \in [Consultas -> Tablero!Consulta \cup {Tablero!Libre}]
      /\ fuente \in [Tablero!Entradas -> {"no", "conectando", "abierta", "rota"}]
  BY DEF Tablero!Init
<1>3. colas \in [Tablero!Entradas -> {0}]
  BY DEF Tablero!Init
<1>4. 0 \in 0..MaxEntradas /\ 0 \in 0..MaxCambios /\ 0 \in 0..MaxFallas["Tablero"] /\ 0 + 0 \in 0..MaxEntradas
  BY CotasTablero
<1>5. colas \in [Tablero!Entradas -> 0..MaxCambios] /\ \A s \in Tablero!Entradas : colas[s] <= 0
  BY <1>3, <1>4
<1>6. Tablero!TypeOK
  BY <1>1, <1>2, <1>4, <1>5 DEF Tablero!TypeOK
<1>7. QED
  BY <1>1, <1>5, <1>6 DEF IndTablero

\* A fetch that is on its way or answered knows what it starts.
LEMMA EnCurso ==
  ASSUME IndTablero, NEW q \in Consultas, consulta[q] # Tablero!Libre
  PROVE  /\ consulta[q] \in Tablero!Consulta
         /\ consulta[q].inicia \in 0..MaxEntradas
         /\ consulta[q].paso = "respuesta" => consulta[q].dato \in 0..MaxCambios
BY DEF IndTablero, Tablero!TypeOK, Tablero!Consulta

LEMMA TableroPide ==
  ASSUME IndTablero, NEW q \in Consultas, NEW t \in 0..MaxEntradas, NEW i \in 0..MaxEntradas, Tablero!Pedir(q, t, i)
  PROVE  consulta' \in [Consultas -> Tablero!Consulta \cup {Tablero!Libre}]
BY DEF IndTablero, Tablero!TypeOK, Tablero!Pedir, Tablero!Consulta, Tablero!Libre

LEMMA TableroServicios ==
  ASSUME IndTablero, Tablero!Cambiar \/ Tablero!Caducar \/ Tablero!Enviar \/ Tablero!Salir
  PROVE  IndTablero'
<1>1. CASE Tablero!Cambiar
  <2>1. espacios \in Nat /\ espacios' = espacios + 1 /\ espacios' \in 0..MaxCambios
    BY <1>1, CotasTablero DEF Tablero!Cambiar, IndTablero, Tablero!TypeOK
  <2>2. colas \in [Tablero!Entradas -> Nat] /\ \A s \in Tablero!Entradas : colas[s] <= espacios
    BY DEF IndTablero, Tablero!TypeOK
  <2>3. colas' \in [Tablero!Entradas -> Nat] /\ \A s \in Tablero!Entradas : colas'[s] <= espacios'
    BY <1>1, <2>1, <2>2 DEF Tablero!Cambiar
  <2>4. \A s \in Tablero!Entradas : colas'[s] \in 0..MaxCambios
    BY <2>1, <2>3, CotasTablero
  <2>5. colas' \in [Tablero!Entradas -> 0..MaxCambios]
    BY <2>3, <2>4
  <2>6. UNCHANGED <<token, caducados, formulario, entradas, intervalo, vista, consulta, fuente, eventSource, fallas>>
    BY <1>1 DEF Tablero!Cambiar, Tablero!SesionIgual
  <2>7. QED
    BY <2>1, <2>3, <2>5, <2>6, Quietos DEF IndTablero, Tablero!TypeOK
<1>2. CASE Tablero!Caducar
  BY <1>2, Quietos, CotasTablero DEF Tablero!Caducar, Tablero!ServidorIgual, IndTablero, Tablero!TypeOK
<1>3. CASE Tablero!Enviar
  BY <1>3, Quietos, CotasTablero DEF Tablero!Enviar, Tablero!ServidorIgual, IndTablero, Tablero!TypeOK
<1>4. CASE Tablero!Salir
  BY <1>4, Quietos, CotasTablero DEF Tablero!Salir, IndTablero, Tablero!TypeOK
<1>5. QED
  BY <1>1, <1>2, <1>3, <1>4

LEMMA TableroRed ==
  ASSUME IndTablero, NEW q \in Consultas, Tablero!Responder(q) \/ Tablero!FallarConsulta(q) \/ Tablero!Mostrar(q)
  PROVE  IndTablero'
<1>1. consulta[q] # Tablero!Libre
  BY DEF Tablero!Responder, Tablero!FallarConsulta, Tablero!Mostrar, Tablero!Libre
<1>2. /\ consulta[q].inicia \in 0..MaxEntradas
      /\ consulta[q].paso = "respuesta" => consulta[q].dato \in 0..MaxCambios
  BY <1>1, EnCurso
<1>3. consulta' \in [Consultas -> Tablero!Consulta \cup {Tablero!Libre}]
  <2>1. espacios \in 0..MaxCambios
    BY Quietos DEF IndTablero, Tablero!TypeOK
  <2>2. \E w \in Tablero!Consulta \cup {Tablero!Libre} : consulta' = [consulta EXCEPT ![q] = w]
    <3>1. CASE Tablero!Mostrar(q)
      BY <3>1 DEF Tablero!Mostrar
    <3>2. CASE ~Tablero!Mostrar(q)
      <4>1. /\ [paso |-> "respuesta", dato |-> espacios, inicia |-> consulta[q].inicia] \in Tablero!Consulta
            /\ [paso |-> "error", inicia |-> consulta[q].inicia] \in Tablero!Consulta
        BY <1>2, <2>1 DEF Tablero!Consulta
      <4>2. QED
        BY <3>2, <4>1 DEF Tablero!Responder, Tablero!FallarConsulta
    <3>3. QED
      BY <3>1, <3>2
  <2>3. QED
    BY <2>2, Quietos DEF IndTablero, Tablero!TypeOK, Tablero!Libre
<1>4. CASE Tablero!Responder(q) \/ Tablero!FallarConsulta(q)
  BY <1>3, <1>4, Quietos, CotasTablero DEF Tablero!Responder, Tablero!FallarConsulta, Tablero!SesionIgual,
     Tablero!ServidorIgual, IndTablero, Tablero!TypeOK
<1>5. CASE Tablero!Mostrar(q)
  <2>1. /\ vista' \in 0..MaxCambios /\ intervalo' \in BOOLEAN /\ eventSource' \in 0..MaxEntradas
        /\ fuente' \in [Tablero!Entradas -> {"no", "conectando", "abierta", "rota"}]
    BY <1>2, <1>5, Quietos DEF Tablero!Mostrar, Tablero!Iniciar, IndTablero, Tablero!TypeOK
  <2>2. UNCHANGED <<token, caducados, formulario, entradas, espacios, colas, fallas>>
    BY <1>5 DEF Tablero!Mostrar, Tablero!SesionIgual, Tablero!ServidorIgual
  <2>3. QED
    BY <1>3, <2>1, <2>2, Quietos DEF IndTablero, Tablero!TypeOK
<1>6. QED
  BY <1>4, <1>5

LEMMA TableroPagina ==
  ASSUME IndTablero, NEW q \in Consultas,
         Tablero!Entrar(q) \/ Tablero!Recargar(q) \/ Tablero!Tocar(q) \/ \E s \in Tablero!Entradas : Tablero!Avisar(q, s)
  PROVE  IndTablero'
<1>1. CASE Tablero!Entrar(q)
  <2>1. formulario' \in Nat /\ entradas' \in 1..MaxEntradas /\ formulario' + entradas' \in 0..MaxEntradas
    BY <1>1, Quietos, CotasTablero DEF Tablero!Entrar, IndTablero, Tablero!TypeOK
  <2>2. consulta' \in [Consultas -> Tablero!Consulta \cup {Tablero!Libre}]
    BY <1>1, <2>1, TableroPide DEF Tablero!Entrar
  <2>3. token' \in 0..MaxEntradas
    BY <1>1, <2>1, CotasTablero DEF Tablero!Entrar
  <2>4. QED
    BY <1>1, <2>1, <2>2, <2>3, Quietos DEF Tablero!Entrar, Tablero!ServidorIgual, IndTablero, Tablero!TypeOK
<1>2. CASE Tablero!Recargar(q)
  <2>1. formulario' \in Nat /\ entradas' \in 1..MaxEntradas /\ formulario' + entradas' \in 0..MaxEntradas
    BY <1>2, Quietos, CotasTablero DEF Tablero!Recargar, IndTablero, Tablero!TypeOK
  <2>2. [paso |-> "enviada", con |-> token, inicia |-> entradas'] \in Tablero!Consulta
    BY <2>1, Quietos, CotasTablero DEF Tablero!Consulta, IndTablero, Tablero!TypeOK
  <2>3. consulta' \in [Consultas -> Tablero!Consulta \cup {Tablero!Libre}]
    BY <1>2, <2>2 DEF Tablero!Recargar
  <2>4. vista' = 0 /\ eventSource' = 0 /\ colas' \in [Tablero!Entradas -> {0}]
    BY <1>2 DEF Tablero!Recargar
  <2>5. colas' \in [Tablero!Entradas -> 0..MaxCambios] /\ \A s \in Tablero!Entradas : colas'[s] <= espacios
    BY <2>4, CotasTablero DEF IndTablero, Tablero!TypeOK
  <2>6. fuente' \in [Tablero!Entradas -> {"no", "conectando", "abierta", "rota"}] /\ intervalo' \in BOOLEAN
    BY <1>2 DEF Tablero!Recargar
  <2>7. UNCHANGED <<token, caducados, espacios, fallas>>
    BY <1>2 DEF Tablero!Recargar
  <2>8. Tablero!TypeOK'
    <3>1. vista' \in 0..MaxCambios /\ eventSource' \in 0..MaxEntradas
      BY <2>4, CotasTablero
    <3>2. QED
      BY <2>1, <2>3, <2>5, <2>6, <2>7, <3>1, Quietos DEF IndTablero, Tablero!TypeOK
  <2>9. QED
    BY <2>1, <2>5, <2>7, <2>8, Quietos DEF IndTablero
<1>3. CASE Tablero!Tocar(q)
  <2>1. consulta' \in [Consultas -> Tablero!Consulta \cup {Tablero!Libre}]
    BY <1>3, TableroPide, Quietos, CotasTablero DEF Tablero!Tocar, IndTablero, Tablero!TypeOK
  <2>2. QED
    BY <1>3, <2>1, Quietos DEF Tablero!Tocar, Tablero!SesionIgual, Tablero!ServidorIgual, IndTablero, Tablero!TypeOK
<1>4. ASSUME NEW s \in Tablero!Entradas, Tablero!Avisar(q, s) PROVE IndTablero'
  <2>1. consulta' \in [Consultas -> Tablero!Consulta \cup {Tablero!Libre}]
    BY <1>4, TableroPide, Quietos, CotasTablero DEF Tablero!Avisar, IndTablero, Tablero!TypeOK
  <2>2. /\ colas' \in [Tablero!Entradas -> 0..MaxCambios]
        /\ \A r \in Tablero!Entradas : colas'[r] <= espacios
    BY <1>4, Quietos, CotasTablero DEF Tablero!Avisar, IndTablero, Tablero!TypeOK
  <2>3. QED
    BY <1>4, <2>1, <2>2, Quietos DEF Tablero!Avisar, Tablero!SesionIgual, IndTablero, Tablero!TypeOK
<1>5. QED
  BY <1>1, <1>2, <1>3, <1>4

LEMMA TableroStream ==
  ASSUME IndTablero, NEW s \in Tablero!Entradas, Tablero!Suscribir(s) \/ Tablero!Romper(s) \/ Tablero!Reconectar(s)
  PROVE  IndTablero'
<1>1. /\ fuente' \in [Tablero!Entradas -> {"no", "conectando", "abierta", "rota"}]
      /\ colas' \in [Tablero!Entradas -> 0..MaxCambios]
      /\ \A r \in Tablero!Entradas : colas'[r] <= espacios
  <2>1. /\ fuente \in [Tablero!Entradas -> {"no", "conectando", "abierta", "rota"}]
        /\ colas \in [Tablero!Entradas -> 0..MaxCambios] /\ espacios \in Nat /\ 0 \in 0..MaxCambios
        /\ \A r \in Tablero!Entradas : colas[r] <= espacios
    BY CotasTablero DEF IndTablero, Tablero!TypeOK
  <2>2. colas' = colas \/ colas' = [colas EXCEPT ![s] = 0]
    BY DEF Tablero!Suscribir, Tablero!Romper, Tablero!Reconectar, Tablero!ServidorIgual
  <2>3. \E f \in {"no", "conectando", "abierta", "rota"} : fuente' = [fuente EXCEPT ![s] = f]
    BY DEF Tablero!Suscribir, Tablero!Romper, Tablero!Reconectar
  <2>4. QED
    BY <2>1, <2>2, <2>3
<1>2. fallas' \in 0..MaxFallas["Tablero"] /\ eventSource' \in 0..MaxEntradas
  BY CotasTablero, Quietos DEF Tablero!Suscribir, Tablero!Romper, Tablero!Reconectar, IndTablero, Tablero!TypeOK
<1>3. UNCHANGED <<token, caducados, formulario, entradas, intervalo, espacios, vista, consulta>>
  BY DEF Tablero!Suscribir, Tablero!Romper, Tablero!Reconectar, Tablero!SesionIgual, Tablero!ServidorIgual
<1>4. QED
  BY <1>1, <1>2, <1>3, Quietos DEF IndTablero, Tablero!TypeOK

LEMMA TableroPaso == IndTablero /\ [Tablero!Next]_(Tablero!vars) => IndTablero'
<1>1. ASSUME IndTablero, UNCHANGED Tablero!vars PROVE IndTablero'
  BY <1>1, Quietos DEF Tablero!vars, IndTablero, Tablero!TypeOK
<1>2. QED
  BY <1>1, TableroServicios, TableroRed, TableroPagina, TableroStream DEF Tablero!Next, Tablero!Red

-----------------------------------------------------------------------------

\* Each part stays within its types, which bound what it counts: an audit event has
\* at most one row more than there were failures (consume of audit.consumer.ts), and
\* a stream queues no more events than there were changes (emit_event).
THEOREM TiposCorrectos == Spec => []Tipos
<1> DEFINE I == /\ modo = "Altas" => EnAltas!Ind
                /\ modo = "Tablero" => IndTablero
                /\ modo = "Auditoria" => IndAuditoria
                /\ modo = "Sesion" => EnSesion!Ind
                /\ modo = "Paginas" => IndVista
<1>1. Init => I
  BY AltasDistintos, AltasCotas, MismasAltas, EnAltas!IndInicial, TableroInicial, AuditoriaInicial,
     SesionConocidas, MismaSesion, EnSesion!SesionInicial, VistaInicial DEF Init
<1>2. I /\ [Next]_vars => I'
  <2> SUFFICES ASSUME I, [Next]_vars PROVE I'
    OBVIOUS
  <2>1. CASE modo = "Altas"
    BY <2>1, ParteElegida, AltasDistintos, AltasCotas, MismasAltas, EnAltas!IndPaso
  <2>2. CASE modo = "Tablero"
    BY <2>2, ParteElegida, TableroPaso
  <2>3. CASE modo = "Auditoria"
    BY <2>3, ParteElegida, AuditoriaPaso
  <2>4. CASE modo = "Sesion"
    BY <2>4, ParteElegida, SesionConocidas, MismaSesion, EnSesion!IndPaso
  <2>5. CASE modo = "Paginas"
    BY <2>5, ParteElegida, VistaPaso
  <2>6. QED
    BY <2>1, <2>2, <2>3, <2>4, <2>5, ParteElegida
<1>3. I => Tipos
  BY MismasAltas, MismaSesion DEF Tipos, EnAltas!Ind, IndTablero, IndAuditoria, EnSesion!Ind, IndVista, TipoPagina
<1>4. QED
  BY <1>1, <1>2, <1>3, PTL DEF Spec

=============================================================================
