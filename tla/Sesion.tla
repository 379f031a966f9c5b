------------------------------- MODULE Sesion -------------------------------
(***************************************************************************)
(* The session of parking-frontend: AuthContext, request of api/index.ts   *)
(* and the routes of App.tsx, in several tabs of one browser.              *)
(*                                                                         *)
(* The tabs share what localStorage holds; each one keeps its own React    *)
(* state.  Requests carry the token that is stored when they are sent, not *)
(* the one the tab shows, and whatever request is answered 401 removes the *)
(* token that is stored by then and takes the page to /login.              *)
(***************************************************************************)
EXTENDS Naturals

CONSTANTS
  Pestanas,     \* tabs
  Fichas,       \* tokens
  ConPersona,   \* the tokens that carry a personId; older ones do not
  Legibles,     \* the tokens whose payload atob and JSON.parse can read
  RolesDe,      \* the roles in each token
  Rutas,        \* the routes looked at; "/login" and the two home pages are among them
  Envios,       \* requests for data that may be in flight at once
  MaxCargas,    \* bound: addresses typed, and pages loaded again by hand
  Nula          \* no token, no user

VARIABLES
  guardado,   \* localStorage.token
  fase,       \* how far the page of each tab has come
  ficha,      \* state token of each tab
  usuario,    \* state user of each tab: the token it was decoded from
  ruta,       \* the route each tab is at
  yendose,    \* tabs that assigned window.location
  envio,      \* each request
  emitidas,   \* tokens issued
  cargas,
  ajenas      \* history: tabs that saw another tab change the stored token

vars == <<guardado, fase, ficha, usuario, ruta, yendose, envio, emitidas, cargas, ajenas>>

Administracion == Rutas \cap {"/dashboard", "/zonas", "/vehiculos", "/usuarios", "/tickets"}
Recaudacion == Rutas \cap {"/dashboard", "/vehiculos", "/tickets"}
Cliente == Rutas \cap {"/mi-vehiculo", "/mi-perfil"}

Libre == [tipo |-> "libre"]
Envio == [tipo : {"validar", "entrar", "datos"}, de : Pestanas, con : Fichas \cup {Nula}]

\* A tab never has a login and a validation in flight at once: they take its own place.
Lugares == Envios \cup Pestanas

TypeOK ==
  /\ guardado \in Fichas \cup {Nula}
  /\ fase \in [Pestanas -> {"cerrada", "usuario", "ficha", "efecto", "validando", "lista"}]
  /\ ficha \in [Pestanas -> Fichas \cup {Nula}]
  /\ usuario \in [Pestanas -> Fichas \cup {Nula}]
  /\ ruta \in [Pestanas -> Rutas]
  /\ yendose \subseteq Pestanas
  /\ envio \in [Lugares -> Envio \cup {Libre}]
  /\ emitidas \subseteq Fichas
  /\ cargas \in 0..MaxCargas
  /\ ajenas \subseteq Pestanas

\* Nothing is stored, or a token of an earlier version of the service.
Init ==
  /\ guardado \in (Fichas \ ConPersona) \cup {Nula}
  /\ fase = [p \in Pestanas |-> "cerrada"]
  /\ ficha = [p \in Pestanas |-> Nula]
  /\ usuario = [p \in Pestanas |-> Nula]
  /\ ruta = [p \in Pestanas |-> "/login"]
  /\ yendose = {}
  /\ envio = [q \in Lugares |-> Libre]
  /\ emitidas = Fichas \ ConPersona
  /\ cargas = 0
  /\ ajenas = {}

-----------------------------------------------------------------------------

\* decodeToken
Decodificar(t) == IF t \in Legibles THEN t ELSE Nula

\* localStorage.setItem and removeItem, in tab p.
Guardar(p, t) ==
  /\ guardado' = t
  /\ ajenas' = IF t = guardado THEN ajenas ELSE ajenas \cup (Pestanas \ {p})

GuardadoIgual == UNCHANGED <<guardado, ajenas>>

\* setToken and setUser
Mostrar(p, t, u) ==
  /\ ficha' = [ficha EXCEPT ![p] = t]
  /\ usuario' = [usuario EXCEPT ![p] = u]

MostrarIgual == UNCHANGED <<ficha, usuario>>

\* request, up to its await
Enviar(q, p, tipo) ==
  /\ envio[q] = Libre
  /\ envio' = [envio EXCEPT ![q] = [tipo |-> tipo, de |-> p, con |-> guardado]]

Pendiente(q, p, tipo) == envio[q] # Libre /\ envio[q].de = p /\ envio[q].tipo = tipo

\* The page of p is loaded anew at r; what it was waiting for is dropped.
CargarEn(p, r) ==
  /\ fase' = [fase EXCEPT ![p] = "usuario"]
  /\ ruta' = [ruta EXCEPT ![p] = r]
  /\ yendose' = yendose \ {p}
  /\ envio' = [q \in Lugares |-> IF envio[q] # Libre /\ envio[q].de = p THEN Libre ELSE envio[q]]
  /\ MostrarIgual /\ GuardadoIgual
  /\ UNCHANGED emitidas

-----------------------------------------------------------------------------
(***************************************************************************)
(* Loading the page.                                                       *)
(***************************************************************************)

Cargar(p, r) ==
  /\ cargas < MaxCargas
  /\ cargas' = cargas + 1
  /\ CargarEn(p, r)

Irse(p) ==
  /\ p \in yendose
  /\ CargarEn(p, "/login")
  /\ UNCHANGED cargas

\* Variant: the initializer ignores an old token without removing it.
LeerUsuarioSinQuitar(p) ==
  /\ fase[p] = "usuario"
  /\ usuario' = [usuario EXCEPT ![p] = IF guardado \in Legibles \cap ConPersona THEN guardado ELSE Nula]
  /\ ajenas' = ajenas \ {p}
  /\ fase' = [fase EXCEPT ![p] = "ficha"]
  /\ UNCHANGED <<guardado, ficha, ruta, yendose, envio, emitidas, cargas>>

\* The initializer of user: it drops a token that has no personId.
LeerUsuario(p) ==
  /\ fase[p] = "usuario"
  /\ LET t == guardado
         vieja == t # Nula /\ Decodificar(t) # Nula /\ t \notin ConPersona
     IN  /\ usuario' = [usuario EXCEPT ![p] = IF t = Nula \/ vieja THEN Nula ELSE Decodificar(t)]
         /\ guardado' = IF vieja THEN Nula ELSE t
         /\ ajenas' = IF vieja THEN Pestanas \ {p} ELSE ajenas \ {p}
  /\ fase' = [fase EXCEPT ![p] = "ficha"]
  /\ UNCHANGED <<ficha, ruta, yendose, envio, emitidas, cargas>>

\* The initializer of token.
LeerFicha(p) ==
  /\ fase[p] = "ficha"
  /\ ficha' = [ficha EXCEPT ![p] = guardado]
  /\ fase' = [fase EXCEPT ![p] = "efecto"]
  /\ GuardadoIgual
  /\ UNCHANGED <<usuario, ruta, yendose, envio, emitidas, cargas>>

\* The effect: the token is validated, if there is one.
Validar(p) ==
  /\ fase[p] = "efecto"
  /\ \/ /\ ficha[p] = Nula
        /\ fase' = [fase EXCEPT ![p] = "lista"]
        /\ UNCHANGED envio
     \/ /\ ficha[p] # Nula
        /\ Enviar(p, p, "validar")
        /\ fase' = [fase EXCEPT ![p] = "validando"]
  /\ MostrarIgual /\ GuardadoIgual
  /\ UNCHANGED <<ruta, yendose, emitidas, cargas>>

-----------------------------------------------------------------------------
(***************************************************************************)
(* Routes.                                                                 *)
(***************************************************************************)

Rol(p) == IF usuario[p] = Nula THEN {} ELSE RolesDe[usuario[p]]
EsAdmin(p) == Rol(p) \cap {"ROOT", "ADMIN"} # {}
EsRecaudador(p) == "RECAUDADOR" \in Rol(p)
EsCliente(p) == ~EsAdmin(p) /\ ~EsRecaudador(p)

\* Variant: /mi-vehiculo is left without allowCliente.
AdmiteSinCliente(p, r) ==
  \/ r \in Administracion /\ EsAdmin(p)
  \/ r \in Recaudacion /\ EsRecaudador(p)
  \/ r = "/mi-perfil" /\ EsCliente(p)

\* The flags that App.tsx gives each RoleRoute.
Admite(p, r) ==
  \/ r \in Administracion /\ EsAdmin(p)
  \/ r \in Recaudacion /\ EsRecaudador(p)
  \/ r \in Cliente /\ EsCliente(p)

\* RoleRoute and DefaultRedirect
Inicio(p) == IF EsCliente(p) THEN "/mi-vehiculo" ELSE "/dashboard"

\* The routes of AppRoutes and ProtectedRoute: whether the page at ruta is shown,
\* and where the tab is sent when it is not.
Muestra(p) == IF ficha[p] = Nula THEN ruta[p] = "/login" ELSE Admite(p, ruta[p])
Destino(p) == IF ficha[p] = Nula THEN "/login" ELSE Inicio(p)

Asentada(p) == fase[p] = "lista" /\ p \notin yendose /\ Muestra(p)

IrA(p, r) ==
  /\ ruta' = [ruta EXCEPT ![p] = r]
  /\ MostrarIgual /\ GuardadoIgual
  /\ UNCHANGED <<fase, yendose, envio, emitidas, cargas>>

Redirigir(p) ==
  /\ fase[p] = "lista" /\ ~Muestra(p)
  /\ IrA(p, Destino(p))

\* A page is shown; clicks in the instant before it is unloaded are left out.
EnPagina(p) == Asentada(p) /\ ruta[p] \in Administracion \cup Cliente

\* The links of Sidebar.
Enlaces(p) ==
  CASE EsAdmin(p) -> Administracion
    [] ~EsAdmin(p) /\ EsRecaudador(p) -> Recaudacion
    [] OTHER -> Cliente

Navegar(p, r) == EnPagina(p) /\ r \in Enlaces(p) /\ IrA(p, r)

\* The back button of AppLayout, to any route the tab may have been at.
Regresar(p, r) == EnPagina(p) /\ ruta[p] \notin {"/dashboard", "/mi-vehiculo"} /\ IrA(p, r)

-----------------------------------------------------------------------------
(***************************************************************************)
(* Requests of the page, and their answers.                                *)
(***************************************************************************)

Pedir(q, p) ==
  /\ EnPagina(p)
  /\ Enviar(q, p, "datos")
  /\ MostrarIgual /\ GuardadoIgual
  /\ UNCHANGED <<fase, ruta, yendose, emitidas, cargas>>

\* handleLogin; its button is disabled until the answer.
Entrar(p) ==
  /\ Asentada(p) /\ ruta[p] = "/login"
  /\ Enviar(p, p, "entrar")
  /\ MostrarIgual /\ GuardadoIgual
  /\ UNCHANGED <<fase, ruta, yendose, emitidas, cargas>>

\* login and navigate, with the token t of the answer.
Aceptar(p, t) ==
  /\ Pendiente(p, p, "entrar") /\ t \notin emitidas
  /\ emitidas' = emitidas \cup {t}
  /\ Mostrar(p, t, Decodificar(t))
  /\ Guardar(p, t)
  /\ ruta' = [ruta EXCEPT ![p] = "/dashboard"]
  /\ envio' = [envio EXCEPT ![p] = Libre]
  /\ UNCHANGED <<fase, yendose, cargas>>

\* A 401: the password is wrong, or the token is missing or may have expired.
Rechazar(q, p) ==
  /\ envio[q] # Libre /\ envio[q].de = p
  /\ Guardar(p, Nula)
  /\ yendose' = yendose \cup {p}
  /\ IF envio[q].tipo = "validar"
     THEN Mostrar(p, Nula, Nula) /\ fase' = [fase EXCEPT ![p] = "lista"]
     ELSE MostrarIgual /\ UNCHANGED fase
  /\ envio' = [envio EXCEPT ![q] = Libre]
  /\ UNCHANGED <<ruta, emitidas, cargas>>

Atender(q, p) ==
  /\ Pendiente(q, p, "validar") \/ Pendiente(q, p, "datos")
  /\ envio[q].con # Nula
  /\ fase' = IF envio[q].tipo = "validar" THEN [fase EXCEPT ![p] = "lista"] ELSE fase
  /\ envio' = [envio EXCEPT ![q] = Libre]
  /\ MostrarIgual /\ GuardadoIgual
  /\ UNCHANGED <<ruta, yendose, emitidas, cargas>>

\* No answer, or some other error: a validation ends the session all the same.
Fallar(q, p) ==
  /\ envio[q] # Libre /\ envio[q].de = p
  /\ IF envio[q].tipo = "validar"
     THEN /\ Mostrar(p, Nula, Nula)
          /\ Guardar(p, Nula)
          /\ fase' = [fase EXCEPT ![p] = "lista"]
     ELSE MostrarIgual /\ GuardadoIgual /\ UNCHANGED fase
  /\ envio' = [envio EXCEPT ![q] = Libre]
  /\ UNCHANGED <<ruta, yendose, emitidas, cargas>>

\* logout
Salir(p) ==
  /\ EnPagina(p)
  /\ Mostrar(p, Nula, Nula)
  /\ Guardar(p, Nula)
  /\ UNCHANGED <<fase, ruta, yendose, envio, emitidas, cargas>>

-----------------------------------------------------------------------------

\* What the page of tab p does by itself.
Pagina(p) == LeerUsuario(p) \/ LeerFicha(p) \/ Validar(p) \/ Redirigir(p)

Responder(q, p) == Rechazar(q, p) \/ Atender(q, p) \/ Fallar(q, p)

Next == \E p \in Pestanas :
  \/ Pagina(p) \/ Irse(p)
  \/ Salir(p)
  \/ Entrar(p)
  \/ \E t \in Fichas : Aceptar(p, t)
  \/ \E r \in Rutas : Cargar(p, r) \/ Navegar(p, r) \/ Regresar(p, r)
  \/ \E q \in Envios : Pedir(q, p)
  \/ \E q \in Lugares : Responder(q, p)

\* The browser renders and loads, and the requests of AuthContext are answered
\* or fail.
Spec ==
  /\ Init /\ [][Next]_vars
  /\ \A p \in Pestanas : WF_vars(Pagina(p)) /\ WF_vars(Irse(p)) /\ WF_vars(Responder(p, p))

-----------------------------------------------------------------------------

\* A tab shows the user of the token that its requests will carry, unless
\* another tab logged in or out meanwhile or a 401 is taking it to /login:
\* whatever old token was stored when it loaded, whatever answer was late.
IdentidadCoherente ==
  \A p \in Pestanas \ (ajenas \cup yendose) :
    fase[p] \in {"efecto", "validando", "lista"}
      => ficha[p] = guardado /\ usuario[p] = Decodificar(guardado)

\* A tab is never caught in its spinner, or between routes that send it to each
\* other: it comes back again and again to a page its user may see.
RutaSeAsienta(p) == []<>(fase[p] = "cerrada" \/ Asentada(p))

=============================================================================
