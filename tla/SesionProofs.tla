---------------------------- MODULE SesionProofs ----------------------------
(***************************************************************************)
(* Proofs about Sesion for any tabs, tokens, routes and requests.          *)
(*                                                                         *)
(* IdentidadCoherente is not inductive: a page that loads reads the user   *)
(* before the token, so it must say as early as that whose user is shown   *)
(* (Leida); and the answer of a validation ends the loading of its page,   *)
(* so no page but one that waits for it may get one (Esperada).            *)
(***************************************************************************)
EXTENDS Sesion, TLAPS

\* The routes that the code sends a tab to are looked at.
Conocidas ==
  /\ {"/login", "/dashboard", "/mi-vehiculo"} \subseteq Rutas
  /\ MaxCargas \in Nat

\* A page that has read the user, and not the token yet, read the stored one.
Leida ==
  \A p \in Pestanas \ (ajenas \cup yendose) :
    fase[p] = "ficha" => usuario[p] = Decodificar(guardado)

\* A validation takes the place of its tab, which waits for it.
Esperada ==
  \A q \in Lugares :
    envio[q] # Libre /\ envio[q].tipo = "validar" => envio[q].de = q /\ fase[q] = "validando"

Ind == TypeOK /\ Leida /\ Esperada /\ IdentidadCoherente

LEMMA Descifrada == \A t \in Fichas \cup {Nula} : Decodificar(t) \in Fichas \cup {Nula}
BY DEF Decodificar

LEMMA SesionInicial ==
  ASSUME Conocidas
  PROVE  Init => Ind
BY DEF Conocidas, Init, Ind, TypeOK, Leida, Esperada, IdentidadCoherente, Lugares

-----------------------------------------------------------------------------

\* Every step keeps the types.
LEMMA TipoCarga ==
  ASSUME Conocidas, TypeOK, NEW p \in Pestanas,
         Irse(p) \/ \E r \in Rutas : Cargar(p, r)
  PROVE  TypeOK'
<1>1. PICK r \in Rutas : CargarEn(p, r)
  BY DEF Irse, Cargar, Conocidas
<1>2. cargas' \in 0..MaxCargas
  BY DEF Irse, Cargar, Conocidas, TypeOK
<1>3. envio' \in [Lugares -> Envio \cup {Libre}]
  BY <1>1 DEF CargarEn, TypeOK
<1> QED
  BY <1>1, <1>2, <1>3 DEF CargarEn, MostrarIgual, GuardadoIgual, TypeOK

LEMMA TipoPagina ==
  ASSUME Conocidas, TypeOK, NEW p \in Pestanas,
         LeerUsuario(p) \/ LeerFicha(p) \/ Validar(p)
  PROVE  TypeOK'
<1>1. CASE LeerUsuario(p)
  BY <1>1, Descifrada DEF LeerUsuario, TypeOK
<1>2. CASE LeerFicha(p)
  BY <1>2 DEF LeerFicha, GuardadoIgual, TypeOK
<1>3. CASE Validar(p)
  <2>1. [tipo |-> "validar", de |-> p, con |-> guardado] \in Envio
    BY DEF Envio, TypeOK
  <2> QED
    BY <1>3, <2>1 DEF Validar, Enviar, MostrarIgual, GuardadoIgual, TypeOK
<1> QED
  BY <1>1, <1>2, <1>3

\* A tab moves to a route that is looked at.
LEMMA TipoRuta ==
  ASSUME Conocidas, TypeOK, NEW p \in Pestanas,
         Redirigir(p) \/ \E r \in Rutas : Navegar(p, r) \/ Regresar(p, r)
  PROVE  TypeOK' /\ \E r \in Rutas : IrA(p, r)
<1>1. PICK r \in Rutas : IrA(p, r)
  <2>1. Destino(p) \in Rutas
    BY DEF Conocidas, Destino, Inicio
  <2> QED
    BY <2>1 DEF Redirigir, Navegar, Regresar
<1> QED
  BY <1>1 DEF IrA, MostrarIgual, GuardadoIgual, TypeOK

LEMMA TipoEnvio ==
  ASSUME TypeOK, NEW p \in Pestanas,
         Entrar(p) \/ \E q \in Envios : Pedir(q, p)
  PROVE  TypeOK'
<1>1. \A t \in {"entrar", "datos"} : [tipo |-> t, de |-> p, con |-> guardado] \in Envio
  BY DEF Envio, TypeOK
<1> QED
  BY <1>1 DEF Entrar, Pedir, Enviar, Lugares, MostrarIgual, GuardadoIgual, TypeOK

LEMMA TipoRespuesta ==
  ASSUME TypeOK, NEW p \in Pestanas, NEW q \in Lugares, Responder(q, p)
  PROVE  TypeOK'
<1>1. fase' \in [Pestanas -> {"cerrada", "usuario", "ficha", "efecto", "validando", "lista"}]
  BY DEF Responder, Rechazar, Atender, Fallar, TypeOK
<1>2. envio' \in [Lugares -> Envio \cup {Libre}]
  BY DEF Responder, Rechazar, Atender, Fallar, TypeOK
<1>3. ficha' \in [Pestanas -> Fichas \cup {Nula}] /\ usuario' \in [Pestanas -> Fichas \cup {Nula}]
  BY DEF Responder, Rechazar, Atender, Fallar, Mostrar, MostrarIgual, TypeOK
<1>4. guardado' \in Fichas \cup {Nula} /\ ajenas' \subseteq Pestanas /\ yendose' \subseteq Pestanas
  BY DEF Responder, Rechazar, Atender, Fallar, Guardar, GuardadoIgual, TypeOK
<1> QED
  BY <1>1, <1>2, <1>3, <1>4 DEF Responder, Rechazar, Atender, Fallar, TypeOK

LEMMA TipoSesion ==
  ASSUME Conocidas, TypeOK, NEW p \in Pestanas,
         Salir(p) \/ \E t \in Fichas : Aceptar(p, t)
  PROVE  TypeOK'
<1>1. CASE Salir(p)
  BY <1>1 DEF Salir, Mostrar, Guardar, TypeOK
<1>2. ASSUME NEW t \in Fichas, Aceptar(p, t) PROVE TypeOK'
  <2>1. ruta' \in [Pestanas -> Rutas]
    BY <1>2 DEF Aceptar, Conocidas, TypeOK
  <2> QED
    BY <1>2, <2>1, Descifrada DEF Aceptar, Mostrar, Guardar, Lugares, TypeOK
<1> QED
  BY <1>1, <1>2

-----------------------------------------------------------------------------

\* Whoever else reads what is stored after tab p changes it is among ajenas.
LEMMA OtraCambia ==
  ASSUME NEW p, NEW t, Guardar(p, t), NEW o \in Pestanas, o # p, o \notin ajenas'
  PROVE  guardado' = guardado /\ o \notin ajenas
BY DEF Guardar

LEMMA IndCarga ==
  ASSUME Ind, NEW p \in Pestanas,
         Irse(p) \/ \E r \in Rutas : Cargar(p, r)
  PROVE  Leida' /\ Esperada' /\ IdentidadCoherente'
<1>1. PICK r : CargarEn(p, r)
  BY DEF Irse, Cargar
<1>2. fase' = [fase EXCEPT ![p] = "usuario"] /\ yendose' = yendose \ {p}
      /\ UNCHANGED <<ficha, usuario, guardado, ajenas>>
  BY <1>1 DEF CargarEn, MostrarIgual, GuardadoIgual
<1>3. Leida'
  BY <1>2 DEF Ind, TypeOK, Leida, Decodificar
<1>4. Esperada'
  <2>1. ASSUME NEW q \in Lugares, envio'[q] # Libre, envio'[q].tipo = "validar"
        PROVE  envio'[q].de = q /\ fase'[q] = "validando"
    <3>1. envio'[q] = envio[q] /\ envio[q].de # p
      BY <1>1, <2>1 DEF CargarEn
    <3>2. envio[q].de = q /\ fase[q] = "validando"
      BY <2>1, <3>1 DEF Ind, Esperada
    <3> QED
      BY <1>2, <3>1, <3>2 DEF Ind, TypeOK
  <2> QED
    BY <2>1 DEF Esperada
<1>5. IdentidadCoherente'
  BY <1>2 DEF Ind, TypeOK, IdentidadCoherente, Decodificar
<1> QED
  BY <1>3, <1>4, <1>5

LEMMA IndUsuario ==
  ASSUME Ind, NEW p \in Pestanas, LeerUsuario(p)
  PROVE  Leida' /\ Esperada' /\ IdentidadCoherente'
<1>1. usuario'[p] = Decodificar(guardado')
  BY DEF LeerUsuario, Decodificar, Ind, TypeOK
<1>2. fase' = [fase EXCEPT ![p] = "ficha"] /\ UNCHANGED <<ficha, yendose, envio>>
  BY DEF LeerUsuario
<1>3. \A o \in Pestanas \ {p} : usuario'[o] = usuario[o]
  BY DEF LeerUsuario, Ind, TypeOK
<1>4. \A o \in Pestanas \ {p} : o \notin ajenas' => guardado' = guardado /\ o \notin ajenas
  BY DEF LeerUsuario
<1>5. Leida'
  BY <1>1, <1>2, <1>3, <1>4 DEF Ind, TypeOK, Leida, Decodificar
<1>6. Esperada'
  BY <1>2 DEF LeerUsuario, Ind, TypeOK, Esperada
<1>7. IdentidadCoherente'
  BY <1>2, <1>3, <1>4 DEF Ind, TypeOK, IdentidadCoherente, Decodificar
<1> QED
  BY <1>5, <1>6, <1>7

LEMMA IndFicha ==
  ASSUME Ind, NEW p \in Pestanas, LeerFicha(p)
  PROVE  Leida' /\ Esperada' /\ IdentidadCoherente'
<1>1. Leida'
  BY DEF LeerFicha, GuardadoIgual, Ind, TypeOK, Leida, Decodificar
<1>2. Esperada'
  BY DEF LeerFicha, Ind, TypeOK, Esperada
<1>3. IdentidadCoherente'
  BY DEF LeerFicha, GuardadoIgual, Ind, TypeOK, Leida, IdentidadCoherente, Decodificar
<1> QED
  BY <1>1, <1>2, <1>3

LEMMA IndValidar ==
  ASSUME Ind, NEW p \in Pestanas, Validar(p)
  PROVE  Leida' /\ Esperada' /\ IdentidadCoherente'
<1>1. Leida'
  BY DEF Validar, MostrarIgual, GuardadoIgual, Ind, TypeOK, Leida, Decodificar
<1>2. fase[p] = "efecto" /\ \A o \in Pestanas \ {p} : fase'[o] = fase[o]
  BY DEF Validar, Ind, TypeOK
<1>3. \A o \in Lugares \ {p} : envio'[o] = envio[o]
  BY DEF Validar, Enviar, Ind, TypeOK
<1>4. \A o \in Lugares : envio[o] # Libre /\ envio[o].tipo = "validar" =>
        envio[o].de = o /\ o \in Pestanas \ {p} /\ fase'[o] = "validando"
  <2>1. ASSUME NEW o \in Lugares, envio[o] # Libre, envio[o].tipo = "validar"
        PROVE  envio[o].de = o /\ o \in Pestanas \ {p} /\ fase'[o] = "validando"
    <3>1. envio[o].de = o /\ fase[o] = "validando"
      BY <2>1 DEF Ind, Esperada
    <3>2. envio[o] \in Envio
      BY <2>1 DEF Ind, TypeOK
    <3>3. o \in Pestanas \ {p}
      BY <1>2, <3>1, <3>2 DEF Envio
    <3> QED
      BY <1>2, <3>1, <3>3
  <2> QED
    BY <2>1
<1>5. p \in Lugares
  BY DEF Lugares
<1>6. \/ envio'[p] = envio[p]
      \/ envio'[p].tipo = "validar" /\ envio'[p].de = p /\ fase'[p] = "validando"
  BY <1>5 DEF Validar, Enviar, Ind, TypeOK
<1>7. Esperada'
  BY <1>3, <1>4, <1>6 DEF Esperada
<1>8. IdentidadCoherente'
  BY <1>2 DEF Validar, MostrarIgual, GuardadoIgual, Ind, TypeOK, IdentidadCoherente, Decodificar
<1> QED
  BY <1>1, <1>7, <1>8

LEMMA IndRuta ==
  ASSUME Ind, NEW p \in Pestanas, NEW r, IrA(p, r)
  PROVE  Leida' /\ Esperada' /\ IdentidadCoherente'
BY DEF IrA, MostrarIgual, GuardadoIgual, Ind, Leida, Esperada, IdentidadCoherente, Decodificar

LEMMA IndEnvio ==
  ASSUME Ind, NEW p \in Pestanas,
         Entrar(p) \/ \E q \in Envios : Pedir(q, p)
  PROVE  Leida' /\ Esperada' /\ IdentidadCoherente'
<1>1. UNCHANGED <<fase, yendose, ficha, usuario, guardado, ajenas>>
  BY DEF Entrar, Pedir, MostrarIgual, GuardadoIgual
<1>2. PICK q \in Lugares, tipo \in {"entrar", "datos"} : Enviar(q, p, tipo)
  BY DEF Entrar, Pedir, Lugares
<1>3. Esperada'
  BY <1>1, <1>2 DEF Enviar, Ind, TypeOK, Esperada
<1> QED
  BY <1>1, <1>3 DEF Ind, Leida, IdentidadCoherente, Decodificar

\* An answer frees its place, and moves the page of p only if it is a validation's.
LEMMA Contestada ==
  ASSUME Ind, NEW p \in Pestanas, NEW q \in Lugares, envio[q] # Libre, envio[q].de = p,
         envio' = [envio EXCEPT ![q] = Libre],
         fase' = IF envio[q].tipo = "validar" THEN [fase EXCEPT ![p] = "lista"] ELSE fase
  PROVE  Esperada' /\ (envio[q].tipo = "validar" => fase[p] = "validando")
<1>1. envio[q].tipo = "validar" => q = p /\ fase[p] = "validando"
  BY DEF Ind, Esperada
<1>2. ASSUME NEW o \in Lugares, envio'[o] # Libre, envio'[o].tipo = "validar"
      PROVE  envio'[o].de = o /\ fase'[o] = "validando"
  <2>1. o # q /\ envio'[o] = envio[o]
    BY <1>2 DEF Ind, TypeOK
  <2>2. envio[o].de = o /\ fase[o] = "validando"
    BY <1>2, <2>1 DEF Ind, Esperada
  <2>3. fase'[o] = fase[o]
    BY <1>1, <2>1 DEF Ind, TypeOK
  <2> QED
    BY <2>1, <2>2, <2>3
<1> QED
  BY <1>1, <1>2 DEF Esperada

\* Answers: of the token asked for, or of no token.
LEMMA IndAceptar ==
  ASSUME Ind, NEW p \in Pestanas, NEW t \in Fichas, Aceptar(p, t)
  PROVE  Leida' /\ Esperada' /\ IdentidadCoherente'
<1>1. ficha'[p] = guardado' /\ usuario'[p] = Decodificar(guardado')
  BY DEF Aceptar, Mostrar, Guardar, Ind, TypeOK
<1>2. \A o \in Pestanas \ {p} : ficha'[o] = ficha[o] /\ usuario'[o] = usuario[o]
  BY DEF Aceptar, Mostrar, Ind, TypeOK
<1>3. \A o \in Pestanas \ {p} : o \notin ajenas' => guardado' = guardado /\ o \notin ajenas
  BY OtraCambia DEF Aceptar
<1>4. UNCHANGED <<fase, yendose>>
  BY DEF Aceptar
<1>5. Esperada'
  BY <1>4 DEF Aceptar, Ind, TypeOK, Esperada
<1> QED
  BY <1>1, <1>2, <1>3, <1>4, <1>5 DEF Ind, Leida, IdentidadCoherente, Decodificar

LEMMA IndRechazar ==
  ASSUME Ind, NEW p \in Pestanas, NEW q \in Lugares, Rechazar(q, p)
  PROVE  Leida' /\ Esperada' /\ IdentidadCoherente'
<1>1. yendose' = yendose \cup {p}
  BY DEF Rechazar
<1>2. \A o \in Pestanas \ {p} : ficha'[o] = ficha[o] /\ usuario'[o] = usuario[o] /\ fase'[o] = fase[o]
  BY DEF Rechazar, Mostrar, MostrarIgual, Ind, TypeOK
<1>3. \A o \in Pestanas \ {p} : o \notin ajenas' => guardado' = guardado /\ o \notin ajenas
  BY OtraCambia DEF Rechazar
<1>4. Esperada'
  BY Contestada DEF Rechazar
<1> QED
  BY <1>1, <1>2, <1>3, <1>4 DEF Ind, Leida, IdentidadCoherente, Decodificar

LEMMA IndAtender ==
  ASSUME Ind, NEW p \in Pestanas, NEW q \in Lugares, Atender(q, p)
  PROVE  Leida' /\ Esperada' /\ IdentidadCoherente'
<1>1. UNCHANGED <<ficha, usuario, guardado, ajenas, yendose>>
  BY DEF Atender, MostrarIgual, GuardadoIgual
<1>2. fase' # fase => fase[p] = "validando" /\ fase' = [fase EXCEPT ![p] = "lista"]
  BY Contestada DEF Atender, Pendiente
<1>3. Leida' /\ IdentidadCoherente'
  BY <1>1, <1>2 DEF Ind, TypeOK, Leida, IdentidadCoherente, Decodificar
<1>4. Esperada'
  BY Contestada DEF Atender, Pendiente
<1> QED
  BY <1>3, <1>4

LEMMA IndFallar ==
  ASSUME Ind, NEW p \in Pestanas, NEW q \in Lugares, Fallar(q, p)
  PROVE  Leida' /\ Esperada' /\ IdentidadCoherente'
<1>1. Esperada'
  BY Contestada DEF Fallar
<1>2. CASE envio[q].tipo = "validar"
  <2>1. ficha'[p] = guardado' /\ usuario'[p] = Decodificar(guardado')
    BY <1>2 DEF Fallar, Mostrar, Guardar, Decodificar, Ind, TypeOK
  <2>2. \A o \in Pestanas \ {p} : ficha'[o] = ficha[o] /\ usuario'[o] = usuario[o] /\ fase'[o] = fase[o]
    BY <1>2 DEF Fallar, Mostrar, Ind, TypeOK
  <2>3. \A o \in Pestanas \ {p} : o \notin ajenas' => guardado' = guardado /\ o \notin ajenas
    BY <1>2, OtraCambia DEF Fallar
  <2>4. yendose' = yendose
    BY DEF Fallar
  <2> QED
    BY <1>1, <2>1, <2>2, <2>3, <2>4 DEF Ind, Leida, IdentidadCoherente, Decodificar
<1>3. CASE envio[q].tipo # "validar"
  BY <1>1, <1>3 DEF Fallar, MostrarIgual, GuardadoIgual, Ind, Leida, IdentidadCoherente, Decodificar
<1> QED
  BY <1>2, <1>3

LEMMA IndSalir ==
  ASSUME Ind, NEW p \in Pestanas, Salir(p)
  PROVE  Leida' /\ Esperada' /\ IdentidadCoherente'
<1>1. ficha'[p] = guardado' /\ usuario'[p] = Decodificar(guardado')
  BY DEF Salir, Mostrar, Guardar, Decodificar, Ind, TypeOK
<1>2. \A o \in Pestanas \ {p} : ficha'[o] = ficha[o] /\ usuario'[o] = usuario[o]
  BY DEF Salir, Mostrar, Ind, TypeOK
<1>3. \A o \in Pestanas \ {p} : o \notin ajenas' => guardado' = guardado /\ o \notin ajenas
  BY OtraCambia DEF Salir
<1>4. UNCHANGED <<fase, yendose, envio>>
  BY DEF Salir
<1> QED
  BY <1>1, <1>2, <1>3, <1>4 DEF Ind, Leida, Esperada, IdentidadCoherente, Decodificar

-----------------------------------------------------------------------------

LEMMA IndPaso ==
  ASSUME Conocidas, Ind, [Next]_vars
  PROVE  Ind'
<1>1. CASE UNCHANGED vars
  BY <1>1 DEF vars, Ind, TypeOK, Leida, Esperada, IdentidadCoherente, Decodificar
<1>2. ASSUME NEW p \in Pestanas,
             \/ Pagina(p) \/ Irse(p)
             \/ Salir(p)
             \/ Entrar(p)
             \/ \E t \in Fichas : Aceptar(p, t)
             \/ \E r \in Rutas : Cargar(p, r) \/ Navegar(p, r) \/ Regresar(p, r)
             \/ \E q \in Envios : Pedir(q, p)
             \/ \E q \in Lugares : Responder(q, p)
      PROVE  Ind'
  <2>1. TypeOK
    BY DEF Ind
  <2>2. CASE Irse(p) \/ \E r \in Rutas : Cargar(p, r)
    BY <2>1, <2>2, TipoCarga, IndCarga DEF Ind
  <2>3. CASE LeerUsuario(p)
    BY <2>1, <2>3, TipoPagina, IndUsuario DEF Ind
  <2>4. CASE LeerFicha(p)
    BY <2>1, <2>4, TipoPagina, IndFicha DEF Ind
  <2>5. CASE Validar(p)
    BY <2>1, <2>5, TipoPagina, IndValidar DEF Ind
  <2>6. CASE Redirigir(p) \/ \E r \in Rutas : Navegar(p, r) \/ Regresar(p, r)
    BY <2>1, <2>6, TipoRuta, IndRuta DEF Ind
  <2>7. CASE Entrar(p) \/ \E q \in Envios : Pedir(q, p)
    BY <2>1, <2>7, TipoEnvio, IndEnvio DEF Ind
  <2>8. CASE \E t \in Fichas : Aceptar(p, t)
    BY <2>1, <2>8, TipoSesion, IndAceptar DEF Ind
  <2>9. ASSUME NEW q \in Lugares, Responder(q, p) PROVE Ind'
    BY <2>1, <2>9, TipoRespuesta, IndRechazar, IndAtender, IndFallar DEF Ind, Responder
  <2>10. CASE Salir(p)
    BY <2>1, <2>10, TipoSesion, IndSalir DEF Ind
  <2> QED
    BY <1>2, <2>2, <2>3, <2>4, <2>5, <2>6, <2>7, <2>8, <2>9, <2>10 DEF Pagina
<1> QED
  BY <1>1, <1>2 DEF Next

\* A tab shows the user of the token that its requests carry, whatever the others
\* do and however late its answers are, unless another tab changed the stored
\* token or a 401 is taking it to /login.
THEOREM QuienEs ==
  ASSUME Conocidas
  PROVE  Spec => []IdentidadCoherente
<1>1. Init => Ind
  BY SesionInicial
<1>2. Ind /\ [Next]_vars => Ind'
  BY IndPaso
<1>3. Ind => IdentidadCoherente
  BY DEF Ind
<1> QED
  BY <1>1, <1>2, <1>3, PTL DEF Spec

\* Every variable keeps its type; each tab stays on the routes looked at.
THEOREM TipoCorrecto ==
  ASSUME Conocidas
  PROVE  Spec => []TypeOK
<1>1. Init => Ind
  BY SesionInicial
<1>2. Ind /\ [Next]_vars => Ind'
  BY IndPaso
<1>3. Ind => TypeOK
  BY DEF Ind
<1> QED
  BY <1>1, <1>2, <1>3, PTL DEF Spec

=============================================================================
