---------------------------- MODULE ParqueoProofs ----------------------------
(***************************************************************************)
(* Theorems about Parqueo, for every set of spaces and tickets, any number *)
(* of overlapping requests, and every setting of the faults.               *)
(***************************************************************************)
EXTENDS Parqueo, TLAPS

-----------------------------------------------------------------------------
(***************************************************************************)
(* Type correctness.                                                       *)
(***************************************************************************)

LEMMA TipoCierre ==
  ASSUME NEW c \in Cierres
  PROVE  TicketDe(c) \in Tickets /\ EstadoFinal(c) \in {"PAGADO", "ANULADO"}
         /\ EspacioDe(c) \in Espacios
  BY ParqueoAssumption DEF Cierres, TicketDe, EstadoFinal, EspacioDe

LEMMA TipoEmitir ==
  ASSUME TypeOK, NEW e \in Espacios, NEW nuevo \in {"OCUPADO", "DISPONIBLE"},
         NEW falla \in Averia, Emitir(e, nuevo, falla)
  PROVE  cola' \in Seq(Evento) /\ averias' \subseteq Averia
<1>1. [espacio |-> e, estado |-> nuevo] \in Evento
  BY DEF Evento
<1>2. QED
  BY <1>1 DEF TypeOK, Emitir

LEMMA TipoInicial == Init => TypeOK
  BY DEF Init, TypeOK, EstadoEspacio, Evento, Averia

LEMMA TipoPaso == TypeOK /\ [Next]_vars => TypeOK'
<1> SUFFICES ASSUME TypeOK, [Next]_vars PROVE TypeOK'
  OBVIOUS
<1> USE ParqueoAssumption DEF TypeOK, Fuga, Hueco, Averia, EnCursoAlta, FinAlta, EnCursoCierre, FinCierre
<1>1. ASSUME NEW t \in Tickets, LeerEspacio(t) PROVE TypeOK'
  BY <1>1 DEF LeerEspacio, PasoAlta, zonasVars
<1>2. ASSUME NEW t \in Tickets, RechazarDatos(t) PROVE TypeOK'
  BY <1>2 DEF RechazarDatos, PasoAlta, zonasVars
<1>3. ASSUME NEW t \in Tickets, ConsultarActivo(t) PROVE TypeOK'
  BY <1>3 DEF ConsultarActivo, PasoAlta, zonasVars
<1>4. ASSUME NEW t \in Tickets, Insertar(t) PROVE TypeOK'
  BY <1>4 DEF Insertar, PasoAlta, zonasVars, EstadoTicket
<1>5. ASSUME NEW t \in Tickets, EnviarOcupado(t) PROVE TypeOK'
  BY <1>5 DEF EnviarOcupado, PasoAlta
<1>6. ASSUME NEW t \in Tickets, OcupadoConfirmado(t) PROVE TypeOK'
  BY <1>6 DEF OcupadoConfirmado, PasoAlta, zonasVars
<1>7. ASSUME NEW t \in Tickets, OcupadoFallido(t) PROVE TypeOK'
  BY <1>7 DEF OcupadoFallido, PasoAlta
<1>8. ASSUME NEW t \in Tickets, Revertir(t) PROVE TypeOK'
  BY <1>8 DEF Revertir, PasoAlta, zonasVars
<1>9. ASSUME NEW t \in Tickets, EmitirAlta(t) PROVE TypeOK'
  <2>1. Hueco(IdEspacio[t]) \in Averia
    OBVIOUS
  <2>2. cola' \in Seq(Evento) /\ averias' \subseteq Averia
    BY <1>9, <2>1, TipoEmitir DEF EmitirAlta
  <2>3. QED
    BY <1>9, <2>2 DEF EmitirAlta, PasoAlta, zonasVars
<1>10. ASSUME NEW c \in Cierres, LeerTicket(c) PROVE TypeOK'
  BY <1>10 DEF LeerTicket, zonasVars
<1>11. ASSUME NEW c \in Cierres, Persistir(c) PROVE TypeOK'
  <2>1. ticket' \in [Tickets -> {"ausente"} \cup EstadoTicket]
    BY <1>11, TipoCierre DEF Persistir, Cerrar, EstadoTicket
  <2>2. cobrado' \in [Tickets -> BOOLEAN]
    BY <1>11, TipoCierre DEF Persistir, Cerrar
  <2>3. averias' \subseteq Averia
    BY <1>11, TipoCierre DEF Persistir
  <2>4. pcCierre' \in [Cierres -> {"libre"} \cup EnCursoCierre \cup FinCierre]
    BY <1>11 DEF Persistir, PasoCierre
  <2>5. QED
    BY <1>11, <2>1, <2>2, <2>3, <2>4 DEF Persistir, zonasVars
<1>12. ASSUME NEW c \in Cierres, EnviarDisponible(c) PROVE TypeOK'
  BY <1>12 DEF EnviarDisponible, PasoCierre
<1>13. ASSUME NEW c \in Cierres, DisponibleConfirmado(c) PROVE TypeOK'
  BY <1>13 DEF DisponibleConfirmado, PasoCierre, zonasVars
<1>14. ASSUME NEW c \in Cierres, DisponibleFallido(c) PROVE TypeOK'
  BY <1>14, TipoCierre DEF DisponibleFallido, PasoCierre
<1>15. ASSUME NEW c \in Cierres, EmitirCierre(c) PROVE TypeOK'
  <2>1. Fuga(EspacioDe(c)) \in Averia
    BY TipoCierre
  <2>2. cola' \in Seq(Evento) /\ averias' \subseteq Averia
    BY <1>15, <2>1, TipoCierre, TipoEmitir DEF EmitirCierre
  <2>3. QED
    BY <1>15, <2>2 DEF EmitirCierre, PasoCierre, zonasVars
<1>16. ASSUME NEW t \in Tickets, AtenderOcupado(t) PROVE TypeOK'
  BY <1>16 DEF AtenderOcupado, ActualizarEstado, serviceVars, EstadoEspacio
<1>17. ASSUME NEW c \in Cierres, AtenderDisponible(c) PROVE TypeOK'
  BY <1>17, TipoCierre DEF AtenderDisponible, ActualizarEstado, serviceVars, EstadoEspacio
<1>18. CASE ConsumirEvento
  <2>1. Head(cola) \in Evento /\ Tail(cola) \in Seq(Evento)
    BY <1>18 DEF ConsumirEvento
  <2>2. QED
    BY <1>18, <2>1 DEF ConsumirEvento, ActualizarEstado, serviceVars, EstadoEspacio, Evento
<1>19. CASE ConsumirSinAck
  <2>1. Head(cola) \in Evento
    BY <1>19 DEF ConsumirSinAck
  <2>2. QED
    BY <1>19, <2>1 DEF ConsumirSinAck, ActualizarEstado, serviceVars, EstadoEspacio, Evento
<1>20. ASSUME NEW e \in Espacios, CambioManual(e) PROVE TypeOK'
  BY <1>20 DEF CambioManual, ActualizarEstado, serviceVars
<1>21. CASE Caida
  BY <1>21, TipoCierre DEF Caida, zonasVars
<1>22. CASE UNCHANGED vars
  BY <1>22 DEF vars
<1>23. QED
  BY <1>1, <1>2, <1>3, <1>4, <1>5, <1>6, <1>7, <1>8, <1>9, <1>10, <1>11, <1>12, <1>13,
     <1>14, <1>15, <1>16, <1>17, <1>18, <1>19, <1>20, <1>21, <1>22
     DEF Next, ContinuarAlta, ContinuarCierre

\* Every variable keeps the type it is declared with, whatever the instance.
THEOREM TipoCorrecto == Spec => []TypeOK
  BY TipoInicial, TipoPaso, PTL DEF Spec

-----------------------------------------------------------------------------
(***************************************************************************)
(* No space is lost.  OcupadoTieneCausa is not inductive: an OCUPADO that  *)
(* is still queued, or still on its way over HTTP, makes a space OCUPADO   *)
(* later, so each of them needs a cause too, and for a queued one the      *)
(* event that frees the space again must be behind it in the queue.        *)
(***************************************************************************)

\* A cause that does not lie in the queue.
CausaDirecta(e) ==
  \/ ActivosEn(e) # {}
  \/ \E c \in Cierres : pcCierre[c] \in TrasPersistir /\ EspacioDe(c) = e
  \/ Fuga(e) \in averias

\* An event behind position i of the queue frees the space.
LiberaTras(e, i) ==
  \E j \in DOMAIN cola : j > i /\ cola[j] = [espacio |-> e, estado |-> "DISPONIBLE"]

AltaActiva ==
  \A t \in Tickets : pcAlta[t] \in {"creado", "esperando", "emitir"} => ticket[t] = "ACTIVO"

ReversionAnotada ==
  \A t \in Tickets : pcAlta[t] = "revertir" => Fuga(IdEspacio[t]) \in averias

CierreDeConfirmado ==
  \A c \in Cierres : pcCierre[c] # "libre" => pcAlta[TicketDe(c)] = "respondido"

PostConCausa ==
  \A t \in postsAlta :
    \/ ticket[t] = "ACTIVO" /\ pcAlta[t] \in {"esperando", "caido"}
    \/ Fuga(IdEspacio[t]) \in averias

EventoConCausa ==
  \A i \in DOMAIN cola :
    cola[i].estado = "OCUPADO" =>
      CausaDirecta(cola[i].espacio) \/ LiberaTras(cola[i].espacio, i)

EspacioConCausa ==
  \A e \in Espacios : estado[e] = "OCUPADO" => CausaDirecta(e) \/ LiberaTras(e, 0)

IndCausa ==
  /\ TypeOK
  /\ AltaActiva
  /\ ReversionAnotada
  /\ CierreDeConfirmado
  /\ PostConCausa
  /\ EventoConCausa
  /\ EspacioConCausa

LEMMA CausaInicial == Init => IndCausa
<1> SUFFICES ASSUME Init PROVE IndCausa
  OBVIOUS
<1>1. DOMAIN cola = {}
  BY DEF Init
<1>2. QED
  BY <1>1, TipoInicial, ParqueoAssumption
     DEF Init, IndCausa, AltaActiva, ReversionAnotada, CierreDeConfirmado, PostConCausa,
         EventoConCausa, EspacioConCausa

LEMMA CausaBasta == IndCausa => OcupadoTieneCausa
  BY DEF IndCausa, EspacioConCausa, OcupadoTieneCausa, CausaDirecta, LiberaTras, PorLiberar

\* The conjuncts about the control of the requests.
ControlCausa ==
  /\ TypeOK
  /\ AltaActiva
  /\ ReversionAnotada
  /\ CierreDeConfirmado
  /\ PostConCausa

LEMMA ControlPaso == ControlCausa /\ [Next]_vars => ControlCausa'
<1> SUFFICES ASSUME ControlCausa, [Next]_vars PROVE ControlCausa'
  OBVIOUS
<1>0. TypeOK'
  BY TipoPaso DEF ControlCausa
<1> USE <1>0, ParqueoAssumption
    DEF ControlCausa, TypeOK, AltaActiva, ReversionAnotada, CierreDeConfirmado, PostConCausa,
        EnCursoAlta, FinAlta, EnCursoCierre, FinCierre, Fuga, Hueco
<1>1. ASSUME NEW t \in Tickets, LeerEspacio(t) PROVE ControlCausa'
  BY <1>1, TipoCierre DEF LeerEspacio, PasoAlta, zonasVars
<1>2. ASSUME NEW t \in Tickets, RechazarDatos(t) PROVE ControlCausa'
  BY <1>2, TipoCierre DEF RechazarDatos, PasoAlta, zonasVars
<1>3. ASSUME NEW t \in Tickets, ConsultarActivo(t) PROVE ControlCausa'
  BY <1>3, TipoCierre DEF ConsultarActivo, PasoAlta, zonasVars
<1>4. ASSUME NEW t \in Tickets, Insertar(t) PROVE ControlCausa'
  BY <1>4, TipoCierre DEF Insertar, PasoAlta, zonasVars
<1>5. ASSUME NEW t \in Tickets, EnviarOcupado(t) PROVE ControlCausa'
  BY <1>5, TipoCierre DEF EnviarOcupado, PasoAlta
<1>6. ASSUME NEW t \in Tickets, OcupadoConfirmado(t) PROVE ControlCausa'
  BY <1>6, TipoCierre DEF OcupadoConfirmado, PasoAlta, zonasVars
<1>7. ASSUME NEW t \in Tickets, OcupadoFallido(t) PROVE ControlCausa'
  BY <1>7, TipoCierre DEF OcupadoFallido, PasoAlta
<1>8. ASSUME NEW t \in Tickets, Revertir(t) PROVE ControlCausa'
  BY <1>8, TipoCierre DEF Revertir, PasoAlta, zonasVars
<1>9. ASSUME NEW t \in Tickets, EmitirAlta(t) PROVE ControlCausa'
  <2>1. averias \subseteq averias'
    BY <1>9 DEF EmitirAlta, Emitir
  <2>2. QED
    BY <1>9, <2>1, TipoCierre DEF EmitirAlta, PasoAlta, zonasVars
<1>10. ASSUME NEW c \in Cierres, LeerTicket(c) PROVE ControlCausa'
  BY <1>10, TipoCierre DEF LeerTicket, zonasVars
<1>11. ASSUME NEW c \in Cierres, Persistir(c) PROVE ControlCausa'
  <2>1. pcAlta[TicketDe(c)] = "respondido"
    BY <1>11 DEF Persistir, Cerrar, PasoCierre
  <2>2. QED
    BY <1>11, <2>1, TipoCierre DEF Persistir, Cerrar, PasoCierre, zonasVars
<1>12. ASSUME NEW c \in Cierres, EnviarDisponible(c) PROVE ControlCausa'
  BY <1>12, TipoCierre DEF EnviarDisponible, PasoCierre
<1>13. ASSUME NEW c \in Cierres, DisponibleConfirmado(c) PROVE ControlCausa'
  BY <1>13, TipoCierre DEF DisponibleConfirmado, PasoCierre, zonasVars
<1>14. ASSUME NEW c \in Cierres, DisponibleFallido(c) PROVE ControlCausa'
  BY <1>14, TipoCierre DEF DisponibleFallido, PasoCierre
<1>15. ASSUME NEW c \in Cierres, EmitirCierre(c) PROVE ControlCausa'
  <2>1. averias \subseteq averias'
    BY <1>15 DEF EmitirCierre, Emitir
  <2>2. QED
    BY <1>15, <2>1, TipoCierre DEF EmitirCierre, PasoCierre, zonasVars
<1>16. ASSUME NEW t \in Tickets, AtenderOcupado(t) PROVE ControlCausa'
  BY <1>16 DEF AtenderOcupado, serviceVars
<1>17. ASSUME NEW c \in Cierres, AtenderDisponible(c) PROVE ControlCausa'
  BY <1>17 DEF AtenderDisponible, serviceVars
<1>18. CASE ConsumirEvento
  <2>1. averias \subseteq averias'
    BY <1>18 DEF ConsumirEvento
  <2>2. QED
    BY <1>18, <2>1 DEF ConsumirEvento, serviceVars
<1>19. CASE ConsumirSinAck
  BY <1>19 DEF ConsumirSinAck, serviceVars
<1>20. ASSUME NEW e \in Espacios, CambioManual(e) PROVE ControlCausa'
  BY <1>20 DEF CambioManual, serviceVars
<1>21. CASE Caida
  <2>1. averias \subseteq averias'
    BY <1>21 DEF Caida
  <2>2. QED
    BY <1>21, <2>1, TipoCierre DEF Caida, zonasVars
<1>22. CASE UNCHANGED vars
  BY <1>22 DEF vars
<1>23. QED
  BY <1>1, <1>2, <1>3, <1>4, <1>5, <1>6, <1>7, <1>8, <1>9, <1>10, <1>11, <1>12, <1>13,
     <1>14, <1>15, <1>16, <1>17, <1>18, <1>19, <1>20, <1>21, <1>22
     DEF Next, ContinuarAlta, ContinuarCierre

\* How a step may change the queue, and what it owes when it does.
EncolaOcupado ==
  \E e \in Espacios :
    /\ cola' = Append(cola, [espacio |-> e, estado |-> "OCUPADO"])
    /\ CausaDirecta(e)'

EncolaDisponible(e) == cola' = Append(cola, [espacio |-> e, estado |-> "DISPONIBLE"])

Desencola == cola # <<>> /\ cola' = Tail(cola)

LEMMA ColaPaso ==
  ASSUME ControlCausa, [Next]_vars
  PROVE  \/ UNCHANGED cola
         \/ EncolaOcupado
         \/ \E e \in Espacios : EncolaDisponible(e)
         \/ Desencola
<1>1. ASSUME NEW t \in Tickets, EmitirAlta(t) PROVE UNCHANGED cola \/ EncolaOcupado
  <2>1. ticket'[t] = "ACTIVO" /\ IdEspacio[t] \in Espacios
    BY <1>1, ParqueoAssumption DEF EmitirAlta, PasoAlta, ControlCausa, AltaActiva
  <2>2. CausaDirecta(IdEspacio[t])'
    BY <2>1 DEF CausaDirecta, ActivosEn
  <2>3. QED
    BY <1>1, <2>1, <2>2 DEF EmitirAlta, Emitir, EncolaOcupado
<1>2. ASSUME NEW c \in Cierres, EmitirCierre(c)
      PROVE  UNCHANGED cola \/ \E e \in Espacios : EncolaDisponible(e)
  BY <1>2, TipoCierre DEF EmitirCierre, Emitir, EncolaDisponible
<1>3. CASE ConsumirEvento
  BY <1>3 DEF ConsumirEvento, Desencola
<1>4. CASE ConsumirSinAck \/ Caida \/ \E e \in Espacios : CambioManual(e)
  BY <1>4 DEF ConsumirSinAck, Caida, CambioManual
<1>5. ASSUME NEW t \in Tickets,
             LeerEspacio(t) \/ RechazarDatos(t) \/ ConsultarActivo(t) \/ Insertar(t)
             \/ EnviarOcupado(t) \/ OcupadoConfirmado(t) \/ OcupadoFallido(t)
             \/ Revertir(t) \/ AtenderOcupado(t)
      PROVE  UNCHANGED cola
  BY <1>5 DEF LeerEspacio, RechazarDatos, ConsultarActivo, Insertar, EnviarOcupado,
              OcupadoConfirmado, OcupadoFallido, Revertir, AtenderOcupado
<1>6. ASSUME NEW c \in Cierres,
             LeerTicket(c) \/ Persistir(c) \/ EnviarDisponible(c) \/ DisponibleConfirmado(c)
             \/ DisponibleFallido(c) \/ AtenderDisponible(c)
      PROVE  UNCHANGED cola
  BY <1>6 DEF LeerTicket, Persistir, Cerrar, EnviarDisponible, DisponibleConfirmado,
              DisponibleFallido, AtenderDisponible
<1>7. CASE UNCHANGED vars
  BY <1>7 DEF vars
<1>8. QED
  BY <1>1, <1>2, <1>3, <1>4, <1>5, <1>6, <1>7 DEF Next, ContinuarAlta, ContinuarCierre

\* A cause outside the queue stays, or the step that ends it queues the event
\* that frees the space.
LEMMA CausaPersiste ==
  ASSUME ControlCausa, [Next]_vars, NEW e \in Espacios, CausaDirecta(e)
  PROVE  CausaDirecta(e)' \/ EncolaDisponible(e)
<1> USE ParqueoAssumption DEF CausaDirecta
<1>1. averias \subseteq averias'
  BY DEF Next, ContinuarAlta, ContinuarCierre, vars, LeerEspacio, RechazarDatos,
         ConsultarActivo, Insertar, EnviarOcupado, OcupadoConfirmado, OcupadoFallido, Revertir,
         AtenderOcupado, LeerTicket, Persistir, EnviarDisponible, DisponibleConfirmado,
         DisponibleFallido, AtenderDisponible, EmitirAlta, EmitirCierre, Emitir, ConsumirEvento,
         ConsumirSinAck, CambioManual, Caida
<1>2. CASE Fuga(e) \in averias
  BY <1>1, <1>2
<1>3. ASSUME NEW t \in ActivosEn(e) PROVE CausaDirecta(e)'
  <2>1. t \in Tickets /\ ticket[t] = "ACTIVO" /\ IdEspacio[t] = e
    BY DEF ActivosEn
  <2>2. CASE ticket'[t] = "ACTIVO"
    BY <2>1, <2>2 DEF ActivosEn
  <2>3. ASSUME NEW u \in Tickets, Revertir(u) PROVE CausaDirecta(e)'
    <3>1. CASE u = t
      BY <1>1, <2>1, <2>3, <3>1 DEF Revertir, PasoAlta, ControlCausa, ReversionAnotada
    <3>2. CASE u # t
      BY <2>1, <2>2, <2>3, <3>2 DEF Revertir, ControlCausa, TypeOK
    <3>3. QED
      BY <3>1, <3>2
  <2>4. ASSUME NEW c \in Cierres, Persistir(c) PROVE CausaDirecta(e)'
    <3>1. CASE ticket' = ticket
      BY <2>1, <2>2, <3>1
    <3>2. CASE pcCierre'[c] = "persistido" /\ TicketDe(c) = t
      BY <2>1, <3>2 DEF TrasPersistir, EspacioDe
    <3>4. CASE Fuga(EspacioDe(c)) \in averias' /\ TicketDe(c) = t
      BY <2>1, <3>4 DEF EspacioDe
    <3>3. CASE TicketDe(c) # t
      BY <2>1, <2>2, <2>4, <3>3 DEF Persistir, Cerrar, ControlCausa, TypeOK
    <3>5. pcCierre'[c] = "persistido" \/ ticket' = ticket \/ Fuga(EspacioDe(c)) \in averias'
      BY <2>4 DEF Persistir, Cerrar, PasoCierre, ControlCausa, TypeOK
    <3>6. QED
      BY <3>1, <3>2, <3>3, <3>4, <3>5
  <2>5. ASSUME NEW u \in Tickets, Insertar(u) PROVE CausaDirecta(e)'
    BY <2>1, <2>2, <2>5 DEF Insertar, ControlCausa, TypeOK
  <2>6. CASE UNCHANGED ticket
    BY <2>1, <2>2, <2>6
  <2>7. QED
    BY <2>3, <2>4, <2>5, <2>6
       DEF Next, ContinuarAlta, ContinuarCierre, vars, serviceVars, LeerEspacio, RechazarDatos,
           ConsultarActivo, EnviarOcupado, OcupadoConfirmado, OcupadoFallido, AtenderOcupado,
           LeerTicket, EnviarDisponible, DisponibleConfirmado, DisponibleFallido,
           AtenderDisponible, EmitirAlta, EmitirCierre, ConsumirEvento, ConsumirSinAck,
           CambioManual, Caida
<1>4. ASSUME NEW c \in Cierres, pcCierre[c] \in TrasPersistir, EspacioDe(c) = e
      PROVE  CausaDirecta(e)' \/ EncolaDisponible(e)
  <2>1. CASE pcCierre'[c] \in TrasPersistir
    BY <1>4, <2>1 DEF EspacioDe
  <2>2. CASE EmitirCierre(c)
    BY <1>4, <2>2 DEF EmitirCierre, Emitir, EncolaDisponible
  <2>3. CASE Caida
    BY <1>4, <2>3 DEF Caida
  <2>4. ASSUME NEW d \in Cierres, d # c,
               LeerTicket(d) \/ Persistir(d) \/ EnviarDisponible(d) \/ DisponibleConfirmado(d)
               \/ DisponibleFallido(d) \/ EmitirCierre(d)
        PROVE  pcCierre'[c] = pcCierre[c]
    BY <2>4 DEF LeerTicket, Persistir, Cerrar, EnviarDisponible, DisponibleConfirmado,
                DisponibleFallido, EmitirCierre, PasoCierre, ControlCausa, TypeOK
  <2>5. CASE LeerTicket(c) \/ Persistir(c) \/ EnviarDisponible(c) \/ DisponibleConfirmado(c)
             \/ DisponibleFallido(c)
    BY <1>4, <2>1, <2>5 DEF LeerTicket, Persistir, Cerrar, EnviarDisponible, DisponibleConfirmado,
                DisponibleFallido, PasoCierre, ControlCausa, TypeOK, TrasPersistir, EnCursoCierre
  <2>6. CASE UNCHANGED pcCierre
    BY <1>4, <2>1, <2>6
  <2>7. QED
    BY <1>4, <2>1, <2>2, <2>3, <2>4, <2>5, <2>6
       DEF Next, ContinuarAlta, ContinuarCierre, vars, serviceVars, LeerEspacio, RechazarDatos,
           ConsultarActivo, Insertar, EnviarOcupado, OcupadoConfirmado, OcupadoFallido, Revertir,
           AtenderOcupado, AtenderDisponible, EmitirAlta, ConsumirEvento, ConsumirSinAck,
           CambioManual
<1>5. QED
  BY <1>2, <1>3, <1>4

\* Where the events of the queue go when it changes.
LEMMA ColaIndices ==
  ASSUME TypeOK, NEW i \in DOMAIN cola
  PROVE  /\ cola[i] \in Evento
         /\ UNCHANGED cola => i \in DOMAIN cola' /\ cola'[i] = cola[i]
         /\ \A x \in Evento : cola' = Append(cola, x) => i \in DOMAIN cola' /\ cola'[i] = cola[i]
         /\ Desencola /\ i > 1 => i - 1 \in DOMAIN cola' /\ cola'[i - 1] = cola[i]
         /\ Desencola /\ i = 1 => cola[i] = Head(cola)
<1>1. cola \in Seq(Evento) /\ i \in 1..Len(cola)
  BY DEF TypeOK
<1>2. cola[i] \in Evento
  BY <1>1
<1>3. ASSUME NEW x \in Evento, cola' = Append(cola, x)
      PROVE  i \in DOMAIN cola' /\ cola'[i] = cola[i]
  BY <1>1, <1>3
<1>4. ASSUME Desencola, i > 1 PROVE i - 1 \in DOMAIN cola' /\ cola'[i - 1] = cola[i]
  BY <1>1, <1>4 DEF Desencola
<1>5. ASSUME Desencola, i = 1 PROVE cola[i] = Head(cola)
  BY <1>1, <1>5 DEF Desencola
<1>6. QED
  BY <1>2, <1>3, <1>4, <1>5

\* A cause stays through a step, inside or outside the queue, until the event
\* that frees the space comes to the head and is consumed.
LEMMA ConCausaPersiste ==
  ASSUME ControlCausa, [Next]_vars, NEW e \in Espacios, NEW i \in Nat,
         CausaDirecta(e) \/ LiberaTras(e, i)
  PROVE  \/ CausaDirecta(e)'
         \/ EncolaDisponible(e)
         \/ ~Desencola /\ LiberaTras(e, i)'
         \/ Desencola /\ i > 0 /\ LiberaTras(e, i - 1)'
         \/ Desencola /\ i = 0 /\ LiberaTras(e, 0)'
         \/ Desencola /\ i = 0 /\ Head(cola) = [espacio |-> e, estado |-> "DISPONIBLE"]
<1>1. CASE CausaDirecta(e)
  BY <1>1, CausaPersiste
<1>2. ASSUME NEW j \in DOMAIN cola, j > i, cola[j] = [espacio |-> e, estado |-> "DISPONIBLE"]
      PROVE  \/ ~Desencola /\ LiberaTras(e, i)'
             \/ Desencola /\ i > 0 /\ LiberaTras(e, i - 1)'
             \/ Desencola /\ i = 0 /\ LiberaTras(e, 0)'
             \/ Desencola /\ i = 0 /\ Head(cola) = [espacio |-> e, estado |-> "DISPONIBLE"]
  <2>1. TypeOK /\ j \in Nat \ {0}
    BY DEF ControlCausa, TypeOK
  <2>2. CASE ~Desencola
    <3>1. UNCHANGED cola \/ \E x \in Evento : cola' = Append(cola, x)
      BY <2>2, ColaPaso DEF EncolaOcupado, EncolaDisponible, Evento
    <3>2. j \in DOMAIN cola' /\ cola'[j] = cola[j]
      BY <2>1, <3>1, ColaIndices
    <3>3. LiberaTras(e, i)'
      BY <1>2, <3>2 DEF LiberaTras
    <3>4. QED
      BY <2>2, <3>3
  <2>3. CASE Desencola /\ j = 1
    BY <1>2, <2>1, <2>3, ColaIndices
  <2>4. CASE Desencola /\ j > 1
    <3>1. j - 1 \in DOMAIN cola' /\ cola'[j - 1] = cola[j]
      BY <2>1, <2>4, ColaIndices
    <3>2. CASE i = 0
      <4>1. LiberaTras(e, 0)'
        BY <1>2, <2>1, <2>4, <3>1 DEF LiberaTras
      <4>2. QED
        BY <2>4, <3>2, <4>1
    <3>3. CASE i > 0
      <4>1. j - 1 > i - 1
        BY <1>2, <2>1
      <4>2. LiberaTras(e, i - 1)'
        BY <1>2, <3>1, <4>1 DEF LiberaTras
      <4>3. QED
        BY <2>4, <3>3, <4>2
    <3>4. QED
      BY <3>2, <3>3
  <2>5. QED
    BY <2>1, <2>2, <2>3, <2>4
<1>3. QED
  BY <1>1, <1>2 DEF LiberaTras

LEMMA EventoPaso == IndCausa /\ [Next]_vars => EventoConCausa'
<1> SUFFICES ASSUME IndCausa, [Next]_vars PROVE EventoConCausa'
  OBVIOUS
<1>1. ControlCausa /\ TypeOK /\ TypeOK'
  BY TipoPaso DEF IndCausa, ControlCausa
<1> SUFFICES ASSUME NEW i \in DOMAIN cola', NEW e \in Espacios,
                    cola'[i].espacio = e, cola'[i].estado = "OCUPADO"
             PROVE  CausaDirecta(e)' \/ LiberaTras(e, i)'
  <2>1. ASSUME NEW i \in DOMAIN cola' PROVE cola'[i].espacio \in Espacios
    <3>1. cola'[i] \in Evento
      BY <1>1 DEF TypeOK
    <3>2. QED
      BY <3>1 DEF Evento
  <2>2. QED
    BY <2>1 DEF EventoConCausa
<1>2. i \in Nat \ {0} /\ cola'[i] \in Evento
  BY <1>1 DEF TypeOK
<1>4. ASSUME EncolaDisponible(e) PROVE LiberaTras(e, i)'
  <2>1. /\ Len(cola) + 1 \in DOMAIN cola'
        /\ cola'[Len(cola) + 1] = [espacio |-> e, estado |-> "DISPONIBLE"]
        /\ i \in 1..(Len(cola) + 1)
    BY <1>1, <1>4 DEF EncolaDisponible, TypeOK, Evento
  <2>2. i # Len(cola) + 1
    <3>1. SUFFICES ASSUME i = Len(cola) + 1 PROVE FALSE
      OBVIOUS
    <3>2. cola'[i].estado = "DISPONIBLE"
      BY <2>1, <3>1
    <3>3. QED
      BY <3>2
  <2>3. Len(cola) + 1 > i
    BY <1>1, <2>1, <2>2 DEF TypeOK
  <2>4. QED
    BY <2>1, <2>3 DEF LiberaTras
<1>5. ASSUME i \in DOMAIN cola, cola[i] = cola'[i], ~Desencola
      PROVE  CausaDirecta(e)' \/ LiberaTras(e, i)'
  <2>1. CausaDirecta(e) \/ LiberaTras(e, i)
    BY <1>5 DEF IndCausa, EventoConCausa
  <2>2. QED
    BY <1>1, <1>2, <1>4, <1>5, <2>1, ConCausaPersiste
<1>6. CASE UNCHANGED cola
  <2>1. ~Desencola
    BY <1>1, <1>6 DEF Desencola, TypeOK
  <2>2. QED
    BY <1>5, <1>6, <2>1
<1>7. ASSUME NEW x \in Evento, cola' = Append(cola, x)
      PROVE  ~Desencola /\ (i = Len(cola) + 1 => cola'[i] = x)
             /\ (i # Len(cola) + 1 => i \in DOMAIN cola /\ cola[i] = cola'[i])
  BY <1>1, <1>7 DEF Desencola, TypeOK
<1>8. CASE EncolaOcupado
  <2>1. PICK d \in Espacios : cola' = Append(cola, [espacio |-> d, estado |-> "OCUPADO"])
                             /\ CausaDirecta(d)'
    BY <1>8 DEF EncolaOcupado
  <2>2. [espacio |-> d, estado |-> "OCUPADO"] \in Evento
    BY DEF Evento
  <2>3. CASE i = Len(cola) + 1
    BY <1>7, <2>1, <2>2, <2>3
  <2>4. CASE i # Len(cola) + 1
    BY <1>5, <1>7, <2>1, <2>2, <2>4
  <2>5. QED
    BY <2>3, <2>4
<1>9. ASSUME NEW d \in Espacios, EncolaDisponible(d)
      PROVE  CausaDirecta(e)' \/ LiberaTras(e, i)'
  <2>1. [espacio |-> d, estado |-> "DISPONIBLE"] \in Evento
    BY DEF Evento
  <2>2. i # Len(cola) + 1
    BY <1>7, <1>9, <2>1 DEF EncolaDisponible
  <2>3. QED
    BY <1>5, <1>7, <1>9, <2>1, <2>2 DEF EncolaDisponible
<1>10. CASE Desencola
  <2>1. i + 1 \in DOMAIN cola /\ cola[i + 1] = cola'[i]
    BY <1>1, <1>2, <1>10 DEF Desencola, TypeOK
  <2>2. CausaDirecta(e) \/ LiberaTras(e, i + 1)
    BY <2>1 DEF IndCausa, EventoConCausa
  <2>3. i + 1 \in Nat /\ i + 1 > 0 /\ (i + 1) - 1 = i
    BY <1>2
  <2>4. \/ CausaDirecta(e)'
        \/ EncolaDisponible(e)
        \/ LiberaTras(e, (i + 1) - 1)'
    BY <1>1, <1>10, <2>2, <2>3, ConCausaPersiste
  <2>5. QED
    BY <1>4, <2>3, <2>4
<1>11. QED
  BY <1>1, <1>6, <1>8, <1>9, <1>10, ColaPaso


LEMMA EspacioPaso == IndCausa /\ [Next]_vars => EspacioConCausa'
<1> SUFFICES ASSUME IndCausa, [Next]_vars, NEW e \in Espacios, estado'[e] = "OCUPADO"
             PROVE  CausaDirecta(e)' \/ LiberaTras(e, 0)'
  BY DEF EspacioConCausa
<1>1. ControlCausa /\ TypeOK
  BY DEF IndCausa, ControlCausa
<1> DEFINE libre == [espacio |-> e, estado |-> "DISPONIBLE"]
           Meta == CausaDirecta(e)' \/ LiberaTras(e, 0)'
<1>2. ASSUME EncolaDisponible(e) PROVE LiberaTras(e, 0)'
  <2>1. Len(cola) + 1 \in DOMAIN cola' /\ cola'[Len(cola) + 1] = libre /\ Len(cola) + 1 > 0
    BY <1>1, <1>2 DEF EncolaDisponible, TypeOK, Evento
  <2>2. QED
    BY <2>1 DEF LiberaTras
<1>3. CASE ConsumirEvento
  <2>1. cola # <<>> /\ Desencola /\ Head(cola) \in Evento /\ Head(cola) = cola[1]
        /\ 1 \in DOMAIN cola
    BY <1>1, <1>3 DEF ConsumirEvento, Desencola, TypeOK
  <2>2. ~EncolaDisponible(e)
    BY <1>1, <2>1 DEF Desencola, EncolaDisponible, TypeOK, Evento
  <2>3. CASE Head(cola).estado = "OCUPADO" /\ Head(cola).espacio = e
    <3>1. CausaDirecta(e) \/ LiberaTras(e, 1)
      BY <2>1, <2>3 DEF IndCausa, EventoConCausa
    <3>2. CausaDirecta(e)' \/ LiberaTras(e, 1 - 1)'
      BY <1>1, <2>1, <2>2, <3>1, ConCausaPersiste
    <3>3. QED
      BY <3>2
  <2>4. CASE Head(cola).espacio = e /\ Head(cola).estado = "DISPONIBLE"
    <3>1. Fuga(e) \in averias'
      BY <1>1, <1>3, <2>4 DEF ConsumirEvento, ActualizarEstado, TypeOK
    <3>2. QED
      BY <3>1 DEF CausaDirecta
  <2>5. CASE Head(cola).espacio # e
    <3>1. estado[e] = "OCUPADO"
      BY <1>1, <1>3, <2>5 DEF ConsumirEvento, ActualizarEstado, TypeOK
    <3>2. CausaDirecta(e) \/ LiberaTras(e, 0)
      BY <3>1 DEF IndCausa, EspacioConCausa
    <3>3. Head(cola) # libre
      BY <2>5
    <3>4. QED
      BY <1>1, <2>1, <2>2, <3>2, <3>3, ConCausaPersiste
  <2>6. QED
    BY <2>1, <2>3, <2>4, <2>5 DEF Evento
<1>4. ASSUME ~ConsumirEvento PROVE ~Desencola
  <2>1. SUFFICES ASSUME Desencola PROVE FALSE
    OBVIOUS
  <2>2. cola' # cola /\ \A x \in Evento : cola' # Append(cola, x)
    BY <1>1, <2>1 DEF Desencola, TypeOK
  <2>3. ASSUME NEW t \in Tickets, EmitirAlta(t) PROVE FALSE
    <3>1. [espacio |-> IdEspacio[t], estado |-> "OCUPADO"] \in Evento
      BY ParqueoAssumption DEF Evento
    <3>2. QED
      BY <2>2, <2>3, <3>1 DEF EmitirAlta, Emitir
  <2>4. ASSUME NEW c \in Cierres, EmitirCierre(c) PROVE FALSE
    <3>1. [espacio |-> EspacioDe(c), estado |-> "DISPONIBLE"] \in Evento
      BY TipoCierre DEF Evento
    <3>2. QED
      BY <2>2, <2>4, <3>1 DEF EmitirCierre, Emitir
  <2>5. QED
    BY <1>4, <2>2, <2>3, <2>4
       DEF Next, ContinuarAlta, ContinuarCierre, vars, LeerEspacio, RechazarDatos,
           ConsultarActivo, Insertar, EnviarOcupado, OcupadoConfirmado, OcupadoFallido,
           Revertir, AtenderOcupado, LeerTicket, Persistir, EnviarDisponible,
           DisponibleConfirmado, DisponibleFallido, AtenderDisponible, ConsumirSinAck,
           CambioManual, Caida
<1>5. ASSUME ~ConsumirEvento, estado[e] = "OCUPADO" PROVE Meta
  <2>1. CausaDirecta(e) \/ LiberaTras(e, 0)
    BY <1>5 DEF IndCausa, EspacioConCausa
  <2>2. QED
    BY <1>1, <1>2, <1>4, <1>5, <2>1, ConCausaPersiste
<1>6. ASSUME NEW t \in Tickets, AtenderOcupado(t), estado[e] # "OCUPADO" PROVE Meta
  <2>1. t \in postsAlta /\ IdEspacio[t] = e
    BY <1>1, <1>6 DEF AtenderOcupado, ActualizarEstado, TypeOK
  <2>2. ticket[t] = "ACTIVO" \/ Fuga(e) \in averias
    BY <2>1 DEF IndCausa, PostConCausa
  <2>3. CausaDirecta(e)'
    BY <1>6, <2>1, <2>2 DEF AtenderOcupado, serviceVars, CausaDirecta, ActivosEn
  <2>4. QED
    BY <2>3
<1>7. ASSUME NEW c \in Cierres, AtenderDisponible(c), estado[e] # "OCUPADO" PROVE Meta
  BY <1>1, <1>7, TipoCierre DEF AtenderDisponible, ActualizarEstado, TypeOK
<1>8. ASSUME ConsumirSinAck, estado[e] # "OCUPADO" PROVE Meta
  <2>1. cola # <<>> /\ Head(cola) = cola[1] /\ 1 \in DOMAIN cola /\ UNCHANGED cola
    BY <1>1, <1>8 DEF ConsumirSinAck, TypeOK
  <2>2. Head(cola).espacio = e /\ Head(cola).estado = "OCUPADO"
    BY <1>1, <1>8 DEF ConsumirSinAck, ActualizarEstado, TypeOK
  <2>3. CausaDirecta(e) \/ LiberaTras(e, 1)
    BY <2>1, <2>2 DEF IndCausa, EventoConCausa
  <2>4. CASE CausaDirecta(e)
    BY <1>1, <1>2, <2>4, CausaPersiste
  <2>5. CASE LiberaTras(e, 1)
    <3>1. PICK j \in DOMAIN cola : j > 1 /\ cola[j] = libre
      BY <2>5 DEF LiberaTras
    <3>2. j \in DOMAIN cola' /\ cola'[j] = libre /\ j > 0
      BY <1>1, <2>1, <3>1 DEF TypeOK
    <3>3. QED
      BY <3>2 DEF LiberaTras
  <2>6. QED
    BY <2>3, <2>4, <2>5
<1>9. ASSUME NEW d \in Espacios, CambioManual(d), estado[e] # "OCUPADO" PROVE Meta
  <2>1. Fuga(e) \in averias'
    BY <1>1, <1>9 DEF CambioManual, ActualizarEstado, TypeOK
  <2>2. QED
    BY <2>1 DEF CausaDirecta
<1>10. ASSUME UNCHANGED estado, ~ConsumirEvento PROVE Meta
  BY <1>5, <1>10
<1>11. QED
  BY <1>3, <1>5, <1>6, <1>7, <1>8, <1>9, <1>10
     DEF Next, ContinuarAlta, ContinuarCierre, vars, zonasVars, LeerEspacio, RechazarDatos,
         ConsultarActivo, Insertar, EnviarOcupado, OcupadoConfirmado, OcupadoFallido, Revertir,
         EmitirAlta, LeerTicket, Persistir, EnviarDisponible, DisponibleConfirmado,
         DisponibleFallido, EmitirCierre, Caida

LEMMA CausaPaso == IndCausa /\ [Next]_vars => IndCausa'
  BY ControlPaso, EventoPaso, EspacioPaso DEF IndCausa, ControlCausa

\* No space is lost, for any number of spaces, tickets and overlapping requests
\* and however calls fail, messages repeat or the service crashes: what Zonas
\* holds OCUPADO has an active ticket, a release under way, or a logged fault.
THEOREM SinFugas == Spec => []OcupadoTieneCausa
  BY CausaInicial, CausaPaso, CausaBasta, PTL DEF Spec

-----------------------------------------------------------------------------
(***************************************************************************)
(* No answered ticket is lost.                                             *)
(***************************************************************************)

\* A ticket is closed only after its creation was answered, and a request that
\* was answered has its row.
ControlTicket ==
  /\ ControlCausa
  /\ \A t \in Tickets :
       /\ ticket[t] \in Cerrados => pcAlta[t] = "respondido"
       /\ pcAlta[t] = "respondido" => ticket[t] # "ausente"

LEMMA ControlTicketInicial == Init => ControlTicket
  BY CausaInicial DEF Init, ControlTicket, ControlCausa, IndCausa, Cerrados

LEMMA ControlTicketPaso ==
  ASSUME ControlTicket, [Next]_vars
  PROVE  /\ ControlTicket'
         /\ \A t \in Tickets :
              /\ pcAlta[t] = "respondido" => ticket'[t] # "ausente"
              /\ ticket[t] \in Cerrados => ticket'[t] \in Cerrados
<1> DEFINE Paso ==
      \A t \in Tickets :
        /\ ticket'[t] \in Cerrados => pcAlta'[t] = "respondido"
        /\ pcAlta'[t] = "respondido" => ticket'[t] # "ausente"
        /\ pcAlta[t] = "respondido" => ticket'[t] # "ausente"
        /\ ticket[t] \in Cerrados => ticket'[t] \in Cerrados
<1>1. ControlCausa'
  BY ControlPaso DEF ControlTicket
<1>2. ControlCausa /\ TypeOK
  BY DEF ControlTicket, ControlCausa
<1> USE <1>2 DEF ControlTicket, TypeOK, Cerrados
<1>3. ASSUME NEW t \in Tickets, Insertar(t) PROVE Paso
  BY <1>3 DEF Insertar, PasoAlta
<1>4. ASSUME NEW t \in Tickets, Revertir(t) PROVE Paso
  BY <1>4 DEF Revertir, PasoAlta
<1>5. ASSUME NEW t \in Tickets, EmitirAlta(t) PROVE Paso
  BY <1>5 DEF EmitirAlta, PasoAlta, ControlCausa, AltaActiva
<1>6. ASSUME NEW c \in Cierres, Persistir(c) PROVE Paso
  <2>1. pcAlta[TicketDe(c)] = "respondido"
    BY <1>6 DEF Persistir, Cerrar, PasoCierre, ControlCausa, CierreDeConfirmado
  <2>2. QED
    BY <1>6, <2>1, TipoCierre DEF Persistir, Cerrar
<1>7. ASSUME Caida PROVE Paso
  BY <1>7 DEF Caida, EnCursoAlta
<1>8. ASSUME NEW t \in Tickets,
             LeerEspacio(t) \/ RechazarDatos(t) \/ ConsultarActivo(t) \/ EnviarOcupado(t)
             \/ OcupadoConfirmado(t) \/ OcupadoFallido(t)
      PROVE  Paso
  BY <1>8 DEF LeerEspacio, RechazarDatos, ConsultarActivo, EnviarOcupado, OcupadoConfirmado,
              OcupadoFallido, PasoAlta
<1>9. ASSUME UNCHANGED <<pcAlta, ticket>> PROVE Paso
  BY <1>9
<1>10. Paso
  BY <1>3, <1>4, <1>5, <1>6, <1>7, <1>8, <1>9
     DEF Next, ContinuarAlta, ContinuarCierre, vars, serviceVars, AtenderOcupado, LeerTicket,
         EnviarDisponible, DisponibleConfirmado, DisponibleFallido, AtenderDisponible,
         EmitirCierre, ConsumirEvento, ConsumirSinAck, CambioManual
<1>11. QED
  BY <1>1, <1>10

\* A ticket that was answered is never taken back, and one that was closed is
\* never active again, whatever requests overlap, fail or are cut by a crash.
THEOREM NoSePierde == Spec => TicketNoSePierde
  BY ControlTicketInicial, ControlTicketPaso, PTL DEF Spec, TicketNoSePierde

-----------------------------------------------------------------------------
(***************************************************************************)
(* With serial clients.  The check of the table and the insert are two     *)
(* steps, and so are the check of a ticket and its update: what was        *)
(* checked still holds because the one request in course does nothing in   *)
(* between, and that is what the invariant adds.                           *)
(***************************************************************************)

\* At most one request is in course.
UnaSolicitud ==
  /\ \A t, u \in Tickets : pcAlta[t] \in EnCursoAlta /\ pcAlta[u] \in EnCursoAlta => t = u
  /\ \A c, d \in Cierres : pcCierre[c] \in EnCursoCierre /\ pcCierre[d] \in EnCursoCierre => c = d
  /\ \A t \in Tickets, c \in Cierres :
       ~(pcAlta[t] \in EnCursoAlta /\ pcCierre[c] \in EnCursoCierre)

\* What a request has checked and relies on in its next step.
Comprobado ==
  /\ \A t \in Tickets :
       /\ pcAlta[t] \in {"inicio", "leido", "validado"} => ticket[t] = "ausente"
       /\ pcAlta[t] = "validado" => ActivosEn(IdEspacio[t]) = {}
       /\ pcAlta[t] = "revertir" => ticket[t] = "ACTIVO"
  /\ \A c \in Cierres : pcCierre[c] = "leido" => ticket[TicketDe(c)] = "ACTIVO"

CobroExacto == \A t \in Tickets : cobrado[t] <=> ticket[t] = "PAGADO"

IndSerial ==
  /\ ControlTicket
  /\ UnaSolicitud
  /\ Comprobado
  /\ UnActivoPorEspacio
  /\ CobroExacto

LEMMA SerialInicial == Init => IndSerial
  BY ControlTicketInicial
     DEF Init, IndSerial, UnaSolicitud, Comprobado, UnActivoPorEspacio, CobroExacto,
         EnCursoAlta, EnCursoCierre

LEMMA UnaSolicitudPaso ==
  ASSUME Serial, ControlTicket, UnaSolicitud, [Next]_vars
  PROVE  UnaSolicitud'
<1>1. TypeOK
  BY DEF ControlTicket, ControlCausa
<1> USE <1>1 DEF TypeOK, UnaSolicitud, EnCursoAlta, EnCursoCierre
<1>2. ASSUME NEW t \in Tickets, LeerEspacio(t) PROVE UnaSolicitud'
  BY <1>2 DEF LeerEspacio, PasoAlta, PuedeEmpezar, SinSolicitudes
<1>3. ASSUME NEW c \in Cierres, LeerTicket(c) PROVE UnaSolicitud'
  BY <1>3 DEF LeerTicket, PuedeEmpezar, SinSolicitudes
<1>4. ASSUME NEW t \in Tickets, ContinuarAlta(t) PROVE UnaSolicitud'
  <2>1. pcAlta[t] \in EnCursoAlta /\ UNCHANGED pcCierre
        /\ \E fin \in EnCursoAlta \cup FinAlta : pcAlta' = [pcAlta EXCEPT ![t] = fin]
    BY <1>4 DEF ContinuarAlta, RechazarDatos, ConsultarActivo, Insertar, EnviarOcupado,
                OcupadoConfirmado, OcupadoFallido, Revertir, EmitirAlta, PasoAlta, FinAlta
  <2>2. QED
    BY <2>1
<1>5. ASSUME NEW c \in Cierres, ContinuarCierre(c) PROVE UnaSolicitud'
  <2>1. pcCierre[c] \in EnCursoCierre /\ UNCHANGED pcAlta
        /\ \E fin \in EnCursoCierre \cup FinCierre : pcCierre' = [pcCierre EXCEPT ![c] = fin]
    BY <1>5 DEF ContinuarCierre, Persistir, Cerrar, EnviarDisponible, DisponibleConfirmado,
                DisponibleFallido, EmitirCierre, PasoCierre, FinCierre
  <2>2. QED
    BY <2>1
<1>6. CASE Caida
  BY <1>6 DEF Caida
<1>7. CASE UNCHANGED <<pcAlta, pcCierre>>
  BY <1>7
<1>8. QED
  BY <1>2, <1>3, <1>4, <1>5, <1>6, <1>7
     DEF Next, vars, serviceVars, AtenderOcupado, AtenderDisponible, ConsumirEvento,
         ConsumirSinAck, CambioManual

\* The part of the invariant that talks of the tickets, by the actions that
\* touch them or the control.
Hechos == Comprobado /\ UnActivoPorEspacio /\ CobroExacto

LEMMA HechosPaso ==
  ASSUME IndSerial, [Next]_vars
  PROVE  Hechos'
<1>1. TypeOK /\ AltaActiva /\ CierreDeConfirmado
  BY DEF IndSerial, ControlTicket, ControlCausa
<1> USE <1>1 DEF IndSerial, Hechos, TypeOK, Comprobado, CobroExacto
<1>2. ASSUME NEW t \in Tickets, LeerEspacio(t) \/ RechazarDatos(t) PROVE Hechos'
  BY <1>2 DEF LeerEspacio, RechazarDatos, PasoAlta, ActivosEn, UnActivoPorEspacio
<1>3. ASSUME NEW t \in Tickets, ConsultarActivo(t) PROVE Hechos'
  BY <1>3 DEF ConsultarActivo, PasoAlta, ActivosEn, UnActivoPorEspacio
<1>4. ASSUME NEW t \in Tickets, EnviarOcupado(t) \/ OcupadoConfirmado(t) \/ OcupadoFallido(t)
      PROVE  Hechos'
  BY <1>4 DEF EnviarOcupado, OcupadoConfirmado, OcupadoFallido, PasoAlta, ActivosEn,
              UnActivoPorEspacio, AltaActiva
<1>5. ASSUME NEW t \in Tickets, Insertar(t) PROVE Hechos'
  <2>1. pcAlta[t] = "validado" /\ ticket[t] = "ausente" /\ ActivosEn(IdEspacio[t]) = {}
        /\ \A u \in Tickets : pcAlta[u] = "validado" => u = t
    BY <1>5 DEF Insertar, PasoAlta, UnaSolicitud, EnCursoAlta
  <2>2. \A c \in Cierres : pcCierre[c] # "leido"
    BY <2>1 DEF UnaSolicitud, EnCursoAlta, EnCursoCierre
  <2>3. UnActivoPorEspacio'
    BY <1>5, <2>1 DEF Insertar, ActivosEn, UnActivoPorEspacio
  <2>4. \A u \in Tickets : pcAlta'[u] # "validado"
    BY <1>5, <2>1 DEF Insertar, PasoAlta
  <2>5. Comprobado'
    BY <1>5, <2>1, <2>2, <2>4 DEF Insertar, PasoAlta
  <2>6. CobroExacto'
    BY <1>5, <2>1 DEF Insertar
  <2>7. QED
    BY <2>3, <2>5, <2>6
<1>6. ASSUME NEW t \in Tickets, Revertir(t) PROVE Hechos'
  <2>1. pcAlta[t] = "revertir" /\ ticket[t] = "ACTIVO"
        /\ \A u \in Tickets : pcAlta[u] # "validado"
        /\ \A c \in Cierres : pcCierre[c] # "leido"
    BY <1>6 DEF Revertir, PasoAlta, UnaSolicitud, EnCursoAlta, EnCursoCierre
  <2>2. UnActivoPorEspacio'
    BY <1>6 DEF Revertir, UnActivoPorEspacio
  <2>3. Comprobado'
    BY <1>6, <2>1 DEF Revertir, PasoAlta
  <2>4. CobroExacto'
    BY <1>6, <2>1 DEF Revertir
  <2>5. QED
    BY <2>2, <2>3, <2>4
<1>7. ASSUME NEW t \in Tickets, EmitirAlta(t) PROVE Hechos'
  BY <1>7 DEF EmitirAlta, PasoAlta, ActivosEn, UnActivoPorEspacio
<1>8. ASSUME NEW c \in Cierres, LeerTicket(c) PROVE Hechos'
  BY <1>8 DEF LeerTicket, ActivosEn, UnActivoPorEspacio
<1>9. ASSUME NEW c \in Cierres, Persistir(c) PROVE Hechos'
  <2>1. /\ pcCierre[c] = "leido"
        /\ pcAlta[TicketDe(c)] = "respondido"
        /\ ticket[TicketDe(c)] = "ACTIVO"
        /\ \A t \in Tickets : pcAlta[t] \notin {"validado", "revertir"}
        /\ \A d \in Cierres : pcCierre[d] = "leido" => d = c
    BY <1>9 DEF Persistir, Cerrar, PasoCierre, CierreDeConfirmado, UnaSolicitud, EnCursoAlta, EnCursoCierre
  <2>2. \A d \in Cierres : pcCierre'[d] # "leido"
    BY <1>9, <2>1 DEF Persistir, Cerrar, PasoCierre
  <2>3. Comprobado'
    BY <1>9, <2>1, <2>2, TipoCierre DEF Persistir, Cerrar
  <2>4. UnActivoPorEspacio'
    BY <1>9, TipoCierre DEF Persistir, Cerrar, UnActivoPorEspacio
  <2>5. CobroExacto'
    BY <1>9, <2>1, TipoCierre DEF Persistir, Cerrar
  <2>6. QED
    BY <2>3, <2>4, <2>5
<1>10. ASSUME NEW c \in Cierres,
              EnviarDisponible(c) \/ DisponibleConfirmado(c) \/ DisponibleFallido(c)
              \/ EmitirCierre(c)
       PROVE  Hechos'
  BY <1>10 DEF EnviarDisponible, DisponibleConfirmado, DisponibleFallido, EmitirCierre,
               PasoCierre, ActivosEn, UnActivoPorEspacio
<1>11. CASE Caida
  BY <1>11 DEF Caida, EnCursoAlta, EnCursoCierre, ActivosEn, UnActivoPorEspacio
<1>12. CASE UNCHANGED serviceVars
  BY <1>12 DEF serviceVars, ActivosEn, UnActivoPorEspacio
<1>13. QED
  BY <1>2, <1>3, <1>4, <1>5, <1>6, <1>7, <1>8, <1>9, <1>10, <1>11, <1>12
     DEF Next, ContinuarAlta, ContinuarCierre, vars, serviceVars, AtenderOcupado,
         AtenderDisponible, ConsumirEvento, ConsumirSinAck, CambioManual

LEMMA SerialPaso == ASSUME Serial PROVE IndSerial /\ [Next]_vars => IndSerial'
  BY ControlTicketPaso, UnaSolicitudPaso, HechosPaso DEF IndSerial, Hechos

\* With serial clients no space ever has two active tickets, whatever state
\* Zonas shows, whatever fails and wherever the service crashes.
THEOREM UnActivo == ASSUME Serial PROVE Spec => []UnActivoPorEspacio
<1>1. IndSerial => UnActivoPorEspacio
  BY DEF IndSerial
<1>2. IndSerial /\ [Next]_vars => IndSerial'
  BY SerialPaso
<1>3. QED
  BY <1>1, <1>2, SerialInicial, PTL DEF Spec

\* With serial clients a closed ticket was charged exactly when it was paid.
THEOREM Cobro == ASSUME Serial PROVE Spec => []CobroCoherente
<1>1. IndSerial => CobroCoherente
  BY DEF IndSerial, CobroExacto, CobroCoherente
<1>2. IndSerial /\ [Next]_vars => IndSerial'
  BY SerialPaso
<1>3. QED
  BY <1>1, <1>2, SerialInicial, PTL DEF Spec

-----------------------------------------------------------------------------
(***************************************************************************)
(* The service implements the abstract life of a ticket.                   *)
(***************************************************************************)

Confirmados == {t \in Tickets : pcAlta[t] = "respondido"}

LEMMA CicloInicial == Init => Ciclo!Init
  BY DEF Init, Ciclo!Init

\* Four steps of the service are steps of a ticket's life; every other one
\* leaves both the rows and the answers alone.
LEMMA CicloPaso ==
  ASSUME IndSerial, [Next]_vars
  PROVE  [Ciclo!Next]_(Ciclo!cicloVars)
<1> DEFINE Quieto == UNCHANGED ticket /\ Confirmados' = Confirmados
           Meta == [Ciclo!Next]_(Ciclo!cicloVars)
<1>1. TypeOK /\ AltaActiva /\ CierreDeConfirmado
  BY DEF IndSerial, ControlTicket, ControlCausa
<1> USE <1>1 DEF IndSerial, TypeOK, Comprobado
<1>2. ASSUME Quieto PROVE Meta
  BY <1>2 DEF Ciclo!cicloVars, Confirmados
<1>3. ASSUME NEW t \in Tickets, Insertar(t) PROVE Meta
  <2>1. pcAlta[t] = "validado" /\ ticket[t] = "ausente" /\ ActivosEn(IdEspacio[t]) = {}
    BY <1>3 DEF Insertar, PasoAlta
  <2>2. Confirmados' = Confirmados
    BY <1>3, <2>1 DEF Insertar, PasoAlta, Confirmados
  <2>3. CASE ticket' = [ticket EXCEPT ![t] = "ACTIVO"]
    <3>1. Ciclo!Abrir(t)
      BY <2>1, <2>2, <2>3 DEF Ciclo!Abrir, Ciclo!Ocupantes, ActivosEn, Confirmados
    <3>2. QED
      BY <3>1 DEF Ciclo!Next
  <2>4. CASE UNCHANGED ticket
    BY <1>2, <2>2, <2>4
  <2>5. QED
    BY <1>3, <2>3, <2>4 DEF Insertar
<1>4. ASSUME NEW t \in Tickets, Revertir(t) PROVE Meta
  <2>1. pcAlta[t] = "revertir" /\ ticket[t] = "ACTIVO"
    BY <1>4 DEF Revertir, PasoAlta
  <2>2. Confirmados' = Confirmados /\ t \notin Confirmados
    BY <1>4, <2>1 DEF Revertir, PasoAlta, Confirmados
  <2>3. CASE ticket' = [ticket EXCEPT ![t] = "ausente"]
    <3>1. Ciclo!Deshacer(t)
      BY <2>1, <2>2, <2>3 DEF Ciclo!Deshacer, Confirmados
    <3>2. QED
      BY <3>1 DEF Ciclo!Next
  <2>4. CASE UNCHANGED ticket
    BY <1>2, <2>2, <2>4
  <2>5. QED
    BY <1>4, <2>3, <2>4 DEF Revertir
<1>5. ASSUME NEW t \in Tickets, EmitirAlta(t) PROVE Meta
  <2>1. pcAlta[t] = "emitir" /\ ticket[t] = "ACTIVO" /\ UNCHANGED ticket
    BY <1>5 DEF EmitirAlta, PasoAlta, AltaActiva
  <2>2. Confirmados' = Confirmados \cup {t} /\ t \notin Confirmados
    BY <1>5, <2>1 DEF EmitirAlta, PasoAlta, Confirmados
  <2>3. Ciclo!Confirmar(t)
    BY <2>1, <2>2 DEF Ciclo!Confirmar, Confirmados
  <2>4. QED
    BY <2>3 DEF Ciclo!Next
<1>6. ASSUME NEW c \in Cierres, Persistir(c) PROVE Meta
  <2>1. pcCierre[c] = "leido" /\ TicketDe(c) \in Confirmados /\ ticket[TicketDe(c)] = "ACTIVO"
        /\ Confirmados' = Confirmados
    BY <1>6, TipoCierre DEF Persistir, Cerrar, PasoCierre, CierreDeConfirmado, Confirmados
  <2>2. CASE ticket' = [ticket EXCEPT ![TicketDe(c)] = EstadoFinal(c)]
    <3>1. Ciclo!Cerrar(TicketDe(c), EstadoFinal(c))
      BY <2>1, <2>2 DEF Ciclo!Cerrar, Confirmados
    <3>2. QED
      BY <3>1, TipoCierre DEF Ciclo!Next
  <2>3. CASE UNCHANGED ticket
    BY <1>2, <2>1, <2>3
  <2>4. QED
    BY <1>6, <2>2, <2>3 DEF Persistir, Cerrar
<1>7. ASSUME NEW t \in Tickets,
             LeerEspacio(t) \/ RechazarDatos(t) \/ ConsultarActivo(t) \/ EnviarOcupado(t)
             \/ OcupadoConfirmado(t) \/ OcupadoFallido(t)
      PROVE  Meta
  <2>1. UNCHANGED ticket /\ pcAlta[t] # "respondido"
        /\ \E fin \in {"leido", "validado", "esperando", "emitir", "revertir", "rechazado"} :
             pcAlta' = [pcAlta EXCEPT ![t] = fin]
    BY <1>7 DEF LeerEspacio, RechazarDatos, ConsultarActivo, EnviarOcupado, OcupadoConfirmado,
                OcupadoFallido, PasoAlta
  <2>2. Confirmados' = Confirmados
    BY <2>1 DEF Confirmados
  <2>3. QED
    BY <1>2, <2>1, <2>2
<1>8. CASE Caida
  <2>1. UNCHANGED ticket /\ Confirmados' = Confirmados
    BY <1>8 DEF Caida, Confirmados, EnCursoAlta
  <2>2. QED
    BY <1>2, <2>1
<1>9. CASE UNCHANGED <<pcAlta, ticket>>
  BY <1>2, <1>9 DEF Confirmados
<1>10. QED
  BY <1>3, <1>4, <1>5, <1>6, <1>7, <1>8, <1>9
     DEF Next, ContinuarAlta, ContinuarCierre, vars, serviceVars, AtenderOcupado, LeerTicket,
         EnviarDisponible, DisponibleConfirmado, DisponibleFallido, AtenderDisponible,
         EmitirCierre, ConsumirEvento, ConsumirSinAck, CambioManual

\* With serial clients every behaviour of the service, with its faults and its
\* crashes, is a behaviour of CicloTicket.
THEOREM Refinamiento == ASSUME Serial PROVE Spec => RefinaCiclo
<1>1. IndSerial /\ [Next]_vars => IndSerial'
  BY SerialPaso
<1>2. IndSerial /\ [Next]_vars => [Ciclo!Next]_(Ciclo!cicloVars)
  BY CicloPaso
<1>3. QED
  BY <1>1, <1>2, SerialInicial, CicloInicial, PTL DEF Spec, RefinaCiclo, Ciclo!Spec

-----------------------------------------------------------------------------
(***************************************************************************)
(* Convergence, with serial clients.  An active ticket finds its space     *)
(* OCUPADO at rest because the event of its creation, queued last, undoes  *)
(* every late release of the space that is queued before it.  The          *)
(* invariant follows that event through the queue (Marcado) and says that  *)
(* no release is on its way over HTTP while the ticket is active.          *)
(***************************************************************************)

Ocupa(e) == [espacio |-> e, estado |-> "OCUPADO"]

Libera(e) == [espacio |-> e, estado |-> "DISPONIBLE"]

\* No event behind position i of the queue frees the space.
SinLiberar(e, i) == \A j \in DOMAIN cola : j > i => cola[j] # Libera(e)

\* The space is OCUPADO, or the queue will make it so, and nothing queued frees
\* it after that.
Marcado(e) ==
  \/ estado[e] = "OCUPADO" /\ SinLiberar(e, 0)
  \/ \E i \in DOMAIN cola : cola[i] = Ocupa(e) /\ SinLiberar(e, i)

PostAnotado ==
  \A c \in postsCierre : pcCierre[c] = "esperando" \/ Hueco(EspacioDe(c)) \in averias

\* A request that inserted its ticket and did not answer is running, or has left
\* the ticket behind for good.
ActivoVigilado ==
  \A t \in Tickets :
    ticket[t] = "ACTIVO" =>
      \/ pcAlta[t] \in TrasInsertar \cup {"respondido"}
      \/ Hueco(IdEspacio[t]) \in averias

CierreSinActivos ==
  \A c \in Cierres : pcCierre[c] \in TrasPersistir => ActivosEn(EspacioDe(c)) = {}

ActivoMarcado ==
  \A t \in Tickets :
    ticket[t] = "ACTIVO" /\ pcAlta[t] = "respondido" =>
      Marcado(IdEspacio[t]) \/ Hueco(IdEspacio[t]) \in averias

Vigilancia == PostAnotado /\ ActivoVigilado /\ CierreSinActivos

IndConvergencia == IndCausa /\ IndSerial /\ Vigilancia /\ ActivoMarcado

LEMMA ConvergenciaInicial == Init => IndConvergencia
<1> SUFFICES ASSUME Init PROVE IndConvergencia
  OBVIOUS
<1>1. IndCausa /\ IndSerial
  BY CausaInicial, SerialInicial
<1>2. Vigilancia /\ ActivoMarcado
  BY DEF Init, Vigilancia, PostAnotado, ActivoVigilado, CierreSinActivos, ActivoMarcado, TrasPersistir
<1> QED
  BY <1>1, <1>2 DEF IndConvergencia

\* The history of the faults only grows.
LEMMA AveriasCrecen == [Next]_vars => averias \subseteq averias'
BY DEF Next, ContinuarAlta, ContinuarCierre, vars, LeerEspacio, RechazarDatos,
       ConsultarActivo, Insertar, EnviarOcupado, OcupadoConfirmado, OcupadoFallido, Revertir,
       AtenderOcupado, LeerTicket, Persistir, EnviarDisponible, DisponibleConfirmado,
       DisponibleFallido, AtenderDisponible, EmitirAlta, EmitirCierre, Emitir, ConsumirEvento,
       ConsumirSinAck, CambioManual, Caida

LEMMA PostAnotadoPaso ==
  ASSUME TypeOK, PostAnotado, [Next]_vars
  PROVE  PostAnotado'
<1> USE AveriasCrecen DEF TypeOK, PostAnotado, EspacioDe
<1>1. ASSUME NEW c \in Cierres, EnviarDisponible(c) PROVE PostAnotado'
  BY <1>1 DEF EnviarDisponible, PasoCierre
<1>2. ASSUME NEW c \in Cierres, DisponibleFallido(c) PROVE PostAnotado'
  BY <1>2 DEF DisponibleFallido, PasoCierre, EspacioDe
<1>3. ASSUME NEW c \in Cierres, DisponibleConfirmado(c) PROVE PostAnotado'
  BY <1>3 DEF DisponibleConfirmado, PasoCierre, zonasVars
<1>4. ASSUME NEW c \in Cierres, LeerTicket(c) \/ Persistir(c) \/ EmitirCierre(c) PROVE PostAnotado'
  BY <1>4 DEF LeerTicket, Persistir, EmitirCierre, PasoCierre, zonasVars, EnCursoCierre
<1>5. ASSUME NEW c \in Cierres, AtenderDisponible(c) PROVE PostAnotado'
  BY <1>5 DEF AtenderDisponible, serviceVars
<1>6. CASE Caida
  BY <1>6 DEF Caida, zonasVars
<1>7. CASE UNCHANGED <<pcCierre, postsCierre>>
  BY <1>7
<1> QED
  BY <1>1, <1>2, <1>3, <1>4, <1>5, <1>6, <1>7
  DEF Next, ContinuarAlta, ContinuarCierre, vars, serviceVars, zonasVars, LeerEspacio,
      RechazarDatos, ConsultarActivo, Insertar, EnviarOcupado, OcupadoConfirmado, OcupadoFallido,
      Revertir, AtenderOcupado, EmitirAlta, ConsumirEvento, ConsumirSinAck, CambioManual

LEMMA ActivoVigiladoPaso ==
  ASSUME ControlTicket, ActivoVigilado, [Next]_vars
  PROVE  ActivoVigilado'
<1>0. TypeOK /\ CierreDeConfirmado
  BY DEF ControlTicket, ControlCausa
<1> USE <1>0, AveriasCrecen DEF TypeOK, ActivoVigilado, TrasInsertar
<1>1. ASSUME NEW t \in Tickets, LeerEspacio(t) \/ RechazarDatos(t) \/ ConsultarActivo(t)
      PROVE  ActivoVigilado'
  BY <1>1 DEF LeerEspacio, RechazarDatos, ConsultarActivo, PasoAlta
<1>2. ASSUME NEW t \in Tickets, Insertar(t) PROVE ActivoVigilado'
  BY <1>2 DEF Insertar, PasoAlta
<1>3. ASSUME NEW t \in Tickets, EnviarOcupado(t) \/ OcupadoConfirmado(t) \/ OcupadoFallido(t)
      PROVE  ActivoVigilado'
  BY <1>3 DEF EnviarOcupado, OcupadoConfirmado, OcupadoFallido, PasoAlta
<1>4. ASSUME NEW t \in Tickets, Revertir(t) PROVE ActivoVigilado'
  BY <1>4 DEF Revertir, PasoAlta
<1>5. ASSUME NEW t \in Tickets, EmitirAlta(t) PROVE ActivoVigilado'
  BY <1>5 DEF EmitirAlta, PasoAlta
<1>6. ASSUME NEW c \in Cierres, Persistir(c) PROVE ActivoVigilado'
  <2>1. \A t \in Tickets : ticket'[t] = "ACTIVO" => ticket[t] = "ACTIVO"
    BY <1>6, TipoCierre DEF Persistir, Cerrar
  <2>2. pcAlta' = pcAlta
    BY <1>6 DEF Persistir
  <2> QED
    BY <2>1, <2>2
<1>7. CASE Caida
  BY <1>7 DEF Caida, EnCursoAlta
<1>8. CASE UNCHANGED <<pcAlta, ticket>>
  BY <1>8
<1> QED
  BY <1>1, <1>2, <1>3, <1>4, <1>5, <1>6, <1>7, <1>8
  DEF Next, ContinuarAlta, ContinuarCierre, vars, serviceVars, AtenderOcupado, LeerTicket,
      EnviarDisponible, DisponibleConfirmado, DisponibleFallido, AtenderDisponible, EmitirCierre,
      ConsumirEvento, ConsumirSinAck, CambioManual

LEMMA CierreSinActivosPaso ==
  ASSUME IndSerial, CierreSinActivos, [Next]_vars
  PROVE  CierreSinActivos'
<1>0. TypeOK
  BY DEF IndSerial, ControlTicket, ControlCausa
<1> USE <1>0 DEF TypeOK, CierreSinActivos, ActivosEn, EspacioDe, TrasPersistir
<1>1. ASSUME NEW t \in Tickets, Insertar(t) PROVE CierreSinActivos'
  <2>1. \A c \in Cierres : pcCierre[c] \notin TrasPersistir
    BY <1>1 DEF Insertar, PasoAlta, IndSerial, UnaSolicitud, EnCursoAlta, EnCursoCierre
  <2> QED
    BY <1>1, <2>1 DEF Insertar
<1>2. ASSUME NEW t \in Tickets, Revertir(t) PROVE CierreSinActivos'
  BY <1>2 DEF Revertir
<1>3. ASSUME NEW c \in Cierres, Persistir(c) PROVE CierreSinActivos'
  <2>1. /\ TicketDe(c) \in Tickets /\ ticket[TicketDe(c)] = "ACTIVO"
        /\ \A d \in Cierres : pcCierre[d] \notin TrasPersistir
    BY <1>3, TipoCierre
    DEF Persistir, PasoCierre, IndSerial, UnaSolicitud, Comprobado, EnCursoCierre
  <2>2. \A u \in Tickets : ticket'[u] = "ACTIVO" =>
          ticket[u] = "ACTIVO" /\ (pcCierre'[c] = "persistido" => u # TicketDe(c))
    BY <1>3, <2>1, TipoCierre DEF Persistir, Cerrar, PasoCierre
  <2>3. \A u \in Tickets : ticket'[u] = "ACTIVO" /\ pcCierre'[c] = "persistido" =>
          IdEspacio[u] # IdEspacio[TicketDe(c)]
    BY <2>1, <2>2 DEF IndSerial, UnActivoPorEspacio
  <2>4. \A d \in Cierres : pcCierre'[d] \in TrasPersistir => d = c /\ pcCierre'[c] = "persistido"
    BY <1>3, <2>1 DEF Persistir, PasoCierre
  <2> QED
    BY <2>3, <2>4
<1>4. ASSUME NEW c \in Cierres, LeerTicket(c) PROVE CierreSinActivos'
  BY <1>4 DEF LeerTicket
<1>5. ASSUME NEW c \in Cierres,
             EnviarDisponible(c) \/ DisponibleConfirmado(c) \/ DisponibleFallido(c) \/ EmitirCierre(c)
      PROVE  CierreSinActivos'
  BY <1>5 DEF EnviarDisponible, DisponibleConfirmado, DisponibleFallido, EmitirCierre, PasoCierre
<1>6. CASE Caida
  BY <1>6 DEF Caida, EnCursoCierre
<1>7. CASE UNCHANGED <<pcCierre, ticket>>
  BY <1>7
<1> QED
  BY <1>1, <1>2, <1>3, <1>4, <1>5, <1>6, <1>7
  DEF Next, ContinuarAlta, ContinuarCierre, vars, serviceVars, LeerEspacio, RechazarDatos,
      ConsultarActivo, EnviarOcupado, OcupadoConfirmado, OcupadoFallido, AtenderOcupado, EmitirAlta,
      AtenderDisponible, ConsumirEvento, ConsumirSinAck, CambioManual

\* What happens to a mark when the queue grows, or the state is written over HTTP.
LEMMA MarcadoSigue ==
  ASSUME TypeOK, NEW e \in Espacios, Marcado(e),
         \/ cola' = cola /\ (estado'[e] = estado[e] \/ estado'[e] = "OCUPADO")
         \/ estado' = estado /\ \E x \in Evento : x # Libera(e) /\ cola' = Append(cola, x)
  PROVE  Marcado(e)'
<1>1. CASE cola' = cola
  BY <1>1 DEF Marcado, SinLiberar
<1>2. ASSUME NEW x \in Evento, x # Libera(e), cola' = Append(cola, x), estado' = estado
      PROVE  Marcado(e)'
  <2>1. \A j \in DOMAIN cola' : cola'[j] = Libera(e) => j \in DOMAIN cola /\ cola[j] = Libera(e)
    BY <1>2 DEF TypeOK
  <2>2. \A i \in DOMAIN cola : i \in DOMAIN cola' /\ cola'[i] = cola[i]
    BY <1>2, ColaIndices
  <2>3. \A i \in Nat : SinLiberar(e, i) => SinLiberar(e, i)'
    BY <2>1, <2>2 DEF SinLiberar
  <2>4. DOMAIN cola \subseteq Nat
    BY DEF TypeOK
  <2>5. CASE estado[e] = "OCUPADO" /\ SinLiberar(e, 0)
    BY <1>2, <2>3, <2>5 DEF Marcado
  <2>6. ASSUME NEW i \in DOMAIN cola, cola[i] = Ocupa(e), SinLiberar(e, i) PROVE Marcado(e)'
    <3>1. SinLiberar(e, i)' /\ i \in DOMAIN cola' /\ cola'[i] = Ocupa(e)
      BY <2>2, <2>3, <2>4, <2>6
    <3> QED
      BY <3>1 DEF Marcado, Ocupa
  <2> QED
    BY <2>5, <2>6 DEF Marcado
<1> QED
  BY <1>1, <1>2

\* The event of the creation marks the space when it is queued.
LEMMA MarcadoNuevo ==
  ASSUME TypeOK, NEW e \in Espacios, cola' = Append(cola, Ocupa(e))
  PROVE  Marcado(e)'
<1>1. Ocupa(e) \in Evento /\ cola \in Seq(Evento)
  BY DEF Ocupa, Evento, TypeOK
<1>2. Len(cola) + 1 \in DOMAIN cola' /\ cola'[Len(cola) + 1] = Ocupa(e) /\ DOMAIN cola' = 1..(Len(cola) + 1)
  BY <1>1
<1>3. PICK n : n \in DOMAIN cola' /\ cola'[n] = Ocupa(e) /\ \A j \in DOMAIN cola' : j <= n
  BY <1>2
<1>4. SinLiberar(e, n)'
  BY <1>1, <1>2, <1>3 DEF SinLiberar
<1> QED
  BY <1>3, <1>4 DEF Marcado, Ocupa

\* The head of the queue is applied, or dropped when it does not mark the space.
LEMMA MarcadoConsume ==
  ASSUME TypeOK, NEW e \in Espacios, Marcado(e), cola # <<>>, cola' = Tail(cola),
         \/ ActualizarEstado(Head(cola).espacio, Head(cola).estado)
         \/ UNCHANGED estado /\ Head(cola) # Ocupa(e)
  PROVE  Marcado(e)'
<1>1. cola \in Seq(Evento) /\ Len(cola) > 0 /\ cola[1] = Head(cola)
      /\ DOMAIN cola = 1..Len(cola)
  BY DEF TypeOK
<1>2. DOMAIN cola' = 1..(Len(cola) - 1) /\ \A j \in DOMAIN cola' : cola'[j] = cola[j + 1]
  BY <1>1
<1>3. ASSUME NEW i \in DOMAIN cola, SinLiberar(e, i) PROVE SinLiberar(e, i - 1)'
  BY <1>1, <1>2, <1>3 DEF SinLiberar, Libera
<1>4. ASSUME SinLiberar(e, 0) PROVE SinLiberar(e, 0)' /\ Head(cola) # Libera(e)
  BY <1>1, <1>2, <1>4 DEF SinLiberar, Libera
<1>5. Head(cola) \in Evento
  BY <1>1
<1>6. CASE estado[e] = "OCUPADO" /\ SinLiberar(e, 0)
  <2>1. estado'[e] = "OCUPADO"
    BY <1>4, <1>5, <1>6 DEF ActualizarEstado, Libera, Evento, TypeOK
  <2> QED
    BY <1>4, <1>6, <2>1 DEF Marcado
<1>7. ASSUME NEW i \in DOMAIN cola, cola[i] = Ocupa(e), SinLiberar(e, i) PROVE Marcado(e)'
  <2>1. CASE i = 1
    <3>1. estado'[e] = "OCUPADO"
      BY <1>1, <1>7, <2>1 DEF ActualizarEstado, Ocupa, TypeOK
    <3> QED
      BY <1>3, <1>7, <2>1, <3>1 DEF Marcado
  <2>2. CASE i # 1
    <3>1. i - 1 \in DOMAIN cola' /\ cola'[i - 1] = Ocupa(e)
      BY <1>1, <1>2, <1>7, <2>2
    <3> QED
      BY <1>3, <1>7, <3>1 DEF Marcado, Ocupa
  <2> QED
    BY <2>1, <2>2
<1> QED
  BY <1>6, <1>7 DEF Marcado

\* The head is applied and delivered again.
LEMMA MarcadoRepite ==
  ASSUME TypeOK, NEW e \in Espacios, Marcado(e), cola # <<>>, cola' = cola,
         ActualizarEstado(Head(cola).espacio, Head(cola).estado)
  PROVE  Marcado(e)'
<1>1. cola \in Seq(Evento) /\ 1 \in DOMAIN cola /\ cola[1] = Head(cola) /\ Head(cola) \in Evento
  BY DEF TypeOK
<1>2. CASE estado[e] = "OCUPADO" /\ SinLiberar(e, 0)
  <2>1. Head(cola) # Libera(e)
    BY <1>1, <1>2 DEF SinLiberar
  <2>2. estado'[e] = "OCUPADO"
    BY <1>1, <1>2, <2>1 DEF ActualizarEstado, Libera, Evento, TypeOK
  <2> QED
    BY <1>2, <2>2, MarcadoSigue
<1>3. CASE \E i \in DOMAIN cola : cola[i] = Ocupa(e) /\ SinLiberar(e, i)
  BY <1>3 DEF Marcado, SinLiberar
<1> QED
  BY <1>2, <1>3 DEF Marcado

\* The mark of an active ticket stays until a fault that the history notes.
LEMMA MarcadoPaso ==
  ASSUME IndConvergencia, [Next]_vars, NEW t \in Tickets, NEW e \in Espacios, e = IdEspacio[t],
         ticket[t] = "ACTIVO", pcAlta[t] = "respondido", ticket'[t] = "ACTIVO",
         Hueco(e) \notin averias'
  PROVE  Marcado(e)'
<1>0. TypeOK /\ averias \subseteq averias'
  BY AveriasCrecen DEF IndConvergencia, IndCausa
<1>1. Marcado(e)
  BY <1>0 DEF IndConvergencia, ActivoMarcado
<1>2. t \in ActivosEn(e)
  BY DEF ActivosEn
<1>3. \A c \in Cierres : EspacioDe(c) = e => pcCierre[c] \notin TrasPersistir /\ c \notin postsCierre
  BY <1>0, <1>2 DEF IndConvergencia, Vigilancia, CierreSinActivos, PostAnotado, TrasPersistir
<1>4. ASSUME NEW u \in Tickets, EmitirAlta(u) PROVE Marcado(e)'
  <2>1. Ocupa(IdEspacio[u]) \in Evento /\ Ocupa(IdEspacio[u]) # Libera(e) /\ estado' = estado
    BY <1>4, ParqueoAssumption DEF EmitirAlta, Ocupa, Libera, Evento, zonasVars
  <2>2. cola' = cola \/ cola' = Append(cola, Ocupa(IdEspacio[u]))
    BY <1>4 DEF EmitirAlta, Emitir, Ocupa
  <2> QED
    BY <1>0, <1>1, <2>1, <2>2, MarcadoSigue
<1>5. ASSUME NEW c \in Cierres, EmitirCierre(c) PROVE Marcado(e)'
  <2>1. EspacioDe(c) # e
    BY <1>3, <1>5 DEF EmitirCierre, PasoCierre, TrasPersistir
  <2>2. Libera(EspacioDe(c)) \in Evento /\ Libera(EspacioDe(c)) # Libera(e) /\ estado' = estado
    BY <1>5, <2>1, TipoCierre DEF EmitirCierre, Libera, Evento, zonasVars
  <2>3. cola' = cola \/ cola' = Append(cola, Libera(EspacioDe(c)))
    BY <1>5 DEF EmitirCierre, Emitir, Libera
  <2> QED
    BY <1>0, <1>1, <2>2, <2>3, MarcadoSigue
<1>6. ASSUME NEW u \in Tickets, AtenderOcupado(u) PROVE Marcado(e)'
  <2>1. cola' = cola /\ (estado'[e] = estado[e] \/ estado'[e] = "OCUPADO")
    BY <1>0, <1>6 DEF AtenderOcupado, ActualizarEstado, TypeOK
  <2> QED
    BY <1>0, <1>1, <2>1, MarcadoSigue
<1>7. ASSUME NEW c \in Cierres, AtenderDisponible(c) PROVE Marcado(e)'
  <2>1. cola' = cola /\ estado'[e] = estado[e]
    BY <1>0, <1>3, <1>7 DEF AtenderDisponible, ActualizarEstado, TypeOK
  <2> QED
    BY <1>0, <1>1, <2>1, MarcadoSigue
<1>8. CASE ConsumirEvento
  <2>1. \/ ActualizarEstado(Head(cola).espacio, Head(cola).estado)
        \/ UNCHANGED estado /\ Head(cola) # Ocupa(e)
    BY <1>8 DEF ConsumirEvento, Ocupa
  <2> QED
    BY <1>0, <1>1, <1>8, <2>1, MarcadoConsume DEF ConsumirEvento
<1>9. CASE ConsumirSinAck
  BY <1>0, <1>1, <1>9, MarcadoRepite DEF ConsumirSinAck
<1>10. ASSUME NEW d \in Espacios, CambioManual(d) PROVE Marcado(e)'
  <2>1. cola' = cola /\ (estado'[e] = estado[e] \/ estado'[e] = "OCUPADO")
    BY <1>0, <1>10 DEF CambioManual, ActualizarEstado, TypeOK
  <2> QED
    BY <1>0, <1>1, <2>1, MarcadoSigue
<1>11. CASE UNCHANGED <<estado, cola>>
  BY <1>1, <1>11 DEF Marcado, SinLiberar
<1> QED
  BY <1>4, <1>5, <1>6, <1>7, <1>8, <1>9, <1>10, <1>11
  DEF Next, ContinuarAlta, ContinuarCierre, vars, zonasVars, LeerEspacio, RechazarDatos,
      ConsultarActivo, Insertar, EnviarOcupado, OcupadoConfirmado, OcupadoFallido, Revertir,
      LeerTicket, Persistir, EnviarDisponible, DisponibleConfirmado, DisponibleFallido, Caida

LEMMA ActivoMarcadoPaso ==
  ASSUME IndConvergencia, [Next]_vars
  PROVE  ActivoMarcado'
<1> SUFFICES ASSUME NEW t \in Tickets, ticket'[t] = "ACTIVO", pcAlta'[t] = "respondido",
                    Hueco(IdEspacio[t]) \notin averias'
             PROVE  Marcado(IdEspacio[t])'
  BY DEF ActivoMarcado
<1>0. TypeOK /\ IdEspacio[t] \in Espacios
  BY ParqueoAssumption DEF IndConvergencia, IndCausa
<1>1. CASE pcAlta[t] # "respondido"
  <2>1. EmitirAlta(t)
    BY <1>0, <1>1
    DEF Next, ContinuarAlta, ContinuarCierre, vars, serviceVars, zonasVars, LeerEspacio,
        RechazarDatos, ConsultarActivo, Insertar, EnviarOcupado, OcupadoConfirmado, OcupadoFallido,
        Revertir, EmitirAlta, PasoAlta, AtenderOcupado, LeerTicket, Persistir, EnviarDisponible,
        DisponibleConfirmado, DisponibleFallido, EmitirCierre, AtenderDisponible, ConsumirEvento,
        ConsumirSinAck, CambioManual, Caida, TypeOK
  <2>2. cola' = Append(cola, Ocupa(IdEspacio[t]))
    BY <2>1 DEF EmitirAlta, Emitir, Ocupa
  <2> QED
    BY <1>0, <2>2, MarcadoNuevo
<1>2. CASE pcAlta[t] = "respondido"
  <2>1. ticket[t] = "ACTIVO"
    <3>1. ASSUME NEW u \in Tickets, Insertar(u) PROVE ticket'[t] = ticket[t]
      BY <1>0, <1>2, <3>1 DEF Insertar, PasoAlta, TypeOK
    <3>2. ASSUME NEW u \in Tickets, Revertir(u) PROVE ticket'[t] = ticket[t]
      BY <1>0, <1>2, <3>2 DEF Revertir, PasoAlta, TypeOK
    <3>3. ASSUME NEW c \in Cierres, Persistir(c) PROVE ticket'[t] = ticket[t]
      BY <1>0, <3>3, TipoCierre DEF Persistir, Cerrar, TypeOK
    <3> QED
      BY <3>1, <3>2, <3>3
      DEF Next, ContinuarAlta, ContinuarCierre, vars, serviceVars, LeerEspacio, RechazarDatos,
          ConsultarActivo, EnviarOcupado, OcupadoConfirmado, OcupadoFallido, AtenderOcupado,
          EmitirAlta, LeerTicket, EnviarDisponible, DisponibleConfirmado, DisponibleFallido,
          AtenderDisponible, EmitirCierre, ConsumirEvento, ConsumirSinAck, CambioManual, Caida
  <2> QED
    BY <1>0, <1>2, <2>1, MarcadoPaso
<1> QED
  BY <1>1, <1>2

LEMMA ConvergenciaPaso ==
  ASSUME Serial
  PROVE  IndConvergencia /\ [Next]_vars => IndConvergencia'
<1> SUFFICES ASSUME IndConvergencia, [Next]_vars PROVE IndConvergencia'
  OBVIOUS
<1>1. IndCausa' /\ IndSerial'
  BY CausaPaso, SerialPaso DEF IndConvergencia
<1>2. Vigilancia'
  BY PostAnotadoPaso, ActivoVigiladoPaso, CierreSinActivosPaso
  DEF IndConvergencia, Vigilancia, IndCausa, IndSerial
<1>3. ActivoMarcado'
  BY ActivoMarcadoPaso
<1> QED
  BY <1>1, <1>2, <1>3 DEF IndConvergencia

LEMMA ConvergenciaBasta == IndConvergencia => Convergencia
<1> SUFFICES ASSUME IndConvergencia, Reposo, NEW e \in Espacios
             PROVE  /\ estado[e] = "OCUPADO" /\ Fuga(e) \notin averias => ActivosEn(e) # {}
                    /\ ActivosEn(e) # {} /\ Hueco(e) \notin averias => estado[e] = "OCUPADO"
  BY DEF Convergencia
<1>1. OcupadoTieneCausa /\ ~PorLiberar(e)
  BY CausaBasta
  DEF IndConvergencia, PorLiberar, Reposo, SinSolicitudes, TrasPersistir, EnCursoCierre
<1>2. ASSUME NEW t \in ActivosEn(e), Hueco(e) \notin averias PROVE estado[e] = "OCUPADO"
  <2>1. t \in Tickets /\ ticket[t] = "ACTIVO" /\ IdEspacio[t] = e
    BY DEF ActivosEn
  <2>2. pcAlta[t] = "respondido"
    BY <1>2, <2>1
    DEF IndConvergencia, Vigilancia, ActivoVigilado, Reposo, SinSolicitudes, TrasInsertar, EnCursoAlta
  <2>3. Marcado(e)
    BY <1>2, <2>1, <2>2 DEF IndConvergencia, ActivoMarcado
  <2>4. DOMAIN cola = {}
    BY DEF Reposo
  <2> QED
    BY <2>3, <2>4 DEF Marcado
<1> QED
  BY <1>1, <1>2 DEF OcupadoTieneCausa

\* With serial clients, Zonas and the ticket table agree at rest on every space
\* that no fault has touched: late calls, repeated messages and the order of the
\* queue leave no trace.
THEOREM Acuerdo == ASSUME Serial PROVE Spec => []Convergencia
<1>1. IndConvergencia /\ [Next]_vars => IndConvergencia'
  BY ConvergenciaPaso
<1> QED
  BY <1>1, ConvergenciaInicial, ConvergenciaBasta, PTL DEF Spec

=============================================================================
