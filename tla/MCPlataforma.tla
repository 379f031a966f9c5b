---------------------------- MODULE MCPlataforma ----------------------------
(***************************************************************************)
(* The instance of Plataforma for TLC, with the fairness of its parts.     *)
(***************************************************************************)
EXTENDS Plataforma, TLC

CONSTANTS
  Ana, Eva, CRaiz, CAna, CEva, Nombre, q1, q2, e1, e2, w1, tAdmin, tRecaudador, tCliente, tViejo

\* Three persons of one name and the longest chain of suffixes they can need.
Contacto == (Raiz :> CRaiz) @@ (Ana :> CAna) @@ (Eva :> CEva)
Homonimos == [f \in Formularios |-> Nombre]

\* An administrator, a collector, a client, and an old token of another client.
Roles ==
  (tAdmin :> {"ADMIN"}) @@ (tRecaudador :> {"RECAUDADOR"}) @@ (tCliente :> {"CLIENTE"}) @@ (tViejo :> {"CLIENTE"})

Fallas == [Altas |-> 2, Tablero |-> 1, Auditoria |-> 2]

\* The fairness of each part.  A behaviour is about one part, so a step of each
\* can share the formula that asks for it.
Vivo(n) ==
  \/ /\ modo = "Altas"
     /\ \/ n = 1 /\ Altas!Arranque
     /\ SoloAltas
  \/ /\ modo = "Tablero"
     /\ \/ n = 1 /\ (Tablero!Red(q1) \/ Tablero!Tocar(q1))
        \/ n = 2 /\ (Tablero!Red(q2) \/ Tablero!Tocar(q2))
     /\ SoloTablero
  \/ /\ modo = "Auditoria"
     /\ \/ n = 1 /\ Auditoria!IniciarConsumidor
        \/ n = 2 /\ Auditoria!Procesar(e1)
        \/ n = 3 /\ Auditoria!Procesar(e2)
     /\ SoloAuditoria
  \/ /\ modo = "Sesion"
     /\ \/ n = 1 /\ Sesion!Pagina(w1)
        \/ n = 2 /\ Sesion!Irse(w1)
        \/ n = 3 /\ Sesion!Responder(w1, w1)
     /\ SoloSesion

SpecViva == Spec /\ \A n \in 1..3 : WF_vars(Vivo(n))

-----------------------------------------------------------------------------

\* A boot of gestion-usuarios ends in a service that answers, unless the root person
\* was stored and ROOT was not granted or a failure comes (seeder.service.ts).
ArranqueLlega == modo = "Altas" => Altas!ArranqueLlega

\* Queued audit events end up saved or refused (audit.consumer.ts).
EventoSeGuarda == modo = "Auditoria" => Auditoria!EventoSeGuarda

\* The dashboard ends up showing the spaces as they are (app.js).
TableroAlDia == modo = "Tablero" => Tablero!TableroAlDia

\* No tab is caught between redirections or in its spinner (App.tsx).
RutaSeAsienta == modo = "Sesion" => Sesion!RutaSeAsienta(w1)

=============================================================================
