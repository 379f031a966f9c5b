----------------------------- MODULE CicloTicket -----------------------------
(***************************************************************************)
(* What the ticket service promises about the tickets themselves, with no  *)
(* word of how the requests, the zones module and the queue get there: a   *)
(* space has one active ticket at most, a ticket that was answered to the  *)
(* client is never taken back, and a closed ticket is closed for good, in  *)
(* the way it was closed.                                                  *)
(***************************************************************************)
CONSTANTS Tickets, Espacios, IdEspacio

VARIABLES
  ticket,      \* "ausente", "ACTIVO", "PAGADO" or "ANULADO"
  confirmado   \* the tickets whose creation was answered with a 201

cicloVars == <<ticket, confirmado>>

Ocupantes(e) == {t \in Tickets : ticket[t] = "ACTIVO" /\ IdEspacio[t] = e}

Init ==
  /\ ticket = [t \in Tickets |-> "ausente"]
  /\ confirmado = {}

Abrir(t) ==
  /\ ticket[t] = "ausente"
  /\ Ocupantes(IdEspacio[t]) = {}
  /\ ticket' = [ticket EXCEPT ![t] = "ACTIVO"]
  /\ UNCHANGED confirmado

Confirmar(t) ==
  /\ ticket[t] = "ACTIVO"
  /\ t \notin confirmado
  /\ confirmado' = confirmado \cup {t}
  /\ UNCHANGED ticket

\* The request that opened the ticket takes it back, and answers an error.
Deshacer(t) ==
  /\ ticket[t] = "ACTIVO"
  /\ t \notin confirmado
  /\ ticket' = [ticket EXCEPT ![t] = "ausente"]
  /\ UNCHANGED confirmado

Cerrar(t, final) ==
  /\ ticket[t] = "ACTIVO"
  /\ t \in confirmado
  /\ ticket' = [ticket EXCEPT ![t] = final]
  /\ UNCHANGED confirmado

Next ==
  \E t \in Tickets :
    \/ Abrir(t)
    \/ Confirmar(t)
    \/ Deshacer(t)
    \/ \E final \in {"PAGADO", "ANULADO"} : Cerrar(t, final)

Spec == Init /\ [][Next]_cicloVars

=============================================================================
