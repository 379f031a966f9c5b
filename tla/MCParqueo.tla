----------------------------- MODULE MCParqueo -----------------------------
(***************************************************************************)
(* Instances of Parqueo for TLC.  Every ticket asks for the same space:    *)
(* two spaces share nothing but the order of the queue.                    *)
(***************************************************************************)
EXTENDS Parqueo, TLC

MismoEspacio == [t \in Tickets |-> CHOOSE e \in Espacios : TRUE]

Simetria == Permutations(Tickets)

=============================================================================
