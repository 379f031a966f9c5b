--------------------------- MODULE MCAsignaciones ---------------------------
(***************************************************************************)
(* Instances of Asignaciones for TLC.  Two owners and one vehicle: requests*)
(* on different vehicles touch different rows.                             *)
(***************************************************************************)
EXTENDS Asignaciones, TLC

Simetria == Permutations(Peticiones) \cup Permutations(Usuarios)

=============================================================================
