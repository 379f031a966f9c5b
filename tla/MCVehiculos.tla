----------------------------- MODULE MCVehiculos -----------------------------
(***************************************************************************)
(* Instances of Vehiculos for TLC.  One plate: requests on different plates*)
(* touch different rows.                                                   *)
(***************************************************************************)
EXTENDS Vehiculos, TLC

Simetria == Permutations(Peticiones)

=============================================================================
