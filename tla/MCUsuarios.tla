---------------------------- MODULE MCUsuarios ----------------------------
(***************************************************************************)
(* Instances of Usuarios for TLC.                                          *)
(***************************************************************************)
EXTENDS Usuarios, TLC

Simetria == Permutations(Peticiones) \cup Permutations(Roles) \cup Permutations(FilasPermiso)

=============================================================================
