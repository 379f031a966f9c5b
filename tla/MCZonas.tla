------------------------------- MODULE MCZonas -------------------------------
(***************************************************************************)
(* Instances of Zonas for TLC.                                             *)
(***************************************************************************)
EXTENDS Zonas, TLC

CONSTANTS z1, z2, z3

\* Zones with room for one space.
UnoPorZona == [z \in Zonas |-> 1]

\* Two zones of the same type and size, and one of another: the second zone is
\* refused when it is of the class of the first, as both get number 1.
DosClases == [z \in Zonas |-> IF z = z3 THEN "B" ELSE "A"]

\* Spaces are set to OCUPADO and DISPONIBLE only: nothing here looks at the others.
OrdenesUsuales ==
  {o \in Orden : o.op = "estado" => o.estado \in {"DISPONIBLE", "OCUPADO"}}

Simetria == Permutations(Peticiones) \cup Permutations(Espacios) \cup Permutations({z1, z2})

=============================================================================
