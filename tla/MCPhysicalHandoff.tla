-------------------------- MODULE MCPhysicalHandoff --------------------------
(* Model checking of PhysicalHandoff. *)
EXTENDS PhysicalHandoff

CONSTANTS a, b, g1, g2, g3, c1

\* Generations are interchangeable.
Symmetry == Permutations(Gens)

=============================================================================
