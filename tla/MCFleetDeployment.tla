------------------------- MODULE MCFleetDeployment -------------------------
(***************************************************************************)
(* Instances of FleetDeployment for TLC: versions that collide and         *)
(* versions that do not.                                                   *)
(***************************************************************************)
EXTENDS FleetDeployment, TLC

CONSTANTS p1, p2, a1, a2, g1, x, y, w1, w2

OneEach == {{x}, {y}}

Symmetry == Permutations({p1, p2}) \cup Permutations({x, y})

=============================================================================
