----------------------------- MODULE MCRunQueue -----------------------------
(***************************************************************************)
(* Instances of RunQueue for TLC. Workers and pollers are interchangeable, *)
(* so they are symmetric where a run checks safety only.                   *)
(***************************************************************************)
EXTENDS RunQueue, TLC

CONSTANTS lane1, lane2, c1, c2, w1, w2, p1, p2

Symmetry == Permutations({w1, w2}) \cup Permutations({p1, p2})

=============================================================================
