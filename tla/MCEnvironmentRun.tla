-------------------------- MODULE MCEnvironmentRun --------------------------
(***************************************************************************)
(* Instances of EnvironmentRun for TLC: small dependency graphs.           *)
(***************************************************************************)
EXTENDS EnvironmentRun, TLC

CONSTANTS a, b, c, d, w1, w2

\* Two roots below which one module joins.
Join == {<<a, c>>, <<b, c>>}

\* The diamond of the class comment of DagExecutor.
Diamond == {<<a, b>>, <<a, c>>, <<b, d>>, <<c, d>>}

\* The roots of Join.
Symmetry == Permutations({a, b})

=============================================================================
