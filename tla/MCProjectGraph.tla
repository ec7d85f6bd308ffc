--------------------------- MODULE MCProjectGraph ---------------------------
(***************************************************************************)
(* An instance of ProjectGraph for TLC.                                    *)
(***************************************************************************)
EXTENDS ProjectGraph

CONSTANTS a, b, c

\* Requests are exchangeable.
Symmetry == Permutations(Request)

\* No dependency, one, two, and one list that repeats an id.
Lists == {<<>>, <<a>>, <<b>>, <<c>>, <<a, b>>, <<b, c>>, <<c, c>>}
=============================================================================
