------------------------ MODULE MCServingCoordination ------------------------
(***************************************************************************)
(* Instances of ServingCoordination for TLC.                               *)
(***************************************************************************)
EXTENDS ServingCoordination, TLC

CONSTANTS cfg1, cfg2, q1, q2

OneConfig == {cfg1}
TwoConfigs == {cfg1, cfg2}
NoWidening == {}
OldToNew == {<<cfg1, cfg2>>}
OneQuery == {q1}
TwoQueries == {q1, q2}
QuerySymmetry == Permutations(Queriers) \cup Permutations(Configs)
=============================================================================
