---------------------------- MODULE MCProjectRun ----------------------------
(***************************************************************************)
(* Instances of ProjectRun for TLC: an extraction model 1, an llm model 2  *)
(* of its rows, an unrelated extraction model 3 materialized in full, and  *)
(* a search model 4 of the llm model's rows.                               *)
(***************************************************************************)
EXTENDS ProjectRun, TLC

CONSTANTS a1, a2, b1, b2, c1

FourModels == 1..4
FourKinds == <<"extraction", "llm", "full", "search">>
FourParents == <<{}, {1}, {}, {2}>>
FourSizes == <<<<1, 1, 1>>, <<1, 1>>, <<2>>, <<>>>>
FiveOwners == (a1 :> 1) @@ (a2 :> 1) @@ (b1 :> 2) @@ (b2 :> 2) @@ (c1 :> 3)

Free == [f \in Fields |-> NoCap]
Caps ==
    (0 :> [Free EXCEPT !["documents"] = 5, !["bytes"] = 4, !["tokens"] = 2])
    @@ (1 :> [Free EXCEPT !["calls"] = 1, !["file"] = 1])
    @@ (2 :> Free) @@ (3 :> [Free EXCEPT !["documents"] = 1]) @@ (4 :> Free)

Use(calls, tokens) == ("calls" :> calls) @@ ("tokens" :> tokens)
SmallUsages == {Use(0, 0), Use(1, 1), Use(1, 2)}
LargestUse == Use(1, 2)
=============================================================================
