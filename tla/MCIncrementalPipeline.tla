------------------------ MODULE MCIncrementalPipeline ------------------------
(***************************************************************************)
(* Instances of IncrementalPipeline for TLC.                               *)
(***************************************************************************)
EXTENDS IncrementalPipeline, TLC

CONSTANTS d1, d2, v1, v2, t1, t2

\* A short content and a longer one that begins with the same text.
ShortAndLong == (v1 :> <<t1>>) @@ (v2 :> <<t1, t2>>)

\* Changes at any moment, and full refreshes of a source that waits.
MCSettings ==
    {[configs |-> {1, 2}, fullRefresh |-> FALSE, sourceWaits |-> FALSE,
      maxFaults |-> 1],
     [configs |-> {1}, fullRefresh |-> TRUE, sourceWaits |-> TRUE,
      maxFaults |-> 2]}

\* Full refreshes while the source changes.
RefreshSettings ==
    {[configs |-> {1}, fullRefresh |-> TRUE, sourceWaits |-> FALSE,
      maxFaults |-> 1]}
=============================================================================
