------------------------ MODULE MCSearchPublication ------------------------
(***************************************************************************)
(* Instances of SearchPublication for TLC.                                 *)
(***************************************************************************)
EXTENDS SearchPublication

\* A patient upstream and two faults, and an impatient one whose collection
\* vanishes and whose owner is recovered alive.
MCSettings ==
    {[governed |-> TRUE, upstreamWaits |-> TRUE, vanishes |-> FALSE,
      zombies |-> FALSE, maxFaults |-> 2],
     [governed |-> TRUE, upstreamWaits |-> FALSE, vanishes |-> TRUE,
      zombies |-> TRUE, maxFaults |-> 1]}
=============================================================================
