---------------------------- MODULE MCBatchJobs ----------------------------
(***************************************************************************)
(* Instances of BatchJobs for TLC.                                         *)
(***************************************************************************)
EXTENDS BatchJobs

\* Runs that may be interrupted anywhere while documents arrive, runs of more
\* jobs that are interrupted where their jobs are recorded and cut into the same
\* partitions each time, and runs that are cut into others.
MCSettings ==
    {[pool |-> {1, 2, 3}, onPartialBatch |-> {"fail", "publish_successful"},
      interrupts |-> Points, expires |-> FALSE,
      arrivals |-> TRUE, maxFaults |-> 2, maxJobs |-> 8],
     [pool |-> {1, 2, 3, 4}, onPartialBatch |-> {"fail"},
      interrupts |-> Points \ {"persist", "store"},
      expires |-> TRUE, arrivals |-> FALSE, maxFaults |-> 3, maxJobs |-> 4],
     [pool |-> {1, 2, 3}, onPartialBatch |-> {"fail", "publish_successful"},
      interrupts |-> Points \ {"persist", "store"},
      expires |-> FALSE, arrivals |-> TRUE, maxFaults |-> 2, maxJobs |-> 8]}
=============================================================================
