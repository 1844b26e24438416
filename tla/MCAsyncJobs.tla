---------------------------- MODULE MCAsyncJobs ----------------------------
(* Instances of AsyncJobs for TLC. *)
EXTENDS AsyncJobs

CONSTANT batch

\* One batch of two, of which the first item cannot be priced; the other jobs are
\* reports.
MCKind == [j \in Jobs |-> IF j = batch THEN "batch" ELSE "report"]
MCSize == [j \in Jobs |-> 2]
MCBad == [j \in Jobs |-> {1}]
=============================================================================
