---------------------------- MODULE MCRateLimiter ----------------------------
(* Instances of RateLimiter for TLC. *)
EXTENDS RateLimiter, TLC

\* Enough for a request that neither creates the counter nor is rejected.
MCLimit == [k \in Keys |-> 2]

\* No action or property tells one process from another.
ProcessSymmetry == Permutations(Processes)
=============================================================================
