--------------------------- MODULE MCUserAccounts ---------------------------
(* Instances of UserAccounts for TLC. *)
EXTENDS UserAccounts, TLC

\* Workers and addresses are interchangeable; keys are handed out in order.
AccountsSymmetry == Permutations(Workers) \cup Permutations(Emails)
=============================================================================
