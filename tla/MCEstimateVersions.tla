------------------------- MODULE MCEstimateVersions -------------------------
(* Instances of EstimateVersions for TLC. *)
EXTENDS EstimateVersions

CONSTANTS ann, boss

\* Every project belongs to the one ordinary user; the other user is an admin.
MCOwner == [p \in Projects |-> ann]
=============================================================================
