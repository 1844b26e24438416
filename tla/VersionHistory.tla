--------------------------- MODULE VersionHistory ---------------------------
(***************************************************************************)
(* What the project history promises a reader who knows nothing of         *)
(* requests, sessions or transactions: per project, a set of numbered      *)
(* estimates that only ever grows.                                         *)
(*                                                                         *)
(* StrictSpec is the promise of the documentation ("every save creates an  *)
(* immutable, auto-incrementing version"): each new entry takes the next   *)
(* number.  LooseSpec is what is left when saves overlap: an entry takes a *)
(* number that is at most the next one, so numbers may repeat but never    *)
(* skip.                                                                   *)
(***************************************************************************)
EXTENDS Integers

CONSTANTS Projects,   \* project identities
          Estimates   \* identities of computed estimates

VARIABLE history      \* history[p]: the set of <<number, estimate>> of project p

Entry == (Nat \ {0}) \X Estimates

Numbers(p) == {entry[1] : entry \in history[p]}

\* n is the number the next version of project p has: one more than the largest.
IsNext(p, n) ==
  /\ \A k \in Numbers(p) : k < n
  /\ n = 1 \/ n - 1 \in Numbers(p)

Init == history = [p \in Projects |-> {}]

AppendNext(p, e) ==
  \E n \in {k + 1 : k \in Numbers(p) \cup {0}} :
    /\ IsNext(p, n)
    /\ history' = [history EXCEPT ![p] = @ \cup {<<n, e>>}]

AppendAtMostNext(p, e) ==
  \E n \in {k + 1 : k \in Numbers(p) \cup {0}} :
    history' = [history EXCEPT ![p] = @ \cup {<<n, e>>}]

StrictSpec ==
  Init /\ [][\E p \in Projects, e \in Estimates : AppendNext(p, e)]_history

LooseSpec ==
  Init /\ [][\E p \in Projects, e \in Estimates : AppendAtMostNext(p, e)]_history
=============================================================================
