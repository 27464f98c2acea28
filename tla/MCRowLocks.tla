------------------------------ MODULE MCRowLocks ------------------------------
(* A small instance of RowLocks for TLC.                                      *)
EXTENDS RowLocks, TLC

CONSTANTS a1, a2, s1, s2, s3

\* The first account has two sessions, the second has one.
MCOwner == (s1 :> a1) @@ (s2 :> a1) @@ (s3 :> a2)

Symmetry == Permutations(Transaction)
=============================================================================
