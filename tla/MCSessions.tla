------------------------------ MODULE MCSessions ------------------------------
(* Small instances of Sessions for TLC.                                       *)
EXTENDS Sessions, TLC

\* Viewers whose verification is over.
MCProvisioned == {[kind |-> "viewer", status |-> "active", roles |-> {"viewer"},
                   revision |-> 1, cutoff |-> 0]}

Symmetry == Permutations(Request) \cup Permutations(Account)
=============================================================================
