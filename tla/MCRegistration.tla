---------------------------- MODULE MCRegistration ----------------------------
(* Small instances of Registration for TLC.                                   *)
EXTENDS Registration, TLC

\* What CreateAccount is called with: a creator in use, which no public request
\* may touch, and a viewer left pending without a credential.
MCProvisioned == {[kind |-> "creator", status |-> "active", revision |-> 1],
                  [kind |-> "viewer", status |-> "pending", revision |-> 0]}

Symmetry == Permutations(Request) \cup Permutations(Address)
=============================================================================
