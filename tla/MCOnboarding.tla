----------------------------- MODULE MCOnboarding -----------------------------
(* Small instances of Onboarding for TLC.                                     *)
EXTENDS Onboarding, TLC

\* A viewer CreateAccount left pending without a credential.
MCProvisioned == {[kind |-> "viewer", status |-> "pending", revision |-> 0]}

Symmetry == Permutations(Request) \cup Permutations(Dispatcher)
=============================================================================
