------------------------------ MODULE MCRateLimit ------------------------------
(* Small instances of RateLimit for TLC.                                        *)
EXTENDS RateLimit, TLC

CONSTANTS Client, Identity

MCBoth == {"clients", "identities"}
MCAttempts == [d \in Dimensions |-> IF d = "clients" THEN 2 ELSE 3]
MCKeys == Client \cup Identity
MCPresented == {[d \in Dimensions |-> IF d = "clients" THEN c ELSE i] : c \in Client, i \in Identity}
Symmetry == Permutations(Client) \cup Permutations(Identity) \cup Permutations(Calls)
=============================================================================
