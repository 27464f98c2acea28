----------------------------- MODULE MCMigration -----------------------------
(* Small instances of Migration for TLC.                                      *)
EXTENDS Migration

CONSTANTS m1, m2, m3, edited

\* Two versions of the program, and one that edited what another applies.
MCSets == {<<m1>>, <<m1, m2>>, <<m1, edited, m3>>}

\* A new database, and one whose ledger lost a row.
MCHistories == {[v \in 1..3 |-> None], [v \in 1..3 |-> IF v = 2 THEN m2 ELSE None]}
=============================================================================
