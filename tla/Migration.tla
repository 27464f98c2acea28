------------------------------ MODULE Migration ------------------------------
(***************************************************************************)
(* Runs of the migration runner (cmd/migrate, postgres/migration) against  *)
(* one database, possibly of different versions of the program.            *)
(*                                                                         *)
(*   - A set numbers its migrations from one without a gap, so a set is a  *)
(*     sequence and a version is a position in it.                         *)
(*   - A run holds an advisory lock, which belongs to the session of its   *)
(*     connection: it outlives the process and the connection until the    *)
(*     server ends the session, and would survive in the pool.             *)
(*   - A migration and its ledger row are one transaction.  Its commit is  *)
(*     a step of the server: the run may never learn of it, or be gone.    *)
(*                                                                         *)
(* A migration's name and checksum are its identity; two migrations with   *)
(* the same version and another identity are an edited history.            *)
(***************************************************************************)
EXTENDS Naturals, Sequences

CONSTANTS
    Runner,      \* runs of Apply
    Session,     \* sessions of the database server
    Migrations,  \* migrations, as name and checksum
    Sets,        \* the sets the program's versions carry
    Histories,   \* ledgers the database may start with
    None         \* absence of a migration or a session

MaxVersion == CHOOSE n \in {Len(s) : s \in Sets} : \A s \in Sets : Len(s) <= n

Version == 1..MaxVersion

\* load and verifyOrder: a set is not empty and not interrupted.
ASSUME MigrationAssumption ==
    /\ None \notin Migrations \cup Session
    /\ Sets \subseteq Seq(Migrations) /\ Sets # {} /\ \A s \in Sets : s # <<>>
    /\ MaxVersion \in Nat /\ \A s \in Sets : Len(s) <= MaxVersion
    /\ Histories \subseteq [Version -> Migrations \cup {None}]

VARIABLES
    ledger,   \* Version -> the migration recorded, and applied, under it
    session,  \* Session -> the server's side of a connection
    run       \* Runner -> the run

migrationVars == <<ledger, session, run>>

\* A transaction that inserted its ledger row and is about to commit.
Tx == [version : Version, migration : Migrations]
NoTx == [version |-> 0, migration |-> None]

\* "idle": pooled.  "orphan": nobody is at the other end, and the server does not
\* know it yet.  `lock' counts, as a session may take the lock it holds again.
SessionState == [state : {"absent", "idle", "used", "orphan"}, waiting : BOOLEAN,
                 lock : Nat, tx : Tx \cup {NoTx}]

NoConnection == [state |-> "absent", waiting |-> FALSE, lock |-> 0, tx |-> NoTx]

\* `done' is what the run read in the ledger, and what it applied since.
RunState == [pc : {"idle", "lock", "history", "apply", "commit", "release", "ended"},
             set : Sets \cup {<<>>}, done : SUBSET Version, session : Session \cup {None},
             result : {"none", "applied", "conflict", "failed"}]

NoRun == [pc |-> "idle", set |-> <<>>, done |-> {}, session |-> None, result |-> "none"]

MigrationTypeOK ==
    /\ ledger \in [Version -> Migrations \cup {None}]
    /\ session \in [Session -> SessionState]
    /\ run \in [Runner -> RunState]
    /\ \A r \in Runner : run[r].done \subseteq DOMAIN run[r].set

MigrationInit ==
    /\ ledger \in Histories
    /\ session = [s \in Session |-> NoConnection]
    /\ run = [r \in Runner |-> NoRun]

Active(r) == run[r].pc \notin {"idle", "ended"}

Conclude(r, result) == run' = [run EXCEPT ![r].pc = "release", ![r].result = result]

-----------------------------------------------------------------------------
(* The advisory lock, on the server.                                         *)

\* pg_advisory_lock returns: no other session holds the lock.
Grant(s) ==
    /\ session[s].waiting
    /\ \A t \in Session \ {s} : session[t].lock = 0
    /\ session' = [session EXCEPT ![s].waiting = FALSE, ![s].lock = @ + 1]
    /\ UNCHANGED <<ledger, run>>

\* The server finds that nobody is there, or a pooled connection reaches its age.
EndSession(s) ==
    /\ session[s].state \in {"orphan", "idle"}
    /\ session' = [session EXCEPT ![s] = NoConnection]
    /\ UNCHANGED <<ledger, run>>

-----------------------------------------------------------------------------
(* Apply.                                                                    *)

\* The pool hands out an idle connection or opens one, and the run asks for the lock.
Acquire(r) ==
    /\ run[r].pc = "idle"
    /\ \E s \in Session, set \in Sets :
         /\ session[s].state \in {"absent", "idle"}
         /\ run' = [run EXCEPT ![r] = [NoRun EXCEPT !.pc = "lock", !.set = set, !.session = s]]
         /\ session' = [session EXCEPT ![s].state = "used", ![s].waiting = TRUE]
    /\ UNCHANGED ledger

\* No connection is available.
AcquireFails(r) ==
    /\ run[r].pc = "idle"
    /\ run' = [run EXCEPT ![r].pc = "ended", ![r].result = "failed"]
    /\ UNCHANGED <<ledger, session>>

LockTaken(r) ==
    /\ run[r].pc = "lock" /\ ~session[run[r].session].waiting
    /\ run' = [run EXCEPT ![r].pc = "history"]
    /\ UNCHANGED <<ledger, session>>

\* Slip: what a newer version of the program applied is not looked at.
ReconcilesWhatItKnows(set) ==
    /\ \A v \in DOMAIN set : ledger[v] \in {None, set[v]}
    /\ \A v, w \in Version : v < w /\ ledger[w] # None => ledger[v] # None

\* Slip: a migration edited after it was applied is taken for applied.
ReconcilesByVersion(set) ==
    /\ \A v \in Version : ledger[v] # None => v \in DOMAIN set
    /\ \A v, w \in Version : v < w /\ ledger[w] # None => ledger[v] # None

\* Slip: a gap in the ledger is filled.
ReconcilesWithGaps(set) ==
    \A v \in Version : ledger[v] # None => v \in DOMAIN set /\ set[v] = ledger[v]

\* Every recorded version is in the set, unedited, and what is recorded is a prefix.
Reconciles(set) ==
    /\ \A v \in Version : ledger[v] # None => v \in DOMAIN set /\ set[v] = ledger[v]
    /\ \A v, w \in Version : v < w /\ ledger[w] # None => ledger[v] # None

Applied == {v \in Version : ledger[v] # None}

\* The ledger is created if it is missing, read, and compared with the set.
ReadHistory(r) ==
    /\ run[r].pc = "history"
    /\ IF Reconciles(run[r].set)
       THEN run' = [run EXCEPT ![r].pc = "apply", ![r].done = Applied]
       ELSE Conclude(r, "conflict")
    /\ UNCHANGED <<ledger, session>>

\* The versions of the set still to be applied, and the first of them.
Pending(r) == DOMAIN run[r].set \ run[r].done

IsNext(r, v) == v \in Pending(r) /\ \A w \in Pending(r) : v <= w

\* applyOne, up to its commit: the statements of the next migration and its ledger
\* row, which no other row may have the version of.
Execute(r) ==
    /\ run[r].pc = "apply"
    /\ \E v \in Version :
         /\ IsNext(r, v) /\ ledger[v] = None
         /\ session' = [session EXCEPT ![run[r].session].tx =
                          [version |-> v, migration |-> run[r].set[v]]]
    /\ run' = [run EXCEPT ![r].pc = "commit"]
    /\ UNCHANGED ledger

\* The server commits, whether or not somebody waits for the answer.
Commit(s) ==
    LET tx == session[s].tx
    IN  /\ tx # NoTx /\ ledger[tx.version] = None
        /\ ledger' = [ledger EXCEPT ![tx.version] = tx.migration]
        /\ session' = [session EXCEPT ![s].tx = NoTx]
        /\ UNCHANGED run

Committed(r) ==
    /\ run[r].pc = "commit" /\ session[run[r].session].tx = NoTx
    /\ \E v \in Version :
         /\ IsNext(r, v)
         /\ run' = [run EXCEPT ![r].pc = "apply", ![r].done = @ \cup {v}]
    /\ UNCHANGED <<ledger, session>>

\* A statement or the commit is refused: the transaction is rolled back.
StatementFails(r) ==
    /\ run[r].pc \in {"history", "apply", "commit"}
    /\ run[r].pc = "commit" => session[run[r].session].tx # NoTx
    /\ session' = [session EXCEPT ![run[r].session].tx = NoTx]
    /\ Conclude(r, "failed")
    /\ UNCHANGED ledger

AllApplied(r) ==
    /\ run[r].pc = "apply" /\ Pending(r) = {}
    /\ Conclude(r, "applied")
    /\ UNCHANGED <<ledger, session>>

\* releaseRunner, when the server confirms that it released the lock.
Release(r) ==
    /\ run[r].pc = "release"
    /\ session' = [session EXCEPT ![run[r].session].state = "idle",
                                  ![run[r].session].lock = @ - 1]
    /\ run' = [run EXCEPT ![r].pc = "ended"]
    /\ UNCHANGED ledger

\* Slip: the connection goes back to the pool whatever became of the unlock.
Pooled(connection) == [connection EXCEPT !.state = "idle"]

Discarded(connection) == [connection EXCEPT !.state = "orphan"]

\* An answer, the connection or the process is lost, at whatever point: the run fails
\* unless it was over, and discardRunner, or the death of the process, leaves the
\* session to the server, with what it waits for, holds and is about to commit.
Lose(r) ==
    /\ Active(r)
    /\ session' = [session EXCEPT ![run[r].session] = Discarded(@)]
    /\ run' = [run EXCEPT ![r].pc = "ended",
                          ![r].result = IF @ = "none" THEN "failed" ELSE @]
    /\ UNCHANGED ledger

-----------------------------------------------------------------------------
Advance(r) ==
    \/ LockTaken(r) \/ ReadHistory(r) \/ Execute(r) \/ Committed(r) \/ AllApplied(r)
    \/ Release(r)

MigrationNext ==
    \/ \E r \in Runner :
         \/ Acquire(r) \/ AcquireFails(r) \/ Advance(r) \/ StatementFails(r) \/ Lose(r)
    \/ \E s \in Session : Grant(s) \/ Commit(s) \/ EndSession(s)

\* Runs proceed; the server answers, and notices what nobody is at the end of.
MigrationFairness ==
    /\ \A r \in Runner : WF_migrationVars(Advance(r))
    /\ \A s \in Session :
         /\ WF_migrationVars(Grant(s)) /\ WF_migrationVars(Commit(s))
         /\ WF_migrationVars(session[s].state = "orphan" /\ EndSession(s))

MigrationSpec == MigrationInit /\ [][MigrationNext]_migrationVars /\ MigrationFairness

-----------------------------------------------------------------------------
(* What a deployment relies on.                                              *)

\* One run at a time: one session holds the lock, whatever changes the database does
\* so under it, and no connection that could be handed out again, and no session
\* without a run, is left with it for longer than the server takes to notice.
OneRunAtATime ==
    /\ \A s, t \in Session : session[s].lock > 0 /\ session[t].lock > 0 => s = t
    /\ \A s \in Session : session[s].tx # NoTx => session[s].lock > 0
    /\ \A s \in Session : session[s].state = "idle" => session[s].lock = 0

\* The database only moves to the next version of a set that agrees with everything
\* recorded so far: what a run read before it applied still holds when its commit
\* takes effect, even after the run is gone.
ForwardOnly ==
    [][ledger' # ledger =>
         \E set \in Sets, v \in Version :
           /\ v \in DOMAIN set
           /\ ledger' = [ledger EXCEPT ![v] = set[v]]
           /\ \A w \in Version : ledger[w] = IF w < v THEN set[w] ELSE None]_ledger

\* A run that reports success left the database at, and never below, the end of its
\* set, whichever runs interrupted themselves before it.
AppliedIsComplete ==
    \A r \in Runner :
      run[r].result = "applied" => \A v \in DOMAIN run[r].set : ledger[v] = run[r].set[v]

\* A run that waits for the lock is not kept by the failures of others.
EveryRunEnds == \A r \in Runner : run[r].pc = "lock" ~> run[r].pc = "ended"
=============================================================================
