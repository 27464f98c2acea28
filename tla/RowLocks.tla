------------------------------- MODULE RowLocks -------------------------------
(* The row locks the transactions of                                          *)
(* services/core-api/internal/persistence/postgres/authstore take, in the     *)
(* order of their statements.  PostgreSQL gives a lock when nobody else holds *)
(* one that conflicts with it, keeps it to the end of its transaction, and    *)
(* breaks a circular wait by failing one transaction in it, which the store   *)
(* answers with ErrStore.  What the statements read and write is the subject  *)
(* of Registration, Delivery and Sessions; here a transaction may end after   *)
(* any statement, and while it waits.                                         *)
(*                                                                            *)
(* Rows a transaction has inserted itself are seen by nobody before it ends,  *)
(* and are left out, except through the unique index on addresses.            *)
EXTENDS Naturals, Sequences

CONSTANTS
    Account,       \* accounts; each has one identity, one address, one current
                   \* challenge and one delivery
    SessionId,     \* session rows that exist already
    Owner,         \* the account of each of them
    Transaction,   \* connections that run one transaction after another
    NoAccount

ASSUME OwnerAssumption == Owner \in [SessionId -> Account]
ASSUME NoAccountAssumption == NoAccount \notin Account

VARIABLES
    todo,          \* the locks a transaction has yet to take: <<statement, lock>>
    held,          \* the locks it holds
    ending         \* the account whose sessions it ends all at once, or NoAccount

lockVars == <<todo, held, ending>>
-----------------------------------------------------------------------------
(* Rows, modes and conflicts.                                                *)

Mode == {"KeyShare", "Share", "NoKeyUpdate", "Update"}

ConflictsWith ==
    [KeyShare    |-> {"Update"},
     Share       |-> {"NoKeyUpdate", "Update"},
     NoKeyUpdate |-> {"Share", "NoKeyUpdate", "Update"},
     Update      |-> Mode]

Lock(table, key, mode) == [table |-> table, key |-> key, mode |-> mode]

Conflict(l, m) ==
    l.table = m.table /\ l.key = m.key /\ m.mode \in ConflictsWith[l.mode]

Free(t, l) == \A u \in Transaction \ {t} : \A m \in held[u] : ~Conflict(l, m)

\* The rows the statement under way has yet to lock, in an order the database chooses.
Due(t) == {x[2] : x \in {y \in todo[t] : \A z \in todo[t] : y[1] <= z[1]}}
-----------------------------------------------------------------------------
(* What the statements lock.                                                 *)

\* UPDATE of columns outside every key, and SELECT ... FOR NO KEY UPDATE.
Changed(table, key) == {Lock(table, key, "NoKeyUpdate")}

\* DELETE, and SELECT ... FOR UPDATE.
Owned(table, key) == {Lock(table, key, "Update")}

\* What the foreign key of an inserted event or session locks.
Referenced(a) == {Lock("accounts", a, "KeyShare")}

\* lockedAuthority, were it to lock the account as it locks the grants.
AuthorityForUpdate(a) == <<Owned("accounts", a), Owned("grants", a)>>

lockedAuthority(a) == <<Changed("accounts", a), Owned("grants", a)>>

\* What registrations and verifications lock first.
lockedIdentity(a) ==
    <<Changed("accounts", a), Owned("identities", a), Owned("challenges", a),
      Owned("deliveries", a)>>
-----------------------------------------------------------------------------
(* The transactions.                                                         *)

Idle(t) == todo[t] = {} /\ held[t] = {}

Begin(t, statements) ==
    /\ Idle(t)
    /\ todo' = [todo EXCEPT ![t] =
                  UNION {{i} \X statements[i] : i \in DOMAIN statements}]
    /\ ending' = [ending EXCEPT ![t] = NoAccount]
    /\ UNCHANGED held

RecordActivity(t, s) ==
    Begin(t, lockedAuthority(Owner[s]) \o <<Owned("sessions", s)>>)

Rotate(t, s) ==
    Begin(t, lockedAuthority(Owner[s]) \o
             <<Owned("sessions", s), Referenced(Owner[s])>>)

\* A sign-in over a session that may be another account's, or over none.
ReplaceSession(t, a) ==
    Begin(t, lockedAuthority(a) \o
             <<{Lock("credentials", a, "Share")}, Referenced(a)>>)

ReplaceSessionOf(t, a, previous) ==
    Begin(t, lockedAuthority(a) \o
             <<{Lock("credentials", a, "Share")}, Changed("sessions", previous),
               Referenced(Owner[previous]), Referenced(a)>>)

RevokeSession(t, s) ==
    Begin(t, <<Changed("sessions", s), Referenced(Owner[s])>>)

\* One statement over the sessions that live when it begins.
RevokeAccountSessions(t, a) ==
    \E live \in SUBSET {s \in SessionId : Owner[s] = a} :
      /\ Idle(t)
      /\ todo' = [todo EXCEPT ![t] =
                    ({1} \X UNION {Changed("sessions", s) : s \in live})
                      \cup ({2} \X Referenced(a))]
      /\ ending' = [ending EXCEPT ![t] = a]
      /\ UNCHANGED held

Suspend(t, a) == Begin(t, <<Changed("accounts", a), Referenced(a)>>)

SetPassword(t, a) == Begin(t, <<Changed("credentials", a), Referenced(a)>>)

\* Two insertions of one address meet on its unique index: the later waits for the
\* end of the earlier.
createRegistration(t, a) == Begin(t, <<Owned("addresses", a)>>)

refreshRegistration(t, a) ==
    Begin(t, lockedIdentity(a) \o <<Changed("credentials", a), Referenced(a)>>)

ConsumeVerification(t, a) == Begin(t, lockedIdentity(a) \o <<Referenced(a)>>)

Reissue(t, a) == Begin(t, lockedIdentity(a) \o <<Referenced(a)>>)

\* SettleDelivery and RescheduleDelivery.
SettleDelivery(t, a) == Begin(t, <<Owned("deliveries", a)>>)

\* ClaimDeliveries and SweepDeliveries take what nobody holds and never wait.
SkipLocked(t) ==
    \E rows \in SUBSET Account :
      /\ Idle(t) /\ rows # {}
      /\ \A a \in rows : Free(t, Lock("deliveries", a, "Update"))
      /\ held' = [held EXCEPT ![t] = UNION {Owned("deliveries", a) : a \in rows}]
      /\ ending' = [ending EXCEPT ![t] = NoAccount]
      /\ UNCHANGED todo
-----------------------------------------------------------------------------
(* Waiting, going on and ending.                                             *)

TakeLock(t) ==
    \E x \in todo[t] :
      /\ x[2] \in Due(t) /\ Free(t, x[2])
      /\ todo' = [todo EXCEPT ![t] = @ \ {x}]
      /\ held' = [held EXCEPT ![t] = @ \cup {x[2]}]
      /\ UNCHANGED ending

\* The account has no grant or no current challenge, the delivery has left, or a
\* session the account-wide statement waited for has ended.
FindsNoRow(t) ==
    \E x \in todo[t] :
      /\ x[2] \in Due(t)
      /\ \/ x[2].table \in {"grants", "challenges", "deliveries"}
         \/ x[2].table = "sessions" /\ ending[t] # NoAccount
      /\ todo' = [todo EXCEPT ![t] = @ \ {x}]
      /\ UNCHANGED <<held, ending>>

\* The replaced session has ended already: neither it nor its account is touched.
FindsItEnded(t) ==
    \E x \in todo[t] :
      /\ x[2] \in Due(t)
      /\ x[2].table = "sessions"
      /\ \E m \in held[t] : m.table = "credentials"
      /\ todo' = [todo EXCEPT ![t] = {y \in @ : y[1] > x[1] + 1}]
      /\ UNCHANGED <<held, ending>>

\* Commit, an early return, a cancelled request, or the end the database makes of a
\* circular wait.
End(t) ==
    /\ ~Idle(t)
    /\ todo' = [todo EXCEPT ![t] = {}]
    /\ held' = [held EXCEPT ![t] = {}]
    /\ ending' = [ending EXCEPT ![t] = NoAccount]

LocksInit ==
    /\ todo = [t \in Transaction |-> {}]
    /\ held = [t \in Transaction |-> {}]
    /\ ending = [t \in Transaction |-> NoAccount]

OfSession(t, s) == RecordActivity(t, s) \/ Rotate(t, s) \/ RevokeSession(t, s)

OfAccount(t, a) ==
    \/ ReplaceSession(t, a)
    \/ \E s \in SessionId : ReplaceSessionOf(t, a, s)
    \/ RevokeAccountSessions(t, a)
    \/ Suspend(t, a) \/ SetPassword(t, a)
    \/ createRegistration(t, a) \/ refreshRegistration(t, a)
    \/ Reissue(t, a) \/ ConsumeVerification(t, a) \/ SettleDelivery(t, a)

LocksNext ==
    \E t \in Transaction :
      \/ \E s \in SessionId : OfSession(t, s)
      \/ \E a \in Account : OfAccount(t, a)
      \/ SkipLocked(t)
      \/ TakeLock(t) \/ FindsNoRow(t) \/ FindsItEnded(t)
      \/ End(t)

LocksSpec == LocksInit /\ [][LocksNext]_lockVars
-----------------------------------------------------------------------------
(* What the lock modes and the order of the statements are chosen for.       *)

WaitsFor(t, u) ==
    t # u /\ \E l \in Due(t) : \E m \in held[u] : Conflict(l, m)

\* Every member waits for another one: nobody but the database can end this.
Circular(S) == S # {} /\ \A t \in S : \E u \in S : WaitsFor(t, u)

\* No transactions wait for each other in a circle, although revocations lock
\* sessions before their account and every other path the account first
\* (session_lifecycle.go:89), unless two of them end all sessions of one account:
\* the order in which those lock the rows is the database's, not the code's.
NoLockCycle ==
    \A S \in SUBSET Transaction :
      Circular(S) => \E t, u \in S : t # u /\ ending[t] # NoAccount /\ ending[u] = ending[t]
=============================================================================
