---------------------------- MODULE RateLimit ----------------------------
(***************************************************************************)
(* The rate limiters of one process (internal/ratelimit): bounded tables   *)
(* of fixed-window counters behind one mutex.  A caller captures its       *)
(* instant, then waits for the mutex, so the instants a table sees are not *)
(* in order.  With Dimensions = {"clients", "identities"} this is          *)
(* AuthLimiter, with {"clients"} it is ClientLimiter.                      *)
(***************************************************************************)
EXTENDS Integers, FiniteSets, FiniteSetsExt

CONSTANTS Dimensions,  \* the tables of this limiter
          Keys,        \* counter keys
          Presented,   \* what callers present: a key in each dimension
          Attempts,    \* per dimension, what a counter admits in one window
          Window,      \* how long a counter lasts
          Capacity,    \* the counters of one table
          Calls,       \* callers that may be between their instant and the mutex
          MaxWait,     \* bound: the longest a caller waits for the mutex
          MaxClock     \* bound: the last instant of the model

ASSUME DimensionsAssumption ==
    Dimensions \in {{"clients"}, {"clients", "identities"}}
ASSUME PolicyAssumption ==
    /\ Attempts \in [Dimensions -> Nat \ {0}]
    /\ Window \in Nat \ {0}
    /\ Capacity \in Nat \ {0}
ASSUME KeysAssumption ==
    /\ IsFiniteSet(Keys)
    /\ Presented \in SUBSET [Dimensions -> Keys]
ASSUME BoundsAssumption ==
    /\ MaxWait \in Nat
    /\ MaxClock \in Nat

VARIABLES clock,   \* the process clock
          tables,  \* per dimension, its counters and the earliest deadline
          calls,   \* callers waiting for the mutex
          granted  \* history: per dimension and key, what was admitted

vars == <<clock, tables, calls, granted>>

Instant == 0 .. MaxClock
Unset == 0
Bucket == [count : Nat, resetAt : Nat]
NoBucket == [count |-> 0, resetAt |-> Unset]
Table == [buckets : [Keys -> Bucket], nextExpiry : Nat]
Idle == [at |-> -1]
Call == [at : Instant, key : Presented]

\* An admission: its captured instant, and which turn of which counter of its key it was.
Admission == [at : Instant, window : Nat, turn : Nat, resetAt : Nat]
History == [windows : Nat, admissions : SUBSET Admission]
NoHistory == [windows |-> 0, admissions |-> {}]

---------------------------------------------------------------------------

Held(table) == {k \in Keys : table.buckets[k].count # 0}

Expired(bucket, now) == now >= bucket.resetAt

Deadlines(buckets) == {buckets[k].resetAt : k \in {h \in Keys : buckets[h].count # 0}}

\* Slip: a full table starts over.
SweepAll(table, now) == [buckets |-> [k \in Keys |-> NoBucket], nextExpiry |-> Unset]

\* Expired counters leave and the earliest deadline is recomputed.
Sweep(table, now) ==
    LET kept == [k \in Keys |-> IF Expired(table.buckets[k], now)
                                THEN NoBucket ELSE table.buckets[k]]
    IN  [buckets |-> kept,
         nextExpiry |-> IF Deadlines(kept) = {} THEN Unset ELSE Min(Deadlines(kept))]

\* Slip: a table is not scanned at the very instant of its deadline.
ScansLate(table, key, now) ==
    /\ key \notin Held(table)
    /\ Cardinality(Held(table)) >= Capacity
    /\ table.nextExpiry = Unset \/ now > table.nextExpiry

\* Only an unseen key scans, and only a full table whose recorded deadline passed.
Scans(table, key, now) ==
    /\ key \notin Held(table)
    /\ Cardinality(Held(table)) >= Capacity
    /\ table.nextExpiry = Unset \/ now >= table.nextExpiry

Examined(table, key, now) == IF Scans(table, key, now) THEN Sweep(table, now) ELSE table

\* Slip: one attempt above the limit.
AdmitsOneMore(table, key, limit, now) ==
    \/ /\ key \in Held(table)
       /\ Expired(table.buckets[key], now) \/ table.buckets[key].count <= limit
    \/ /\ key \notin Held(table)
       /\ Cardinality(Held(Examined(table, key, now))) < Capacity

\* The verdict of one dimension; nothing is charged.
Admits(table, key, limit, now) ==
    \/ /\ key \in Held(table)
       /\ Expired(table.buckets[key], now) \/ table.buckets[key].count < limit
    \/ /\ key \notin Held(table)
       /\ Cardinality(Held(Examined(table, key, now))) < Capacity

\* Slip: instants are taken to arrive in order, so the first deadline is the earliest.
EarliestFirst(recorded, reset) == IF recorded = Unset THEN reset ELSE recorded

Earliest(recorded, reset) == IF recorded = Unset \/ reset < recorded THEN reset ELSE recorded

\* Slip: an expired counter starts over under its old deadline.
ChargeOldDeadline(table, key, now) ==
    IF key \in Held(table)
    THEN [table EXCEPT !.buckets[key].count =
             IF Expired(table.buckets[key], now) THEN 1 ELSE @ + 1]
    ELSE [buckets |-> [table.buckets EXCEPT ![key] = [count |-> 1, resetAt |-> now + Window]],
          nextExpiry |-> Earliest(table.nextExpiry, now + Window)]

Charge(table, key, now) ==
    IF key \in Held(table) /\ ~Expired(table.buckets[key], now)
    THEN [table EXCEPT !.buckets[key].count = @ + 1]
    ELSE [buckets |-> [table.buckets EXCEPT ![key] = [count |-> 1, resetAt |-> now + Window]],
          nextExpiry |-> Earliest(table.nextExpiry, now + Window)]

---------------------------------------------------------------------------

Waiting(c) == calls[c].at >= 0

AdmitsIn(d, call) == Admits(tables[d], call.key[d], Attempts[d], call.at)

\* The identity is looked at only once the client was admitted.
LooksAt(d, call) == d = "clients" \/ AdmitsIn("clients", call)

\* Slip: a dimension is charged as soon as it admits.
TablesChargedEarly(call) ==
    [d \in Dimensions |->
       IF ~LooksAt(d, call) THEN tables[d]
       ELSE LET table == Examined(tables[d], call.key[d], call.at)
            IN  IF AdmitsIn(d, call) THEN Charge(table, call.key[d], call.at) ELSE table]

TablesExamined(call) ==
    [d \in Dimensions |-> IF LooksAt(d, call) THEN Examined(tables[d], call.key[d], call.at)
                                              ELSE tables[d]]

Admitted(call) == \A d \in Dimensions : AdmitsIn(d, call)

TablesCharged(call) ==
    [d \in Dimensions |-> Charge(TablesExamined(call)[d], call.key[d], call.at)]

\* The history of a key after an admission at the given instant, charged to the bucket.
Recorded(history, at, bucket) ==
    LET window == IF bucket.count = 1 THEN history.windows + 1 ELSE history.windows
    IN  [windows |-> window,
         admissions |-> history.admissions \cup
           {[at |-> at, window |-> window, turn |-> bucket.count, resetAt |-> bucket.resetAt]}]

Init ==
    /\ clock = 0
    /\ tables = [d \in Dimensions |-> [buckets |-> [k \in Keys |-> NoBucket], nextExpiry |-> Unset]]
    /\ calls = [c \in Calls |-> Idle]
    /\ granted = [d \in Dimensions |-> [k \in Keys |-> NoHistory]]

\* A use case captures its instant and asks; it does not hold the mutex yet.
Capture(c) ==
    /\ ~Waiting(c)
    /\ \E key \in Presented : calls' = [calls EXCEPT ![c] = [at |-> clock, key |-> key]]
    /\ UNCHANGED <<clock, tables, granted>>

Allow(c) ==
    /\ Waiting(c)
    /\ Admitted(calls[c])
    /\ tables' = TablesCharged(calls[c])
    /\ granted' = [d \in Dimensions |-> [granted[d] EXCEPT ![calls[c].key[d]] =
                     Recorded(@, calls[c].at, tables'[d].buckets[calls[c].key[d]])]]
    /\ calls' = [calls EXCEPT ![c] = Idle]
    /\ UNCHANGED clock

Refuse(c) ==
    /\ Waiting(c)
    /\ ~Admitted(calls[c])
    /\ tables' = TablesExamined(calls[c])
    /\ calls' = [calls EXCEPT ![c] = Idle]
    /\ UNCHANGED <<clock, granted>>

\* Time passes while callers wait, none of them longer than MaxWait.
PassTime ==
    /\ clock < MaxClock
    /\ \A c \in Calls : Waiting(c) => clock - calls[c].at < MaxWait
    /\ clock' = clock + 1
    /\ UNCHANGED <<tables, calls, granted>>

Next == PassTime \/ \E c \in Calls : Capture(c) \/ Allow(c) \/ Refuse(c)

Spec == Init /\ [][Next]_vars

---------------------------------------------------------------------------
(* Properties                                                              *)

\* The tables hold counters with a deadline, within the limit of their dimension and at
\* most Capacity of them (AuthPolicy.ClientAttempts, IdentityAttempts and Capacity).
TypeOK ==
    /\ clock \in Instant
    /\ tables \in [Dimensions -> Table]
    /\ calls \in [Calls -> Call \cup {Idle}]
    /\ granted \in [Dimensions -> [Keys -> History]]
    /\ \A d \in Dimensions :
         /\ Cardinality(Held(tables[d])) <= Capacity
         /\ \A k \in Keys : tables[d].buckets[k].count <= Attempts[d]

\* The recorded deadline of a table that holds counters is never later than one of them:
\* the comparison that answers a refusal without a scan (dimension.admits) relies on it,
\* whatever the order in which the captured instants reach the mutex.
DeadlineIsHonest ==
    \A d \in Dimensions : \A k \in Held(tables[d]) :
        /\ tables[d].nextExpiry # Unset
        /\ tables[d].nextExpiry <= tables[d].buckets[k].resetAt

InWindow(d, k, now) == k \in Held(tables[d]) /\ ~Expired(tables[d].buckets[k], now)

Deserved(d, call) ==
    \/ /\ InWindow(d, call.key[d], call.at)
       /\ tables[d].buckets[call.key[d]].count = Attempts[d]
    \/ /\ Cardinality(Held(tables[d])) = Capacity
       /\ \A k \in Held(tables[d]) : InWindow(d, k, call.at)

\* A call is refused only by a counter that is inside its window and spent, or by a table
\* in which every counter is inside its window: an expired counter that was not scanned
\* never costs anybody an attempt (AuthLimiter.Allow).
RefusalsAreDeserved ==
    [][\A c \in Calls : Waiting(c) /\ ~Waiting(c)' /\ granted' = granted =>
         \E d \in Dimensions : Deserved(d, calls[c])]_vars

\* A counter that is inside its window by the process clock is neither dropped, nor
\* lowered, nor given another deadline: a flood of unseen keys cannot make room by
\* discarding a bound that somebody is under (dimension.admits).
NoBoundIsForgotten ==
    [][\A d \in Dimensions : \A k \in Keys : InWindow(d, k, clock) =>
         /\ tables'[d].buckets[k].count >= tables[d].buckets[k].count
         /\ tables'[d].buckets[k].resetAt = tables[d].buckets[k].resetAt]_vars

\* A counter of d was created, restarted or raised.
Charged(d) == \E k \in Keys :
    /\ tables'[d].buckets[k].count # 0
    /\ \/ tables'[d].buckets[k].count > tables[d].buckets[k].count
       \/ tables'[d].buckets[k].resetAt # tables[d].buckets[k].resetAt

\* An attempt is charged to every dimension or to none: a refusal by one of them does not
\* delay the recovery of the other (AuthLimiter.Allow).
ChargedTogether ==
    [][(\E d \in Dimensions : Charged(d)) => \A d \in Dimensions : Charged(d)]_vars

\* What a key was admitted over a stretch of captured instants.
Within(d, k, from, until) ==
    {a \in granted[d][k].admissions : a.at \in from .. until}

\* Windows are fixed, so the two that meet may both be spent, but no third one fits: over a
\* stretch shorter than a window by what instants may be late at its ends, a key is
\* admitted at most twice its limit, by the instants its callers captured.
AtMostTwoWindows ==
    \A d \in Dimensions : \A k \in Keys : \A from \in Instant :
        Cardinality(Within(d, k, from, from + Window - 2 * MaxWait)) <= 2 * Attempts[d]
==========================================================================
