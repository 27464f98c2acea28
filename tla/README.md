# A verification of the core API and its web client

This directory models the concurrent core of the repository in TLA+, checks it with TLC on small
instances and proves its most important properties with TLAPS for every instance. It is written
from the code: `src/services/core-api` (Go, PostgreSQL) and `src/apps/web` (a browser client).
`PROJECT.json` maps every definition to the lines it translates.

## 1. The system

One Go service (any number of processes) in front of one PostgreSQL database, and a browser client.
A request captures *its instant* once, when its use case starts, waits for whatever it has to wait
for (rate limiter, Argon2, a pooled connection, row locks) and decides and writes with that instant.
Transactions run at Read Committed; what they decide on is read under row locks, after an unlocked
read discovered which rows to lock. Every process also runs a dispatcher that drains an outbox of
verification messages. Nothing else is shared: rate-limit counters are per process, the browser
keeps only a cookie and, in memory, a CSRF token.

| component | state | operations | interacts through |
|---|---|---|---|
| registration requests (`auth/register.go`, `auth/verifyemail.go`, `authstore/registration.go`, `authstore/emailverification.go`, `authstore/account.go`) | accounts, login identities, credentials | register, reissue, present a token; create and suspend an account | the database; a message carries the token |
| challenges (`auth/emailverification`, migration 0003) | challenges: issued, expiry, consumed, superseded | issue, supersede, consume | written by requests, read by dispatchers |
| delivery (`auth/delivery.go`, `authstore/outbox.go`) | outbox rows: due instant, attempts, lease | sweep, claim, send, settle, reschedule | outbox rows that requests insert and delete; the SMTP transport |
| sign-in and sessions (`auth/signin.go`, `auth/sessions.go`, `authstore/session*.go`, `authstore/credential.go`) | sessions: created, last active, idle and absolute expiry, revoked, rotated; security events | sign in and replace, authenticate, end, renew activity, rotate, revoke all, set password | accounts and credentials of the component above |
| row locks (`authstore/authority.go` and every transaction) | locks and their modes | lock, wait, release | PostgreSQL |
| service lifecycle (`app/app.go`, `healthapi`) | readiness, server, dispatcher, store | start, serve, shut down, join | goroutines and channels |
| rate limiters (`ratelimit`) | per-process counters per key, deadlines | admit, charge, sweep | one mutex |
| migration runner (`persistence/postgres/migration`) | ledger, advisory lock | apply, reconcile | PostgreSQL |
| authorization rules (`iam`) | none | pure functions | used by every use case |
| web session controls (`apps/web/.../session`) | resolved state, cadence of activity, timers, requests in flight | resolve, sign out, gesture, timer | the HTTP API; the cookie all tabs share |
| web forms (`apps/web/.../registration`, `sign-in-form.tsx`) | form state, requests in flight, the fragment of a link | submit, hold, verify, resend | the HTTP API |
| HTTP transport, configuration, pool, hashing, logging | none a decision reads later | parse, render, validate | |

What is hard here: instants that are older than the rows they meet; discovery and lock as two
steps; uniqueness races; leases against serial sends; crashes between a message and its record; a
transport that fails after it accepted; passwords replaced while they are being verified; two uses
of one cookie; lock orders that run in opposite directions; a shutdown that times out; replies that
arrive after the state they were asked for; a lock that outlives its owner; a commit whose answer is
lost. The list, line by line, is `hazards` in `PROJECT.json`.


## 2. How the modules are built

One module per component, its state as variables, one action per operation or statement; a module
that composes two; an `MC` module and configurations per component; proofs in a module of their own.

| module | models | extends |
|---|---|---|
| `VerificationTables` | the rows requests and dispatchers share: challenges and the outbox (migration 0003), how an issuance writes them | |
| `Registration` | register, reissue, present a token, as overlapping requests; `CreateAccount`, `Suspend` | `VerificationTables` |
| `Delivery` | the dispatchers of several processes and their transport | `VerificationTables` |
| `Onboarding` | requests and dispatchers on the same tables | both |
| `Iam` | kinds, statuses, roles, surfaces, permissions: pure operators | |
| `Sessions` | sign-in, resolution, sign-out, activity, rotation, revocations, password replacement, suspension | `Iam` |
| `RowLocks` | the row locks of every transaction of `authstore`, in the order of its statements | |
| `RateLimit` | `AuthLimiter` and `ClientLimiter` of one process | |
| `Lifecycle` | one process: `New`, `Run`, its listener, its dispatcher, its requests and its pool | |
| `Migration` | runs of the migration runner, of several versions of the program, against one database | |
| `Browser` | what the components of one tab share: page, cookie, requests under way, and the service that answers | |
| `WebSession` | the session controls of the home page and the activity cadence | `Browser` |
| `WebForms` | sign-in, registration and resend forms, the verification panel | `Browser` |
| `Web` | one tab: the components above on their pages | both |
| `Registration_proofs`, `Delivery_proofs`, `Sessions_proofs`, `RateLimit_proofs`, `Lifecycle_proofs`, `Web_proofs` | theorems about the module they extend | `TLAPS` |
| `Database_proofs` | theorems about what only the database keeps apart | `Migration`, `RowLocks`, `TLAPS` |
| `Onboarding_proofs` | the refinements of `Onboarding`, and what they carry over to it | `Onboarding`, `Registration_proofs`, `Delivery_proofs` |

Conventions that hold everywhere:

- **One step is one atomic effect on what others can see**: an unlocked read, a transaction that
  decides under the lock of the row it discovered, a committed statement, a critical section of a
  mutex. What a transaction reads before its lock and decides after it is two steps with anything
  in between.
- **An instant is captured by the first step of a request or a tick** (`at`) and every later decision
  of that request uses it, while `now` moves on. All processes read one clock: the code compares
  instants of different processes without an allowance for skew, and so do the models.
- **Crashes, lost connections and clients that go away** are `AbandonRequest`, `AbortTick`, `End` and
  `Lose`: the request, tick, transaction or run ends between any two of its steps and what it
  committed stays. Nothing in the code
  resumes an interrupted request, so there is no restart step: a new request or tick is the restart.
- **Libraries and services** (PostgreSQL, pgxpool, fiber, fetch) are modelled by what this code relies
  on, and their definitions are marked external in the map.
- **Drawn identifiers** (challenges, claims, sessions) are never drawn twice; `Draw` picks the next
  unused one, which is sound because nothing compares identifiers but for equality. Challenge and
  session identifiers stand for their tokens and fingerprints too.
- **A password is its credential's revision**: what the code compares after Argon2 is the revision it
  read (`LockCredential`), not the text.
- **A *slip*** is a definition marked `Slip:` in front of the one it mimics: a plausible mistake.
  The specification never uses it; every property is known to be violated when one of these mistakes
  replaces the definition (the `mutants` of `PROJECT.json`).

## 3. Modules and code

**`VerificationTables`.** `challenge` holds the columns of `account_email_verifications` (issued,
expires, consumed, superseded) and, as history, the password revision in force when it was issued;
`outbox` those of `account_email_deliveries`. `Reissued`/`Requeued` are what one issuance writes
(supersede the current challenge and remove its message, insert the new ones): the same statements
serve a new registration, a repeated one and a reissue. `sent` counts the copies the transport took.

**`Registration`.** A request goes `discover` → `create` | `refresh`, or `consume`. `Discover` is the
unlocked lookup by address; `CreateRegistration` the transaction that inserts account, identity,
credential, challenge and message; `Collide` the loser of the unique index, which starts over once
and gives up after; `RefreshRegistration`/`RefuseRefresh` what a known address gets (under its row
lock: status, verification, resend interval by the instants of the rows); `ConsumeVerification` /
`RefuseVerification` a presented token. The rate limiter and the hasher come before any of it and can
only delay or refuse: their delay is the gap between start and discovery. `Surroundings` is what
dispatchers do to the tables as far as requests can see it: messages are carried or disappear.

**`Delivery`.** A tick of `Deliveries.Dispatch`: `StartTick` captures the instant, `SweepExpired` and
`SweepExhausted` share one batch, `ClaimDeliveries` leases a batch from the captured instant, then for
each message `BeginSend`, `Accept`, `EndSend`, `Decide`, which reads the clock for the next attempt, and
one of `SettleDelivery`, `RescheduleDelivery`, `LoseDelivery`, each guarded by the claim. Between any two: registration requests (`Post`, `Spend`),
time, another dispatcher, `AbortTick`. `Held` is what FOR UPDATE SKIP LOCKED may pass over: rows
another dispatcher, or a request about to commit, has locked at that moment. The transport is external: it may accept a message and
fail the call, and a call ends by its timeout.

**`Onboarding`** runs both on the same tables. `Registration` alone assumes `Surroundings`, and
`Delivery` alone assumes `Requests`; the properties `DeliveryIsUnobtrusive` and `RequestsAreExpected`
are refinements (`INSTANCE ... WITH`) that discharge both assumptions: seen without leases and
attempts, the composition is a behaviour of `RegistrationSpec`; seen without the password revisions,
one of `DeliverySpec`. Both are proved, so what holds of `Registration` alone holds next to real
dispatchers. `RegistrationSpec` is in this sense the abstract specification of the outbox that
requests rely on, and `DeliverySpec` the abstract specification of the requests dispatchers rely on.

**`Iam`** has the tables of `iam/authorization.go` as functions and `Authorized` as the conjunction
`Authorize` computes. `Sessions` calls it where `Resolve`, `Rotate` and `RecordActivity` do.

**`Sessions`.** A sign-in goes `lookup` → `present` → `replace` (unlocked credential read, the token
the browser presented, then `ReplaceSession` under the account and credential locks, which requires the
revision that was verified); a sign-out `authenticate` → `end`
(the clock is read again) → `revoke`; an activity signal `authenticate` →
`renew`. `RevokeAccountSessions` takes no lock before its UPDATE, so its snapshot and its writes are
two steps. Rotation, account-wide revocation, `SetPassword` and `Suspend` exist in the store but no
transport calls them yet; the constant `StoreOperations` says which of them a run admits.
`cutoff`, `verified`, `origin` and `revocations` are history for the properties. Sessions are of the
public surface: the code opens no other.

**`RateLimit`.** `Capture` is a use case taking its instant, `Allow`/`Refuse` its turn at the mutex.
`Examined` is `dimension.admits` with the sweep it may perform, `Charge` is `dimension.charge`. The
client is examined first and the identity only if it admits, so a refusal may leave a swept table
behind. `granted` is history: per dimension and key, every admission with its captured instant, the
window it was charged to and its place in that window.

**`RowLocks`.** A transaction is a sequence of statements, each a set of locks (`RecordActivity`,
`Rotate`, ..., one definition per transaction of the store); `Begin` starts it, `TakeLock` takes one lock
of the statement under way when nobody else holds one that conflicts, `End` releases all, at any
point. `ConflictsWith` is PostgreSQL's table. `Referenced` is the key share a foreign key takes on the
account of an inserted event or session, and `createRegistration` meets others only on the unique index
of addresses. `SkipLocked` is what claims and sweeps do: they take what is free and never wait.
`FindsNoRow` and `FindsItEnded` are statements that match nothing. What the statements decide is the
subject of the other modules; here every transaction may end after any of them, so the module has more
behaviours than the code, and one property: that no waiting is circular.

**`Lifecycle`.** `main` is the position of `New` and `Run`: `Build`/`Refuse`, `Start`, the select
(`ListenerFailed`, `DispatcherFailed`, `ContextDone`), `ClearReadiness`, `BeginShutdown`, `Drained` or
`TimeOut`, `StopDispatch`, `Join`, `Report`, `CloseStore`, `End`. The listening goroutine announces
readiness, listens and returns (`ListenStep`); the dispatching one ticks, counts and stops
(`Tick`, `TickDecided`, `TickUndecided`, `DispatcherStops`). Both end through a channel of capacity one.
Requests are accepted while the server is open, hold a connection at times and end; closing the store
waits for every connection. What a tick does to the outbox is `Delivery`; here it is decided or not.
Without configured registration there is no dispatcher. `seen` is history.

**`Migration`.** A run goes `lock` → `history` → (`apply` → `commit`)* → `release` on one
connection. The advisory lock is kept by the server's session: `Lose` leaves an `orphan` with all it
holds, waits for and is about to commit, until `EndSession`. `Commit` is a step of the server, which a
run may never learn of. `Reconciles` compares the ledger with the run's set by version, name and
checksum. Sessions go back to a pool and are handed out again. Runs of one database may carry
different sets.

**`Browser`, `WebSession`, `WebForms`, `Web`.** A request is `sent`, then `Handle`d, `Lost` or throttled by
the service, then handed over to whatever is left of its component (`ControlsReply`, `FormsReply`);
between these anything may happen in the tab. `live` is what the code asks of a reply before it lets
it decide anything; `last` is the same question asked of history, and `RepliesDecideInOrder` relates
them. Another tab shares the cookie (`Outside`). `WebSession` is `session-controls.tsx` with
`activity.ts`: `Resolve`, `SignOut`, `Gesture`, `TimerFires`, `Elapses` and one action per reply. In
`WebForms` a submission and the rendering that follows are two steps (`stale`), so that a second
submission can fall between them, and the effect of the verification panel may run twice. Durations
are not counted: a hold or an interval is on until it elapses. An aborted request of a kind that changes
nothing at the service ends at once, as a failure.


## 4. Runs and bounds

Instants are small integers; durations are chosen so that they are distinct where the code
distinguishes them and so that "before", "at" and "after" each boundary are reachable.

| run | question | bounds and why they suffice |
|---|---|---|
| `registration` | Do overlapping registrations and presented tokens on one address keep one live token, one consumption, spaced resends and the table constraints, with stale instants, a lost insertion race, clients that go away and a suspension in between? | One address (addresses share no row), two requests (every transaction locks the account, so a third is the second again), three challenges: a first issuance, a replacement, and one after it. Lifetime 3, interval 2, clock to 4: an expiry, a resend before and after the interval, and an instant older than both. |
| `delivery` | Can crashes, lapsed leases, a store that fails between statements, or a transport that accepts and fails, produce too many copies, a dropped message, or a write under somebody else's claim? And does every row leave once failures stop? | Two dispatchers under `FairSpec` competing for one row, three claims: a claim, its reclaim, and one more. Two attempts: the last one differs from the one before. The clock reaches the lease that follows the expiry, so that liveness is not cut off by it. No symmetry: it is unsound with liveness. A batch of one row: with two rows one dispatcher alone has 2.9 million states, beyond five minutes with liveness. So a batch cut short with rows left is covered by the theorems, for every batch; the liveness of such rows is checked one row at a time. A second message of the same address is in `onboarding`. |
| `delivery_lease` (violation) | Does the lease the policy requires suffice? | Batch 2, timeout 1, lease 2, the smallest that `Validate` accepts. Nothing delays a dispatcher except its calls (`PromptSpec`): with arbitrary pauses no lease suffices. |
| `onboarding` | Do requests and dispatchers on the same tables behave as each module alone assumes of the other? | One request, one dispatcher, two challenges. A refinement is a matter of single steps, and every step of either side occurs. |
| `sessions` | With the operations the service reaches today and suspensions, do ends stay, does activity only move forward, and does a suspension stop every later write? | Two requests, two sessions (one replaces the other). Idle 2, absolute 3, interval 1: the idle deadline is capped by the absolute one, a renewal inside and after the interval. |
| `sessions_chains` | After a password was replaced and the sessions revoked, can a sign-in with the old password leave a live session? Is one session of a chain of rotations open at most, and is each end recorded once? | Two requests, three sessions: predecessor, successor and the one a sign-in opens. Time decides nothing here, so the clock stands still; larger instances exceed five minutes, and the three properties are proved for all of them. |
| `sessions_expiry` (violation) | Is an idle expiry final? | One session, two signals. |
| `rowlocks` | Can transactions of the store wait for each other in a circle? | Three connections, two accounts, one with two sessions: circles of two and of three, sign-ins over another account's session, account-wide statements over more than one row. Connections run one transaction after another. |
| `ratelimit` | With callers whose instants arrive out of order at a full table: are refusals deserved, is no bound forgotten, are both dimensions charged together, and what is the most a window admits? | Three clients after one identity and tables of two, so that a table is full and has to be swept; limits 2 and 3, so that either dimension may be the one that refuses; clock to 5, past a window and a half. |
| `lifecycle` | Signalled, losing its listener or its dispatcher at any point of its start, its service and its shutdown: does a process stop its parts in order, return what happened, and return? | Two requests (one can be drained while another holds a connection), two failures in a row (one that is forgotten and one that ends the service), with and without registration. The threshold is 5 in the code; nothing but the count depends on it. |
| `migration` | Do runs of different versions exclude each other, extend the ledger only where it agrees with their set, succeed only when their whole set is applied, and never keep each other out for good? | Three runs over two connections, so that a connection is handed on; the sets `m1`, `m1 m2` and `m1 edited m3`; a new database and one whose ledger lost a row. |
| `web` | Do late, lost, refused and overtaken replies decide nothing, is nothing sent twice or unasked, does a link get its answer, and does every wait end? | Two requests under way (a reply and the one that overtakes it, or two components), two sessions (one replaces the other, in this tab or another one). |

Two further bounds are not about the code. `MaxTime` and `MaxClock` stop the clock, and with it nothing
but the clock. The identifier sets stop issuance: a request that needs an identifier and finds none stays where
it is and may be abandoned; `Slot` bounds how many requests of a tab are under way. `AbortTick`,
`AbandonRequest`, `End` and `Lose` have no bound.

TLC checks deadlock except in three runs, where the system really stops: a process that ended takes no
step (`lifecycle`), there are finitely many runs of the migration runner and each ends (`migration`), and
a tab whose sessions are used up may have nothing left to do (`web`). There the liveness properties
say what must not be the end.

`AtMostTwoWindows` states the least one can promise of a fixed window: in any stretch of `Window`
less twice what callers waited, at most two windows' worth is admitted. The allowance for waiting
is what the code leaves open: a caller is charged at its captured instant, so a late caller may be
charged to a counter opened by a later one.

## 5. Where the code and its text disagree

Each of these is a run that TLC ends with a counterexample, and an entry of `findings`.

- **`delivery_lease`**: the lease of every row of a batch starts at the tick's instant, the rows are sent one after
  the other, each with its own timeout. `Validate` compares the lease with one timeout. A policy it
  accepts (the shipped defaults are in that range: 16 rows, 30 s, 2 m) lets the later rows of a batch be claimed by
  another process while they are being sent, which the comment next to `Validate` says it excludes. What
  still holds is checked by `delivery`: copies never exceed attempts, and the late sender cannot
  disturb the newer claim.
- **`sessions_expiry`**: activity is decided at the instant of resolution and written later; a session
  that every resolution refuses in between becomes usable again. The gap is at most one request.

## 6. Fairness

Safety is checked without fairness where a module has none in its specification. Four specifications
state some, and no more than the code's scheduling gives.

**`Delivery`** (`FairSpec`, run `delivery`):

- *the ticker fires* (`WF(StartTick)`): `App.dispatch` loops on a ticker until its context ends. It gives up
  after five failures in a row and the process then stops (`Lifecycle`); that it is started again is the
  deployment's part;
- *a tick under way proceeds* (`WF(Dispatch)`): each step is a statement under a timeout or a call under
  `SendTimeout`, and returns;
- *no row is always passed over* (`SF(Takes(c))`): SKIP LOCKED lets two overlapping ticks pass over each
  other's rows, and TLC shows that weak fairness alone lets them do so for ever. A row lock lasts for one short
  transaction, so statements that could take a row again and again do not find it locked every time;
- *the clock does not stop* (`WF(Elapse)`), up to the bound of the model.

Nothing is assumed of the transport (`Accept` is not fair: every call may fail) nor of requests.
Failures are not excluded but assumed to end: the antecedent
`<>[][\A d : AbortTick(d) => Dispatch(d)]` says that from some point on no tick ends other than where
`Dispatch` ends it. Without it a store that fails for ever keeps every row, rightly. Weak fairness is
enough for the rest because nothing another process does disables a dispatcher's next step for good.

**`Lifecycle`**: `Run` and the listening goroutine proceed (`RunStep`, `ListenStep`: goroutines that can run
are scheduled; `Drained` or `TimeOut` is such a step, the shutdown has a deadline), a dispatcher that was
asked to stop returns (`DispatcherStops`: its context is cancelled and its statements observe it), and a
request gives its connection back (`Release`: statements have timeouts). It is *not* assumed that a
request ends, that a signal arrives or that a tick succeeds. `EveryStopEnds` therefore holds with
requests that never return.

**`Migration`**: a run takes its next step (`Advance`), the server grants a free lock, carries out a
commit it was asked for, and notices a session nobody is at the end of (`EndSession` of an orphan: a
keep-alive's work). Failures may happen for ever; the property is that those of others keep nobody out.

**`Web`**: the network settles every request one way or another (`Settles`: a reply, a refusal or a
failure), the browser hands every settled reply over (`HandsOver`), and it renders, runs effects
and fires timers (`Shows`). Nothing is assumed of the person, the service's answers or other tabs.

`RowLocks` has none: its property is that there is nothing a scheduler would have to break.

## 7. What is proved

The eight proof modules establish `Init => IInv`, `IInv /\ [Next]_vars => IInv'` and `IInv => Inv`; action
properties follow from `IInv` and one step. They assume what the modules' named assumptions say of the
constants (what the configuration's validators enforce) and nothing else: any number of
addresses, challenges, overlapping requests, dispatchers, sessions, keys, connections and runs, any
lifetime, interval, lease, batch, limit, window, capacity, set of migrations and initial ledger. `Delivery` alone also assumes that its challenge identifiers
are finitely many (`IdentifiersAssumption`): they are UUIDs, and batches are counted.

**`Registration_proofs`** proves the type invariant, all seven state invariants and both action
properties of `registration`. They are not inductive one by one. `RegistrationIInv` adds five facts a
reader of the code relies on silently:

- `ChallengesHaveAccounts`: an issued challenge belongs to an account that exists, so a transaction on its
  account sees it;
- `InstantsArePast`: no row and no captured instant lies in the future, so a request that starts now is
  not older than a row it meets;
- `PresentedAfterIssuance`: a token is presented after it was issued, and carried, which is why
  consumption never precedes issuance although both instants were captured long before the locks;
- `ConsumedWereCarried`: whoever presented a token got it from a message;
- `LatestIsCurrent`: the latest challenge of an account is the current one unless it ended, which is
  why comparing with the newest row alone keeps *all* issuances apart (`ResendSpacing`).

It was checked with TLC on the instance of `registration` before it was proved. Steps are
grouped by what they do to the tables: two actions have the effect `Issuance`, one
consumes, the others leave challenges alone, and each conjunct is preserved by each effect once.

**`Delivery_proofs`** proves the type invariant, `CopiesWithinAttempts`, `NeverScheduledPastExpiry`,
`LiveLeaseIsProtected` and `NothingIsDroppedUnsent` for any number of dispatchers that crash, stall
and overlap. `DeliveryIInv` adds:

- `RowSound`: an attempt that is due is due before its challenge expires;
- `DispatcherSound`: a dispatcher acts on an instant of the past, on a batch whose attempts the row has
  counted, in a stage where what it holds is what that stage needs, and a retry it decided on but has not
  written yet is no later than the backoff from now;
- `Covered`: the copies sent of a message, plus the processes that still may send one, are at most the
  attempts counted. That is why a dispatcher whose lease lapsed, and which sends all the same, cannot
  exceed the policy: its attempt was counted when it claimed the row.

`LongLeasesSuffice` is about `PromptSpec`, in which only its own calls delay a dispatcher. Assuming
`LeaseCoversBatch == Lease > Batch * SendTimeout` it proves `NoReclaimInFlight`: no row is claimed
again while a dispatcher is sending it. Its invariant relates the clock to the calls a batch still has
left (`OnTime`), each dispatcher to the claim it made (`OwnClaim`) and the row to that claim
(`StillHeld`). The run `delivery_lease` is the same property under defaults that do not meet the
assumption: the theorem says which relation of the three settings would be enough.

**`Sessions_proofs`** proves the type invariant, `PasswordCutoff`, `OneOpenPerChain`, `RecordedOnce`,
`DeadlinesFollowActivity`, `ActivityMovesForward`, `EndsAreFinal` and `SuspensionStopsWrites`. Every step
changes a session row in one of five ways (`RowChanges`: opened by a sign-in, opened by a rotation,
ended, renewed, rotated away), so each property is argued once per way and not once per action.
`IInv` adds:

- `RowSound`: each row's deadlines and the record of its end;
- `ChainsStart`: every chain of rotations starts at a session that exists, so the new origin of a
  sign-in joins no older chain;
- `CutoffsArePast`: a completed revocation took its snapshot of a revision that was in force, so a sign-in
  that passes the check of the revision is never before the cutoff;
- `SweepsSee`: while a revocation is between its snapshot and its end, each unrevoked session that
  was opened on an older password is among those it is going to revoke. The statement takes no lock
  on the account, and this is the fact that makes it sufficient for sessions sign-ins opened, and that
  fails for sessions rotated in between (section 9).

It too was checked with TLC before it was proved.

**`RateLimit_proofs`** proves the type invariant, `DeadlineIsHonest`, `RefusalsAreDeserved`,
`NoBoundIsForgotten`, `ChargedTogether` and `AtMostTwoWindows`. `IInv` is `TypeOK`, `DeadlineIsHonest` and
`CapturedInThePast`. The argument is about one table: `Sound` (counters within the
limit, the kept deadline never after a held counter's, capacity respected) is preserved by a sweep at any
instant and by a charge the examination admitted. That the recomputed deadline exists and is the
earliest rests on well-foundedness of < on the naturals; capacity on cardinality lemmas of the
library.

`AtMostTwoWindows` is a count over history. Counting needs no induction here: every admission is
recorded with the window it opened or joined and its turn in it, and `HInv` says what these records
imply. `Prompt` bounds how far a captured instant lags behind the clock (`MaxWait`). `Chronicle` says of
each key that a turn is within the limit and taken once, that a counter which is no longer held has expired, and
that what a later one admitted was captured at most `MaxWait` before that. So the admissions of a stretch
that short come from two successive windows at most, and window and turn map them injectively into
`1..2*limit`.

**`Lifecycle_proofs`** proves the type invariant, `StoppedInOrder` and `EndsTellTheTruth` for any number of
requests and any threshold. `IInv` has a part per idea: `Phases` (what each position of `Run` implies of
the flags it set), `Channels` (a channel holds something exactly while its goroutine has returned and
nobody received it), `Failures` (the counter is the streak), `Stops` and `Joined` (what was asked to stop,
and what was waited for), `Stored` (who may still hold a connection) and `Outcomes` (what the value to be
returned says of the past). The two properties need all of them, because `Run` reports at its end what it
learned from three goroutines long before.

**`Database_proofs`** holds the proofs about `Migration` and `RowLocks`, in two parts that share nothing. Of the
migration runner it proves the type invariant, `OneRunAtATime`, `ForwardOnly` and `AppliedIsComplete` for any
number of runs, connections and versions of the program, and any ledger to start with. `MigrationIInv` says that
one session holds the lock (`OneHolder`), that runs do not share a connection (`OwnSession`), what a session
may wait for and hold (`SessionSound`), what a run holds of its session (`Connected`), and the two that
carry the argument: `Informed`, that what a run read of the ledger is still what the ledger holds but
for its own last commit, and, within `SessionSound`, `Extends`, that a transaction about to commit extends
the ledger by the next migration of some set *even after its run is gone*. The first is why deciding on
a reading made once is sound; the second is why a commit nobody learns of does no harm.

Of the row locks it proves the type invariant and `NoLockCycle` for any number of accounts, sessions and
connections. `LocksIInv` is about ranks. Tables are
ranked; in every transaction each lock is of a higher rank than all before it (`PlansAscend`, `LocksAscend`),
with two exceptions: the key share an event takes on its account, which never waits because nobody locks an
account more strongly than `FOR NO KEY UPDATE` (`AccountsAreShared`), and the sessions of one account-wide
statement. In a circle the highest rank somebody waits at can only be that of the sessions, and both ends of
such a wait are account-wide statements over one account. With `lockedAuthority` locking `FOR UPDATE`
instead the property fails, as the comment at `authority.go:17` says it would.

**`Web_proofs`** proves the type invariant and the three action properties of `web` for any number of sessions
and of requests under way. What orders replies in the components is scattered: sequence numbers, abort
controllers, an in-flight flag, a ref, a disabled button. `IInv` states what these achieve together:

- `LiveIsAwaited`: a reply that still decides something is the answer to the last request of its kind, and
  its component is mounted and waits for it;
- `OneLive`: there is at most one such request of a kind;
- `ControlsSound`: a session has a reporter only while it is shown, a hold is that of a state without one,
  and a gesture waits only while it is owed a signal;
- `FormSound` and `PanelSound`: what two submissions of one task may both see, and that the effect that reads
  the fragment, when it runs first, finds the link as it came.

The last is why an effect React runs twice neither sends a link twice nor shows it as absent, although the
first run removes it from the address bar. A step makes, answers, hands over or disowns requests; `Stays` says what becomes of
those it does not make, so that each of these is argued once, and `WhoAsks` that a request of a kind leaves
only by the actions of its component. The invariant was checked with TLC on the instance of `web` first.

**`Onboarding_proofs`** proves both refinements, step by step, for any number of dispatchers, requests,
addresses and challenges. It extends the proofs of both components, and instantiates each a second time
under the mapping of its refinement: `R` is `Registration_proofs` over the outbox without leases and
attempts, `D` is `Delivery_proofs` over the challenges without password revisions.

- `DispatchersAreUnobtrusive`: what a dispatcher does to the rows is, through the mapping, a removal of
  queued rows (sweep, settle, lose), a message carried (accept) or nothing (claim, reschedule). The steps of
  the requests are themselves, because the mapping keeps all they read and write of a row. The fact it takes
  is `Carriage`: a message a dispatcher is sending is one of an issued challenge, although the challenge may
  have ended and the row be gone since.
- `RequestsAreAsExpected`: an issuance is `Post`, a consumption is `Spend`, all else stutters. It
  needs `RegistrationIInv` *in the composition* (`RegistrationHolds`): `Post` asks that an issuance be no later
  than now and no earlier than what it supersedes, and `Spend` that the token be unexpired and carried. That is not
  circular: `RegistrationIInv` comes from the first refinement alone.

So every safety theorem of either component holds of the composition, where the other one is real.
`TokensStaySound`, `RequestsStaySound`, `VerifiedWereReached`, `EndsStayFinal`, `DeliveryStaysBounded` and
`DeliveryStaysSafe` state them there. Two are not only carried over. `ConstraintsStayMet` is about rows
as they are, with leases and attempts, which the mapping hides: a row a dispatcher rescheduled meets the
constraints because what is due is due after the issuance (`DueAfterIssuance`), and a retry already was when
it was decided, before the statement that writes it (`RetriesAfterIssuance`); both are inductive in the composition.
`VerifiedWereReached` spans both sides: an address is verified only by a message a dispatcher handed over.

Only model-checked: liveness (`EveryRowLeaves`, `EveryStopEnds`, `EveryRunEnds`, `EveryWaitEnds`), which like
anything that rests on fairness is outside what the prover supports. Every other property of a passing run is
the statement of a theorem. The violations are counterexamples on their instances.

## 8. What is left out, and why

- **One clock.** Processes read the same clock. The code has no allowance for skew; skew of one process
  against another would show as instants older than the rows they meet, which the models have.
- **The rate limiter in front of registration and sign-in** only delays or refuses before a table is
  touched. It is a module of its own and not composed. The listener's global request limit is
  third-party middleware.
- **Hashing, token drawing, fingerprints, mail text, validation of addresses and passwords** are identities
  never drawn twice, revisions, or delays.
- **Surfaces.** Sessions are public: no entry point opens an operator session. `Iam` has both.
- **`SKIP LOCKED`** is an arbitrary set of rows passed over (`Held`), which includes sets no real
  transaction locks at that moment: more behaviours, never fewer.
- **Row locks** are the atomicity of the transactions' steps in `Registration` and `Sessions`; `RowLocks`
  shows that they do not keep each other waiting in a circle. It has the locks, not the data, and is not
  composed with the other modules. How long a single wait lasts is PostgreSQL's queueing.
- **The scan order of one statement** over several sessions is the database's: two simultaneous
  `RevokeAccountSessions` of one account may wait for each other, and one of them is then refused.
- **Embedded files** of the migration runner, their names and order are the assumption on `Sets`.
- **HTTP transport**: guards (`access.go`, `csrf.go`) are the guards of the actions they protect; parsing,
  limits and rendering of problems are left out. The web modules take from it which reply a request gets.
- **A tab's other tabs** act through the cookie and the sessions of the service alone.
- **Configuration, password policy, TLS, logging, landing pages, scripts**: no state a decision
  reads later. What the validators of the configuration enforce is what the modules assume of their constants.

## 9. Behaviour worth knowing

These are not disagreements between the code and its text. They came up while modelling, and the properties
are stated so that a reader sees them.

- **A signal before the server listens.** `Shutdown` finds nothing to shut down when the listener has not
  registered yet; the server may listen afterwards, and `Run` then waits at `app.go:268` for a listener nobody
  stops. `EveryStopEnds` is stated for a listener that has listened or returned.
- **A late announcement.** The listening goroutine sets readiness (`app.go:225`) when it first runs, which may
  be after the shutdown cleared it. `StoppedInOrder` excepts this case (`announcedLate`); the announcement ends
  when the store is closed.
- **A shutdown that times out** closes the store while requests still run; they fail, and closing waits for
  the connections they hold. The comments at `app.go:207` and `app.go:258` describe the order for a
  shutdown that drains.
- **Rotation against an account-wide revocation.** `RevokeAccountSessions` revokes the rows its statement saw;
  a rotation that commits after that snapshot leaves its successor open, although the comment at
  `session_lifecycle.go:105` speaks of every live session. No transport calls either operation yet.
  `PasswordCutoff` is about sessions that sign-ins opened.
- **A resolution answered before a sign-out and handed over after it** (`session-controls.tsx:170`) shows the
  ended session until the next request. It is the last resolution of its component, so `RepliesDecideInOrder`
  admits it.
- **A late sign-out** clears the cookie the browser holds when its reply arrives (`signout.go:25`), also one
  another tab was given meanwhile.
- **The activity reporter** stays stopped after a refusal for the same CSRF token, and a timer that fires
  while the page is hidden leaves the gesture pending without a timer: the next gesture arms one.
- **The sign-in form** has no guard of its own against a second submission in one task: the second aborts the
  first, and the service may handle both. The sign-out button relies on being disabled before the next
  event.

## 10. What could follow

A composition of `Sessions` with `RowLocks` that takes the locks statement by statement.
