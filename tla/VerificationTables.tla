-------------------------- MODULE VerificationTables --------------------------
(***************************************************************************)
(* The two tables registration and delivery share in PostgreSQL            *)
(* (migration 0003): the challenges that prove control of a login address, *)
(* and the outbox of messages still to be carried.                         *)
(*                                                                         *)
(* The service writes one login identity per account and never deletes or  *)
(* reassigns one, so an identity is named here by its address.             *)
(***************************************************************************)
EXTENDS Integers, FiniteSets

CONSTANTS
    Address,         \* login addresses, already normalised
    ChallengeId,     \* identifiers of challenges, bounding how many are issued
    ClaimId,         \* identifiers of dispatcher claims (a fresh uuid per tick)
    None,            \* absence of an address, a challenge or a claim
    Lifetime,        \* how long a challenge may be consumed
    ResendInterval,  \* the shortest spacing of two issuances
    MaxTime          \* bound on the clock

ASSUME TablesAssumption ==
    /\ None \notin Address \cup ChallengeId \cup ClaimId
    /\ MaxTime \in Nat
    /\ Lifetime \in Nat /\ ResendInterval \in Nat
    /\ 0 < ResendInterval /\ ResendInterval < Lifetime

VARIABLES
    now,        \* the clock every process reads
    challenge,  \* ChallengeId -> challenge
    outbox,     \* ChallengeId -> delivery: challenge_id is UNIQUE in the table
    sent        \* ChallengeId -> messages the transport accepted (history)

tables == <<challenge, outbox, sent>>

-----------------------------------------------------------------------------
(* Rows.                                                                     *)

Never == -1
Time == Nat
Instant == Time \cup {Never}    \* a nullable timestamptz

\* `revision' is history: the credential in force when the challenge was issued.
ChallengeRow == [address : Address \cup {None}, issuedAt : Instant,
                 expiresAt : Instant, consumedAt : Instant,
                 supersededAt : Instant, revision : Nat]
Unissued == [address |-> None, issuedAt |-> Never, expiresAt |-> Never,
             consumedAt |-> Never, supersededAt |-> Never, revision |-> 0]

\* The row's own expires_at is a copy of the challenge's that nothing moves, so
\* the challenge's is read.  A removed row keeps its counter as history only.
DeliveryRow == [queued : BOOLEAN, attempts : Nat, availableAt : Instant,
                claim : ClaimId \cup {None}, claimExpiresAt : Instant]
NoDelivery == [queued |-> FALSE, attempts |-> 0, availableAt |-> Never,
               claim |-> None, claimExpiresAt |-> Never]

TablesTypeOK ==
    /\ now \in Time
    /\ challenge \in [ChallengeId -> ChallengeRow]
    /\ outbox \in [ChallengeId -> DeliveryRow]
    /\ sent \in [ChallengeId -> Nat]

TablesInit ==
    /\ now = 0
    /\ challenge = [c \in ChallengeId |-> Unissued]
    /\ outbox = [c \in ChallengeId |-> NoDelivery]
    /\ sent = [c \in ChallengeId |-> 0]

-----------------------------------------------------------------------------
(* Reading the tables.                                                       *)

Issued(c) == challenge[c].address # None

\* A random identifier nothing carries yet.  Which one is drawn makes no
\* difference to anything, so one of them stands for all.
Draw(unused) == IF unused = {} THEN {} ELSE {CHOOSE id \in unused : TRUE}

FreshChallenge == Draw({c \in ChallengeId : ~Issued(c)})

\* Neither consumed nor superseded; an expired challenge is still current.
Current(c) ==
    /\ Issued(c)
    /\ challenge[c].consumedAt = Never
    /\ challenge[c].supersededAt = Never

CurrentOf(a) == {c \in ChallengeId : challenge[c].address = a /\ Current(c)}

\* Slip: the interval is decided on a clock read again under the locks.
MayReissueByTheClock(c, at) == now - challenge[c].issuedAt >= ResendInterval

MayReissueAt(c, at) == at - challenge[c].issuedAt >= ResendInterval

\* Slip: a lapsed lease is never taken over.
NeverLeased(c, at) == outbox[c].claimExpiresAt = Never

\* A row no live lease protects from a reader whose instant is `at'.
Unleased(c, at) ==
    \/ outbox[c].claimExpiresAt = Never
    \/ outbox[c].claimExpiresAt <= at

-----------------------------------------------------------------------------
(* Writing them.                                                             *)

Dequeue(row) ==
    [row EXCEPT !.queued = FALSE, !.availableAt = Never,
                !.claim = None, !.claimExpiresAt = Never]

\* Slip: the expiry precedes the issuance.
NewChallengeExpired(a, at, revision) ==
    [address |-> a, issuedAt |-> at, expiresAt |-> at - Lifetime,
     consumedAt |-> Never, supersededAt |-> Never, revision |-> revision]

NewChallenge(a, at, revision) ==
    [address |-> a, issuedAt |-> at, expiresAt |-> at + Lifetime,
     consumedAt |-> Never, supersededAt |-> Never, revision |-> revision]

NewDelivery(at) ==
    [queued |-> TRUE, attempts |-> 0, availableAt |-> at,
     claim |-> None, claimExpiresAt |-> Never]

\* Slip: the unique index is trusted to supersede the previous challenge.
ReissuedAlongside(a, superseded, fresh, at, revision) ==
    [challenge EXCEPT ![fresh] = NewChallenge(a, at, revision)]

\* Slip: the superseded challenges keep their queued messages.
QueuedAlongside(superseded, fresh, at) ==
    [outbox EXCEPT ![fresh] = NewDelivery(at)]

\* The challenges after `superseded' are superseded and one is issued to `a', and
\* the outbox after their deliveries are deleted and the new one is queued.
Reissued(a, superseded, fresh, at, revision) ==
    [c \in ChallengeId |->
        IF c = fresh THEN NewChallenge(a, at, revision)
        ELSE IF c \in superseded THEN [challenge[c] EXCEPT !.supersededAt = at]
        ELSE challenge[c]]

Requeued(superseded, fresh, at) ==
    [c \in ChallengeId |->
        IF c = fresh THEN NewDelivery(at)
        ELSE IF c \in superseded THEN Dequeue(outbox[c])
        ELSE outbox[c]]
=============================================================================
