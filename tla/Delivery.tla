------------------------------- MODULE Delivery -------------------------------
(***************************************************************************)
(* The dispatchers that drain the outbox (auth/delivery.go), one per       *)
(* running process.  A tick captures its instant, removes in two committed *)
(* statements what no attempt can complete, claims a bounded batch under a *)
(* lease that starts at the captured instant, then hands the claimed       *)
(* messages to the transport one after the other and records each outcome  *)
(* in a statement that requires the claim.  Registration requests commit   *)
(* between any two of these steps, processes die between any two of them,  *)
(* and another dispatcher may take over what a lapsed lease no longer      *)
(* protects.                                                               *)
(*                                                                         *)
(* The transport is external: it may accept a message and still report an  *)
(* error (the SMTP session is closed after the message was accepted), and  *)
(* SendTimeout bounds a call to it.                                        *)
(***************************************************************************)
EXTENDS VerificationTables

CONSTANTS
    Dispatcher,   \* processes that run a dispatcher
    Batch,        \* rows one tick may sweep, and rows one tick may claim
    MaxAttempts,  \* claims a row may receive
    Lease,        \* how long a claim protects a row, from the tick's instant
    SendTimeout,  \* bound of one call to the transport
    Backoff       \* delay after the first failed attempt

\* DeliveryPolicy.Validate.
ASSUME PolicyAssumption ==
    /\ Batch \in Nat /\ Batch >= 1
    /\ MaxAttempts \in Nat /\ MaxAttempts >= 1
    /\ SendTimeout \in Nat /\ SendTimeout > 0
    /\ Backoff \in Nat /\ Backoff > 0
    /\ Lease \in Nat /\ Lease > SendTimeout

\* Identifiers are drawn from the finitely many a uuid can be.
ASSUME IdentifiersAssumption == IsFiniteSet(ChallengeId)

VARIABLE disp     \* Dispatcher -> where its tick stands

\* `batch' maps the rows claimed and not yet settled to the attempt this claim is,
\* 0 for the others; `room' is what the first sweep left of the shared batch.
DispatcherState ==
    [pc : {"idle", "sweep", "sweepSpent", "claim", "send", "sending", "returned", "record"},
     at : Time, room : Nat, claim : ClaimId \cup {None},
     batch : [ChallengeId -> 0..MaxAttempts], current : ChallengeId \cup {None},
     deadline : Instant, accepted : BOOLEAN, ok : BOOLEAN, next : Instant]

IdleDispatcher ==
    [pc |-> "idle", at |-> 0, room |-> 0, claim |-> None,
     batch |-> [c \in ChallengeId |-> 0], current |-> None,
     deadline |-> Never, accepted |-> FALSE, ok |-> FALSE, next |-> Never]

DispatcherTypeOK == disp \in [Dispatcher -> DispatcherState]

DispatcherInit == disp = [d \in Dispatcher |-> IdleDispatcher]

EndTick(d) == disp' = [disp EXCEPT ![d] = IdleDispatcher]

-----------------------------------------------------------------------------
(* Choosing rows.                                                            *)

\* What "ORDER BY key LIMIT n" may select from S.
FirstBy(key, S, n) ==
    {T \in SUBSET S :
        /\ Cardinality(T) <= n
        /\ T = S \/ Cardinality(T) = n
        /\ \A c \in T, d \in S \ T : key[c] <= key[d]}

ExpiresAt == [c \in ChallengeId |-> challenge[c].expiresAt]
AvailableAt == [c \in ChallengeId |-> outbox[c].availableAt]
Attempts == [c \in ChallengeId |-> outbox[c].attempts]

Expired(at) ==
    {c \in ChallengeId : /\ outbox[c].queued
                         /\ challenge[c].expiresAt <= at
                         /\ Unleased(c, at)}

Exhausted(at) ==
    {c \in ChallengeId : /\ outbox[c].queued
                         /\ outbox[c].attempts >= MaxAttempts
                         /\ Unleased(c, at)}

Claimable(at) ==
    {c \in ChallengeId : /\ outbox[c].queued
                         /\ outbox[c].attempts < MaxAttempts
                         /\ outbox[c].availableAt <= at
                         /\ Unleased(c, at)
                         /\ Current(c)
                         /\ challenge[c].expiresAt > at}

\* SKIP LOCKED passes over the rows other transactions hold at that moment: those of
\* another dispatcher, or of a request that has not committed yet.
Held == SUBSET ChallengeId

\* A claim identifier is drawn afresh: no row and no process carries it.
FreshClaim ==
    Draw({k \in ClaimId : /\ \A c \in ChallengeId : outbox[c].claim # k
                          /\ \A d \in Dispatcher : disp[d].claim # k})

\* The delay after the given attempt: doubled from Backoff, capped at eight times.
BackoffAfter(attempt) ==
    Backoff * (IF attempt <= 1 THEN 1 ELSE IF attempt = 2 THEN 2
               ELSE IF attempt = 3 THEN 4 ELSE 8)

-----------------------------------------------------------------------------
(* One tick.                                                                 *)

StartTick(d) ==
    /\ disp[d].pc = "idle"
    /\ disp' = [disp EXCEPT ![d] = [IdleDispatcher EXCEPT !.pc = "sweep", !.at = now]]
    /\ UNCHANGED <<now, tables>>

\* SweepDeliveries' first statement: expired rows, oldest expiry first.
SweepExpired(d) ==
    /\ disp[d].pc = "sweep"
    /\ \E held \in Held :
       \E swept \in FirstBy(ExpiresAt, Expired(disp[d].at) \ held, Batch) :
         /\ outbox' = [c \in ChallengeId |->
                         IF c \in swept THEN Dequeue(outbox[c]) ELSE outbox[c]]
         /\ disp' = [disp EXCEPT ![d].room = Batch - Cardinality(swept),
                       ![d].pc = IF Cardinality(swept) < Batch
                                 THEN "sweepSpent" ELSE "claim"]
    /\ UNCHANGED <<now, challenge, sent>>

\* Its second one: rows no attempt is left for, within what the first left over.
SweepExhausted(d) ==
    /\ disp[d].pc = "sweepSpent"
    /\ \E held \in Held :
       \E swept \in FirstBy(Attempts, Exhausted(disp[d].at) \ held, disp[d].room) :
         outbox' = [c \in ChallengeId |->
                      IF c \in swept THEN Dequeue(outbox[c]) ELSE outbox[c]]
    /\ disp' = [disp EXCEPT ![d].pc = "claim"]
    /\ UNCHANGED <<now, challenge, sent>>

\* ClaimDeliveries commits the lease and the attempt before anything is sent.
ClaimDeliveries(d) ==
    LET at == disp[d].at
    IN  /\ disp[d].pc = "claim"
        /\ \E claim \in FreshClaim, held \in Held :
           \E claimed \in FirstBy(AvailableAt, Claimable(at) \ held, Batch) :
             /\ outbox' = [c \in ChallengeId |->
                  IF c \in claimed
                  THEN [outbox[c] EXCEPT !.attempts = @ + 1, !.claim = claim,
                                         !.claimExpiresAt = at + Lease]
                  ELSE outbox[c]]
             /\ IF claimed = {}
                THEN EndTick(d)
                ELSE disp' = [disp EXCEPT ![d].pc = "send", ![d].claim = claim,
                       ![d].batch = [c \in ChallengeId |->
                           IF c \in claimed THEN outbox[c].attempts + 1 ELSE 0]]
        /\ UNCHANGED <<now, challenge, sent>>

\* The rows of the batch are taken in the order the statement returned them,
\* which no clause of it fixes.
BeginSend(d) ==
    /\ disp[d].pc = "send"
    /\ \E c \in ChallengeId :
         /\ disp[d].batch[c] > 0
         /\ disp' = [disp EXCEPT ![d].pc = "sending", ![d].current = c,
                       ![d].deadline = now + SendTimeout]
    /\ UNCHANGED <<now, tables>>

\* The transport takes the message; from here it cannot be recalled.
Accept(d) ==
    /\ disp[d].pc = "sending"
    /\ ~disp[d].accepted
    /\ sent' = [sent EXCEPT ![disp[d].current] = @ + 1]
    /\ disp' = [disp EXCEPT ![d].accepted = TRUE]
    /\ UNCHANGED <<now, challenge, outbox>>

\* The call returns.  An error proves nothing about whether it was accepted.
EndSend(d) ==
    /\ disp[d].pc = "sending"
    /\ \E ok \in {disp[d].accepted, FALSE} :
         disp' = [disp EXCEPT ![d].pc = "returned", ![d].ok = ok,
                    ![d].deadline = Never, ![d].accepted = FALSE]
    /\ UNCHANGED <<now, tables>>

\* Nothing is left to attempt: the message left, or this was its last attempt.
Spent(d) == disp[d].ok \/ disp[d].batch[disp[d].current] >= MaxAttempts

NextAttemptAt(d) == now + BackoffAfter(disp[d].batch[disp[d].current])

\* The clock is read for another attempt, if there is to be one; the statement that
\* moves the row comes later.
Decide(d) ==
    /\ disp[d].pc = "returned"
    /\ disp' = [disp EXCEPT ![d].pc = "record",
                  ![d].next = IF Spent(d) THEN Never ELSE NextAttemptAt(d)]
    /\ UNCHANGED <<now, tables>>

\* The rest of the batch, once the current row's outcome is recorded.
Advance(d) ==
    LET rest == [disp[d].batch EXCEPT ![disp[d].current] = 0]
    IN  IF \A c \in ChallengeId : rest[c] = 0
        THEN EndTick(d)
        ELSE disp' = [disp EXCEPT ![d].pc = "send", ![d].batch = rest,
                        ![d].current = None, ![d].ok = FALSE, ![d].next = Never]

\* Slip: the last attempt is given up before it was made.
SettlesOneEarly(d) ==
    \/ Spent(d)
    \/ disp[d].batch[disp[d].current] >= MaxAttempts - 1
    \/ disp[d].next >= challenge[disp[d].current].expiresAt

\* Nothing further is attempted: nothing is left to, or the next attempt would fall on
\* or past the challenge's expiry.
Settles(d) ==
    \/ Spent(d)
    \/ disp[d].next >= challenge[disp[d].current].expiresAt

\* Slip: the outcome is recorded by the row's identifier alone.
StillQueued(d, c) == outbox[c].queued

\* The row answers to the claim that is about to record an outcome.
Holds(d, c) == outbox[c].queued /\ outbox[c].claim = disp[d].claim

SettleDelivery(d) ==
    LET c == disp[d].current
    IN  /\ disp[d].pc = "record"
        /\ Settles(d)
        /\ Holds(d, c)
        /\ outbox' = [outbox EXCEPT ![c] = Dequeue(@)]
        /\ Advance(d)
        /\ UNCHANGED <<now, challenge, sent>>

\* Slip: the released row starts over.
ReleasedAfresh(row, at) ==
    [row EXCEPT !.attempts = 0, !.availableAt = at,
                !.claim = None, !.claimExpiresAt = Never]

Released(row, at) ==
    [row EXCEPT !.availableAt = at, !.claim = None, !.claimExpiresAt = Never]

RescheduleDelivery(d) ==
    LET c == disp[d].current
    IN  /\ disp[d].pc = "record"
        /\ ~Settles(d)
        /\ Holds(d, c)
        /\ outbox' = [outbox EXCEPT ![c] = Released(@, disp[d].next)]
        /\ Advance(d)
        /\ UNCHANGED <<now, challenge, sent>>

\* Slip: a row that is gone is queued again.
RecreateDelivery(d) ==
    /\ disp[d].pc = "record"
    /\ ~Holds(d, disp[d].current)
    /\ outbox' = [outbox EXCEPT ![disp[d].current] = NewDelivery(now)]
    /\ Advance(d)
    /\ UNCHANGED <<now, challenge, sent>>

\* The lease was taken over, or the row is gone: nothing is recreated.
LoseDelivery(d) ==
    /\ disp[d].pc = "record"
    /\ ~Holds(d, disp[d].current)
    /\ Advance(d)
    /\ UNCHANGED <<now, tables>>

\* The process dies, or a statement of the store fails and the tick returns: the
\* claimed rows keep their lease and the attempt it cost.
AbortTick(d) ==
    /\ disp[d].pc # "idle"
    /\ EndTick(d)
    /\ UNCHANGED <<now, tables>>

-----------------------------------------------------------------------------
\* A tick that is under way, its failures aside.
Dispatch(d) ==
    \/ SweepExpired(d)
    \/ SweepExhausted(d)
    \/ ClaimDeliveries(d)
    \/ BeginSend(d)
    \/ EndSend(d)
    \/ Decide(d)
    \/ SettleDelivery(d)
    \/ RescheduleDelivery(d)
    \/ LoseDelivery(d)

DeliveryNext ==
    \E d \in Dispatcher :
      StartTick(d) \/ Dispatch(d) \/ Accept(d) \/ AbortTick(d)

\* Time passes, up to the bound of the model, but never past the deadline of a
\* call in flight: its context is cancelled there.
Elapse ==
    /\ now < MaxTime
    /\ \A d \in Dispatcher : disp[d].pc = "sending" => now < disp[d].deadline
    /\ now' = now + 1
    /\ UNCHANGED <<tables, disp>>

-----------------------------------------------------------------------------
(* What happens around the dispatchers, as far as they can tell: the         *)
(* transactions of Registration, committed at an instant that may be older   *)
(* than the clock.                                                           *)

\* A registration supersedes what was current for the address and queues anew.
Post(a, at) ==
    /\ \A c \in CurrentOf(a) : challenge[c].issuedAt < at
    /\ \E fresh \in FreshChallenge :
         /\ challenge' = Reissued(a, CurrentOf(a), fresh, at, 0)
         /\ outbox' = Requeued(CurrentOf(a), fresh, at)
    /\ UNCHANGED <<now, sent, disp>>

\* A verification consumes the challenge of a message that was carried.
Spend(c, at) ==
    /\ Current(c)
    /\ sent[c] > 0
    /\ challenge[c].issuedAt <= at /\ at < challenge[c].expiresAt
    /\ challenge' = [challenge EXCEPT ![c].consumedAt = at]
    /\ outbox' = [outbox EXCEPT ![c] = Dequeue(@)]
    /\ UNCHANGED <<now, sent, disp>>

Requests ==
    \E at \in 0..now :
      \/ \E a \in Address : Post(a, at)
      \/ \E c \in ChallengeId : Spend(c, at)

deliveryVars == <<now, challenge, outbox, sent, disp>>

DeliveryInit == TablesInit /\ DispatcherInit

DeliverySpec ==
    DeliveryInit /\ [][DeliveryNext \/ Elapse \/ Requests]_deliveryVars

\* A dispatcher nothing delays: time passes between its ticks and during its calls
\* to the transport only.
Undelayed == \A d \in Dispatcher : disp[d].pc \in {"idle", "sending"}

PromptNext == DeliveryNext \/ Requests \/ (Undelayed /\ Elapse)

PromptSpec == DeliveryInit /\ [][PromptNext]_deliveryVars

\* Some dispatcher changes the row.
Takes(c) == \E d \in Dispatcher : Dispatch(d) /\ outbox'[c] # outbox[c]

\* The ticker fires and a tick under way proceeds; the clock does not stop.  A lock is
\* held for one transaction, so a row is not passed over every time it could be taken.
FairSpec ==
    /\ DeliverySpec
    /\ \A d \in Dispatcher : WF_deliveryVars(StartTick(d)) /\ WF_deliveryVars(Dispatch(d))
    /\ \A c \in ChallengeId : SF_deliveryVars(Takes(c))
    /\ WF_deliveryVars(Elapse)

DeliveryTypeOK == TablesTypeOK /\ DispatcherTypeOK

-----------------------------------------------------------------------------
(* What delivery promises.                                                   *)

\* No row is attempted more often than the policy allows, and the recipient never
\* gets more copies than attempts: claims are counted before the messages leave,
\* so neither a crash nor a lost lease buys an uncounted copy.
CopiesWithinAttempts ==
    \A c \in ChallengeId :
      /\ sent[c] <= outbox[c].attempts
      /\ outbox[c].attempts <= MaxAttempts

\* Work that is due is due before its challenge expires, whatever the backoff.
NeverScheduledPastExpiry ==
    \A c \in ChallengeId :
      outbox[c].queued => outbox[c].availableAt < challenge[c].expiresAt

\* While a lease is alive, only the process that holds it, or a registration
\* transaction that ends the challenge, removes or changes the row: a dispatcher
\* whose own lease lapsed cannot undo a newer claim, and no sweep takes live work.
LiveLeaseIsProtected ==
    [][\A c \in ChallengeId :
         /\ outbox[c].queued
         /\ outbox[c].claim # None
         /\ now < outbox[c].claimExpiresAt
         /\ outbox'[c] # outbox[c]
         => \/ challenge'[c] # challenge[c]
            \/ \E d \in Dispatcher :
                 /\ disp[d].claim = outbox[c].claim
                 /\ disp[d].pc = "record"
                 /\ disp[d].current = c]_<<outbox, challenge, disp>>

\* At least once: a row whose message never left is removed only when the
\* challenge ended, when its attempts are spent, when it expired, or when the next
\* attempt would come too late.  No failure of a process or of the transport loses
\* a message that could still have been carried.
NothingIsDroppedUnsent ==
    [][\A c \in ChallengeId :
         /\ outbox[c].queued /\ ~outbox'[c].queued
         /\ sent[c] = 0
         => \/ challenge'[c] # challenge[c]
            \/ outbox[c].attempts >= MaxAttempts
            \/ challenge[c].expiresAt <= now
            \/ /\ outbox[c].attempts > 0
               /\ now + BackoffAfter(outbox[c].attempts) >= challenge[c].expiresAt
        ]_<<now, outbox, challenge>>

\* A row that is being sent is not under somebody else's claim: the lease outlives
\* the call it protects.
NoReclaimInFlight ==
    \A d \in Dispatcher :
      disp[d].pc = "sending" /\ outbox[disp[d].current].queued
        => outbox[disp[d].current].claim = disp[d].claim

\* Every row leaves the outbox once processes and their store stop failing (a tick
\* then ends where Dispatch ends it): it is sent, given up, swept, or its challenge
\* ends.  A lease its owner died with and an attempt that came to nothing delay it,
\* never keep it.
EveryRowLeaves ==
    <>[][\A d \in Dispatcher : AbortTick(d) => Dispatch(d)]_deliveryVars =>
      \A c \in ChallengeId :
        /\ outbox[c].queued
        /\ challenge[c].expiresAt + Lease <= MaxTime   \* within the bound on the clock
        ~> ~outbox[c].queued
=============================================================================
