---------------------------- MODULE Delivery_proofs ----------------------------
(***************************************************************************)
(* What delivery promises, proved for any number of dispatchers, messages  *)
(* and claims, any batch and attempt limit, and any lease, timeout and     *)
(* backoff the policy admits.                                              *)
(***************************************************************************)
EXTENDS Delivery, TLAPS, FiniteSetTheorems

\* The next-state relation of DeliverySpec.
DeliveryStep == DeliveryNext \/ Elapse \/ Requests

-----------------------------------------------------------------------------
(* The rows the statements choose and write.                                 *)

\* A drawn identifier is one no challenge carries.
LEMMA FreshIsNew ==
  \A fresh \in FreshChallenge : fresh \in ChallengeId /\ ~Issued(fresh)
BY DEF FreshChallenge, Draw

\* A drawn claim is carried by no row and no process.
LEMMA FreshIsUnclaimed ==
  \A claim \in FreshClaim :
    /\ claim \in ClaimId
    /\ \A c \in ChallengeId : outbox[c].claim # claim
    /\ \A d \in Dispatcher : disp[d].claim # claim
BY DEF FreshClaim, Draw

\* A LIMIT selects among the rows of the WHERE clause, and no more than it says.
LEMMA SelectionIsPart ==
  ASSUME NEW key, NEW S \in SUBSET ChallengeId, NEW n, NEW T \in FirstBy(key, S, n)
  PROVE  T \subseteq S /\ Cardinality(T) <= n /\ IsFiniteSet(T) /\ Cardinality(T) \in Nat
<1>1. T \subseteq S /\ Cardinality(T) <= n
  BY DEF FirstBy
<1>2. IsFiniteSet(T)
  BY <1>1, IdentifiersAssumption, FS_Subset
<1>3. QED
  BY <1>1, <1>2, FS_CardinalityType

LEMMA DequeuedTyped == \A row \in DeliveryRow : Dequeue(row) \in DeliveryRow
<1> SUFFICES ASSUME NEW row \in DeliveryRow PROVE Dequeue(row) \in DeliveryRow
  OBVIOUS
<1>1. Never \in Instant
  BY DEF Instant
<1>2. QED
  BY <1>1 DEF Dequeue, DeliveryRow

\* A sweep's outbox: the chosen rows leave, the others stay as they are.
Swept(rows) ==
  outbox' = [c \in ChallengeId |-> IF c \in rows THEN Dequeue(outbox[c]) ELSE outbox[c]]

LEMMA BackoffTyped == \A attempt : BackoffAfter(attempt) \in Nat
BY PolicyAssumption DEF BackoffAfter

-----------------------------------------------------------------------------
(* Type correctness.                                                         *)

LEMMA IdleTyped == IdleDispatcher \in DispatcherState
BY PolicyAssumption DEF IdleDispatcher, DispatcherState, Time, Instant

LEMMA DeliveryTypeInit == DeliveryInit => DeliveryTypeOK
<1> SUFFICES ASSUME DeliveryInit PROVE DeliveryTypeOK
  OBVIOUS
<1>1. Unissued \in ChallengeRow
  BY DEF Unissued, ChallengeRow, Instant
<1>2. NoDelivery \in DeliveryRow
  BY DEF NoDelivery, DeliveryRow, Instant
<1>3. TablesTypeOK
  BY <1>1, <1>2 DEF DeliveryInit, TablesInit, TablesTypeOK, Time
<1>4. DispatcherTypeOK
  BY IdleTyped DEF DeliveryInit, DispatcherInit, DispatcherTypeOK
<1>5. QED
  BY <1>3, <1>4 DEF DeliveryTypeOK

\* A step of one dispatcher leaves the others where they stand.
LEMMA OneTyped ==
  ASSUME DispatcherTypeOK, NEW d \in Dispatcher, NEW s \in DispatcherState,
         disp' = [disp EXCEPT ![d] = s]
  PROVE  DispatcherTypeOK'
BY DEF DispatcherTypeOK

LEMMA EndTickTyped ==
  ASSUME DispatcherTypeOK, NEW d \in Dispatcher, EndTick(d)
  PROVE  DispatcherTypeOK'
BY IdleTyped, OneTyped DEF EndTick

LEMMA AdvanceTyped ==
  ASSUME DispatcherTypeOK, NEW d \in Dispatcher, Advance(d)
  PROVE  DispatcherTypeOK'
<1> DEFINE rest == [disp[d].batch EXCEPT ![disp[d].current] = 0]
           s == [disp[d] EXCEPT !.pc = "send", !.batch = rest, !.current = None, !.ok = FALSE, !.next = Never]
<1>1. CASE EndTick(d)
  BY <1>1, EndTickTyped
<1>2. CASE disp' = [disp EXCEPT ![d].pc = "send", ![d].batch = rest,
                                ![d].current = None, ![d].ok = FALSE, ![d].next = Never]
  <2>1. disp[d] \in DispatcherState
    BY DEF DispatcherTypeOK
  <2>2. disp[d].batch \in [ChallengeId -> 0..MaxAttempts] /\ 0 \in 0..MaxAttempts
    BY <2>1, PolicyAssumption DEF DispatcherState
  <2>3. rest \in [ChallengeId -> 0..MaxAttempts]
    BY <2>2
  <2>4. s \in DispatcherState
    BY <2>1, <2>3 DEF DispatcherState, Instant
  <2>5. disp' = [disp EXCEPT ![d] = s]
    BY <1>2
  <2>6. QED
    BY <2>4, <2>5, OneTyped
<1>3. QED
  BY <1>1, <1>2 DEF Advance

LEMMA SweptTyped ==
  ASSUME TablesTypeOK, NEW rows, Swept(rows)
  PROVE  outbox' \in [ChallengeId -> DeliveryRow]
BY DequeuedTyped DEF Swept, TablesTypeOK

\* The outbox and the dispatcher after a claim of some rows.
Leased(d, claim, rows) ==
  outbox' = [c \in ChallengeId |->
               IF c \in rows
               THEN [outbox[c] EXCEPT !.attempts = @ + 1, !.claim = claim,
                                      !.claimExpiresAt = disp[d].at + Lease]
               ELSE outbox[c]]
Carries(d, claim, rows) ==
  disp' = [disp EXCEPT ![d].pc = "send", ![d].claim = claim,
             ![d].batch = [c \in ChallengeId |->
                 IF c \in rows THEN outbox[c].attempts + 1 ELSE 0]]

\* What a claim is, without the order that chose the rows.
LEMMA ClaimEffect ==
  ASSUME NEW d \in Dispatcher, ClaimDeliveries(d)
  PROVE  \E claim \in FreshClaim, rows \in SUBSET Claimable(disp[d].at) :
           /\ Cardinality(rows) <= Batch
           /\ Leased(d, claim, rows)
           /\ IF rows = {} THEN EndTick(d) ELSE Carries(d, claim, rows)
<1>1. PICK claim \in FreshClaim, held \in Held :
        \E rows \in FirstBy(AvailableAt, Claimable(disp[d].at) \ held, Batch) :
          /\ Leased(d, claim, rows)
          /\ IF rows = {} THEN EndTick(d) ELSE Carries(d, claim, rows)
  BY DEF ClaimDeliveries, Leased, Carries
<1>2. PICK rows \in FirstBy(AvailableAt, Claimable(disp[d].at) \ held, Batch) :
        /\ Leased(d, claim, rows)
        /\ IF rows = {} THEN EndTick(d) ELSE Carries(d, claim, rows)
  BY <1>1
<1>3. Claimable(disp[d].at) \ held \in SUBSET ChallengeId
  BY DEF Claimable
<1>4. rows \subseteq Claimable(disp[d].at) \ held /\ Cardinality(rows) <= Batch
  BY <1>3, SelectionIsPart
<1>5. QED
  BY <1>2, <1>4

\* What the sweeps are, in the same terms.
LEMMA SweepExpiredEffect ==
  ASSUME NEW d \in Dispatcher, SweepExpired(d)
  PROVE  \E rows \in SUBSET Expired(disp[d].at) :
           /\ Cardinality(rows) \in Nat /\ Cardinality(rows) <= Batch
           /\ Swept(rows)
           /\ disp' = [disp EXCEPT ![d].room = Batch - Cardinality(rows),
                         ![d].pc = IF Cardinality(rows) < Batch
                                   THEN "sweepSpent" ELSE "claim"]
<1> DEFINE Effect(rows) ==
             /\ Swept(rows)
             /\ disp' = [disp EXCEPT ![d].room = Batch - Cardinality(rows),
                           ![d].pc = IF Cardinality(rows) < Batch
                                     THEN "sweepSpent" ELSE "claim"]
<1>1. PICK held \in Held :
        \E rows \in FirstBy(ExpiresAt, Expired(disp[d].at) \ held, Batch) : Effect(rows)
  BY DEF SweepExpired, Swept
<1>2. PICK rows \in FirstBy(ExpiresAt, Expired(disp[d].at) \ held, Batch) : Effect(rows)
  BY <1>1
<1>3. Expired(disp[d].at) \ held \in SUBSET ChallengeId
  BY DEF Expired
<1>4. /\ rows \subseteq Expired(disp[d].at) \ held
      /\ Cardinality(rows) <= Batch
      /\ Cardinality(rows) \in Nat
  <2> HIDE DEF Effect
  <2>1. ASSUME NEW candidates \in SUBSET ChallengeId,
               rows \in FirstBy(ExpiresAt, candidates, Batch)
        PROVE  /\ rows \subseteq candidates
               /\ Cardinality(rows) <= Batch
               /\ Cardinality(rows) \in Nat
    BY <2>1, SelectionIsPart
  <2>2. QED
    BY <1>2, <1>3, <2>1
<1>5. QED
  BY <1>2, <1>4

LEMMA SweepExhaustedEffect ==
  ASSUME NEW d \in Dispatcher, SweepExhausted(d)
  PROVE  \E rows \in SUBSET Exhausted(disp[d].at) : Swept(rows)
<1>1. PICK held \in Held :
        \E rows \in FirstBy(Attempts, Exhausted(disp[d].at) \ held, disp[d].room) : Swept(rows)
  BY DEF SweepExhausted, Swept
<1>2. PICK rows \in FirstBy(Attempts, Exhausted(disp[d].at) \ held, disp[d].room) : Swept(rows)
  BY <1>1
<1>3. Exhausted(disp[d].at) \ held \in SUBSET ChallengeId
  BY DEF Exhausted
<1>4. rows \subseteq Exhausted(disp[d].at) \ held
  BY <1>3, SelectionIsPart
<1>5. QED
  BY <1>2, <1>4

LEMMA LeasedTyped ==
  ASSUME TablesTypeOK, DispatcherTypeOK, NEW d \in Dispatcher, NEW claim \in ClaimId, NEW rows,
         Leased(d, claim, rows)
  PROVE  outbox' \in [ChallengeId -> DeliveryRow]
<1>1. disp[d].at + Lease \in Instant
  BY PolicyAssumption DEF DispatcherTypeOK, DispatcherState, Time, Instant
<1>2. ASSUME NEW c \in ChallengeId
      PROVE  [outbox[c] EXCEPT !.attempts = @ + 1, !.claim = claim,
                               !.claimExpiresAt = disp[d].at + Lease] \in DeliveryRow
  <2>1. outbox[c] \in DeliveryRow /\ outbox[c].attempts + 1 \in Nat
    BY DEF TablesTypeOK, DeliveryRow
  <2>2. QED
    BY <1>1, <2>1 DEF DeliveryRow
<1>3. QED
  BY <1>2 DEF Leased, TablesTypeOK

LEMMA CarriesTyped ==
  ASSUME TablesTypeOK, DispatcherTypeOK, NEW d \in Dispatcher, NEW claim \in ClaimId,
         NEW rows \in SUBSET Claimable(disp[d].at), Carries(d, claim, rows)
  PROVE  DispatcherTypeOK'
<1> DEFINE batch == [c \in ChallengeId |-> IF c \in rows THEN outbox[c].attempts + 1 ELSE 0]
           s == [disp[d] EXCEPT !.pc = "send", !.claim = claim, !.batch = batch]
<1>1. disp[d] \in DispatcherState
  BY DEF DispatcherTypeOK
<1>2. ASSUME NEW c \in rows PROVE outbox[c].attempts + 1 \in 0..MaxAttempts
  BY PolicyAssumption DEF Claimable, TablesTypeOK, DeliveryRow
<1>3. 0 \in 0..MaxAttempts
  BY PolicyAssumption
<1>4. batch \in [ChallengeId -> 0..MaxAttempts]
  BY <1>2, <1>3
<1>5. s \in DispatcherState
  BY <1>1, <1>4 DEF DispatcherState
<1>6. disp' = [disp EXCEPT ![d] = s]
  BY DEF Carries
<1>7. QED
  BY <1>5, <1>6, OneTyped

LEMMA DeliveryTypeStep == DeliveryTypeOK /\ [DeliveryStep]_deliveryVars => DeliveryTypeOK'
<1> SUFFICES ASSUME DeliveryTypeOK, [DeliveryStep]_deliveryVars PROVE DeliveryTypeOK'
  OBVIOUS
<1> USE DEF DeliveryTypeOK
<1>1. ASSUME NEW d \in Dispatcher, StartTick(d) PROVE DeliveryTypeOK'
  <2>1. [IdleDispatcher EXCEPT !.pc = "sweep", !.at = now] \in DispatcherState
    BY IdleTyped DEF DispatcherState, TablesTypeOK
  <2>2. QED
    BY <1>1, <2>1, OneTyped DEF StartTick, tables, TablesTypeOK
<1>2. ASSUME NEW d \in Dispatcher, SweepExpired(d) PROVE DeliveryTypeOK'
  <2>1. PICK rows \in SUBSET Expired(disp[d].at) :
           /\ Cardinality(rows) \in Nat /\ Cardinality(rows) <= Batch
           /\ Swept(rows)
           /\ disp' = [disp EXCEPT ![d].room = Batch - Cardinality(rows),
                         ![d].pc = IF Cardinality(rows) < Batch
                                   THEN "sweepSpent" ELSE "claim"]
    BY <1>2, SweepExpiredEffect
  <2> DEFINE s == [disp[d] EXCEPT !.room = Batch - Cardinality(rows),
                     !.pc = IF Cardinality(rows) < Batch THEN "sweepSpent" ELSE "claim"]
  <2>2. disp[d] \in DispatcherState /\ Batch - Cardinality(rows) \in Nat
    BY <2>1, PolicyAssumption DEF DispatcherTypeOK
  <2>3. s \in DispatcherState
    BY <2>2 DEF DispatcherState
  <2>4. disp' = [disp EXCEPT ![d] = s]
    BY <2>1
  <2>5. DispatcherTypeOK'
    BY <2>3, <2>4, OneTyped
  <2>6. TablesTypeOK'
    BY <1>2, <2>1, SweptTyped DEF SweepExpired, TablesTypeOK
  <2>7. QED
    BY <2>5, <2>6
<1>3. ASSUME NEW d \in Dispatcher, SweepExhausted(d) PROVE DeliveryTypeOK'
  <2>1. PICK rows : Swept(rows)
    BY <1>3, SweepExhaustedEffect
  <2>2. TablesTypeOK'
    BY <1>3, <2>1, SweptTyped DEF SweepExhausted, TablesTypeOK
  <2>3. [disp[d] EXCEPT !.pc = "claim"] \in DispatcherState
    BY DEF DispatcherTypeOK, DispatcherState
  <2>4. disp' = [disp EXCEPT ![d] = [disp[d] EXCEPT !.pc = "claim"]]
    BY <1>3 DEF SweepExhausted
  <2>5. QED
    BY <2>2, <2>3, <2>4, OneTyped
<1>4. ASSUME NEW d \in Dispatcher, ClaimDeliveries(d) PROVE DeliveryTypeOK'
  <2>1. PICK claim \in FreshClaim, rows \in SUBSET Claimable(disp[d].at) :
           /\ Leased(d, claim, rows)
           /\ IF rows = {} THEN EndTick(d) ELSE Carries(d, claim, rows)
    BY <1>4, ClaimEffect
  <2>2. claim \in ClaimId
    BY FreshIsUnclaimed
  <2>3. TablesTypeOK'
    BY <1>4, <2>1, <2>2, LeasedTyped DEF ClaimDeliveries, TablesTypeOK
  <2>4. DispatcherTypeOK'
    BY <2>1, <2>2, CarriesTyped, EndTickTyped
  <2>5. QED
    BY <2>3, <2>4
<1>5. ASSUME NEW d \in Dispatcher, BeginSend(d) PROVE DeliveryTypeOK'
  <2>1. PICK c \in ChallengeId :
          disp' = [disp EXCEPT ![d].pc = "sending", ![d].current = c, ![d].deadline = now + SendTimeout]
    BY <1>5 DEF BeginSend
  <2>2. now + SendTimeout \in Instant
    BY PolicyAssumption DEF TablesTypeOK, Time, Instant
  <2>3. [disp[d] EXCEPT !.pc = "sending", !.current = c, !.deadline = now + SendTimeout]
          \in DispatcherState
    BY <2>2 DEF DispatcherTypeOK, DispatcherState
  <2>4. disp' = [disp EXCEPT ![d] = [disp[d] EXCEPT !.pc = "sending", !.current = c,
                                                    !.deadline = now + SendTimeout]]
    BY <2>1
  <2>5. QED
    BY <1>5, <2>3, <2>4, OneTyped DEF BeginSend, tables, TablesTypeOK
<1>6. ASSUME NEW d \in Dispatcher, Accept(d) PROVE DeliveryTypeOK'
  <2>1. [disp[d] EXCEPT !.accepted = TRUE] \in DispatcherState
    BY DEF DispatcherTypeOK, DispatcherState
  <2>2. disp' = [disp EXCEPT ![d] = [disp[d] EXCEPT !.accepted = TRUE]]
    BY <1>6 DEF Accept
  <2>3. ASSUME NEW c \in ChallengeId PROVE sent[c] + 1 \in Nat
    BY DEF TablesTypeOK
  <2>4. TablesTypeOK'
    BY <1>6, <2>3 DEF Accept, TablesTypeOK
  <2>5. QED
    BY <2>1, <2>2, <2>4, OneTyped
<1>7. ASSUME NEW d \in Dispatcher, EndSend(d) PROVE DeliveryTypeOK'
  <2>1. PICK ok \in {disp[d].accepted, FALSE} :
          disp' = [disp EXCEPT ![d].pc = "returned", ![d].ok = ok,
                     ![d].deadline = Never, ![d].accepted = FALSE]
    BY <1>7 DEF EndSend
  <2> DEFINE s == [disp[d] EXCEPT !.pc = "returned", !.ok = ok, !.deadline = Never, !.accepted = FALSE]
  <2>2. ok \in BOOLEAN /\ disp[d] \in DispatcherState
    BY DEF DispatcherTypeOK, DispatcherState
  <2>3. s \in DispatcherState
    BY <2>2 DEF DispatcherState, Instant
  <2>4. disp' = [disp EXCEPT ![d] = s]
    BY <2>1
  <2>5. QED
    BY <1>7, <2>3, <2>4, OneTyped DEF EndSend, tables, TablesTypeOK
<1>8. ASSUME NEW d \in Dispatcher, SettleDelivery(d) PROVE DeliveryTypeOK'
  BY <1>8, AdvanceTyped, DequeuedTyped DEF SettleDelivery, TablesTypeOK
<1>9. ASSUME NEW d \in Dispatcher, RescheduleDelivery(d) PROVE DeliveryTypeOK'
  <2>1. disp[d].next \in Instant
    BY DEF DispatcherTypeOK, DispatcherState
  <2>2. ASSUME NEW row \in DeliveryRow PROVE Released(row, disp[d].next) \in DeliveryRow
    BY <2>1 DEF Released, DeliveryRow, Instant
  <2>3. TablesTypeOK'
    BY <1>9, <2>2 DEF RescheduleDelivery, TablesTypeOK
  <2>4. QED
    BY <1>9, <2>3, AdvanceTyped DEF RescheduleDelivery
<1>10. ASSUME NEW d \in Dispatcher, LoseDelivery(d) PROVE DeliveryTypeOK'
  BY <1>10, AdvanceTyped DEF LoseDelivery, tables, TablesTypeOK
<1>11. ASSUME NEW d \in Dispatcher, AbortTick(d) PROVE DeliveryTypeOK'
  BY <1>11, EndTickTyped DEF AbortTick, tables, TablesTypeOK
<1>12. ASSUME Elapse PROVE DeliveryTypeOK'
  BY <1>12 DEF Elapse, tables, TablesTypeOK, DispatcherTypeOK, Time
<1>13. ASSUME NEW at \in 0..now, NEW a \in Address, Post(a, at) PROVE DeliveryTypeOK'
  <2>1. PICK fresh \in FreshChallenge :
          /\ challenge' = Reissued(a, CurrentOf(a), fresh, at, 0)
          /\ outbox' = Requeued(CurrentOf(a), fresh, at)
    BY <1>13 DEF Post
  <2>2. at \in Time
    BY DEF TablesTypeOK, Time
  <2>3. NewChallenge(a, at, 0) \in ChallengeRow /\ NewDelivery(at) \in DeliveryRow
    BY <2>2, TablesAssumption DEF NewChallenge, NewDelivery, ChallengeRow, DeliveryRow, Instant, Time
  <2>4. ASSUME NEW c \in ChallengeId
        PROVE  /\ [challenge[c] EXCEPT !.supersededAt = at] \in ChallengeRow
               /\ Dequeue(outbox[c]) \in DeliveryRow
    BY <2>2, DequeuedTyped DEF TablesTypeOK, ChallengeRow, Instant
  <2>5. TablesTypeOK'
    BY <1>13, <2>1, <2>3, <2>4 DEF Post, Reissued, Requeued, TablesTypeOK
  <2>6. QED
    BY <1>13, <2>5 DEF Post, DispatcherTypeOK
<1>14. ASSUME NEW at \in 0..now, NEW c \in ChallengeId, Spend(c, at) PROVE DeliveryTypeOK'
  <2>1. at \in Instant
    BY DEF TablesTypeOK, Time, Instant
  <2>2. [challenge[c] EXCEPT !.consumedAt = at] \in ChallengeRow
    BY <2>1 DEF TablesTypeOK, ChallengeRow
  <2>3. challenge' = [challenge EXCEPT ![c] = [challenge[c] EXCEPT !.consumedAt = at]]
    BY <1>14 DEF Spend
  <2>4. TablesTypeOK'
    BY <1>14, <2>2, <2>3, DequeuedTyped DEF Spend, TablesTypeOK
  <2>5. QED
    BY <1>14, <2>4 DEF Spend, DispatcherTypeOK
<1>15. CASE UNCHANGED deliveryVars
  BY <1>15 DEF deliveryVars, TablesTypeOK, DispatcherTypeOK
<1>16. ASSUME NEW d \in Dispatcher, Decide(d) PROVE DeliveryTypeOK'
  <2> DEFINE due == IF Spent(d) THEN Never ELSE NextAttemptAt(d)
             s == [disp[d] EXCEPT !.pc = "record", !.next = due]
  <2>1. due \in Instant
    BY BackoffTyped DEF NextAttemptAt, TablesTypeOK, Time, Instant
  <2>2. disp[d] \in DispatcherState
    BY DEF DispatcherTypeOK
  <2>3. s \in DispatcherState
    BY <2>1, <2>2 DEF DispatcherState
  <2>4. disp' = [disp EXCEPT ![d] = s]
    BY <1>16 DEF Decide
  <2>5. QED
    BY <1>16, <2>3, <2>4, OneTyped DEF Decide, tables, TablesTypeOK
<1>17. QED
  BY <1>1, <1>2, <1>3, <1>4, <1>5, <1>6, <1>7, <1>8, <1>9, <1>10, <1>11, <1>12, <1>13, <1>14, <1>15, <1>16
  DEF DeliveryStep, DeliveryNext, Dispatch, Requests

\* Every row, every dispatcher and the clock keep their types.
THEOREM DeliveryTypeCorrect == DeliverySpec => []DeliveryTypeOK
BY DeliveryTypeInit, DeliveryTypeStep, PTL DEF DeliverySpec, DeliveryStep

-----------------------------------------------------------------------------
(* The inductive invariant.                                                  *)

\* A tick that has claimed nothing carries nothing; one that is calling the
\* transport, or recording, is about a row it still has to settle.
Stage(s) ==
  /\ s.pc \in {"sending", "returned", "record"} => s.current \in ChallengeId /\ s.batch[s.current] > 0
  /\ s.pc \in {"idle", "sweep", "sweepSpent", "claim"} => \A c \in ChallengeId : s.batch[c] = 0
  /\ s.pc # "sending" => ~s.accepted

\* The next attempt is due by the backoff from an instant that is past.
RetryIsDue(d) ==
  /\ disp[d].next \in Nat
  /\ disp[d].next <= now + BackoffAfter(disp[d].batch[disp[d].current])

\* A tick's instant is past, its claims were counted on the rows, what it knows to have
\* been accepted was, and the retry it decided on is not later than the backoff.
DispatcherSound(d) ==
  /\ Stage(disp[d])
  /\ disp[d].at <= now
  /\ \A c \in ChallengeId : disp[d].batch[c] <= outbox[c].attempts
  /\ disp[d].accepted \/ (disp[d].pc \in {"returned", "record"} /\ disp[d].ok)
       => sent[disp[d].current] > 0
  /\ disp[d].pc = "record" /\ ~Spent(d) => RetryIsDue(d)

\* A row is of an issued challenge, is due before that expires, and was claimed as
\* often as the policy allows at most.
RowSound(c) ==
  /\ ~Issued(c) => ~outbox[c].queued /\ outbox[c].attempts = 0
  /\ outbox[c].queued => outbox[c].availableAt < challenge[c].expiresAt
  /\ outbox[c].attempts <= MaxAttempts

\* The processes that may still have the transport take this message.
Pending(c) ==
  {d \in Dispatcher : /\ disp[d].batch[c] > 0
                      /\ ~ (/\ disp[d].current = c
                            /\ disp[d].accepted \/ disp[d].pc \in {"returned", "record"})}

\* Every copy that left, and every one that still may, was counted beforehand.
Covered(c) ==
  /\ IsFiniteSet(Pending(c))
  /\ sent[c] + Cardinality(Pending(c)) <= outbox[c].attempts

DeliveryIInv ==
  /\ DeliveryTypeOK
  /\ \A d \in Dispatcher : DispatcherSound(d)
  /\ \A c \in ChallengeId : RowSound(c)
  /\ \A c \in ChallengeId : Covered(c)

-----------------------------------------------------------------------------
(* What every step respects.                                                 *)

\* Time, copies and attempts never go back.
Monotone ==
  /\ now <= now'
  /\ \A c \in ChallengeId : sent[c] <= sent'[c] /\ outbox[c].attempts <= outbox'[c].attempts

\* A dispatcher that stands still stays sound.
LEMMA StandingStill ==
  ASSUME DeliveryTypeOK, DeliveryTypeOK', Monotone, NEW d \in Dispatcher,
         DispatcherSound(d), disp'[d] = disp[d]
  PROVE  DispatcherSound(d)'
<1>1. disp[d].at \in Nat /\ now \in Nat /\ now' \in Nat /\ disp[d].at <= now'
  BY DEF DeliveryTypeOK, TablesTypeOK, DispatcherTypeOK, DispatcherState, Time, DispatcherSound, Monotone
<1>2. ASSUME NEW c \in ChallengeId PROVE disp[d].batch[c] <= outbox'[c].attempts
  <2>1. /\ disp[d].batch[c] \in Nat /\ outbox[c].attempts \in Nat /\ outbox'[c].attempts \in Nat
        /\ disp[d].batch[c] <= outbox[c].attempts /\ outbox[c].attempts <= outbox'[c].attempts
    BY DEF DeliveryTypeOK, TablesTypeOK, DispatcherTypeOK, DispatcherState, DeliveryRow,
           DispatcherSound, Monotone
  <2>2. QED
    BY <2>1
<1>3. ASSUME disp[d].accepted \/ (disp[d].pc \in {"returned", "record"} /\ disp[d].ok)
      PROVE  sent'[disp[d].current] > 0
  <2>1. disp[d].pc \in {"sending", "returned", "record"}
    BY <1>3 DEF DispatcherSound, Stage
  <2>2. disp[d].current \in ChallengeId /\ sent[disp[d].current] > 0
    BY <1>3, <2>1 DEF DispatcherSound, Stage
  <2>3. /\ sent[disp[d].current] \in Nat /\ sent'[disp[d].current] \in Nat
        /\ sent[disp[d].current] <= sent'[disp[d].current]
    BY <2>2 DEF DeliveryTypeOK, TablesTypeOK, Monotone
  <2>4. QED
    BY <2>2, <2>3
<1>4. Stage(disp[d])'
  BY DEF DispatcherSound, Stage
<1>5. ASSUME disp[d].pc = "record", ~Spent(d) PROVE RetryIsDue(d)'
  <2>1. RetryIsDue(d) /\ now <= now'
    BY <1>5 DEF DispatcherSound, Monotone
  <2>2. BackoffAfter(disp[d].batch[disp[d].current]) \in Nat
    BY BackoffTyped
  <2>3. QED
    BY <1>1, <2>1, <2>2 DEF RetryIsDue, BackoffAfter
<1>6. Spent(d)' <=> Spent(d)
  BY DEF Spent
<1>7. QED
  BY <1>1, <1>2, <1>3, <1>4, <1>5, <1>6 DEF DispatcherSound

\* A message stays covered when nobody newly may send it and none left.
LEMMA NobodyJoins ==
  ASSUME DeliveryTypeOK, DeliveryTypeOK', Monotone, NEW c \in ChallengeId,
         Covered(c), Pending(c)' \subseteq Pending(c), sent'[c] = sent[c]
  PROVE  Covered(c)'
<1>1. /\ IsFiniteSet(Pending(c)')
      /\ Cardinality(Pending(c)') <= Cardinality(Pending(c))
      /\ Cardinality(Pending(c)') \in Nat /\ Cardinality(Pending(c)) \in Nat
  BY FS_Subset, FS_CardinalityType DEF Covered
<1>2. /\ sent[c] \in Nat /\ outbox[c].attempts \in Nat /\ outbox'[c].attempts \in Nat
      /\ outbox[c].attempts <= outbox'[c].attempts
  BY DEF DeliveryTypeOK, TablesTypeOK, DeliveryRow, Monotone
<1>3. QED
  BY <1>1, <1>2 DEF Covered

\* A row that leaves keeps its counter.
LEMMA AttemptsSurvive ==
  ASSUME DeliveryTypeOK, NEW c \in ChallengeId, outbox'[c] \in {outbox[c], Dequeue(outbox[c])}
  PROVE  outbox'[c].attempts = outbox[c].attempts
BY DEF Dequeue, DeliveryTypeOK, TablesTypeOK, DeliveryRow

\* Rows that leave, or stay as they are, stay sound.
LEMMA RowsLeave ==
  ASSUME DeliveryTypeOK, NEW c \in ChallengeId, RowSound(c), challenge' = challenge,
         outbox'[c] \in {outbox[c], Dequeue(outbox[c])}
  PROVE  RowSound(c)'
<1>1. /\ outbox'[c].queued => outbox[c].queued /\ outbox'[c].availableAt = outbox[c].availableAt
      /\ outbox'[c].attempts = outbox[c].attempts
  BY DEF Dequeue, DeliveryTypeOK, TablesTypeOK, DeliveryRow
<1>2. QED
  BY <1>1 DEF RowSound, Issued

\* What d's step leaves to be shown when it is the only one that moved.
LEMMA OneMoves ==
  ASSUME DeliveryIInv, DeliveryTypeOK', Monotone, NEW d \in Dispatcher, DispatcherSound(d)',
         \A e \in Dispatcher \ {d} : disp'[e] = disp[e]
  PROVE  \A e \in Dispatcher : DispatcherSound(e)'
<1> TAKE e \in Dispatcher
<1>1. CASE e = d
  BY <1>1
<1>2. CASE e # d
  BY <1>2, StandingStill DEF DeliveryIInv
<1>3. QED
  BY <1>1, <1>2

\* Nobody newly has a message to send when d has none it had not.
LEMMA OnlyOneJoins ==
  ASSUME NEW c \in ChallengeId, NEW d \in Dispatcher, DispatcherTypeOK, DispatcherTypeOK',
         \A e \in Dispatcher \ {d} : disp'[e] = disp[e],
         d \in Pending(c)' => d \in Pending(c)
  PROVE  Pending(c)' \subseteq Pending(c)
BY DEF Pending

LEMMA Idles ==
  ASSUME DeliveryTypeOK, DeliveryTypeOK', NEW d \in Dispatcher, EndTick(d)
  PROVE  /\ \A e \in Dispatcher \ {d} : disp'[e] = disp[e]
         /\ DispatcherSound(d)'
         /\ \A c \in ChallengeId : d \notin Pending(c)'
<1>1. disp'[d] = IdleDispatcher /\ \A e \in Dispatcher \ {d} : disp'[e] = disp[e]
  BY DEF EndTick, DeliveryTypeOK, DispatcherTypeOK
<1>2. /\ now' \in Nat /\ \A c \in ChallengeId : outbox'[c].attempts \in Nat
  BY DEF DeliveryTypeOK, TablesTypeOK, Time, DeliveryRow
<1>3. DispatcherSound(d)'
  BY <1>1, <1>2 DEF DispatcherSound, Stage, IdleDispatcher
<1>4. \A c \in ChallengeId : d \notin Pending(c)'
  BY <1>1 DEF Pending, IdleDispatcher
<1>5. QED
  BY <1>1, <1>3, <1>4

LEMMA Advances ==
  ASSUME DeliveryTypeOK, DeliveryTypeOK', Monotone, NEW d \in Dispatcher,
         DispatcherSound(d), disp[d].pc = "record", Advance(d)
  PROVE  /\ \A e \in Dispatcher \ {d} : disp'[e] = disp[e]
         /\ DispatcherSound(d)'
         /\ \A c \in ChallengeId : d \in Pending(c)' => d \in Pending(c)
<1> DEFINE rest == [disp[d].batch EXCEPT ![disp[d].current] = 0]
           s == [disp[d] EXCEPT !.pc = "send", !.batch = rest, !.current = None, !.ok = FALSE, !.next = Never]
<1>1. CASE EndTick(d)
  BY <1>1, Idles
<1>2. CASE disp' = [disp EXCEPT ![d].pc = "send", ![d].batch = rest,
                                ![d].current = None, ![d].ok = FALSE, ![d].next = Never]
  <2>1. /\ disp[d] \in DispatcherState
        /\ disp[d].batch \in [ChallengeId -> 0..MaxAttempts]
    BY DEF DeliveryTypeOK, DispatcherTypeOK, DispatcherState
  <2>2. disp'[d] = s /\ \A e \in Dispatcher \ {d} : disp'[e] = disp[e]
    BY <1>2 DEF DeliveryTypeOK, DispatcherTypeOK
  <2>3. ASSUME NEW c \in ChallengeId PROVE rest[c] = IF c = disp[d].current THEN 0 ELSE disp[d].batch[c]
    BY <2>1
  <2>4. ASSUME NEW c \in ChallengeId PROVE rest[c] <= outbox'[c].attempts
    <3>1. /\ disp[d].batch[c] \in Nat /\ outbox[c].attempts \in Nat /\ outbox'[c].attempts \in Nat
          /\ disp[d].batch[c] <= outbox[c].attempts /\ outbox[c].attempts <= outbox'[c].attempts
      BY <2>1 DEF DeliveryTypeOK, TablesTypeOK, DeliveryRow, DispatcherSound, Monotone
    <3>2. QED
      BY <2>3, <3>1
  <2>5. s.pc = "send" /\ s.batch = rest /\ s.at = disp[d].at /\ s.accepted = disp[d].accepted
    BY <2>1 DEF DispatcherState
  <2>6. ~disp[d].accepted
    BY DEF DispatcherSound, Stage
  <2>7. disp[d].at <= now'
    BY <2>1 DEF DispatcherState, Time, DeliveryTypeOK, TablesTypeOK, DispatcherSound, Monotone
  <2>8. DispatcherSound(d)'
    BY <2>2, <2>4, <2>5, <2>6, <2>7 DEF DispatcherSound, Stage
  <2>9. ASSUME NEW c \in ChallengeId, d \in Pending(c)' PROVE d \in Pending(c)
    <3>1. rest[c] > 0
      BY <2>2, <2>5, <2>9 DEF Pending
    <3>2. c # disp[d].current /\ disp[d].batch[c] > 0
      BY <2>3, <3>1
    <3>3. QED
      BY <3>2 DEF Pending
  <2>10. QED
    BY <2>2, <2>8, <2>9
<1>3. QED
  BY <1>1, <1>2 DEF Advance

-----------------------------------------------------------------------------
(* The invariant is inductive.                                               *)

LEMMA DeliveryInvInit == DeliveryInit => DeliveryIInv
<1> SUFFICES ASSUME DeliveryInit PROVE DeliveryIInv
  OBVIOUS
<1> USE DEF DeliveryInit, TablesInit, DispatcherInit
<1>1. DeliveryTypeOK
  BY DeliveryTypeInit
<1>2. \A d \in Dispatcher : DispatcherSound(d)
  BY DEF DispatcherSound, Stage, IdleDispatcher, NoDelivery
<1>3. \A c \in ChallengeId : RowSound(c)
  BY PolicyAssumption DEF RowSound, NoDelivery, Issued, Unissued
<1>4. ASSUME NEW c \in ChallengeId PROVE Covered(c)
  <2>1. Pending(c) = {}
    BY DEF Pending, IdleDispatcher
  <2>2. IsFiniteSet(Pending(c)) /\ Cardinality(Pending(c)) = 0
    BY <2>1, FS_EmptySet
  <2>3. QED
    BY <2>2 DEF Covered, NoDelivery
<1>5. QED
  BY <1>1, <1>2, <1>3, <1>4 DEF DeliveryIInv

\* A step of one dispatcher that sends nothing and claims nothing: it keeps the
\* invariant if it keeps that dispatcher and the rows sound and lets nobody join.
LEMMA QuietStep ==
  ASSUME DeliveryIInv, DeliveryTypeOK', NEW d \in Dispatcher,
         \A e \in Dispatcher \ {d} : disp'[e] = disp[e],
         DispatcherSound(d)',
         \A c \in ChallengeId : d \in Pending(c)' => d \in Pending(c),
         now' = now, sent' = sent,
         \A c \in ChallengeId : outbox[c].attempts = outbox'[c].attempts,
         \A c \in ChallengeId : RowSound(c)'
  PROVE  DeliveryIInv'
<1>1. Monotone
  <2>1. /\ now \in Nat
        /\ \A c \in ChallengeId : sent[c] \in Nat /\ outbox[c].attempts \in Nat
    BY DEF DeliveryIInv, DeliveryTypeOK, TablesTypeOK, Time, DeliveryRow
  <2>2. QED
    BY <2>1 DEF Monotone
<1>2. \A e \in Dispatcher : DispatcherSound(e)'
  BY <1>1, OneMoves
<1>3. \A c \in ChallengeId : Pending(c)' \subseteq Pending(c)
  BY OnlyOneJoins DEF DeliveryIInv, DeliveryTypeOK
<1>4. \A c \in ChallengeId : Covered(c)'
  BY <1>1, <1>3, NobodyJoins DEF DeliveryIInv
<1>5. QED
  BY <1>2, <1>4 DEF DeliveryIInv

LEMMA StartKeeps ==
  ASSUME DeliveryIInv, DeliveryTypeOK', NEW d \in Dispatcher, StartTick(d)
  PROVE  DeliveryIInv'
<1>1. /\ disp'[d] = [IdleDispatcher EXCEPT !.pc = "sweep", !.at = now]
      /\ \A e \in Dispatcher \ {d} : disp'[e] = disp[e]
      /\ now' = now /\ challenge' = challenge /\ outbox' = outbox /\ sent' = sent
  BY DEF StartTick, tables, DeliveryIInv, DeliveryTypeOK, DispatcherTypeOK
<1>2. now \in Nat /\ \A c \in ChallengeId : outbox[c].attempts \in Nat
  BY DEF DeliveryIInv, DeliveryTypeOK, TablesTypeOK, Time, DeliveryRow
<1>3. DispatcherSound(d)'
  BY <1>1, <1>2 DEF DispatcherSound, Stage, IdleDispatcher
<1>4. \A c \in ChallengeId : d \notin Pending(c)'
  <2>1. \A c \in ChallengeId : disp'[d].batch[c] = 0
    BY <1>1 DEF IdleDispatcher
  <2>2. QED
    BY <2>1 DEF Pending
<1>5. \A c \in ChallengeId : RowSound(c)'
  BY <1>1 DEF DeliveryIInv, RowSound, Issued
<1>6. QED
  BY <1>1, <1>3, <1>4, <1>5, QuietStep

\* Both sweeps.
LEMMA SweepKeeps ==
  ASSUME DeliveryIInv, DeliveryTypeOK', NEW d \in Dispatcher, NEW rows, Swept(rows),
         disp[d].pc \in {"sweep", "sweepSpent"}, disp'[d].pc \in {"sweepSpent", "claim"},
         disp'[d] = [disp[d] EXCEPT !.pc = disp'[d].pc, !.room = disp'[d].room],
         \A e \in Dispatcher \ {d} : disp'[e] = disp[e],
         now' = now, challenge' = challenge, sent' = sent
  PROVE  DeliveryIInv'
<1>1. \A c \in ChallengeId : outbox'[c] \in {outbox[c], Dequeue(outbox[c])}
  BY DEF Swept
<1>2. \A c \in ChallengeId : outbox'[c].attempts = outbox[c].attempts
  BY <1>1, AttemptsSurvive DEF DeliveryIInv
<1>3. \A c \in ChallengeId : RowSound(c)'
  BY <1>1, RowsLeave DEF DeliveryIInv
<1>4. /\ disp[d] \in DispatcherState
      /\ DispatcherSound(d)
  BY DEF DeliveryIInv, DeliveryTypeOK, DispatcherTypeOK
<1>5. /\ disp'[d].batch = disp[d].batch /\ disp'[d].at = disp[d].at
      /\ disp'[d].accepted = disp[d].accepted
  BY <1>4 DEF DispatcherState
<1>6. \A c \in ChallengeId : disp[d].batch[c] = 0
  BY <1>4 DEF DispatcherSound, Stage
<1>7. DispatcherSound(d)'
  BY <1>2, <1>4, <1>5, <1>6 DEF DispatcherSound, Stage
<1>8. \A c \in ChallengeId : d \notin Pending(c)'
  BY <1>5, <1>6 DEF Pending
<1>9. QED
  BY <1>2, <1>3, <1>7, <1>8, QuietStep

LEMMA BeginSendKeeps ==
  ASSUME DeliveryIInv, DeliveryTypeOK', NEW d \in Dispatcher, BeginSend(d)
  PROVE  DeliveryIInv'
<1>1. PICK b \in ChallengeId :
        /\ disp[d].batch[b] > 0
        /\ disp' = [disp EXCEPT ![d].pc = "sending", ![d].current = b,
                      ![d].deadline = now + SendTimeout]
  BY DEF BeginSend
<1>2. disp[d] \in DispatcherState /\ DispatcherSound(d) /\ disp[d].pc = "send"
  BY DEF BeginSend, DeliveryIInv, DeliveryTypeOK, DispatcherTypeOK
<1>3. /\ disp'[d].pc = "sending" /\ disp'[d].current = b /\ disp'[d].at = disp[d].at
      /\ disp'[d].batch = disp[d].batch /\ disp'[d].accepted = disp[d].accepted
      /\ \A e \in Dispatcher \ {d} : disp'[e] = disp[e]
  BY <1>1, <1>2 DEF DeliveryIInv, DeliveryTypeOK, DispatcherTypeOK, DispatcherState
<1>4. now' = now /\ challenge' = challenge /\ outbox' = outbox /\ sent' = sent
  BY DEF BeginSend, tables
<1>5. ~disp[d].accepted
  BY <1>2 DEF DispatcherSound, Stage
<1>6. DispatcherSound(d)'
  BY <1>1, <1>2, <1>3, <1>4, <1>5 DEF DispatcherSound, Stage
<1>7. \A c \in ChallengeId : d \in Pending(c)' => d \in Pending(c)
  BY <1>2, <1>3, <1>5 DEF Pending
<1>8. \A c \in ChallengeId : RowSound(c)'
  BY <1>4 DEF DeliveryIInv, RowSound, Issued
<1>9. QED
  BY <1>3, <1>4, <1>6, <1>7, <1>8, QuietStep

LEMMA EndSendKeeps ==
  ASSUME DeliveryIInv, DeliveryTypeOK', NEW d \in Dispatcher, EndSend(d)
  PROVE  DeliveryIInv'
<1>1. PICK ok \in {disp[d].accepted, FALSE} :
        disp' = [disp EXCEPT ![d].pc = "returned", ![d].ok = ok,
                   ![d].deadline = Never, ![d].accepted = FALSE]
  BY DEF EndSend
<1>2. disp[d] \in DispatcherState /\ DispatcherSound(d) /\ disp[d].pc = "sending"
  BY DEF EndSend, DeliveryIInv, DeliveryTypeOK, DispatcherTypeOK
<1>3. /\ disp'[d].pc = "returned" /\ disp'[d].current = disp[d].current /\ disp'[d].at = disp[d].at
      /\ disp'[d].batch = disp[d].batch /\ disp'[d].accepted = FALSE /\ disp'[d].ok = ok
      /\ \A e \in Dispatcher \ {d} : disp'[e] = disp[e]
  BY <1>1, <1>2 DEF DeliveryIInv, DeliveryTypeOK, DispatcherTypeOK, DispatcherState
<1>4. now' = now /\ challenge' = challenge /\ outbox' = outbox /\ sent' = sent
  BY DEF EndSend, tables
<1>5. DispatcherSound(d)'
  BY <1>2, <1>3, <1>4 DEF DispatcherSound, Stage
<1>6. \A c \in ChallengeId : d \in Pending(c)' => d \in Pending(c)
  BY <1>2, <1>3 DEF Pending
<1>7. \A c \in ChallengeId : RowSound(c)'
  BY <1>4 DEF DeliveryIInv, RowSound, Issued
<1>8. QED
  BY <1>3, <1>4, <1>5, <1>6, <1>7, QuietStep

LEMMA DecideKeeps ==
  ASSUME DeliveryIInv, DeliveryTypeOK', NEW d \in Dispatcher, Decide(d)
  PROVE  DeliveryIInv'
<1>1. disp[d] \in DispatcherState /\ DispatcherSound(d) /\ disp[d].pc = "returned"
  BY DEF Decide, DeliveryIInv, DeliveryTypeOK, DispatcherTypeOK
<1>2. /\ disp'[d].pc = "record" /\ disp'[d].current = disp[d].current /\ disp'[d].at = disp[d].at
      /\ disp'[d].batch = disp[d].batch /\ disp'[d].accepted = disp[d].accepted
      /\ disp'[d].ok = disp[d].ok /\ (~Spent(d) => disp'[d].next = NextAttemptAt(d))
      /\ \A e \in Dispatcher \ {d} : disp'[e] = disp[e]
  BY <1>1 DEF Decide, DeliveryIInv, DeliveryTypeOK, DispatcherTypeOK, DispatcherState
<1>3. now' = now /\ challenge' = challenge /\ outbox' = outbox /\ sent' = sent
  BY DEF Decide, tables
<1>4. ~Spent(d)' => RetryIsDue(d)'
  <2>1. Spent(d)' <=> Spent(d)
    BY <1>2 DEF Spent
  <2>2. now \in Nat /\ BackoffAfter(disp[d].batch[disp[d].current]) \in Nat
    BY BackoffTyped DEF DeliveryIInv, DeliveryTypeOK, TablesTypeOK, Time
  <2>3. BackoffAfter(disp[d].batch[disp[d].current])' = BackoffAfter(disp[d].batch[disp[d].current])
    BY <1>2 DEF BackoffAfter
  <2>4. QED
    BY <1>2, <1>3, <2>1, <2>2, <2>3 DEF RetryIsDue, NextAttemptAt
<1>5. DispatcherSound(d)'
  BY <1>1, <1>2, <1>3, <1>4 DEF DispatcherSound, Stage
<1>6. \A c \in ChallengeId : d \in Pending(c)' => d \in Pending(c)
  BY <1>1, <1>2 DEF Pending
<1>7. \A c \in ChallengeId : RowSound(c)'
  BY <1>3 DEF DeliveryIInv, RowSound, Issued
<1>8. QED
  BY <1>2, <1>3, <1>5, <1>6, <1>7, QuietStep

\* An outcome that is recorded, or found to be somebody else's by now.
LEMMA RecordKeeps ==
  ASSUME DeliveryIInv, DeliveryTypeOK', NEW d \in Dispatcher, disp[d].pc = "record", Advance(d),
         now' = now, sent' = sent,
         \A c \in ChallengeId : outbox'[c].attempts = outbox[c].attempts,
         \A c \in ChallengeId : RowSound(c)'
  PROVE  DeliveryIInv'
<1>1. Monotone
  <2>1. now \in Nat /\ \A c \in ChallengeId : sent[c] \in Nat /\ outbox[c].attempts \in Nat
    BY DEF DeliveryIInv, DeliveryTypeOK, TablesTypeOK, Time, DeliveryRow
  <2>2. QED
    BY <2>1 DEF Monotone
<1>2. QED
  BY <1>1, Advances, QuietStep DEF DeliveryIInv

LEMMA SettleKeeps ==
  ASSUME DeliveryIInv, DeliveryTypeOK', NEW d \in Dispatcher, SettleDelivery(d)
  PROVE  DeliveryIInv'
<1>1. \A c \in ChallengeId : outbox'[c] \in {outbox[c], Dequeue(outbox[c])}
  BY DEF SettleDelivery, DeliveryIInv, DeliveryTypeOK, TablesTypeOK
<1>2. \A c \in ChallengeId : outbox'[c].attempts = outbox[c].attempts
  BY <1>1, AttemptsSurvive DEF DeliveryIInv
<1>3. \A c \in ChallengeId : RowSound(c)'
  BY <1>1, RowsLeave DEF DeliveryIInv, SettleDelivery
<1>4. QED
  BY <1>2, <1>3, RecordKeeps DEF SettleDelivery

LEMMA RescheduleKeeps ==
  ASSUME DeliveryIInv, DeliveryTypeOK', NEW d \in Dispatcher, RescheduleDelivery(d)
  PROVE  DeliveryIInv'
<1> DEFINE b == disp[d].current
<1>1. /\ outbox' = [outbox EXCEPT ![b] = Released(outbox[b], disp[d].next)]
      /\ challenge' = challenge /\ now' = now /\ sent' = sent
      /\ disp[d].pc = "record" /\ ~Settles(d) /\ Holds(d, b) /\ Advance(d)
  BY DEF RescheduleDelivery
<1>2. b \in ChallengeId
  BY <1>1 DEF DeliveryIInv, DispatcherSound, Stage
<1>3. disp[d].next < challenge[b].expiresAt
  <2>1. disp[d].next \in Nat
    BY <1>1 DEF Settles, DeliveryIInv, DispatcherSound, RetryIsDue
  <2>2. challenge[b].expiresAt \in Int
    BY <1>2 DEF DeliveryIInv, DeliveryTypeOK, TablesTypeOK, ChallengeRow, Instant, Time, Never
  <2>3. QED
    BY <1>1, <2>1, <2>2 DEF Settles
<1>4. outbox[b] \in DeliveryRow
  BY <1>2 DEF DeliveryIInv, DeliveryTypeOK, TablesTypeOK
<1>5. \A c \in ChallengeId \ {b} : outbox'[c] = outbox[c]
  BY <1>1 DEF DeliveryIInv, DeliveryTypeOK, TablesTypeOK
<1>6. /\ outbox'[b].attempts = outbox[b].attempts
      /\ outbox'[b].queued = outbox[b].queued
      /\ outbox'[b].availableAt = disp[d].next
  BY <1>1, <1>2, <1>4 DEF Released, DeliveryRow, DeliveryIInv, DeliveryTypeOK, TablesTypeOK
<1>7. \A c \in ChallengeId : outbox'[c].attempts = outbox[c].attempts
  BY <1>5, <1>6
<1>8. ASSUME NEW c \in ChallengeId PROVE RowSound(c)'
  BY <1>1, <1>3, <1>5, <1>6 DEF DeliveryIInv, RowSound, Issued
<1>9. QED
  BY <1>1, <1>7, <1>8, RecordKeeps

LEMMA LoseKeeps ==
  ASSUME DeliveryIInv, DeliveryTypeOK', NEW d \in Dispatcher, LoseDelivery(d)
  PROVE  DeliveryIInv'
<1>1. \A c \in ChallengeId : RowSound(c)'
  BY DEF LoseDelivery, tables, DeliveryIInv, RowSound, Issued
<1>2. QED
  BY <1>1, RecordKeeps DEF LoseDelivery, tables

LEMMA AbortKeeps ==
  ASSUME DeliveryIInv, DeliveryTypeOK', NEW d \in Dispatcher, AbortTick(d)
  PROVE  DeliveryIInv'
<1>1. \A c \in ChallengeId : RowSound(c)'
  BY DEF AbortTick, tables, DeliveryIInv, RowSound, Issued
<1>2. QED
  BY <1>1, Idles, QuietStep DEF AbortTick, tables, DeliveryIInv

\* The one copy more was pending before, and is not any longer.
LEMMA AcceptKeeps ==
  ASSUME DeliveryIInv, DeliveryTypeOK', NEW d \in Dispatcher, Accept(d)
  PROVE  DeliveryIInv'
<1>1. /\ disp[d] \in DispatcherState /\ DispatcherSound(d)
      /\ disp[d].pc = "sending" /\ ~disp[d].accepted
      /\ now' = now /\ challenge' = challenge /\ outbox' = outbox
  BY DEF Accept, DeliveryIInv, DeliveryTypeOK, DispatcherTypeOK
<1>2. PICK b \in ChallengeId : b = disp[d].current /\ disp[d].batch[b] > 0
  BY <1>1 DEF DispatcherSound, Stage
<1>3. /\ \A c \in ChallengeId : sent[c] \in Nat /\ sent'[c] \in Nat /\ outbox[c].attempts \in Nat
      /\ now \in Nat
  BY DEF DeliveryIInv, DeliveryTypeOK, TablesTypeOK, DeliveryRow, Time
<1>4. sent'[b] = sent[b] + 1 /\ \A c \in ChallengeId \ {b} : sent'[c] = sent[c]
  BY <1>2 DEF Accept, DeliveryIInv, DeliveryTypeOK, TablesTypeOK
<1>5. /\ disp'[d].pc = "sending" /\ disp'[d].current = b /\ disp'[d].at = disp[d].at
      /\ disp'[d].batch = disp[d].batch /\ disp'[d].accepted
      /\ \A e \in Dispatcher \ {d} : disp'[e] = disp[e]
  BY <1>1, <1>2 DEF Accept, DeliveryIInv, DeliveryTypeOK, DispatcherTypeOK, DispatcherState
<1>6. Monotone
  BY <1>1, <1>3, <1>4 DEF Monotone
<1>7. DispatcherSound(d)'
  BY <1>1, <1>2, <1>3, <1>4, <1>5 DEF DispatcherSound, Stage
<1>8. \A e \in Dispatcher : DispatcherSound(e)'
  BY <1>5, <1>6, <1>7, OneMoves
<1>9. \A c \in ChallengeId : RowSound(c)'
  BY <1>1 DEF DeliveryIInv, RowSound, Issued
<1>10. ASSUME NEW c \in ChallengeId, c # b PROVE Covered(c)'
  <2>1. d \in Pending(c)' => d \in Pending(c)
    BY <1>1, <1>5, <1>10 DEF Pending
  <2>2. Pending(c)' \subseteq Pending(c)
    BY <1>5, <2>1, OnlyOneJoins DEF DeliveryIInv, DeliveryTypeOK
  <2>3. QED
    BY <1>4, <1>6, <1>10, <2>2, NobodyJoins DEF DeliveryIInv
<1>11. Covered(b)'
  <2>1. d \in Pending(b)
    BY <1>1, <1>2 DEF Pending
  <2>2. d \notin Pending(b)'
    BY <1>5 DEF Pending
  <2>3. Pending(b)' = Pending(b) \ {d}
    BY <1>5, <2>2 DEF Pending
  <2>4. IsFiniteSet(Pending(b)) /\ sent[b] + Cardinality(Pending(b)) <= outbox[b].attempts
    BY <1>2 DEF DeliveryIInv, Covered
  <2>5. /\ IsFiniteSet(Pending(b)')
        /\ Cardinality(Pending(b)') = Cardinality(Pending(b)) - 1
        /\ Cardinality(Pending(b)) \in Nat
    BY <2>1, <2>3, <2>4, FS_RemoveElement, FS_CardinalityType
  <2>6. QED
    BY <1>1, <1>2, <1>3, <1>4, <2>4, <2>5 DEF Covered
<1>12. QED
  BY <1>8, <1>9, <1>10, <1>11 DEF DeliveryIInv

\* The attempt is counted as the claim is made, and lets one more copy leave.
LEMMA ClaimKeeps ==
  ASSUME DeliveryIInv, DeliveryTypeOK', NEW d \in Dispatcher, ClaimDeliveries(d)
  PROVE  DeliveryIInv'
<1>1. PICK claim \in FreshClaim, rows \in SUBSET Claimable(disp[d].at) :
         /\ Leased(d, claim, rows)
         /\ IF rows = {} THEN EndTick(d) ELSE Carries(d, claim, rows)
  BY ClaimEffect
<1>2. /\ now' = now /\ challenge' = challenge /\ sent' = sent
      /\ disp[d].pc = "claim" /\ disp[d] \in DispatcherState /\ DispatcherSound(d)
  BY DEF ClaimDeliveries, DeliveryIInv, DeliveryTypeOK, DispatcherTypeOK
<1>3. /\ now \in Nat
      /\ \A c \in ChallengeId : sent[c] \in Nat /\ outbox[c].attempts \in Nat
  BY DEF DeliveryIInv, DeliveryTypeOK, TablesTypeOK, DeliveryRow, Time
<1>4. ASSUME NEW c \in ChallengeId
      PROVE  /\ outbox'[c].queued = outbox[c].queued
             /\ outbox'[c].availableAt = outbox[c].availableAt
             /\ outbox'[c].attempts = IF c \in rows THEN outbox[c].attempts + 1 ELSE outbox[c].attempts
  <2>1. outbox[c] \in DeliveryRow
    BY DEF DeliveryIInv, DeliveryTypeOK, TablesTypeOK
  <2>2. QED
    BY <1>1, <2>1 DEF Leased, DeliveryRow
<1>5. Monotone
  BY <1>2, <1>3, <1>4 DEF Monotone
<1>6. ASSUME NEW c \in rows
      PROVE  c \in ChallengeId /\ outbox[c].attempts < MaxAttempts /\ Issued(c)
  BY DEF Claimable, Current
<1>7. ASSUME NEW c \in ChallengeId PROVE RowSound(c)'
  <2>1. RowSound(c) /\ outbox[c].attempts \in Nat
    BY <1>3 DEF DeliveryIInv
  <2>2. QED
    BY <1>2, <1>4, <1>6, <2>1, PolicyAssumption DEF RowSound, Issued
<1>8. CASE rows = {}
  <2>1. EndTick(d)
    BY <1>1, <1>8
  <2>2. \A c \in ChallengeId : outbox'[c].attempts = outbox[c].attempts
    BY <1>4, <1>8
  <2>3. QED
    BY <1>2, <1>7, <2>1, <2>2, Idles, QuietStep DEF DeliveryIInv
<1>9. CASE rows # {}
  <2>1. Carries(d, claim, rows)
    BY <1>1, <1>9
  <2>2. /\ disp'[d].pc = "send" /\ disp'[d].at = disp[d].at
        /\ disp'[d].accepted = disp[d].accepted
        /\ disp'[d].batch = [c \in ChallengeId |-> IF c \in rows THEN outbox[c].attempts + 1 ELSE 0]
        /\ \A e \in Dispatcher \ {d} : disp'[e] = disp[e]
    BY <1>2, <2>1 DEF Carries, DeliveryIInv, DeliveryTypeOK, DispatcherTypeOK, DispatcherState
  <2>3. \A c \in ChallengeId : disp'[d].batch[c] <= outbox'[c].attempts
    BY <1>3, <1>4, <2>2
  <2>4. ~disp[d].accepted /\ disp[d].at <= now
    BY <1>2 DEF DispatcherSound, Stage
  <2>5. DispatcherSound(d)'
    BY <1>2, <2>2, <2>3, <2>4 DEF DispatcherSound, Stage
  <2>6. \A e \in Dispatcher : DispatcherSound(e)'
    BY <1>5, <2>2, <2>5, OneMoves
  <2>7. ASSUME NEW c \in ChallengeId \ rows PROVE Covered(c)'
    <3>1. d \notin Pending(c)'
      BY <2>2 DEF Pending
    <3>2. Pending(c)' \subseteq Pending(c)
      BY <2>2, <3>1, OnlyOneJoins DEF DeliveryIInv, DeliveryTypeOK
    <3>3. QED
      BY <1>2, <1>5, <3>2, NobodyJoins DEF DeliveryIInv
  <2>8. ASSUME NEW c \in rows PROVE Covered(c)'
    <3>1. c \in ChallengeId
      BY <1>6
    <3>2. IsFiniteSet(Pending(c)) /\ sent[c] + Cardinality(Pending(c)) <= outbox[c].attempts
      BY <3>1 DEF DeliveryIInv, Covered
    <3>3. Pending(c)' \subseteq Pending(c) \cup {d}
      BY <2>2 DEF Pending
    <3>4. /\ IsFiniteSet(Pending(c) \cup {d})
          /\ Cardinality(Pending(c) \cup {d}) <= Cardinality(Pending(c)) + 1
          /\ Cardinality(Pending(c)) \in Nat /\ Cardinality(Pending(c) \cup {d}) \in Nat
      <4>1. /\ IsFiniteSet(Pending(c) \cup {d})
            /\ \/ Cardinality(Pending(c) \cup {d}) = Cardinality(Pending(c))
               \/ Cardinality(Pending(c) \cup {d}) = Cardinality(Pending(c)) + 1
        BY <3>2, FS_AddElement
      <4>2. Cardinality(Pending(c)) \in Nat
        BY <3>2, FS_CardinalityType
      <4>3. QED
        BY <4>1, <4>2
    <3>5. /\ IsFiniteSet(Pending(c)')
          /\ Cardinality(Pending(c)') <= Cardinality(Pending(c) \cup {d})
          /\ Cardinality(Pending(c)') \in Nat
      BY <3>3, <3>4, FS_Subset, FS_CardinalityType
    <3>6. /\ sent'[c] = sent[c] /\ sent[c] \in Nat /\ outbox[c].attempts \in Nat
          /\ outbox'[c].attempts = outbox[c].attempts + 1
      BY <1>2, <1>3, <1>4, <3>1
    <3>7. QED
      BY <3>2, <3>4, <3>5, <3>6 DEF Covered
  <2>9. QED
    BY <1>7, <2>6, <2>7, <2>8 DEF DeliveryIInv
<1>10. QED
  BY <1>8, <1>9

-----------------------------------------------------------------------------
(* Steps around the dispatchers.                                             *)

\* Nobody moves, and no copy leaves.
LEMMA AroundStep ==
  ASSUME DeliveryIInv, DeliveryTypeOK', Monotone, disp' = disp, sent' = sent,
         \A c \in ChallengeId : RowSound(c)'
  PROVE  DeliveryIInv'
<1>1. \A d \in Dispatcher : DispatcherSound(d)'
  BY StandingStill DEF DeliveryIInv
<1>2. \A c \in ChallengeId : Pending(c)' = Pending(c)
  BY DEF Pending
<1>3. \A c \in ChallengeId : Covered(c)'
  BY <1>2, NobodyJoins DEF DeliveryIInv
<1>4. QED
  BY <1>1, <1>3 DEF DeliveryIInv

LEMMA ElapseKeeps ==
  ASSUME DeliveryIInv, DeliveryTypeOK', Elapse
  PROVE  DeliveryIInv'
<1>1. now' = now + 1 /\ challenge' = challenge /\ outbox' = outbox /\ sent' = sent /\ disp' = disp
  BY DEF Elapse, tables
<1>2. now \in Nat /\ \A c \in ChallengeId : sent[c] \in Nat /\ outbox[c].attempts \in Nat
  BY DEF DeliveryIInv, DeliveryTypeOK, TablesTypeOK, DeliveryRow, Time
<1>3. Monotone
  BY <1>1, <1>2 DEF Monotone
<1>4. \A c \in ChallengeId : RowSound(c)'
  BY <1>1 DEF DeliveryIInv, RowSound, Issued
<1>5. QED
  BY <1>1, <1>3, <1>4, AroundStep

LEMMA PostKeeps ==
  ASSUME DeliveryIInv, DeliveryTypeOK', NEW at \in 0..now, NEW a \in Address, Post(a, at)
  PROVE  DeliveryIInv'
<1>1. PICK fresh \in FreshChallenge :
        /\ challenge' = Reissued(a, CurrentOf(a), fresh, at, 0)
        /\ outbox' = Requeued(CurrentOf(a), fresh, at)
  BY DEF Post
<1>2. fresh \in ChallengeId /\ ~Issued(fresh)
  BY FreshIsNew
<1>3. now' = now /\ sent' = sent /\ disp' = disp
  BY DEF Post
<1>4. now \in Nat /\ \A c \in ChallengeId : sent[c] \in Nat /\ outbox[c].attempts \in Nat
  BY DEF DeliveryIInv, DeliveryTypeOK, TablesTypeOK, DeliveryRow, Time
<1>5. outbox[fresh].attempts = 0 /\ outbox'[fresh] = NewDelivery(at)
      /\ challenge'[fresh] = NewChallenge(a, at, 0)
  BY <1>1, <1>2 DEF DeliveryIInv, RowSound, Requeued, Reissued
<1>6. ASSUME NEW c \in ChallengeId \ {fresh}
      PROVE  /\ outbox'[c] \in {outbox[c], Dequeue(outbox[c])}
             /\ challenge'[c] \in {challenge[c], [challenge[c] EXCEPT !.supersededAt = at]}
  BY <1>1 DEF Requeued, Reissued
<1>7. ASSUME NEW c \in ChallengeId \ {fresh}
      PROVE  outbox'[c].attempts = outbox[c].attempts
  BY <1>6, AttemptsSurvive DEF DeliveryIInv
<1>8. Monotone
  BY <1>3, <1>4, <1>5, <1>7 DEF Monotone, NewDelivery
<1>9. RowSound(fresh)'
  <2>1. a # None /\ at < at + Lifetime /\ 0 <= MaxAttempts
    BY TablesAssumption, PolicyAssumption, <1>4
  <2>2. QED
    BY <1>5, <2>1 DEF RowSound, Issued, NewDelivery, NewChallenge
<1>10. ASSUME NEW c \in ChallengeId \ {fresh} PROVE RowSound(c)'
  <2>1. outbox[c] \in DeliveryRow /\ challenge[c] \in ChallengeRow /\ RowSound(c)
    BY DEF DeliveryIInv, DeliveryTypeOK, TablesTypeOK
  <2>2. challenge'[c].address = challenge[c].address /\ challenge'[c].expiresAt = challenge[c].expiresAt
    BY <1>6, <2>1 DEF ChallengeRow
  <2>3. outbox'[c].queued => outbox[c].queued /\ outbox'[c].availableAt = outbox[c].availableAt
    BY <1>6, <2>1 DEF Dequeue, DeliveryRow
  <2>4. QED
    BY <1>7, <2>1, <2>2, <2>3 DEF RowSound, Issued
<1>11. QED
  BY <1>3, <1>8, <1>9, <1>10, AroundStep

LEMMA SpendKeeps ==
  ASSUME DeliveryIInv, DeliveryTypeOK', NEW at \in 0..now, NEW b \in ChallengeId, Spend(b, at)
  PROVE  DeliveryIInv'
<1>1. /\ now' = now /\ sent' = sent /\ disp' = disp
      /\ challenge' = [challenge EXCEPT ![b] = [challenge[b] EXCEPT !.consumedAt = at]]
      /\ outbox' = [outbox EXCEPT ![b] = Dequeue(outbox[b])]
  BY DEF Spend
<1>2. now \in Nat /\ \A c \in ChallengeId : sent[c] \in Nat /\ outbox[c].attempts \in Nat
  BY DEF DeliveryIInv, DeliveryTypeOK, TablesTypeOK, DeliveryRow, Time
<1>3. ASSUME NEW c \in ChallengeId PROVE outbox'[c] \in {outbox[c], Dequeue(outbox[c])}
  BY <1>1 DEF DeliveryIInv, DeliveryTypeOK, TablesTypeOK
<1>4. ASSUME NEW c \in ChallengeId PROVE outbox'[c].attempts = outbox[c].attempts
  BY <1>3, AttemptsSurvive DEF DeliveryIInv
<1>5. Monotone
  BY <1>1, <1>2, <1>4 DEF Monotone
<1>6. ASSUME NEW c \in ChallengeId PROVE RowSound(c)'
  <2>1. outbox[c] \in DeliveryRow /\ challenge[c] \in ChallengeRow /\ RowSound(c)
    BY DEF DeliveryIInv, DeliveryTypeOK, TablesTypeOK
  <2>2. challenge'[c].address = challenge[c].address /\ challenge'[c].expiresAt = challenge[c].expiresAt
    BY <1>1, <2>1 DEF DeliveryIInv, DeliveryTypeOK, TablesTypeOK, ChallengeRow
  <2>3. outbox'[c].queued => outbox[c].queued /\ outbox'[c].availableAt = outbox[c].availableAt
    BY <1>3, <2>1 DEF Dequeue, DeliveryRow
  <2>4. QED
    BY <1>4, <2>1, <2>2, <2>3 DEF RowSound, Issued
<1>7. QED
  BY <1>1, <1>5, <1>6, AroundStep

LEMMA DeliveryInvStep == DeliveryIInv /\ [DeliveryStep]_deliveryVars => DeliveryIInv'
<1> SUFFICES ASSUME DeliveryIInv, [DeliveryStep]_deliveryVars PROVE DeliveryIInv'
  OBVIOUS
<1>0. DeliveryTypeOK'
  BY DeliveryTypeStep DEF DeliveryIInv
<1>1. ASSUME NEW d \in Dispatcher, SweepExpired(d) PROVE DeliveryIInv'
  <2>1. PICK rows \in SUBSET Expired(disp[d].at) :
           /\ Swept(rows)
           /\ disp' = [disp EXCEPT ![d].room = Batch - Cardinality(rows),
                         ![d].pc = IF Cardinality(rows) < Batch
                                   THEN "sweepSpent" ELSE "claim"]
    BY <1>1, SweepExpiredEffect
  <2>2. /\ disp'[d] = [disp[d] EXCEPT !.pc = disp'[d].pc, !.room = disp'[d].room]
        /\ disp'[d].pc \in {"sweepSpent", "claim"}
        /\ \A e \in Dispatcher \ {d} : disp'[e] = disp[e]
    BY <2>1 DEF DeliveryIInv, DeliveryTypeOK, DispatcherTypeOK, DispatcherState
  <2>3. QED
    BY <1>0, <1>1, <2>1, <2>2, SweepKeeps DEF SweepExpired
<1>2. ASSUME NEW d \in Dispatcher, SweepExhausted(d) PROVE DeliveryIInv'
  <2>1. PICK rows : Swept(rows)
    BY <1>2, SweepExhaustedEffect
  <2>2. /\ disp'[d] = [disp[d] EXCEPT !.pc = disp'[d].pc, !.room = disp'[d].room]
        /\ disp'[d].pc \in {"sweepSpent", "claim"}
        /\ \A e \in Dispatcher \ {d} : disp'[e] = disp[e]
    BY <1>2 DEF SweepExhausted, DeliveryIInv, DeliveryTypeOK, DispatcherTypeOK, DispatcherState
  <2>3. QED
    BY <1>0, <1>2, <2>1, <2>2, SweepKeeps DEF SweepExhausted
<1>3. CASE DeliveryNext
  BY <1>0, <1>1, <1>2, <1>3, StartKeeps, ClaimKeeps, BeginSendKeeps, AcceptKeeps, EndSendKeeps,
     DecideKeeps, SettleKeeps, RescheduleKeeps, LoseKeeps, AbortKeeps DEF DeliveryNext, Dispatch
<1>4. CASE Elapse
  BY <1>0, <1>4, ElapseKeeps
<1>5. CASE Requests
  BY <1>0, <1>5, PostKeeps, SpendKeeps DEF Requests
<1>6. CASE UNCHANGED deliveryVars
  BY <1>6 DEF deliveryVars, DeliveryIInv, DeliveryTypeOK, TablesTypeOK, DispatcherTypeOK,
              DispatcherSound, Stage, RowSound, Issued, Covered, Pending,
              RetryIsDue, Spent, BackoffAfter
<1>7. QED
  BY <1>3, <1>4, <1>5, <1>6 DEF DeliveryStep

LEMMA DeliveryInvariance == DeliverySpec => []DeliveryIInv
BY DeliveryInvInit, DeliveryInvStep, PTL DEF DeliverySpec, DeliveryStep

\* The invariant counts the copies that left before those that may still leave.
LEMMA CopiesCounted == DeliveryIInv => CopiesWithinAttempts
<1> SUFFICES ASSUME DeliveryIInv, NEW c \in ChallengeId
             PROVE  sent[c] <= outbox[c].attempts /\ outbox[c].attempts <= MaxAttempts
  BY DEF CopiesWithinAttempts
<1>1. /\ Cardinality(Pending(c)) \in Nat
      /\ sent[c] + Cardinality(Pending(c)) <= outbox[c].attempts
  BY FS_CardinalityType DEF DeliveryIInv, Covered
<1>2. sent[c] \in Nat /\ outbox[c].attempts \in Nat
  BY DEF DeliveryIInv, DeliveryTypeOK, TablesTypeOK, DeliveryRow
<1>3. QED
  BY <1>1, <1>2 DEF DeliveryIInv, RowSound

\* A message is attempted, and its recipient bothered, as often as the policy
\* allows at most: whatever crashes, lapses or is repeated.
THEOREM CopiesAreBounded == DeliverySpec => []CopiesWithinAttempts
BY CopiesCounted, DeliveryInvariance, PTL

\* No backoff, and no instant a request captured long ago, schedules an attempt for
\* when its challenge has expired.
THEOREM DueBeforeExpiry == DeliverySpec => []NeverScheduledPastExpiry
<1>1. DeliveryIInv => NeverScheduledPastExpiry
  BY DEF DeliveryIInv, RowSound, NeverScheduledPastExpiry
<1>2. QED
  BY <1>1, DeliveryInvariance, PTL

-----------------------------------------------------------------------------
(* What a step may never do.                                                 *)

\* A row that a statement of d could choose is not under a live lease.
LEMMA LiveIsPassedOver ==
  ASSUME DeliveryIInv, NEW d \in Dispatcher, NEW c \in ChallengeId, now < outbox[c].claimExpiresAt
  PROVE  ~Unleased(c, disp[d].at)
<1>1. /\ now \in Nat /\ disp[d].at \in Nat /\ disp[d].at <= now
      /\ outbox[c].claimExpiresAt \in Int
  BY DEF DeliveryIInv, DeliveryTypeOK, TablesTypeOK, DispatcherTypeOK, DispatcherState, DeliveryRow,
         Time, Instant, Never, DispatcherSound
<1>2. QED
  BY <1>1 DEF Unleased, Never

\* Only recording an outcome changes one row without its challenge, and it is the
\* row in hand.
LEMMA OtherRowsStand ==
  ASSUME DeliveryIInv, NEW d \in Dispatcher, SettleDelivery(d) \/ RescheduleDelivery(d),
         NEW c \in ChallengeId, outbox'[c] # outbox[c]
  PROVE  c = disp[d].current /\ disp[d].pc = "record" /\ Holds(d, c)
BY DEF SettleDelivery, RescheduleDelivery, DeliveryIInv, DeliveryTypeOK, TablesTypeOK

\* A registration transaction touches the rows of the challenges it changes.
LEMMA RequestsChangeBoth ==
  ASSUME DeliveryIInv, Requests, NEW c \in ChallengeId, outbox'[c] # outbox[c]
  PROVE  challenge'[c] # challenge[c]
<1>1. ASSUME NEW at \in 0..now, NEW a \in Address, Post(a, at) PROVE challenge'[c] # challenge[c]
  <2>1. PICK fresh \in FreshChallenge :
          /\ challenge' = Reissued(a, CurrentOf(a), fresh, at, 0)
          /\ outbox' = Requeued(CurrentOf(a), fresh, at)
    BY <1>1 DEF Post
  <2>2. fresh \in ChallengeId /\ ~Issued(fresh) /\ a # None /\ at # Never
    BY FreshIsNew, TablesAssumption DEF Never
  <2>3. CASE c = fresh
    BY <2>1, <2>2, <2>3 DEF Reissued, NewChallenge, Issued
  <2>4. CASE c # fresh
    <3>1. c \in CurrentOf(a)
      BY <2>1, <2>4 DEF Requeued
    <3>2. challenge[c].supersededAt = Never /\ challenge[c] \in ChallengeRow
      BY <3>1 DEF CurrentOf, Current, DeliveryIInv, DeliveryTypeOK, TablesTypeOK
    <3>3. challenge'[c].supersededAt = at
      BY <2>1, <2>4, <3>1, <3>2 DEF Reissued, ChallengeRow
    <3>4. QED
      BY <2>2, <3>2, <3>3
  <2>5. QED
    BY <2>3, <2>4
<1>2. ASSUME NEW at \in 0..now, NEW b \in ChallengeId, Spend(b, at) PROVE challenge'[c] # challenge[c]
  <2>1. c = b
    BY <1>2 DEF Spend, DeliveryIInv, DeliveryTypeOK, TablesTypeOK
  <2>2. challenge[c] \in ChallengeRow /\ challenge[c].consumedAt = Never /\ at # Never
    BY <1>2, <2>1 DEF Spend, Current, DeliveryIInv, DeliveryTypeOK, TablesTypeOK, Never
  <2>3. challenge'[c].consumedAt = at
    BY <1>2, <2>1, <2>2 DEF Spend, DeliveryIInv, DeliveryTypeOK, TablesTypeOK, ChallengeRow
  <2>4. QED
    BY <2>2, <2>3
<1>3. QED
  BY <1>1, <1>2 DEF Requests

\* Who may change a row under a live lease.
LEMMA LeaseStands ==
  DeliveryIInv /\ [DeliveryStep]_deliveryVars =>
    [\A c \in ChallengeId :
       /\ outbox[c].queued
       /\ outbox[c].claim # None
       /\ now < outbox[c].claimExpiresAt
       /\ outbox'[c] # outbox[c]
       => \/ challenge'[c] # challenge[c]
          \/ \E d \in Dispatcher :
               /\ disp[d].claim = outbox[c].claim
               /\ disp[d].pc = "record"
               /\ disp[d].current = c]_<<outbox, challenge, disp>>
<1>1. ASSUME DeliveryIInv, [DeliveryStep]_deliveryVars, NEW c \in ChallengeId,
             outbox[c].queued, outbox[c].claim # None, now < outbox[c].claimExpiresAt,
             outbox'[c] # outbox[c]
      PROVE  \/ challenge'[c] # challenge[c]
             \/ \E d \in Dispatcher :
                  /\ disp[d].claim = outbox[c].claim
                  /\ disp[d].pc = "record"
                  /\ disp[d].current = c
  <2>1. ASSUME NEW d \in Dispatcher, SweepExpired(d) PROVE FALSE
    <3>1. PICK rows \in SUBSET Expired(disp[d].at) : Swept(rows)
      BY <2>1, SweepExpiredEffect
    <3>2. c \in Expired(disp[d].at)
      BY <1>1, <3>1 DEF Swept
    <3>3. QED
      BY <1>1, <3>2, LiveIsPassedOver DEF Expired
  <2>2. ASSUME NEW d \in Dispatcher, SweepExhausted(d) PROVE FALSE
    <3>1. PICK rows \in SUBSET Exhausted(disp[d].at) : Swept(rows)
      BY <2>2, SweepExhaustedEffect
    <3>2. c \in Exhausted(disp[d].at)
      BY <1>1, <3>1 DEF Swept
    <3>3. QED
      BY <1>1, <3>2, LiveIsPassedOver DEF Exhausted
  <2>3. ASSUME NEW d \in Dispatcher, ClaimDeliveries(d) PROVE FALSE
    <3>1. PICK claim \in FreshClaim, rows \in SUBSET Claimable(disp[d].at) : Leased(d, claim, rows)
      BY <2>3, ClaimEffect
    <3>2. c \in Claimable(disp[d].at)
      BY <1>1, <3>1 DEF Leased
    <3>3. QED
      BY <1>1, <3>2, LiveIsPassedOver DEF Claimable
  <2>4. ASSUME NEW d \in Dispatcher, SettleDelivery(d) \/ RescheduleDelivery(d)
        PROVE  disp[d].claim = outbox[c].claim /\ disp[d].pc = "record" /\ disp[d].current = c
    BY <1>1, <2>4, OtherRowsStand DEF Holds
  <2>5. ASSUME Requests PROVE challenge'[c] # challenge[c]
    BY <1>1, <2>5, RequestsChangeBoth
  <2>6. QED
    BY <1>1, <2>1, <2>2, <2>3, <2>4, <2>5
    DEF DeliveryStep, DeliveryNext, Dispatch, StartTick, BeginSend, Accept, EndSend, Decide, LoseDelivery,
        AbortTick, Elapse, deliveryVars, tables
<1>2. QED
  BY <1>1

\* A live lease protects its row from everybody but its holder and the transactions
\* that end the challenge.
THEOREM LeasesProtect == DeliverySpec => LiveLeaseIsProtected
BY LeaseStands, DeliveryInvariance, PTL DEF DeliverySpec, DeliveryStep, LiveLeaseIsProtected

LEMMA BackoffGrows ==
  ASSUME NEW m \in Nat, NEW n \in Nat, m <= n
  PROVE  BackoffAfter(m) <= BackoffAfter(n)
BY PolicyAssumption DEF BackoffAfter

\* Why a row whose message never left is removed.
LEMMA RowsLeaveForAReason ==
  DeliveryIInv /\ [DeliveryStep]_deliveryVars =>
    [\A c \in ChallengeId :
       /\ outbox[c].queued /\ ~outbox'[c].queued
       /\ sent[c] = 0
       => \/ challenge'[c] # challenge[c]
          \/ outbox[c].attempts >= MaxAttempts
          \/ challenge[c].expiresAt <= now
          \/ /\ outbox[c].attempts > 0
             /\ now + BackoffAfter(outbox[c].attempts) >= challenge[c].expiresAt
      ]_<<now, outbox, challenge>>
<1>1. ASSUME DeliveryIInv, [DeliveryStep]_deliveryVars, NEW c \in ChallengeId,
             outbox[c].queued, ~outbox'[c].queued, sent[c] = 0
      PROVE  \/ challenge'[c] # challenge[c]
             \/ outbox[c].attempts >= MaxAttempts
             \/ challenge[c].expiresAt <= now
             \/ /\ outbox[c].attempts > 0
                /\ now + BackoffAfter(outbox[c].attempts) >= challenge[c].expiresAt
  <2>0. outbox'[c] # outbox[c]
    BY <1>1
  <2>1. ASSUME NEW d \in Dispatcher, SweepExpired(d) PROVE challenge[c].expiresAt <= now
    <3>1. PICK rows \in SUBSET Expired(disp[d].at) : Swept(rows)
      BY <2>1, SweepExpiredEffect
    <3>2. challenge[c].expiresAt <= disp[d].at
      BY <2>0, <3>1 DEF Swept, Expired
    <3>3. /\ now \in Nat /\ disp[d].at \in Nat /\ disp[d].at <= now
          /\ challenge[c].expiresAt \in Int
      BY <1>1 DEF DeliveryIInv, DeliveryTypeOK, TablesTypeOK, DispatcherTypeOK, DispatcherState, ChallengeRow,
             Time, Instant, Never, DispatcherSound
    <3>4. QED
      BY <3>2, <3>3
  <2>2. ASSUME NEW d \in Dispatcher, SweepExhausted(d) PROVE outbox[c].attempts >= MaxAttempts
    <3>1. PICK rows \in SUBSET Exhausted(disp[d].at) : Swept(rows)
      BY <2>2, SweepExhaustedEffect
    <3>2. QED
      BY <2>0, <3>1 DEF Swept, Exhausted
  <2>3. ASSUME NEW d \in Dispatcher, ClaimDeliveries(d) PROVE FALSE
    <3>1. PICK claim \in FreshClaim, rows \in SUBSET Claimable(disp[d].at) : Leased(d, claim, rows)
      BY <2>3, ClaimEffect
    <3>2. outbox[c] \in DeliveryRow
      BY <1>1 DEF DeliveryIInv, DeliveryTypeOK, TablesTypeOK
    <3>3. QED
      BY <1>1, <3>1, <3>2 DEF Leased, DeliveryRow
  <2>4. ASSUME NEW d \in Dispatcher, SettleDelivery(d)
        PROVE  \/ outbox[c].attempts >= MaxAttempts
               \/ /\ outbox[c].attempts > 0
                  /\ now + BackoffAfter(outbox[c].attempts) >= challenge[c].expiresAt
    <3>1. c = disp[d].current /\ disp[d].pc = "record" /\ DispatcherSound(d) /\ Settles(d)
      BY <1>1, <2>0, <2>4, OtherRowsStand DEF DeliveryIInv, SettleDelivery
    <3>2. ~disp[d].ok
      BY <1>1, <3>1 DEF DispatcherSound
    <3>3. disp[d].batch[c] > 0 /\ disp[d].batch[c] <= outbox[c].attempts
      BY <3>1 DEF DispatcherSound, Stage
    <3>4. /\ disp[d].batch[c] \in Nat /\ outbox[c].attempts \in Nat /\ now \in Nat
          /\ challenge[c].expiresAt \in Int
      BY <1>1 DEF DeliveryIInv, DeliveryTypeOK, TablesTypeOK, DispatcherTypeOK, DispatcherState, DeliveryRow,
             ChallengeRow, Time, Instant, Never
    <3>5. /\ BackoffAfter(disp[d].batch[c]) <= BackoffAfter(outbox[c].attempts)
          /\ BackoffAfter(disp[d].batch[c]) \in Nat /\ BackoffAfter(outbox[c].attempts) \in Nat
      BY <3>3, <3>4, BackoffGrows, BackoffTyped
    <3>6. \/ disp[d].batch[c] >= MaxAttempts
          \/ now + BackoffAfter(disp[d].batch[c]) >= challenge[c].expiresAt
      <4>1. CASE Spent(d)
        BY <3>1, <3>2, <4>1 DEF Spent
      <4>2. CASE ~Spent(d)
        BY <3>1, <3>4, <3>5, <4>2 DEF Settles, DispatcherSound, RetryIsDue
      <4>3. QED
        BY <4>1, <4>2
    <3>7. QED
      BY <3>3, <3>4, <3>5, <3>6, PolicyAssumption
  <2>5. ASSUME NEW d \in Dispatcher, RescheduleDelivery(d) PROVE FALSE
    <3>1. outbox[c] \in DeliveryRow
      BY <1>1 DEF DeliveryIInv, DeliveryTypeOK, TablesTypeOK
    <3>2. QED
      BY <1>1, <2>5, <3>1 DEF RescheduleDelivery, Released, DeliveryRow, DeliveryIInv, DeliveryTypeOK, TablesTypeOK
  <2>6. ASSUME Requests PROVE challenge'[c] # challenge[c]
    BY <1>1, <2>0, <2>6, RequestsChangeBoth
  <2>7. QED
    BY <1>1, <2>0, <2>1, <2>2, <2>3, <2>4, <2>5, <2>6
    DEF DeliveryStep, DeliveryNext, Dispatch, StartTick, BeginSend, Accept, EndSend, Decide, LoseDelivery,
        AbortTick, Elapse, deliveryVars, tables
<1>2. QED
  BY <1>1

\* A row whose message never left is removed when nothing could be carried any
\* more, and only then.
THEOREM NothingIsLost == DeliverySpec => NothingIsDroppedUnsent
BY RowsLeaveForAReason, DeliveryInvariance, PTL DEF DeliverySpec, DeliveryStep, NothingIsDroppedUnsent

-----------------------------------------------------------------------------
(* Leases long enough for the batch they protect.                            *)

\* What Validate would have to ask for: the batch is sent serially under one lease.
LeaseCoversBatch == Lease > Batch * SendTimeout

LEMMA PromptIsStep == [PromptNext]_deliveryVars => [DeliveryStep]_deliveryVars
BY DEF PromptNext, DeliveryStep

\* What n calls may take.
Span(n) == n * SendTimeout

LEMMA SpanTyped == \A n \in Nat : Span(n) \in Nat
BY PolicyAssumption DEF Span

LEMMA SpanSucc == \A n \in Nat : Span(n + 1) = Span(n) + SendTimeout
BY PolicyAssumption DEF Span

LEMMA SpanGrows == \A m, n \in Nat : m <= n => Span(m) <= Span(n)
BY PolicyAssumption DEF Span

\* The rows d has still to settle.
Unsettled(d) == {c \in ChallengeId : disp[d].batch[c] > 0}
Left(d) == Cardinality(Unsettled(d))

\* A prompt dispatcher is no later than the calls it made account for.
OnTime(d) ==
  /\ disp[d].pc \in {"sweep", "sweepSpent", "claim"} => now = disp[d].at
  /\ disp[d].pc = "send" => now + Span(Left(d)) <= disp[d].at + Span(Batch)
  /\ disp[d].pc = "sending" =>
       /\ now <= disp[d].deadline
       /\ disp[d].deadline + Span(Left(d)) <= disp[d].at + Span(Batch) + SendTimeout
  /\ disp[d].pc \in {"returned", "record"} =>
       now + Span(Left(d)) <= disp[d].at + Span(Batch) + SendTimeout

\* No two processes work under one claim, and none works without.
OwnClaim(d) ==
  /\ disp[d].pc \in {"send", "sending", "returned", "record"} => disp[d].claim \in ClaimId
  /\ \A e \in Dispatcher \ {d} : disp[d].claim # None => disp[e].claim # disp[d].claim

\* The rows still to settle answer to the claim that was made of them.
StillHeld(d) ==
  \A c \in ChallengeId :
    disp[d].batch[c] > 0 /\ outbox[c].queued =>
      /\ outbox[c].claim = disp[d].claim
      /\ outbox[c].claimExpiresAt = disp[d].at + Lease

PInv == \A d \in Dispatcher : OnTime(d) /\ OwnClaim(d) /\ StillHeld(d)

LEMMA LeftTyped ==
  ASSUME NEW d \in Dispatcher
  PROVE  IsFiniteSet(Unsettled(d)) /\ Left(d) \in Nat
BY IdentifiersAssumption, FS_Subset, FS_CardinalityType DEF Unsettled, Left

\* While a row is still to settle, the lease of its batch is alive.
LEMMA WithinLease ==
  ASSUME LeaseCoversBatch, DeliveryIInv, PInv, NEW d \in Dispatcher, NEW c \in ChallengeId,
         disp[d].batch[c] > 0
  PROVE  now < disp[d].at + Lease
<1>1. /\ now \in Nat /\ disp[d].at \in Nat /\ disp[d].deadline \in Int
      /\ disp[d].pc \in {"idle", "sweep", "sweepSpent", "claim", "send", "sending", "returned", "record"}
  BY DEF DeliveryIInv, DeliveryTypeOK, TablesTypeOK, DispatcherTypeOK, DispatcherState, Time, Instant, Never
<1>2. disp[d].pc \in {"send", "sending", "returned", "record"}
  <2>1. disp[d].batch[c] # 0
    BY DEF DeliveryIInv, DeliveryTypeOK, DispatcherTypeOK, DispatcherState
  <2>2. QED
    BY <1>1, <2>1 DEF DeliveryIInv, DispatcherSound, Stage
<1>3. Left(d) \in Nat /\ 1 <= Left(d)
  <2>1. Unsettled(d) # {}
    BY DEF Unsettled
  <2>2. Left(d) # 0
    BY <2>1, LeftTyped, FS_EmptySet DEF Left
  <2>3. QED
    BY <2>2, LeftTyped
<1>4. /\ Span(Left(d)) \in Nat /\ Span(Batch) \in Nat /\ Span(1) <= Span(Left(d))
      /\ Span(1) = SendTimeout /\ Span(Batch) < Lease
  <2>1. Span(1) = SendTimeout
    BY PolicyAssumption DEF Span
  <2>2. Span(Batch) < Lease
    BY PolicyAssumption DEF Span, LeaseCoversBatch
  <2>3. QED
    BY <1>3, <2>1, <2>2, SpanTyped, SpanGrows, PolicyAssumption
<1>5. OnTime(d)
  BY DEF PInv
<1>6. QED
  BY <1>1, <1>2, <1>3, <1>4, <1>5, PolicyAssumption DEF OnTime

\* So nobody else may choose the row.
LEMMA NobodyReclaims ==
  ASSUME LeaseCoversBatch, DeliveryIInv, PInv, NEW d \in Dispatcher, NEW e \in Dispatcher,
         NEW c \in ChallengeId, disp[d].batch[c] > 0, outbox[c].queued
  PROVE  ~Unleased(c, disp[e].at)
<1>1. outbox[c].claimExpiresAt = disp[d].at + Lease
  BY DEF PInv, StillHeld
<1>2. now < disp[d].at + Lease
  BY WithinLease
<1>3. QED
  BY <1>1, <1>2, LiveIsPassedOver

\* A dispatcher others leave alone stays on time while the clock stands.
LEMMA OnTimeStands ==
  ASSUME NEW d \in Dispatcher, OnTime(d), disp'[d] = disp[d], now' = now
  PROVE  OnTime(d)'
BY DEF OnTime, Left, Unsettled

\* Claims are given up more often than they are made.
LEMMA OwnClaimStands ==
  ASSUME DeliveryTypeOK, \A e \in Dispatcher : OwnClaim(e), NEW d \in Dispatcher,
         \A e \in Dispatcher \ {d} : disp'[e] = disp[e],
         disp'[d].claim \in {None, disp[d].claim},
         disp'[d].pc \in {"send", "sending", "returned", "record"} =>
           disp'[d].claim = disp[d].claim /\ disp[d].pc \in {"send", "sending", "returned", "record"}
  PROVE  \A e \in Dispatcher : OwnClaim(e)'
<1> TAKE e \in Dispatcher
<1>1. CASE e = d
  BY <1>1 DEF OwnClaim
<1>2. CASE e # d
  BY <1>2 DEF OwnClaim
<1>3. QED
  BY <1>1, <1>2

\* Rows that leave, or stand, are still held by whoever has them to settle.
LEMMA StillHeldStands ==
  ASSUME DeliveryTypeOK, NEW d \in Dispatcher, StillHeld(d),
         disp'[d].claim = disp[d].claim, disp'[d].at = disp[d].at,
         \A c \in ChallengeId : disp'[d].batch[c] > 0 => disp[d].batch[c] > 0,
         \A c \in ChallengeId : disp'[d].batch[c] > 0 =>
            outbox'[c] \in {outbox[c], Dequeue(outbox[c])}
  PROVE  StillHeld(d)'
<1> SUFFICES ASSUME NEW c \in ChallengeId, disp'[d].batch[c] > 0, outbox'[c].queued
             PROVE  /\ outbox'[c].claim = disp'[d].claim
                    /\ outbox'[c].claimExpiresAt = disp'[d].at + Lease
  BY DEF StillHeld
<1>1. outbox[c] \in DeliveryRow
  BY DEF DeliveryTypeOK, TablesTypeOK
<1>2. ~Dequeue(outbox[c]).queued
  BY <1>1 DEF Dequeue, DeliveryRow
<1>3. QED
  BY <1>2 DEF StillHeld

LEMMA PromptInit == DeliveryInit => PInv
BY TablesAssumption DEF DeliveryInit, TablesInit, DispatcherInit, IdleDispatcher, PInv, OnTime, OwnClaim, StillHeld

\* What d's step leaves to be shown when it is the only one that moved.
LEMMA OneIsPrompt ==
  ASSUME DeliveryIInv, PInv, NEW d \in Dispatcher,
         \A e \in Dispatcher \ {d} : disp'[e] = disp[e],
         now' = now, OnTime(d)', \A e \in Dispatcher : OwnClaim(e)', StillHeld(d)',
         \A e \in Dispatcher \ {d} : \A c \in ChallengeId :
            disp[e].batch[c] > 0 /\ outbox'[c].queued => outbox'[c] = outbox[c]
  PROVE  PInv'
<1>1. ASSUME NEW e \in Dispatcher \ {d} PROVE OnTime(e)' /\ StillHeld(e)'
  <2>1. OnTime(e)'
    BY OnTimeStands DEF PInv
  <2>2. StillHeld(e)'
    BY DEF PInv, StillHeld
  <2>3. QED
    BY <2>1, <2>2
<1>2. QED
  BY <1>1 DEF PInv

LEMMA StartIsPrompt ==
  ASSUME DeliveryIInv, PInv, NEW d \in Dispatcher, StartTick(d)
  PROVE  PInv'
<1>1. /\ disp'[d] = [IdleDispatcher EXCEPT !.pc = "sweep", !.at = now]
      /\ \A e \in Dispatcher \ {d} : disp'[e] = disp[e]
      /\ now' = now /\ outbox' = outbox
  BY DEF StartTick, tables, DeliveryIInv, DeliveryTypeOK, DispatcherTypeOK
<1>2. /\ disp'[d].pc = "sweep" /\ disp'[d].at = now /\ disp'[d].claim = None
      /\ \A c \in ChallengeId : disp'[d].batch[c] = 0
  BY <1>1 DEF IdleDispatcher
<1>3. OnTime(d)' /\ StillHeld(d)'
  BY <1>1, <1>2 DEF OnTime, StillHeld
<1>4. \A e \in Dispatcher : OwnClaim(e)'
  BY <1>1, <1>2, OwnClaimStands DEF DeliveryIInv, PInv
<1>5. QED
  BY <1>1, <1>3, <1>4, OneIsPrompt

\* A row that leaves is nobody's to settle, a row that stays is as it was.
LEMMA LeavingIsFinal ==
  ASSUME DeliveryTypeOK, NEW c \in ChallengeId, outbox'[c].queued,
         outbox'[c] \in {outbox[c], Dequeue(outbox[c])}
  PROVE  outbox'[c] = outbox[c]
<1>1. outbox[c] \in DeliveryRow
  BY DEF DeliveryTypeOK, TablesTypeOK
<1>2. ~Dequeue(outbox[c]).queued
  BY <1>1 DEF Dequeue, DeliveryRow
<1>3. QED
  BY <1>2

LEMMA SweepIsPrompt ==
  ASSUME DeliveryIInv, PInv, NEW d \in Dispatcher, NEW rows, Swept(rows),
         disp[d].pc \in {"sweep", "sweepSpent"}, disp'[d].pc \in {"sweepSpent", "claim"},
         disp'[d] = [disp[d] EXCEPT !.pc = disp'[d].pc, !.room = disp'[d].room],
         \A e \in Dispatcher \ {d} : disp'[e] = disp[e],
         now' = now
  PROVE  PInv'
<1>1. \A c \in ChallengeId : outbox'[c] \in {outbox[c], Dequeue(outbox[c])}
  BY DEF Swept
<1>2. disp[d] \in DispatcherState
  BY DEF DeliveryIInv, DeliveryTypeOK, DispatcherTypeOK
<1>3. disp'[d].claim = disp[d].claim /\ disp'[d].at = disp[d].at /\ disp'[d].batch = disp[d].batch
  BY <1>2 DEF DispatcherState
<1>4. OnTime(d)'
  BY <1>3 DEF PInv, OnTime
<1>5. StillHeld(d)'
  BY <1>1, <1>3, StillHeldStands DEF DeliveryIInv, PInv
<1>6. \A e \in Dispatcher : OwnClaim(e)'
  BY <1>3, OwnClaimStands DEF DeliveryIInv, PInv
<1>7. \A c \in ChallengeId : outbox'[c].queued => outbox'[c] = outbox[c]
  BY <1>1, LeavingIsFinal DEF DeliveryIInv
<1>8. QED
  BY <1>4, <1>5, <1>6, <1>7, OneIsPrompt

\* A batch is claimed at the tick's instant, and is no larger than its calls were
\* provided for.
LEMMA ClaimIsPrompt ==
  ASSUME LeaseCoversBatch, DeliveryIInv, PInv, NEW d \in Dispatcher, ClaimDeliveries(d)
  PROVE  PInv'
<1>1. PICK claim \in FreshClaim, rows \in SUBSET Claimable(disp[d].at) :
         /\ Cardinality(rows) <= Batch
         /\ Leased(d, claim, rows)
         /\ IF rows = {} THEN EndTick(d) ELSE Carries(d, claim, rows)
  BY ClaimEffect
<1>2. /\ now' = now /\ disp[d].pc = "claim" /\ disp[d] \in DispatcherState
      /\ now = disp[d].at /\ now \in Nat
  BY DEF ClaimDeliveries, DeliveryIInv, DeliveryTypeOK, DispatcherTypeOK, TablesTypeOK, Time, PInv, OnTime
<1>3. ASSUME NEW e \in Dispatcher, NEW c \in ChallengeId,
             disp[e].batch[c] > 0, outbox'[c].queued
      PROVE  outbox'[c] = outbox[c]
  <2>1. outbox[c] \in DeliveryRow
    BY DEF DeliveryIInv, DeliveryTypeOK, TablesTypeOK
  <2>2. outbox[c].queued
    BY <1>1, <1>3, <2>1 DEF Leased, DeliveryRow
  <2>3. c \notin rows
    BY <1>3, <2>2, NobodyReclaims DEF Claimable
  <2>4. QED
    BY <1>1, <2>3 DEF Leased
<1>4. CASE rows = {}
  <2>1. EndTick(d)
    BY <1>1, <1>4
  <2>2. disp'[d] = IdleDispatcher /\ \A e \in Dispatcher \ {d} : disp'[e] = disp[e]
    BY <2>1 DEF EndTick, DeliveryIInv, DeliveryTypeOK, DispatcherTypeOK
  <2>3. OnTime(d)' /\ StillHeld(d)'
    BY <2>2 DEF OnTime, StillHeld, IdleDispatcher
  <2>4. \A e \in Dispatcher : OwnClaim(e)'
    BY <2>2, OwnClaimStands DEF DeliveryIInv, PInv, IdleDispatcher
  <2>5. QED
    BY <1>2, <1>3, <2>2, <2>3, <2>4, OneIsPrompt
<1>5. CASE rows # {}
  <2>1. Carries(d, claim, rows)
    BY <1>1, <1>5
  <2>2. /\ disp'[d].pc = "send" /\ disp'[d].at = disp[d].at /\ disp'[d].claim = claim
        /\ disp'[d].batch = [c \in ChallengeId |-> IF c \in rows THEN outbox[c].attempts + 1 ELSE 0]
        /\ \A e \in Dispatcher \ {d} : disp'[e] = disp[e]
    BY <1>2, <2>1 DEF Carries, DeliveryIInv, DeliveryTypeOK, DispatcherTypeOK, DispatcherState
  <2>3. /\ \A c \in ChallengeId : outbox[c].attempts \in Nat
        /\ \A c \in rows : c \in ChallengeId
    BY DEF DeliveryIInv, DeliveryTypeOK, TablesTypeOK, DeliveryRow, Claimable
  <2>4. Unsettled(d)' = rows
    BY <2>2, <2>3 DEF Unsettled
  <2>5. OnTime(d)'
    <3>1. IsFiniteSet(rows) /\ Cardinality(rows) \in Nat
      BY <2>3, IdentifiersAssumption, FS_Subset, FS_CardinalityType
    <3>2. /\ Span(Cardinality(rows)) <= Span(Batch)
          /\ Span(Cardinality(rows)) \in Nat /\ Span(Batch) \in Nat
      BY <1>1, <3>1, SpanGrows, SpanTyped, PolicyAssumption
    <3>3. now + Span(Cardinality(rows)) <= disp[d].at + Span(Batch)
      BY <1>2, <3>2
    <3>4. QED
      BY <1>2, <2>2, <2>4, <3>3 DEF OnTime, Left
  <2>6. claim \in ClaimId /\ \A e \in Dispatcher : disp[e].claim # claim
    BY FreshIsUnclaimed
  <2>7. ASSUME NEW e \in Dispatcher PROVE OwnClaim(e)'
    BY <2>2, <2>6 DEF PInv, OwnClaim
  <2>8. StillHeld(d)'
    <3>1. ASSUME NEW c \in rows
          PROVE  outbox'[c].claim = claim /\ outbox'[c].claimExpiresAt = disp[d].at + Lease
      <4>1. outbox[c] \in DeliveryRow
        BY <2>3 DEF DeliveryIInv, DeliveryTypeOK, TablesTypeOK
      <4>2. QED
        BY <1>1, <2>3, <4>1 DEF Leased, DeliveryRow
    <3>2. \A c \in ChallengeId : disp'[d].batch[c] > 0 => c \in rows
      BY <2>2
    <3>3. QED
      BY <2>2, <3>1, <3>2 DEF StillHeld
  <2>9. QED
    BY <1>2, <1>3, <2>2, <2>5, <2>7, <2>8, OneIsPrompt
<1>6. QED
  BY <1>4, <1>5

LEMMA BeginSendIsPrompt ==
  ASSUME DeliveryIInv, PInv, NEW d \in Dispatcher, BeginSend(d)
  PROVE  PInv'
<1>1. PICK b \in ChallengeId :
        disp' = [disp EXCEPT ![d].pc = "sending", ![d].current = b,
                   ![d].deadline = now + SendTimeout]
  BY DEF BeginSend
<1>2. disp[d] \in DispatcherState /\ disp[d].pc = "send" /\ now' = now /\ outbox' = outbox
  BY DEF BeginSend, tables, DeliveryIInv, DeliveryTypeOK, DispatcherTypeOK
<1>3. /\ disp'[d].pc = "sending" /\ disp'[d].deadline = now + SendTimeout
      /\ disp'[d].at = disp[d].at /\ disp'[d].claim = disp[d].claim
      /\ disp'[d].batch = disp[d].batch
      /\ \A e \in Dispatcher \ {d} : disp'[e] = disp[e]
  BY <1>1, <1>2 DEF DeliveryIInv, DeliveryTypeOK, DispatcherTypeOK, DispatcherState
<1>4. OnTime(d)'
  <2>1. Left(d)' = Left(d)
    BY <1>3 DEF Left, Unsettled
  <2>2. /\ now \in Nat /\ disp[d].at \in Nat /\ Span(Left(d)) \in Nat /\ Span(Batch) \in Nat
        /\ SendTimeout \in Nat /\ now + Span(Left(d)) <= disp[d].at + Span(Batch)
    BY <1>2, LeftTyped, SpanTyped, PolicyAssumption
    DEF DeliveryIInv, DeliveryTypeOK, TablesTypeOK, DispatcherState, Time, PInv, OnTime
  <2>3. /\ now <= now + SendTimeout
        /\ now + SendTimeout + Span(Left(d)) <= disp[d].at + Span(Batch) + SendTimeout
    BY <2>2
  <2>4. QED
    BY <1>2, <1>3, <2>1, <2>3 DEF OnTime
<1>5. StillHeld(d)'
  BY <1>2, <1>3 DEF PInv, StillHeld
<1>6. \A e \in Dispatcher : OwnClaim(e)'
  BY <1>2, <1>3, OwnClaimStands DEF DeliveryIInv, PInv
<1>7. QED
  BY <1>2, <1>3, <1>4, <1>5, <1>6, OneIsPrompt

LEMMA AcceptIsPrompt ==
  ASSUME DeliveryIInv, PInv, NEW d \in Dispatcher, Accept(d)
  PROVE  PInv'
<1>1. /\ disp[d] \in DispatcherState /\ disp[d].pc = "sending" /\ now' = now /\ outbox' = outbox
  BY DEF Accept, DeliveryIInv, DeliveryTypeOK, DispatcherTypeOK
<1>2. /\ disp'[d].pc = disp[d].pc /\ disp'[d].deadline = disp[d].deadline
      /\ disp'[d].at = disp[d].at /\ disp'[d].claim = disp[d].claim
      /\ disp'[d].batch = disp[d].batch
      /\ \A e \in Dispatcher \ {d} : disp'[e] = disp[e]
  BY <1>1 DEF Accept, DeliveryIInv, DeliveryTypeOK, DispatcherTypeOK, DispatcherState
<1>3. OnTime(d)'
  BY <1>1, <1>2 DEF PInv, OnTime, Left, Unsettled
<1>4. StillHeld(d)'
  BY <1>1, <1>2 DEF PInv, StillHeld
<1>5. \A e \in Dispatcher : OwnClaim(e)'
  BY <1>2, OwnClaimStands DEF DeliveryIInv, PInv
<1>6. QED
  BY <1>1, <1>2, <1>3, <1>4, <1>5, OneIsPrompt

LEMMA EndSendIsPrompt ==
  ASSUME DeliveryIInv, PInv, NEW d \in Dispatcher, EndSend(d)
  PROVE  PInv'
<1>1. PICK ok \in {disp[d].accepted, FALSE} :
        disp' = [disp EXCEPT ![d].pc = "returned", ![d].ok = ok,
                   ![d].deadline = Never, ![d].accepted = FALSE]
  BY DEF EndSend
<1>2. disp[d] \in DispatcherState /\ disp[d].pc = "sending" /\ now' = now /\ outbox' = outbox
  BY DEF EndSend, tables, DeliveryIInv, DeliveryTypeOK, DispatcherTypeOK
<1>3. /\ disp'[d].pc = "returned"
      /\ disp'[d].at = disp[d].at /\ disp'[d].claim = disp[d].claim
      /\ disp'[d].batch = disp[d].batch
      /\ \A e \in Dispatcher \ {d} : disp'[e] = disp[e]
  BY <1>1, <1>2 DEF DeliveryIInv, DeliveryTypeOK, DispatcherTypeOK, DispatcherState
<1>4. OnTime(d)'
  <2>1. Left(d)' = Left(d)
    BY <1>3 DEF Left, Unsettled
  <2>2. /\ now \in Nat /\ disp[d].at \in Nat /\ Span(Left(d)) \in Nat /\ Span(Batch) \in Nat
        /\ SendTimeout \in Nat /\ disp[d].deadline \in Int /\ now <= disp[d].deadline
        /\ disp[d].deadline + Span(Left(d)) <= disp[d].at + Span(Batch) + SendTimeout
    BY <1>2, LeftTyped, SpanTyped, PolicyAssumption
    DEF DeliveryIInv, DeliveryTypeOK, TablesTypeOK, DispatcherState, Time, Instant, Never, PInv, OnTime
  <2>3. now + Span(Left(d)) <= disp[d].at + Span(Batch) + SendTimeout
    BY <2>2
  <2>4. QED
    BY <1>2, <1>3, <2>1, <2>3 DEF OnTime
<1>5. StillHeld(d)'
  BY <1>2, <1>3 DEF PInv, StillHeld
<1>6. \A e \in Dispatcher : OwnClaim(e)'
  BY <1>2, <1>3, OwnClaimStands DEF DeliveryIInv, PInv
<1>7. QED
  BY <1>2, <1>3, <1>4, <1>5, <1>6, OneIsPrompt

LEMMA DecideIsPrompt ==
  ASSUME DeliveryIInv, PInv, NEW d \in Dispatcher, Decide(d)
  PROVE  PInv'
<1>1. disp[d] \in DispatcherState /\ disp[d].pc = "returned" /\ now' = now /\ outbox' = outbox
  BY DEF Decide, tables, DeliveryIInv, DeliveryTypeOK, DispatcherTypeOK
<1>2. /\ disp'[d].pc = "record"
      /\ disp'[d].at = disp[d].at /\ disp'[d].claim = disp[d].claim
      /\ disp'[d].batch = disp[d].batch
      /\ \A e \in Dispatcher \ {d} : disp'[e] = disp[e]
  BY <1>1 DEF Decide, DeliveryIInv, DeliveryTypeOK, DispatcherTypeOK, DispatcherState
<1>3. OnTime(d)'
  BY <1>1, <1>2 DEF PInv, OnTime, Left, Unsettled
<1>4. StillHeld(d)'
  BY <1>1, <1>2 DEF PInv, StillHeld
<1>5. \A e \in Dispatcher : OwnClaim(e)'
  BY <1>1, <1>2, OwnClaimStands DEF DeliveryIInv, PInv
<1>6. QED
  BY <1>1, <1>2, <1>3, <1>4, <1>5, OneIsPrompt

\* A tick that ends, wherever it stands.
LEMMA EndIsPrompt ==
  ASSUME DeliveryIInv, PInv, NEW d \in Dispatcher, EndTick(d), now' = now,
         \A e \in Dispatcher \ {d} : \A c \in ChallengeId :
            disp[e].batch[c] > 0 /\ outbox'[c].queued => outbox'[c] = outbox[c]
  PROVE  PInv'
<1>1. disp'[d] = IdleDispatcher /\ \A e \in Dispatcher \ {d} : disp'[e] = disp[e]
  BY DEF EndTick, DeliveryIInv, DeliveryTypeOK, DispatcherTypeOK
<1>2. OnTime(d)' /\ StillHeld(d)'
  BY <1>1 DEF OnTime, StillHeld, IdleDispatcher
<1>3. \A e \in Dispatcher : OwnClaim(e)'
  BY <1>1, OwnClaimStands DEF DeliveryIInv, PInv, IdleDispatcher
<1>4. QED
  BY <1>1, <1>2, <1>3, OneIsPrompt

\* An outcome recorded makes room for one more call.
LEMMA RecordIsPrompt ==
  ASSUME DeliveryIInv, PInv, NEW d \in Dispatcher, disp[d].pc = "record", Advance(d), now' = now,
         \A c \in ChallengeId \ {disp[d].current} : outbox'[c] = outbox[c],
         \A e \in Dispatcher \ {d} : \A c \in ChallengeId :
            disp[e].batch[c] > 0 /\ outbox'[c].queued => outbox'[c] = outbox[c]
  PROVE  PInv'
<1> DEFINE rest == [disp[d].batch EXCEPT ![disp[d].current] = 0]
<1>1. CASE EndTick(d)
  BY <1>1, EndIsPrompt
<1>2. CASE disp' = [disp EXCEPT ![d].pc = "send", ![d].batch = rest,
                                ![d].current = None, ![d].ok = FALSE, ![d].next = Never]
  <2>1. /\ disp[d] \in DispatcherState
        /\ disp[d].batch \in [ChallengeId -> 0..MaxAttempts]
    BY DEF DeliveryIInv, DeliveryTypeOK, DispatcherTypeOK, DispatcherState
  <2>2. /\ disp'[d].pc = "send" /\ disp'[d].batch = rest /\ disp'[d].at = disp[d].at
        /\ disp'[d].claim = disp[d].claim
        /\ \A e \in Dispatcher \ {d} : disp'[e] = disp[e]
    BY <1>2, <2>1 DEF DeliveryIInv, DeliveryTypeOK, DispatcherTypeOK, DispatcherState
  <2>3. PICK b \in ChallengeId : b = disp[d].current /\ disp[d].batch[b] > 0
    BY DEF DeliveryIInv, DispatcherSound, Stage
  <2>4. ASSUME NEW c \in ChallengeId PROVE rest[c] = IF c = b THEN 0 ELSE disp[d].batch[c]
    BY <2>1, <2>3
  <2>5. Unsettled(d)' = Unsettled(d) \ {b} /\ b \in Unsettled(d)
    BY <2>2, <2>3, <2>4 DEF Unsettled
  <2>6. OnTime(d)'
    <3>1. /\ Left(d)' = Left(d) - 1 /\ Left(d)' \in Nat /\ Left(d) \in Nat
      <4>1. Cardinality(Unsettled(d) \ {b}) = Cardinality(Unsettled(d)) - 1
        BY <2>5, LeftTyped, FS_RemoveElement
      <4>2. Cardinality(Unsettled(d) \ {b}) \in Nat
        BY LeftTyped, FS_RemoveElement, FS_CardinalityType
      <4>3. QED
        BY <2>5, <4>1, <4>2, LeftTyped DEF Left
    <3>2. PICK n \in Nat : n = Left(d)' /\ Left(d) = n + 1
      BY <3>1
    <3>3. Span(Left(d)) = Span(n) + SendTimeout /\ Span(n) \in Nat
      BY <3>2, SpanSucc, SpanTyped
    <3>4. /\ now \in Nat /\ disp[d].at \in Nat /\ Span(Batch) \in Nat /\ SendTimeout \in Nat
          /\ now + Span(Left(d)) <= disp[d].at + Span(Batch) + SendTimeout
      BY <2>1, SpanTyped, PolicyAssumption
      DEF DeliveryIInv, DeliveryTypeOK, TablesTypeOK, DispatcherState, Time, PInv, OnTime
    <3>5. now + Span(n) <= disp[d].at + Span(Batch)
      BY <3>3, <3>4
    <3>6. QED
      BY <2>2, <3>2, <3>5 DEF OnTime
  <2>7. StillHeld(d)'
    BY <2>2, <2>3, <2>4 DEF PInv, StillHeld
  <2>8. \A e \in Dispatcher : OwnClaim(e)'
    BY <2>2, OwnClaimStands DEF DeliveryIInv, PInv
  <2>9. QED
    BY <2>2, <2>6, <2>7, <2>8, OneIsPrompt
<1>3. QED
  BY <1>1, <1>2 DEF Advance

LEMMA SettleIsPrompt ==
  ASSUME DeliveryIInv, PInv, NEW d \in Dispatcher, SettleDelivery(d)
  PROVE  PInv'
<1>1. \A c \in ChallengeId : outbox'[c] \in {outbox[c], Dequeue(outbox[c])}
  BY DEF SettleDelivery, DeliveryIInv, DeliveryTypeOK, TablesTypeOK
<1>2. \A c \in ChallengeId : outbox'[c].queued => outbox'[c] = outbox[c]
  BY <1>1, LeavingIsFinal DEF DeliveryIInv
<1>3. \A c \in ChallengeId \ {disp[d].current} : outbox'[c] = outbox[c]
  BY DEF SettleDelivery, DeliveryIInv, DeliveryTypeOK, TablesTypeOK
<1>4. QED
  BY <1>2, <1>3, RecordIsPrompt DEF SettleDelivery

\* The row that is released was under d's claim, so under nobody else's.
LEMMA RescheduleIsPrompt ==
  ASSUME DeliveryIInv, PInv, NEW d \in Dispatcher, RescheduleDelivery(d)
  PROVE  PInv'
<1>1. /\ disp[d].pc = "record" /\ Advance(d) /\ now' = now
      /\ Holds(d, disp[d].current)
      /\ \A c \in ChallengeId \ {disp[d].current} : outbox'[c] = outbox[c]
  BY DEF RescheduleDelivery, DeliveryIInv, DeliveryTypeOK, TablesTypeOK
<1>2. ASSUME NEW e \in Dispatcher \ {d}, NEW c \in ChallengeId, disp[e].batch[c] > 0
      PROVE  outbox'[c] = outbox[c]
  <2>1. CASE c = disp[d].current
    <3>1. outbox[c].queued /\ outbox[c].claim = disp[d].claim
      BY <1>1, <2>1 DEF Holds
    <3>2. outbox[c].claim = disp[e].claim
      BY <1>2, <3>1 DEF PInv, StillHeld
    <3>3. disp[d].claim \in ClaimId /\ None \notin ClaimId
      BY <1>1, TablesAssumption DEF PInv, OwnClaim
    <3>4. disp[e].claim # disp[d].claim
      BY <3>3 DEF PInv, OwnClaim
    <3>5. QED
      BY <3>1, <3>2, <3>4
  <2>2. CASE c # disp[d].current
    BY <1>1, <2>2
  <2>3. QED
    BY <2>1, <2>2
<1>3. QED
  BY <1>1, <1>2, RecordIsPrompt

\* Time passes for the idle and for those whose call has time left.
LEMMA ElapseIsPrompt ==
  ASSUME DeliveryIInv, PInv, Undelayed, Elapse
  PROVE  PInv'
<1>1. now' = now + 1 /\ outbox' = outbox /\ disp' = disp
  BY DEF Elapse, tables
<1>2. ASSUME NEW d \in Dispatcher PROVE OnTime(d)'
  <2>1. disp[d].pc = "idle" \/ disp[d].pc = "sending"
    BY DEF Undelayed
  <2>2. now \in Nat /\ disp[d].deadline \in Int
    BY DEF DeliveryIInv, DeliveryTypeOK, TablesTypeOK, DispatcherTypeOK, DispatcherState, Time, Instant, Never
  <2>3. disp[d].pc = "sending" => now + 1 <= disp[d].deadline
    BY <2>2 DEF Elapse
  <2>4. QED
    BY <1>1, <2>1, <2>3 DEF PInv, OnTime, Left, Unsettled
<1>3. ASSUME NEW d \in Dispatcher PROVE OwnClaim(d)' /\ StillHeld(d)'
  BY <1>1 DEF PInv, OwnClaim, StillHeld
<1>4. QED
  BY <1>2, <1>3 DEF PInv

\* A registration transaction removes rows, and queues one nobody has claimed.
LEMMA RequestsArePrompt ==
  ASSUME DeliveryIInv, PInv, Requests
  PROVE  PInv'
<1>1. now' = now /\ disp' = disp
  BY DEF Requests, Post, Spend
<1>2. ASSUME NEW d \in Dispatcher, NEW c \in ChallengeId, disp[d].batch[c] > 0, outbox'[c].queued
      PROVE  outbox'[c] = outbox[c]
  <2>1. ASSUME NEW at \in 0..now, NEW a \in Address, Post(a, at)
        PROVE  outbox'[c] \in {outbox[c], Dequeue(outbox[c])}
    <3>1. PICK fresh \in FreshChallenge : outbox' = Requeued(CurrentOf(a), fresh, at)
      BY <2>1 DEF Post
    <3>2. disp[d].batch[c] \in Nat /\ disp[d].batch[c] <= outbox[c].attempts
      BY DEF DeliveryIInv, DeliveryTypeOK, DispatcherTypeOK, DispatcherState, DispatcherSound
    <3>3. c # fresh
      BY <1>2, <3>2, FreshIsNew DEF DeliveryIInv, RowSound
    <3>4. QED
      BY <3>1, <3>3 DEF Requeued
  <2>2. ASSUME NEW at \in 0..now, NEW b \in ChallengeId, Spend(b, at)
        PROVE  outbox'[c] \in {outbox[c], Dequeue(outbox[c])}
    BY <2>2 DEF Spend, DeliveryIInv, DeliveryTypeOK, TablesTypeOK
  <2>3. QED
    BY <1>2, <2>1, <2>2, LeavingIsFinal DEF Requests, DeliveryIInv
<1>3. ASSUME NEW d \in Dispatcher PROVE OnTime(d)' /\ OwnClaim(d)' /\ StillHeld(d)'
  BY <1>1, <1>2 DEF PInv, OnTime, Left, Unsettled, OwnClaim, StillHeld
<1>4. QED
  BY <1>3 DEF PInv

LEMMA PromptKeeps ==
  ASSUME LeaseCoversBatch
  PROVE  DeliveryIInv /\ PInv /\ [PromptNext]_deliveryVars => PInv'
<1> SUFFICES ASSUME DeliveryIInv, PInv, [PromptNext]_deliveryVars PROVE PInv'
  OBVIOUS
<1>1. ASSUME NEW d \in Dispatcher, SweepExpired(d) PROVE PInv'
  <2>1. PICK rows \in SUBSET Expired(disp[d].at) :
           /\ Swept(rows)
           /\ disp' = [disp EXCEPT ![d].room = Batch - Cardinality(rows),
                         ![d].pc = IF Cardinality(rows) < Batch
                                   THEN "sweepSpent" ELSE "claim"]
    BY <1>1, SweepExpiredEffect
  <2>2. /\ disp'[d] = [disp[d] EXCEPT !.pc = disp'[d].pc, !.room = disp'[d].room]
        /\ disp'[d].pc \in {"sweepSpent", "claim"}
        /\ \A e \in Dispatcher \ {d} : disp'[e] = disp[e]
    BY <2>1 DEF DeliveryIInv, DeliveryTypeOK, DispatcherTypeOK, DispatcherState
  <2>3. QED
    BY <1>1, <2>1, <2>2, SweepIsPrompt DEF SweepExpired
<1>2. ASSUME NEW d \in Dispatcher, SweepExhausted(d) PROVE PInv'
  <2>1. PICK rows : Swept(rows)
    BY <1>2, SweepExhaustedEffect
  <2>2. /\ disp'[d] = [disp[d] EXCEPT !.pc = disp'[d].pc, !.room = disp'[d].room]
        /\ disp'[d].pc \in {"sweepSpent", "claim"}
        /\ \A e \in Dispatcher \ {d} : disp'[e] = disp[e]
    BY <1>2 DEF SweepExhausted, DeliveryIInv, DeliveryTypeOK, DispatcherTypeOK, DispatcherState
  <2>3. QED
    BY <1>2, <2>1, <2>2, SweepIsPrompt DEF SweepExhausted
<1>3. ASSUME NEW d \in Dispatcher, LoseDelivery(d) PROVE PInv'
  BY <1>3, RecordIsPrompt DEF LoseDelivery, tables
<1>4. ASSUME NEW d \in Dispatcher, AbortTick(d) PROVE PInv'
  BY <1>4, EndIsPrompt DEF AbortTick, tables
<1>5. CASE DeliveryNext
  BY <1>1, <1>2, <1>3, <1>4, <1>5, StartIsPrompt, ClaimIsPrompt, BeginSendIsPrompt, AcceptIsPrompt,
     EndSendIsPrompt, DecideIsPrompt, SettleIsPrompt, RescheduleIsPrompt DEF DeliveryNext, Dispatch
<1>6. CASE Requests
  BY <1>6, RequestsArePrompt
<1>7. CASE Undelayed /\ Elapse
  BY <1>7, ElapseIsPrompt
<1>8. CASE UNCHANGED deliveryVars
  BY <1>8 DEF deliveryVars, PInv, OnTime, Left, Unsettled, OwnClaim, StillHeld
<1>9. QED
  BY <1>5, <1>6, <1>7, <1>8 DEF PromptNext

\* With a lease that outlasts a whole batch of calls, and dispatchers that only their
\* calls delay, no row is reclaimed while it is being sent.
THEOREM LongLeasesSuffice ==
  ASSUME LeaseCoversBatch
  PROVE  PromptSpec => []NoReclaimInFlight
<1>1. DeliveryInit => DeliveryIInv /\ PInv
  BY DeliveryInvInit, PromptInit
<1>2. DeliveryIInv /\ PInv /\ [PromptNext]_deliveryVars => DeliveryIInv' /\ PInv'
  BY PromptIsStep, DeliveryInvStep, PromptKeeps
<1>3. DeliveryIInv /\ PInv => NoReclaimInFlight
  <2> SUFFICES ASSUME DeliveryIInv, PInv, NEW d \in Dispatcher,
                      disp[d].pc = "sending", outbox[disp[d].current].queued
               PROVE  outbox[disp[d].current].claim = disp[d].claim
    BY DEF NoReclaimInFlight
  <2>1. disp[d].current \in ChallengeId /\ disp[d].batch[disp[d].current] > 0
    BY DEF DeliveryIInv, DispatcherSound, Stage
  <2>2. QED
    BY <2>1 DEF PInv, StillHeld
<1>4. QED
  BY <1>1, <1>2, <1>3, PTL DEF PromptSpec
=============================================================================
