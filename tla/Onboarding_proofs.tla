--------------------------- MODULE Onboarding_proofs ---------------------------
(***************************************************************************)
(* Requests and dispatchers on the same tables: each component is shown to *)
(* do to the other only what the other expects, for any number of either,  *)
(* and what was proved of each alone is then proved of both together.      *)
(***************************************************************************)
EXTENDS Onboarding, Registration_proofs, Delivery_proofs

-----------------------------------------------------------------------------
(* Type correctness.                                                         *)

LEMMA TypeInit == Init => TypeOK
BY RegistrationTypeInit, DeliveryTypeInit
DEF Init, RegistrationInit, DeliveryInit, TypeOK, RegistrationTypeOK, DeliveryTypeOK

LEMMA TypeStep == TypeOK /\ [Next]_vars => TypeOK'
<1> SUFFICES ASSUME TypeOK, [Next]_vars PROVE TypeOK'
  OBVIOUS
<1>1. RegistrationTypeOK /\ DeliveryTypeOK
  BY DEF TypeOK, RegistrationTypeOK, DeliveryTypeOK
<1>2. CASE RegistrationNext /\ UNCHANGED disp
  <2>1. RegistrationTypeOK'
    BY <1>1, <1>2, RegistrationTypeStep DEF RegistrationStep
  <2>2. DispatcherTypeOK'
    BY <1>2 DEF TypeOK, DispatcherTypeOK
  <2>3. QED
    BY <2>1, <2>2 DEF TypeOK, RegistrationTypeOK
<1>3. CASE (DeliveryNext \/ Elapse) /\ UNCHANGED <<account, req>>
  <2>1. DeliveryTypeOK'
    BY <1>1, <1>3, DeliveryTypeStep DEF DeliveryStep
  <2>2. RequestTypeOK'
    BY <1>3 DEF TypeOK, RequestTypeOK
  <2>3. QED
    BY <2>1, <2>2 DEF TypeOK, DeliveryTypeOK
<1>4. CASE UNCHANGED vars
  BY <1>4 DEF vars, TypeOK, TablesTypeOK, RequestTypeOK, DispatcherTypeOK
<1>5. QED
  BY <1>2, <1>3, <1>4 DEF Next

-----------------------------------------------------------------------------
(* What a dispatcher carries.                                                *)

\* A dispatcher carries messages of issued challenges only, and calls the transport
\* about one of them.
CarriesIssued(d) ==
  /\ Stage(disp[d])
  /\ \A c \in ChallengeId : disp[d].batch[c] > 0 => Issued(c)

Carriage == \A d \in Dispatcher : CarriesIssued(d)

\* What every step of one dispatcher does to it, and to the others: only a decision
\* leaves it about to record an outcome.
Moves(d) ==
  /\ \A e \in Dispatcher \ {d} : disp'[e] = disp[e]
  /\ Stage(disp'[d])
  /\ \A c \in ChallengeId : disp'[d].batch[c] > 0 => disp[d].batch[c] > 0 \/ Issued(c)
  /\ disp'[d].pc = "record" => Decide(d)

LEMMA Ends ==
  ASSUME DispatcherTypeOK, NEW d \in Dispatcher, EndTick(d)
  PROVE  Moves(d)
BY DEF EndTick, DispatcherTypeOK, Moves, Stage, IdleDispatcher

LEMMA MovesOn ==
  ASSUME DispatcherTypeOK, NEW d \in Dispatcher, disp[d].pc = "record", Stage(disp[d]), Advance(d)
  PROVE  Moves(d)
<1> DEFINE rest == [disp[d].batch EXCEPT ![disp[d].current] = 0]
           s == [disp[d] EXCEPT !.pc = "send", !.batch = rest, !.current = None, !.ok = FALSE,
                               !.next = Never]
<1>1. CASE EndTick(d)
  BY <1>1, Ends
<1>2. CASE disp' = [disp EXCEPT ![d].pc = "send", ![d].batch = rest,
                                ![d].current = None, ![d].ok = FALSE, ![d].next = Never]
  <2>1. /\ disp[d] \in DispatcherState
        /\ disp[d].batch \in [ChallengeId -> 0..MaxAttempts]
    BY DEF DispatcherTypeOK, DispatcherState
  <2>2. disp'[d] = s /\ \A e \in Dispatcher \ {d} : disp'[e] = disp[e]
    BY <1>2 DEF DispatcherTypeOK
  <2>3. \A c \in ChallengeId : rest[c] = IF c = disp[d].current THEN 0 ELSE disp[d].batch[c]
    BY <2>1
  <2>4. s.pc = "send" /\ s.batch = rest /\ s.accepted = disp[d].accepted /\ ~disp[d].accepted
    BY <2>1 DEF DispatcherState, Stage
  <2>5. QED
    BY <2>2, <2>3, <2>4 DEF Moves, Stage
<1>3. QED
  BY <1>1, <1>2 DEF Advance

LEMMA DispatcherMoves ==
  ASSUME TypeOK, NEW d \in Dispatcher, Stage(disp[d]),
         StartTick(d) \/ Dispatch(d) \/ Accept(d) \/ AbortTick(d)
  PROVE  Moves(d)
<1>1. /\ DispatcherTypeOK /\ disp[d] \in DispatcherState
      /\ disp[d].batch \in [ChallengeId -> 0..MaxAttempts]
  BY DEF TypeOK, DispatcherTypeOK, DispatcherState
<1>2. CASE StartTick(d)
  BY <1>1, <1>2 DEF StartTick, DispatcherTypeOK, Moves, Stage, IdleDispatcher
<1>3. CASE SweepExpired(d)
  <2>1. PICK rows \in SUBSET Expired(disp[d].at) :
          disp' = [disp EXCEPT ![d].room = Batch - Cardinality(rows),
                     ![d].pc = IF Cardinality(rows) < Batch THEN "sweepSpent" ELSE "claim"]
    BY <1>3, SweepExpiredEffect
  <2>2. disp[d].pc = "sweep"
    BY <1>3 DEF SweepExpired
  <2>3. QED
    BY <1>1, <2>1, <2>2 DEF DispatcherTypeOK, DispatcherState, Moves, Stage
<1>4. CASE SweepExhausted(d)
  BY <1>1, <1>4 DEF SweepExhausted, DispatcherTypeOK, DispatcherState, Moves, Stage
<1>5. CASE ClaimDeliveries(d)
  <2>1. PICK claim \in FreshClaim, rows \in SUBSET Claimable(disp[d].at) :
          IF rows = {} THEN EndTick(d) ELSE Carries(d, claim, rows)
    BY <1>5, ClaimEffect
  <2>2. disp[d].pc = "claim"
    BY <1>5 DEF ClaimDeliveries
  <2>3. CASE EndTick(d)
    BY <1>1, <2>3, Ends
  <2>4. CASE Carries(d, claim, rows)
    <3>1. /\ disp'[d].pc = "send" /\ disp'[d].accepted = disp[d].accepted
          /\ \A c \in ChallengeId :
               disp'[d].batch[c] = IF c \in rows THEN outbox[c].attempts + 1 ELSE 0
          /\ \A e \in Dispatcher \ {d} : disp'[e] = disp[e]
      BY <1>1, <2>4 DEF Carries, DispatcherTypeOK, DispatcherState
    <3>2. \A c \in rows : Issued(c)
      BY DEF Claimable, Current
    <3>3. QED
      BY <2>2, <3>1, <3>2 DEF Moves, Stage
  <2>5. QED
    BY <2>1, <2>3, <2>4
<1>6. CASE BeginSend(d)
  BY <1>1, <1>6 DEF BeginSend, DispatcherTypeOK, DispatcherState, Moves, Stage
<1>7. CASE EndSend(d)
  BY <1>1, <1>7 DEF EndSend, DispatcherTypeOK, DispatcherState, Moves, Stage
<1>8. CASE SettleDelivery(d) \/ RescheduleDelivery(d) \/ LoseDelivery(d)
  BY <1>1, <1>8, MovesOn DEF SettleDelivery, RescheduleDelivery, LoseDelivery
<1>9. CASE Accept(d)
  BY <1>1, <1>9 DEF Accept, DispatcherTypeOK, DispatcherState, Moves, Stage
<1>10. CASE AbortTick(d)
  BY <1>1, <1>10, Ends DEF AbortTick
<1>11. CASE Decide(d)
  BY <1>1, <1>11 DEF Decide, DispatcherTypeOK, DispatcherState, Moves, Stage
<1>12. QED
  BY <1>2, <1>3, <1>4, <1>5, <1>6, <1>7, <1>8, <1>9, <1>10, <1>11 DEF Dispatch

\* A challenge that was issued stays issued when it was, whoever takes a step.
LEMMA StaysIssued ==
  ASSUME TypeOK, [Next]_vars, NEW c \in ChallengeId, Issued(c)
  PROVE  Issued(c)' /\ challenge'[c].issuedAt = challenge[c].issuedAt
<1>1. challenge[c] \in ChallengeRow
  BY DEF TypeOK, TablesTypeOK
<1>2. CASE challenge' = challenge
  BY <1>2 DEF Issued
<1>3. ASSUME NEW a \in Address, NEW superseded, NEW fresh \in FreshChallenge,
             NEW at, NEW revision, challenge' = Reissued(a, superseded, fresh, at, revision)
      PROVE  Issued(c)' /\ challenge'[c].issuedAt = challenge[c].issuedAt
  <2>1. c # fresh
    BY DEF FreshChallenge, Draw
  <2>2. QED
    BY <1>1, <1>3, <2>1 DEF Reissued, Issued, ChallengeRow
<1>4. ASSUME NEW r \in Request, CreateRegistration(r) \/ RefreshRegistration(r)
      PROVE  Issued(c)' /\ challenge'[c].issuedAt = challenge[c].issuedAt
  <2>1. req[r].address \in Address
    BY <1>4 DEF TypeOK, RequestTypeOK, CreateRegistration, RefreshRegistration
  <2>2. QED
    BY <1>3, <1>4, <2>1 DEF CreateRegistration, RefreshRegistration
<1>5. ASSUME NEW r \in Request, ConsumeVerification(r)
      PROVE  Issued(c)' /\ challenge'[c].issuedAt = challenge[c].issuedAt
  BY <1>1, <1>5 DEF ConsumeVerification, TypeOK, TablesTypeOK, Issued, ChallengeRow
<1>6. ASSUME NEW r \in Request,
             \/ \E a \in Address : StartRegister(r, a) \/ StartReissue(r, a)
             \/ \E b \in ChallengeId : StartVerify(r, b)
             \/ Discover(r) \/ Collide(r) \/ RefuseRefresh(r)
             \/ RefuseVerification(r) \/ AbandonRequest(r)
      PROVE  challenge' = challenge
  BY <1>6 DEF StartRegister, StartReissue, StartVerify, Discover, Collide, RefuseRefresh,
              RefuseVerification, AbandonRequest, tables
<1>7. ASSUME NEW a \in Address, CreateAccount(a) \/ Suspend(a)
      PROVE  challenge' = challenge
  BY <1>7 DEF CreateAccount, Suspend
<1>8. ASSUME DeliveryNext \/ Elapse
      PROVE  challenge' = challenge
  BY <1>8 DEF DeliveryNext, Dispatch, StartTick, SweepExpired, SweepExhausted, ClaimDeliveries,
              BeginSend, EndSend, Decide, SettleDelivery, RescheduleDelivery, LoseDelivery,
              Accept, AbortTick, Elapse, tables
<1>9. QED
  BY <1>2, <1>4, <1>5, <1>6, <1>7, <1>8 DEF Next, RegistrationNext, RequestStep, vars

LEMMA CarriageInit == Init => Carriage
BY DEF Init, DispatcherInit, Carriage, CarriesIssued, Stage, IdleDispatcher

LEMMA CarriageStep == TypeOK /\ Carriage /\ [Next]_vars => Carriage'
<1> SUFFICES ASSUME TypeOK, Carriage, [Next]_vars PROVE Carriage'
  OBVIOUS
<1>1. \A c \in ChallengeId : Issued(c) => Issued(c)'
  BY StaysIssued
<1>2. CASE UNCHANGED disp
  BY <1>1, <1>2 DEF Carriage, CarriesIssued, Stage
<1>3. ASSUME NEW d \in Dispatcher, Moves(d)
      PROVE  Carriage'
  <2> SUFFICES ASSUME NEW e \in Dispatcher PROVE CarriesIssued(e)'
    BY DEF Carriage
  <2>1. CASE e = d
    BY <1>1, <1>3, <2>1 DEF Moves, Carriage, CarriesIssued, Stage
  <2>2. CASE e # d
    BY <1>1, <1>3, <2>2 DEF Moves, Carriage, CarriesIssued, Stage
  <2>3. QED
    BY <2>1, <2>2
<1>4. CASE DeliveryNext
  BY <1>3, <1>4, DispatcherMoves DEF DeliveryNext, Carriage, CarriesIssued
<1>5. QED
  BY <1>2, <1>4 DEF Next, Elapse, vars

\* The two components keep their rows and their own state well formed together.
THEOREM TypeCorrect == Spec => []TypeOK
BY TypeInit, TypeStep, PTL DEF Spec

LEMMA CarriageHolds == Spec => []Carriage
BY TypeCorrect, CarriageInit, CarriageStep, PTL DEF Spec

-----------------------------------------------------------------------------
(* What the requests see of the dispatchers.  R is Registration_proofs over  *)
(* the tables as requests see them: it is ForRequests, with its theorems.    *)

R == INSTANCE Registration_proofs WITH
    outbox <- OutboxForRequests, sent <- SentForRequests

LEMMA SameRegistration == R!RegistrationSpec <=> ForRequests!RegistrationSpec
<1>1. R!RegistrationInit <=> ForRequests!RegistrationInit
  BY DEF R!RegistrationInit, ForRequests!RegistrationInit, R!TablesInit, ForRequests!TablesInit,
         R!RequestInit, ForRequests!RequestInit, R!Unissued, ForRequests!Unissued,
         R!NoDelivery, ForRequests!NoDelivery, R!NoAccount, ForRequests!NoAccount,
         R!IdleRequest, ForRequests!IdleRequest, R!Never, ForRequests!Never
<1>2. R!RegistrationNext \/ R!Surroundings <=> ForRequests!RegistrationNext \/ ForRequests!Surroundings
  BY Zenon
  DEF  ForRequests!RegistrationNext, R!RegistrationNext, ForRequests!Surroundings, R!Surroundings,
       ForRequests!RequestStep, R!RequestStep, ForRequests!StartRegister, R!StartRegister,
       ForRequests!StartReissue, R!StartReissue, ForRequests!StartVerify, R!StartVerify,
       ForRequests!Discover, R!Discover, ForRequests!CreateRegistration, R!CreateRegistration,
       ForRequests!Collide, R!Collide, ForRequests!RefreshRegistration, R!RefreshRegistration,
       ForRequests!RefuseRefresh, R!RefuseRefresh, ForRequests!ConsumeVerification, R!ConsumeVerification,
       ForRequests!RefuseVerification, R!RefuseVerification, ForRequests!AbandonRequest, R!AbandonRequest,
       ForRequests!CreateAccount, R!CreateAccount, ForRequests!Suspend, R!Suspend,
       ForRequests!Carry, R!Carry, ForRequests!Drain, R!Drain,
       ForRequests!PassTime, R!PassTime, ForRequests!tables, R!tables,
       ForRequests!IdleRequest, R!IdleRequest, ForRequests!Finish, R!Finish,
       ForRequests!Exists, R!Exists, ForRequests!FreshChallenge, R!FreshChallenge,
       ForRequests!Draw, R!Draw, ForRequests!Issued, R!Issued,
       ForRequests!Current, R!Current, ForRequests!CurrentOf, R!CurrentOf,
       ForRequests!MayReissueAt, R!MayReissueAt, ForRequests!Never, R!Never,
       ForRequests!Dequeue, R!Dequeue, ForRequests!NewChallenge, R!NewChallenge,
       ForRequests!NewDelivery, R!NewDelivery, ForRequests!Reissued, R!Reissued,
       ForRequests!Requeued, R!Requeued, ForRequests!MayRefresh, R!MayRefresh,
       ForRequests!RefreshedRevision, R!RefreshedRevision, ForRequests!MayConsume, R!MayConsume,
       ForRequests!Activated, R!Activated
<1>3. [R!RegistrationNext \/ R!Surroundings]_(R!registrationVars) <=>
      [ForRequests!RegistrationNext \/ ForRequests!Surroundings]_(ForRequests!registrationVars)
  BY <1>2 DEF R!registrationVars, ForRequests!registrationVars
<1>4. QED
  BY <1>1, <1>3, PTL DEF R!RegistrationSpec, ForRequests!RegistrationSpec

\* The outbox as the requests see it, row by row: leaving it, joining it and being
\* leased look as they should.
Seen(row, issuedAt) ==
  [queued |-> row.queued, attempts |-> 0, availableAt |-> IF row.queued THEN issuedAt ELSE Never,
   claim |-> None, claimExpiresAt |-> Never]

LEMMA SameRow ==
  ASSUME NEW u \in DeliveryRow, NEW v \in DeliveryRow, u.queued = v.queued,
    u.attempts = v.attempts, u.availableAt = v.availableAt, u.claim = v.claim, u.claimExpiresAt = v.claimExpiresAt
  PROVE u = v
BY DEF DeliveryRow

LEMMA SeenRow ==
  ASSUME NEW row \in DeliveryRow, NEW issuedAt \in Instant
  PROVE  [row EXCEPT !.attempts = 0, !.claim = None, !.claimExpiresAt = Never,
            !.availableAt = IF row.queued THEN issuedAt ELSE Never] = Seen(row, issuedAt)
<1> DEFINE at == IF row.queued THEN issuedAt ELSE Never
<1>1. at \in Instant /\ Never \in Instant
  BY DEF Instant
<1> HIDE DEF at
<1> DEFINE lhs == [row EXCEPT !.attempts = 0, !.claim = None, !.claimExpiresAt = Never, !.availableAt = at]
           rhs == [queued |-> row.queued, attempts |-> 0, availableAt |-> at, claim |-> None, claimExpiresAt |-> Never]
<1>2. lhs \in DeliveryRow /\ rhs \in DeliveryRow
  BY <1>1 DEF DeliveryRow
<1>3. lhs.queued = rhs.queued
  BY DEF DeliveryRow
<1>4. lhs.attempts = rhs.attempts
  BY DEF DeliveryRow
<1>5. lhs.availableAt = rhs.availableAt
  BY DEF DeliveryRow
<1>6. lhs.claim = rhs.claim
  BY DEF DeliveryRow
<1>7. lhs.claimExpiresAt = rhs.claimExpiresAt
  BY DEF DeliveryRow
<1> HIDE DEF lhs, rhs
<1>8. lhs = rhs
  BY <1>2, <1>3, <1>4, <1>5, <1>6, <1>7, SameRow
<1>9. QED
  BY <1>8 DEF lhs, rhs, at, Seen

LEMMA SeenRows ==
  /\ TablesTypeOK =>
       OutboxForRequests = [c \in ChallengeId |-> Seen(outbox[c], challenge[c].issuedAt)]
  /\ TablesTypeOK' =>
       OutboxForRequests' = [c \in ChallengeId |-> Seen(outbox'[c], challenge'[c].issuedAt)]
<1>1. TablesTypeOK =>
        OutboxForRequests = [c \in ChallengeId |-> Seen(outbox[c], challenge[c].issuedAt)]
  BY SeenRow DEF OutboxForRequests, TablesTypeOK, ChallengeRow
<1>2. TablesTypeOK' =>
        OutboxForRequests' = [c \in ChallengeId |-> Seen(outbox'[c], challenge'[c].issuedAt)]
  BY SeenRow DEF OutboxForRequests, TablesTypeOK, ChallengeRow
<1>3. QED
  BY <1>1, <1>2

LEMMA SeenDequeued ==
  ASSUME NEW row \in DeliveryRow, NEW issuedAt \in Instant
  PROVE  /\ Seen(Dequeue(row), issuedAt) = Dequeue(Seen(row, issuedAt))
         /\ ~row.queued => Dequeue(Seen(row, issuedAt)) = Seen(row, issuedAt)
<1> DEFINE gone == [queued |-> FALSE, attempts |-> 0, availableAt |-> Never, claim |-> None,
                    claimExpiresAt |-> Never]
           seen == Seen(row, issuedAt)
<1>1. /\ Dequeue(row).queued = FALSE
      /\ row.queued \in BOOLEAN
  BY DEF Dequeue, DeliveryRow
<1>2. gone \in DeliveryRow /\ seen \in DeliveryRow /\ seen.attempts = 0
  BY <1>1 DEF DeliveryRow, Seen, Instant
<1> HIDE DEF seen
<1>3. Dequeue(seen) \in DeliveryRow
  BY <1>2 DEF DeliveryRow, Dequeue, Instant
<1>4. Dequeue(seen).queued = FALSE /\ Dequeue(seen).attempts = 0
  BY <1>2 DEF DeliveryRow, Dequeue
<1>5. Dequeue(seen).availableAt = Never /\ Dequeue(seen).claim = None /\ Dequeue(seen).claimExpiresAt = Never
  BY <1>2 DEF DeliveryRow, Dequeue
<1>6. Dequeue(seen) = gone
  BY <1>2, <1>3, <1>4, <1>5, SameRow
<1>7. QED
  BY <1>1, <1>6 DEF seen, Seen

LEMMA SeenQueued ==
  ASSUME NEW at
  PROVE  Seen(NewDelivery(at), at) = NewDelivery(at)
BY DEF Seen, NewDelivery

LEMMA NothingSeen ==
  ASSUME outbox' = outbox, challenge' = challenge
  PROVE  OutboxForRequests' = OutboxForRequests
BY DEF OutboxForRequests

LEMMA NothingCarried ==
  ASSUME sent' = sent
  PROVE  SentForRequests' = SentForRequests
BY DEF SentForRequests

\* What the requests read and write beside the outbox is the same seen from either side.
LEMMA SameReading ==
  /\ R!FreshChallenge = FreshChallenge /\ R!IdleRequest = IdleRequest
  /\ \A a : R!CurrentOf(a) = CurrentOf(a) /\ (R!Exists(a) <=> Exists(a))
  /\ \A c : R!Issued(c) <=> Issued(c)
  /\ \A a, at : R!MayRefresh(a, at) <=> MayRefresh(a, at)
  /\ \A c, at : R!MayConsume(c, at) <=> MayConsume(c, at)
  /\ \A a, op : R!RefreshedRevision(a, op) = RefreshedRevision(a, op)
  /\ \A a, superseded, fresh, at, revision :
       R!Reissued(a, superseded, fresh, at, revision) = Reissued(a, superseded, fresh, at, revision)
  /\ \A a, at : R!Activated(a, at) = Activated(a, at)
  /\ \A r : R!Finish(r) <=> Finish(r)
  /\ \A row : R!Dequeue(row) = Dequeue(row)
  /\ \A at : R!NewDelivery(at) = NewDelivery(at)
BY DEF R!FreshChallenge, FreshChallenge, R!Draw, Draw, R!IdleRequest, IdleRequest,
       R!CurrentOf, CurrentOf, R!Current, Current, R!Issued, Issued, R!Exists, Exists,
       R!MayRefresh, MayRefresh, R!MayReissueAt, MayReissueAt, R!MayConsume, MayConsume,
       R!RefreshedRevision, RefreshedRevision, R!Reissued, Reissued,
       R!NewChallenge, NewChallenge, R!Activated, Activated, R!Finish, Finish,
       R!Dequeue, Dequeue, R!NewDelivery, NewDelivery, R!Never, Never

\* An issuance queues the message the requests expect.
LEMMA SeenIssuance ==
  ASSUME TypeOK, NEW a, NEW superseded, NEW fresh, NEW at, NEW revision,
         challenge' = Reissued(a, superseded, fresh, at, revision),
         outbox' = Requeued(superseded, fresh, at), TypeOK'
  PROVE  OutboxForRequests' = R!Requeued(superseded, fresh, at)
<1>1. /\ OutboxForRequests = [c \in ChallengeId |-> Seen(outbox[c], challenge[c].issuedAt)]
      /\ OutboxForRequests' = [c \in ChallengeId |-> Seen(outbox'[c], challenge'[c].issuedAt)]
  BY SeenRows DEF TypeOK
<1>2. ASSUME NEW c \in ChallengeId
      PROVE  Seen(outbox'[c], challenge'[c].issuedAt) =
               IF c = fresh THEN NewDelivery(at)
               ELSE IF c \in superseded THEN Dequeue(OutboxForRequests[c])
               ELSE OutboxForRequests[c]
  <2>1. outbox[c] \in DeliveryRow /\ challenge[c] \in ChallengeRow /\ challenge[c].issuedAt \in Instant
    BY DEF TypeOK, TablesTypeOK, ChallengeRow
  <2>2. CASE c = fresh
    BY <2>2, SeenQueued DEF Reissued, Requeued, NewChallenge
  <2>3. CASE c # fresh
    <3>1. challenge'[c].issuedAt = challenge[c].issuedAt
      BY <2>1, <2>3 DEF Reissued, ChallengeRow
    <3>2. outbox'[c] = IF c \in superseded THEN Dequeue(outbox[c]) ELSE outbox[c]
      BY <2>3 DEF Requeued
    <3>3. QED
      BY <1>1, <2>1, <2>3, <3>1, <3>2, SeenDequeued
  <2>4. QED
    BY <2>2, <2>3
<1>3. QED
  BY <1>1, <1>2, SameReading DEF R!Requeued

\* Rows that leave the outbox are seen to leave it, and leases are not seen.
LEMMA SeenDrain ==
  ASSUME TypeOK, TypeOK', NEW rows \in SUBSET ChallengeId, challenge' = challenge,
         \A c \in ChallengeId : Seen(outbox'[c], challenge[c].issuedAt) =
           Seen(IF c \in rows THEN Dequeue(outbox[c]) ELSE outbox[c], challenge[c].issuedAt)
  PROVE  OutboxForRequests' = [c \in ChallengeId |->
           IF c \in rows THEN Dequeue(OutboxForRequests[c]) ELSE OutboxForRequests[c]]
<1>1. /\ OutboxForRequests = [c \in ChallengeId |-> Seen(outbox[c], challenge[c].issuedAt)]
      /\ OutboxForRequests' = [c \in ChallengeId |-> Seen(outbox'[c], challenge[c].issuedAt)]
  BY SeenRows DEF TypeOK
<1>2. \A c \in ChallengeId : outbox[c] \in DeliveryRow /\ challenge[c].issuedAt \in Instant
  BY DEF TypeOK, TablesTypeOK, ChallengeRow
<1>3. QED
  BY <1>1, <1>2, SeenDequeued

LEMMA RequestsSeen ==
  ASSUME TypeOK, TypeOK', RegistrationNext
  PROVE  R!RegistrationNext
<1>1. challenge' = challenge /\ outbox' = outbox => OutboxForRequests' = OutboxForRequests
  BY NothingSeen
<1>2. sent' = sent => SentForRequests' = SentForRequests
  BY NothingCarried
<1>3. ASSUME NEW r \in Request, NEW a \in Address, StartRegister(r, a) \/ StartReissue(r, a)
      PROVE  R!StartRegister(r, a) \/ R!StartReissue(r, a)
  BY <1>1, <1>2, <1>3, SameReading
  DEF StartRegister, StartReissue, R!StartRegister, R!StartReissue, tables, R!tables
<1>4. ASSUME NEW r \in Request, NEW c \in ChallengeId, StartVerify(r, c)
      PROVE  R!StartVerify(r, c)
  <2>1. SentForRequests[c] > 0
    BY <1>4 DEF StartVerify, SentForRequests
  <2>2. QED
    BY <1>1, <1>2, <1>4, <2>1, SameReading DEF StartVerify, R!StartVerify, tables, R!tables
<1>5. ASSUME NEW r \in Request, Discover(r) PROVE R!Discover(r)
  BY <1>1, <1>2, <1>5, SameReading DEF Discover, R!Discover, tables, R!tables
<1>6. ASSUME NEW r \in Request, CreateRegistration(r) PROVE R!CreateRegistration(r)
  <2> DEFINE a == req[r].address
             at == req[r].at
  <2>1. PICK fresh \in FreshChallenge :
          challenge' = Reissued(a, {}, fresh, at, 1) /\ outbox' = Requeued({}, fresh, at)
    BY <1>6 DEF CreateRegistration
  <2>2. OutboxForRequests' = R!Requeued({}, fresh, at)
    BY <2>1, SeenIssuance
  <2>3. \E new \in R!FreshChallenge :
          /\ challenge' = R!Reissued(a, {}, new, at, 1)
          /\ OutboxForRequests' = R!Requeued({}, new, at)
    BY <2>1, <2>2, SameReading
  <2>4. QED
    BY <1>2, <1>6, <2>3, SameReading
    DEF CreateRegistration, R!CreateRegistration, Never, R!Never
<1>7. ASSUME NEW r \in Request, Collide(r) PROVE R!Collide(r)
  BY <1>1, <1>2, <1>7, SameReading DEF Collide, R!Collide, tables, R!tables
<1>8. ASSUME NEW r \in Request, RefreshRegistration(r) PROVE R!RefreshRegistration(r)
  <2> DEFINE a == req[r].address
             at == req[r].at
             revision == RefreshedRevision(a, req[r].op)
  <2>1. PICK fresh \in FreshChallenge :
          /\ challenge' = Reissued(a, CurrentOf(a), fresh, at, revision)
          /\ outbox' = Requeued(CurrentOf(a), fresh, at)
    BY <1>8 DEF RefreshRegistration
  <2>2. OutboxForRequests' = R!Requeued(CurrentOf(a), fresh, at)
    BY <2>1, SeenIssuance
  <2>3. \E new \in R!FreshChallenge :
          /\ challenge' = R!Reissued(a, R!CurrentOf(a), new, at, R!RefreshedRevision(a, req[r].op))
          /\ OutboxForRequests' = R!Requeued(R!CurrentOf(a), new, at)
    BY <2>1, <2>2, SameReading
  <2>4. QED
    BY <1>2, <1>8, <2>3, SameReading DEF RefreshRegistration, R!RefreshRegistration
<1>9. ASSUME NEW r \in Request, RefuseRefresh(r) PROVE R!RefuseRefresh(r)
  BY <1>1, <1>2, <1>9, SameReading DEF RefuseRefresh, R!RefuseRefresh, tables, R!tables
<1>10. ASSUME NEW r \in Request, ConsumeVerification(r) PROVE R!ConsumeVerification(r)
  <2> DEFINE c == req[r].challenge
             at == req[r].at
  <2>1. c \in ChallengeId
    BY <1>10 DEF ConsumeVerification, TypeOK, RequestTypeOK
  <2>2. /\ challenge' = [challenge EXCEPT ![c].consumedAt = at]
        /\ outbox' = [outbox EXCEPT ![c] = Dequeue(outbox[c])]
    BY <1>10 DEF ConsumeVerification
  <2>3. /\ OutboxForRequests = [b \in ChallengeId |-> Seen(outbox[b], challenge[b].issuedAt)]
        /\ OutboxForRequests' = [b \in ChallengeId |-> Seen(outbox'[b], challenge'[b].issuedAt)]
    BY SeenRows DEF TypeOK
  <2>4. ASSUME NEW b \in ChallengeId
        PROVE  /\ outbox[b] \in DeliveryRow /\ challenge[b].issuedAt \in Instant
               /\ challenge'[b].issuedAt = challenge[b].issuedAt
               /\ outbox'[b] = IF b = c THEN Dequeue(outbox[b]) ELSE outbox[b]
    BY <2>1, <2>2 DEF TypeOK, TablesTypeOK, ChallengeRow
  <2>5. OutboxForRequests' = [OutboxForRequests EXCEPT ![c] = Dequeue(OutboxForRequests[c])]
    BY <2>1, <2>3, <2>4, SeenDequeued
  <2>6. QED
    BY <1>2, <1>10, <2>5, SameReading DEF ConsumeVerification, R!ConsumeVerification
<1>11. ASSUME NEW r \in Request, RefuseVerification(r) PROVE R!RefuseVerification(r)
  BY <1>1, <1>2, <1>11, SameReading DEF RefuseVerification, R!RefuseVerification, tables, R!tables
<1>12. ASSUME NEW r \in Request, AbandonRequest(r) PROVE R!AbandonRequest(r)
  BY <1>1, <1>2, <1>12, SameReading DEF AbandonRequest, R!AbandonRequest, tables, R!tables
<1>13. ASSUME NEW a \in Address, CreateAccount(a) \/ Suspend(a)
       PROVE  R!CreateAccount(a) \/ R!Suspend(a)
  BY <1>1, <1>2, <1>13, SameReading
  DEF CreateAccount, Suspend, R!CreateAccount, R!Suspend, Never, R!Never
<1>14. QED
  BY <1>3, <1>4, <1>5, <1>6, <1>7, <1>8, <1>9, <1>10, <1>11, <1>12, <1>13
  DEF RegistrationNext, RequestStep, R!RegistrationNext, R!RequestStep

\* A lease, and what it costs, is not seen.
LEMMA LeaseUnseen ==
  ASSUME TypeOK, NEW c \in ChallengeId, NEW row, row.queued = outbox[c].queued
  PROVE  Seen(row, challenge[c].issuedAt) = Seen(outbox[c], challenge[c].issuedAt)
BY DEF Seen

\* The rows a dispatcher takes out of the outbox are seen to leave it.
LEMMA SweepSeen ==
  ASSUME TypeOK, TypeOK', NEW rows \in SUBSET ChallengeId, \A c \in rows : outbox[c].queued,
         Swept(rows), now' = now, challenge' = challenge, sent' = sent,
         account' = account, req' = req
  PROVE  R!Drain(rows)
<1>1. OutboxForRequests = [c \in ChallengeId |-> Seen(outbox[c], challenge[c].issuedAt)]
  BY SeenRows DEF TypeOK
<1>2. \A c \in rows : OutboxForRequests[c].queued
  BY <1>1 DEF Seen
<1>3. \A c \in ChallengeId : outbox'[c] = IF c \in rows THEN Dequeue(outbox[c]) ELSE outbox[c]
  BY DEF Swept
<1>4. OutboxForRequests' = [c \in ChallengeId |->
        IF c \in rows THEN Dequeue(OutboxForRequests[c]) ELSE OutboxForRequests[c]]
  BY <1>3, SeenDrain
<1>5. SentForRequests' = SentForRequests
  BY NothingCarried
<1>6. QED
  BY <1>2, <1>4, <1>5, SameReading DEF R!Drain

LEMMA AcceptSeen ==
  ASSUME TypeOK, Carriage, NEW d \in Dispatcher, Accept(d), account' = account, req' = req
  PROVE  (\E c \in ChallengeId : R!Carry(c)) \/ UNCHANGED R!registrationVars
<1> DEFINE c == disp[d].current
<1>1. /\ c \in ChallengeId /\ Issued(c)
      /\ now' = now /\ challenge' = challenge /\ outbox' = outbox
      /\ sent' = [sent EXCEPT ![c] = sent[c] + 1]
  BY DEF Carriage, CarriesIssued, Stage, Accept
<1>2. \A b \in ChallengeId : sent[b] \in Nat /\ sent'[b] = IF b = c THEN sent[b] + 1 ELSE sent[b]
  BY <1>1 DEF TypeOK, TablesTypeOK
<1>3. OutboxForRequests' = OutboxForRequests
  BY <1>1, NothingSeen
<1>4. CASE sent[c] = 0
  <2>1. SentForRequests[c] = 0
    BY <1>1, <1>4 DEF SentForRequests
  <2>2. SentForRequests' = [SentForRequests EXCEPT ![c] = 1]
    <3> DEFINE Told(n) == IF n > 0 THEN 1 ELSE 0
    <3>1. /\ SentForRequests = [b \in ChallengeId |-> Told(sent[b])]
          /\ SentForRequests' = [b \in ChallengeId |-> Told(sent'[b])]
      BY DEF SentForRequests
    <3>2. \A b \in ChallengeId : Told(sent'[b]) = IF b = c THEN 1 ELSE Told(sent[b])
      BY <1>2, <1>4
    <3> HIDE DEF Told
    <3>3. [b \in ChallengeId |-> Told(sent'[b])] =
            [b \in ChallengeId |-> IF b = c THEN 1 ELSE Told(sent[b])]
      BY <3>2
    <3>4. QED
      BY <1>1, <3>1, <3>3
  <2>3. R!Carry(c)
    BY <1>1, <1>3, <2>1, <2>2, SameReading DEF R!Carry
  <2>4. QED
    BY <1>1, <2>3
<1>5. CASE sent[c] # 0
  <2>1. SentForRequests' = SentForRequests
    BY <1>1, <1>2, <1>5 DEF SentForRequests
  <2>2. QED
    BY <1>1, <1>3, <2>1 DEF R!registrationVars
<1>6. QED
  BY <1>4, <1>5

\* Claiming, releasing and losing rows, and whatever touches no table.
LEMMA UnseenStep ==
  ASSUME TypeOK, TypeOK', now' = now, challenge' = challenge, sent' = sent,
         account' = account, req' = req,
         \A c \in ChallengeId : outbox'[c].queued = outbox[c].queued
  PROVE  UNCHANGED R!registrationVars
<1>1. OutboxForRequests = [c \in ChallengeId |-> Seen(outbox[c], challenge[c].issuedAt)]
      /\ OutboxForRequests' = [c \in ChallengeId |-> Seen(outbox'[c], challenge[c].issuedAt)]
  BY SeenRows DEF TypeOK
<1>2. OutboxForRequests' = OutboxForRequests
  BY <1>1, LeaseUnseen
<1>3. SentForRequests' = SentForRequests
  BY NothingCarried
<1>4. QED
  BY <1>2, <1>3 DEF R!registrationVars

LEMMA DispatchersSeen ==
  ASSUME TypeOK, TypeOK', Carriage, DeliveryNext \/ Elapse, account' = account, req' = req
  PROVE  R!Surroundings \/ UNCHANGED R!registrationVars
<1>0. \A c \in ChallengeId : outbox[c] \in DeliveryRow
  BY DEF TypeOK, TablesTypeOK
<1>1. ASSUME NEW d \in Dispatcher, SweepExpired(d) PROVE R!Surroundings
  <2>1. PICK rows \in SUBSET Expired(disp[d].at) : Swept(rows)
    BY <1>1, SweepExpiredEffect
  <2>2. rows \in SUBSET ChallengeId /\ \A c \in rows : outbox[c].queued
    BY DEF Expired
  <2>3. R!Drain(rows)
    BY <1>1, <2>1, <2>2, SweepSeen DEF SweepExpired
  <2>4. QED
    BY <2>2, <2>3 DEF R!Surroundings
<1>2. ASSUME NEW d \in Dispatcher, SweepExhausted(d) PROVE R!Surroundings
  <2>1. PICK rows \in SUBSET Exhausted(disp[d].at) : Swept(rows)
    BY <1>2, SweepExhaustedEffect
  <2>2. rows \in SUBSET ChallengeId /\ \A c \in rows : outbox[c].queued
    BY DEF Exhausted
  <2>3. R!Drain(rows)
    BY <1>2, <2>1, <2>2, SweepSeen DEF SweepExhausted
  <2>4. QED
    BY <2>2, <2>3 DEF R!Surroundings
<1>3. ASSUME NEW d \in Dispatcher, SettleDelivery(d) PROVE R!Surroundings
  <2> DEFINE c == disp[d].current
  <2>1. /\ c \in ChallengeId /\ outbox[c].queued
        /\ outbox' = [outbox EXCEPT ![c] = Dequeue(outbox[c])]
    BY <1>3 DEF SettleDelivery, Holds, Carriage, CarriesIssued, Stage
  <2>2. Swept({c})
    BY <2>1 DEF Swept, TypeOK, TablesTypeOK
  <2>3. R!Drain({c})
    BY <1>3, <2>1, <2>2, SweepSeen DEF SettleDelivery
  <2>4. QED
    BY <2>1, <2>3 DEF R!Surroundings
<1>4. ASSUME NEW d \in Dispatcher, ClaimDeliveries(d) PROVE UNCHANGED R!registrationVars
  <2>1. PICK claim, rows : Leased(d, claim, rows)
    BY <1>4, ClaimEffect
  <2>2. \A c \in ChallengeId : outbox'[c].queued = outbox[c].queued
    BY <1>0, <2>1 DEF Leased, DeliveryRow
  <2>3. QED
    BY <1>4, <2>2, UnseenStep DEF ClaimDeliveries
<1>5. ASSUME NEW d \in Dispatcher, RescheduleDelivery(d) PROVE UNCHANGED R!registrationVars
  <2>1. \A c \in ChallengeId : outbox'[c].queued = outbox[c].queued
    BY <1>0, <1>5 DEF RescheduleDelivery, Released, DeliveryRow, TypeOK, TablesTypeOK
  <2>2. QED
    BY <1>5, <2>1, UnseenStep DEF RescheduleDelivery
<1>6. ASSUME NEW d \in Dispatcher,
             \/ StartTick(d) \/ BeginSend(d) \/ EndSend(d) \/ Decide(d)
             \/ LoseDelivery(d) \/ AbortTick(d)
      PROVE  UNCHANGED R!registrationVars
  BY <1>6, UnseenStep DEF StartTick, BeginSend, EndSend, Decide, LoseDelivery, AbortTick, tables
<1>7. CASE Elapse
  <2>1. OutboxForRequests' = OutboxForRequests /\ SentForRequests' = SentForRequests
    BY <1>7, NothingSeen, NothingCarried DEF Elapse, tables
  <2>2. R!PassTime
    BY <1>7, <2>1 DEF Elapse, tables, R!PassTime, R!tables
  <2>3. QED
    BY <2>2 DEF R!Surroundings
<1>8. QED
  BY <1>1, <1>2, <1>3, <1>4, <1>5, <1>6, <1>7, AcceptSeen DEF DeliveryNext, Dispatch, R!Surroundings

LEMMA SeenStep ==
  TypeOK /\ TypeOK' /\ Carriage /\ [Next]_vars =>
    [R!RegistrationNext \/ R!Surroundings]_(R!registrationVars)
<1> SUFFICES ASSUME TypeOK, TypeOK', Carriage, [Next]_vars
             PROVE  [R!RegistrationNext \/ R!Surroundings]_(R!registrationVars)
  OBVIOUS
<1>1. CASE RegistrationNext
  BY <1>1, RequestsSeen
<1>2. CASE (DeliveryNext \/ Elapse) /\ UNCHANGED <<account, req>>
  BY <1>2, DispatchersSeen
<1>3. CASE UNCHANGED vars
  BY <1>3, UnseenStep DEF vars
<1>4. QED
  BY <1>1, <1>2, <1>3 DEF Next

LEMMA SeenByRequests == Spec => R!RegistrationSpec
<1>1. Init => R!RegistrationInit
  <2> SUFFICES ASSUME Init PROVE R!RegistrationInit
    OBVIOUS
  <2>1. TypeOK
    BY TypeInit
  <2>2. OutboxForRequests = [c \in ChallengeId |-> Seen(outbox[c], challenge[c].issuedAt)]
    BY <2>1, SeenRows DEF TypeOK
  <2>3. OutboxForRequests = [c \in ChallengeId |-> NoDelivery]
    BY <2>2 DEF Init, TablesInit, Seen, NoDelivery
  <2>4. SentForRequests = [c \in ChallengeId |-> 0]
    BY DEF Init, TablesInit, SentForRequests
  <2>5. QED
    BY <2>3, <2>4
    DEF Init, TablesInit, RequestInit, R!RegistrationInit, R!TablesInit, R!RequestInit, Unissued,
        R!Unissued, NoDelivery, R!NoDelivery, NoAccount, R!NoAccount, IdleRequest, R!IdleRequest,
        Never, R!Never
<1>2. QED
  BY <1>1, SeenStep, TypeCorrect, CarriageHolds, PTL DEF Spec, R!RegistrationSpec

\* The dispatchers do to the tables only what registration expects of whatever
\* drains the outbox: they remove queued rows, carry messages of issued challenges
\* and let time pass, however their leases lapse and their ticks are cut short.
THEOREM DispatchersAreUnobtrusive == Spec => DeliveryIsUnobtrusive
BY SeenByRequests, SameRegistration DEF DeliveryIsUnobtrusive

\* So the invariant of registration alone holds beside dispatchers.
LEMMA RegistrationHolds == Spec => []R!RegistrationIInv
<1>1. R!RegistrationInit => R!RegistrationIInv
  BY R!RegistrationInvInit, TablesAssumption, ProvisionedAssumption DEF Kind, Status, R!Kind, R!Status
<1>2. R!RegistrationIInv /\ [R!RegistrationStep]_(R!registrationVars) => R!RegistrationIInv'
  BY R!RegistrationInvStep, TablesAssumption, ProvisionedAssumption DEF Kind, Status, R!Kind, R!Status
<1>3. QED
  BY <1>1, <1>2, SeenByRequests, PTL DEF R!RegistrationSpec, R!RegistrationStep

-----------------------------------------------------------------------------
(* What the dispatchers see of the requests.  D is Delivery_proofs over the  *)
(* challenges as dispatchers see them: it is ForDispatchers, with its        *)
(* theorems.                                                                 *)

D == INSTANCE Delivery_proofs WITH challenge <- ChallengeForDispatchers

\* A challenge as dispatchers see it.
Outer(row) == [row EXCEPT !.revision = 0]

LEMMA SameChallenge ==
  ASSUME NEW u \in ChallengeRow, NEW v \in ChallengeRow, u.address = v.address,
         u.issuedAt = v.issuedAt, u.expiresAt = v.expiresAt, u.consumedAt = v.consumedAt,
         u.supersededAt = v.supersededAt, u.revision = v.revision
  PROVE  u = v
BY DEF ChallengeRow

LEMMA OuterRow ==
  ASSUME NEW row \in ChallengeRow
  PROVE  /\ Outer(row) \in ChallengeRow
         /\ Outer(row).address = row.address /\ Outer(row).issuedAt = row.issuedAt
         /\ Outer(row).expiresAt = row.expiresAt /\ Outer(row).consumedAt = row.consumedAt
         /\ Outer(row).supersededAt = row.supersededAt /\ Outer(row).revision = 0
BY DEF Outer, ChallengeRow

LEMMA OuterRows ==
  /\ TablesTypeOK => \A c \in ChallengeId :
       challenge[c] \in ChallengeRow /\ ChallengeForDispatchers[c] = Outer(challenge[c])
  /\ ChallengeForDispatchers = [c \in ChallengeId |-> Outer(challenge[c])]
  /\ ChallengeForDispatchers' = [c \in ChallengeId |-> Outer(challenge'[c])]
BY DEF TablesTypeOK, ChallengeForDispatchers, Outer

LEMMA NothingEnded ==
  ASSUME challenge' = challenge
  PROVE  ChallengeForDispatchers' = ChallengeForDispatchers
BY DEF ChallengeForDispatchers

LEMMA OuterEnded ==
  ASSUME NEW row \in ChallengeRow, NEW at \in Nat
  PROVE  /\ Outer([row EXCEPT !.supersededAt = at]) = [Outer(row) EXCEPT !.supersededAt = at]
         /\ Outer([row EXCEPT !.consumedAt = at]) = [Outer(row) EXCEPT !.consumedAt = at]
<1>0. Outer(row) \in ChallengeRow /\ Outer(row).revision = 0
  BY OuterRow
<1>1. at \in Instant
  BY DEF Instant, Time
<1>2. Outer([row EXCEPT !.supersededAt = at]) = [Outer(row) EXCEPT !.supersededAt = at]
  <2> DEFINE ended == [row EXCEPT !.supersededAt = at]
             outer == Outer(row)
             seen == [outer EXCEPT !.supersededAt = at]
  <2>1. /\ ended \in ChallengeRow /\ ended.supersededAt = at /\ ended.address = row.address
        /\ ended.issuedAt = row.issuedAt /\ ended.expiresAt = row.expiresAt
        /\ ended.consumedAt = row.consumedAt
    BY <1>1 DEF ChallengeRow
  <2> HIDE DEF outer
  <2>2. /\ seen \in ChallengeRow /\ seen.supersededAt = at /\ seen.address = outer.address
        /\ seen.issuedAt = outer.issuedAt /\ seen.expiresAt = outer.expiresAt
        /\ seen.consumedAt = outer.consumedAt /\ seen.revision = 0
    BY <1>0, <1>1 DEF ChallengeRow, outer
  <2> HIDE DEF ended, seen
  <2>3. Outer(ended) = seen
    BY <2>1, <2>2, OuterRow, SameChallenge DEF outer
  <2>4. QED
    BY <2>3 DEF ended, seen, outer
<1>3. Outer([row EXCEPT !.consumedAt = at]) = [Outer(row) EXCEPT !.consumedAt = at]
  <2> DEFINE ended == [row EXCEPT !.consumedAt = at]
             outer == Outer(row)
             seen == [outer EXCEPT !.consumedAt = at]
  <2>1. /\ ended \in ChallengeRow /\ ended.consumedAt = at /\ ended.address = row.address
        /\ ended.issuedAt = row.issuedAt /\ ended.expiresAt = row.expiresAt
        /\ ended.supersededAt = row.supersededAt
    BY <1>1 DEF ChallengeRow
  <2> HIDE DEF outer
  <2>2. /\ seen \in ChallengeRow /\ seen.consumedAt = at /\ seen.address = outer.address
        /\ seen.issuedAt = outer.issuedAt /\ seen.expiresAt = outer.expiresAt
        /\ seen.supersededAt = outer.supersededAt /\ seen.revision = 0
    BY <1>0, <1>1 DEF ChallengeRow, outer
  <2> HIDE DEF ended, seen
  <2>3. Outer(ended) = seen
    BY <2>1, <2>2, OuterRow, SameChallenge DEF outer
  <2>4. QED
    BY <2>3 DEF ended, seen, outer
<1>4. QED
  BY <1>2, <1>3

LEMMA OuterNew ==
  ASSUME NEW a \in Address, NEW at \in Nat, NEW revision \in Nat
  PROVE  Outer(NewChallenge(a, at, revision)) = NewChallenge(a, at, 0)
<1> DEFINE new == NewChallenge(a, at, revision)
           seen == NewChallenge(a, at, 0)
<1>1. at + Lifetime \in Instant /\ at \in Instant /\ Never \in Instant
  BY TablesAssumption DEF Instant, Time
<1>2. new \in ChallengeRow /\ seen \in ChallengeRow
  BY <1>1 DEF NewChallenge, ChallengeRow
<1>3. /\ new.address = seen.address /\ new.issuedAt = seen.issuedAt
      /\ new.expiresAt = seen.expiresAt /\ new.consumedAt = seen.consumedAt
      /\ new.supersededAt = seen.supersededAt /\ seen.revision = 0
  BY DEF NewChallenge
<1> HIDE DEF new, seen
<1>4. Outer(new) = seen
  BY <1>2, <1>3, OuterRow, SameChallenge
<1>5. QED
  BY <1>4 DEF new, seen

\* What a dispatcher reads of the tables is the same seen from either side.
LEMMA SameView ==
  ASSUME TablesTypeOK
  PROVE  /\ \A c \in ChallengeId : /\ D!Issued(c) <=> Issued(c)
                                   /\ D!Current(c) <=> Current(c)
                                   /\ ChallengeForDispatchers[c].expiresAt = challenge[c].expiresAt
                                   /\ ChallengeForDispatchers[c].issuedAt = challenge[c].issuedAt
         /\ \A a : D!CurrentOf(a) = CurrentOf(a)
         /\ D!FreshChallenge = FreshChallenge
<1>1. ASSUME NEW c \in ChallengeId
      PROVE  /\ ChallengeForDispatchers[c].address = challenge[c].address
             /\ ChallengeForDispatchers[c].issuedAt = challenge[c].issuedAt
             /\ ChallengeForDispatchers[c].expiresAt = challenge[c].expiresAt
             /\ ChallengeForDispatchers[c].consumedAt = challenge[c].consumedAt
             /\ ChallengeForDispatchers[c].supersededAt = challenge[c].supersededAt
  BY OuterRows, OuterRow
<1>2. \A c \in ChallengeId : (D!Issued(c) <=> Issued(c)) /\ (D!Current(c) <=> Current(c))
  BY <1>1 DEF D!Issued, Issued, D!Current, Current, D!Never, Never
<1>3. \A a : D!CurrentOf(a) = CurrentOf(a)
  BY <1>1, <1>2 DEF D!CurrentOf, CurrentOf
<1>4. D!FreshChallenge = FreshChallenge
  BY <1>2 DEF D!FreshChallenge, FreshChallenge, D!Draw, Draw
<1>5. QED
  BY <1>1, <1>2, <1>3, <1>4

LEMMA SameChoice ==
  ASSUME TablesTypeOK
  PROVE  /\ D!ExpiresAt = ExpiresAt /\ D!AvailableAt = AvailableAt /\ D!Attempts = Attempts
         /\ \A at : D!Expired(at) = Expired(at)
         /\ \A at : D!Exhausted(at) = Exhausted(at)
         /\ \A at : D!Claimable(at) = Claimable(at)
         /\ D!FreshClaim = FreshClaim
<1>1. D!ExpiresAt = ExpiresAt /\ D!AvailableAt = AvailableAt /\ D!Attempts = Attempts
  BY SameView DEF D!ExpiresAt, ExpiresAt, D!AvailableAt, AvailableAt, D!Attempts, Attempts
<1>2. \A c, at : D!Unleased(c, at) <=> Unleased(c, at)
  BY DEF D!Unleased, Unleased, D!Never, Never
<1>3. \A at : D!Expired(at) = Expired(at)
  BY <1>2, SameView DEF D!Expired, Expired
<1>4. \A at : D!Exhausted(at) = Exhausted(at)
  BY <1>2 DEF D!Exhausted, Exhausted
<1>5. \A at : D!Claimable(at) = Claimable(at)
  BY <1>2, SameView DEF D!Claimable, Claimable
<1>6. D!FreshClaim = FreshClaim
  BY DEF D!FreshClaim, FreshClaim, D!Draw, Draw
<1>7. QED
  BY <1>1, <1>3, <1>4, <1>5, <1>6

LEMMA SameCardinality ==
  ASSUME NEW S
  PROVE  D!Cardinality(S) = Cardinality(S)
BY DEF D!Cardinality, Cardinality

\* What does not read the challenges is the same by its text.
LEMMA SameText ==
  /\ D!IdleDispatcher = IdleDispatcher /\ D!Held = Held
  /\ \A key, S, n : D!FirstBy(key, S, n) = FirstBy(key, S, n)
  /\ \A d : D!EndTick(d) <=> EndTick(d)
  /\ \A d : D!Advance(d) <=> Advance(d)
  /\ \A d, c : D!Holds(d, c) <=> Holds(d, c)
  /\ \A d : D!NextAttemptAt(d) = NextAttemptAt(d)
  /\ \A d : D!Spent(d) <=> Spent(d)
  /\ \A row : D!Dequeue(row) = Dequeue(row)
  /\ \A row, at : D!Released(row, at) = Released(row, at)
  /\ \A superseded, fresh, at : D!Requeued(superseded, fresh, at) = Requeued(superseded, fresh, at)
<1>1. D!IdleDispatcher = IdleDispatcher /\ D!Held = Held
  BY DEF D!IdleDispatcher, IdleDispatcher, D!Held, Held, D!Never, Never
<1>2. \A key, S, n : D!FirstBy(key, S, n) = FirstBy(key, S, n)
  BY SameCardinality DEF D!FirstBy, FirstBy
<1>3. \A d : D!EndTick(d) <=> EndTick(d)
  BY <1>1 DEF D!EndTick, EndTick
<1>4. \A d : D!Advance(d) <=> Advance(d)
  BY <1>3 DEF D!Advance, Advance, D!Never, Never
<1>5. \A d, c : D!Holds(d, c) <=> Holds(d, c)
  BY DEF D!Holds, Holds
<1>6. \A d : D!NextAttemptAt(d) = NextAttemptAt(d)
  BY DEF D!NextAttemptAt, NextAttemptAt, D!BackoffAfter, BackoffAfter
<1>7. \A row : D!Dequeue(row) = Dequeue(row)
  BY DEF D!Dequeue, Dequeue, D!Never, Never
<1>8. \A row, at : D!Released(row, at) = Released(row, at)
  BY DEF D!Released, Released, D!Never, Never
<1>9. \A superseded, fresh, at : D!Requeued(superseded, fresh, at) = Requeued(superseded, fresh, at)
  BY <1>7 DEF D!Requeued, Requeued, D!NewDelivery, NewDelivery, D!Never, Never
<1>10. \A d : D!Spent(d) <=> Spent(d)
  BY DEF D!Spent, Spent
<1>11. QED
  BY <1>1, <1>2, <1>3, <1>4, <1>5, <1>6, <1>7, <1>8, <1>9, <1>10

LEMMA DispatchersThemselves ==
  ASSUME TypeOK, Carriage, DeliveryNext \/ Elapse
  PROVE  D!DeliveryNext \/ D!Elapse
<1>0. TablesTypeOK
  BY DEF TypeOK
<1>1. challenge' = challenge => ChallengeForDispatchers' = ChallengeForDispatchers
  BY NothingEnded
<1>2. ASSUME NEW d \in Dispatcher, disp[d].pc = "record" PROVE D!Settles(d) <=> Settles(d)
  <2>1. disp[d].current \in ChallengeId
    BY <1>2 DEF Carriage, CarriesIssued, Stage
  <2>2. QED
    BY <1>0, <2>1, SameView, SameText DEF D!Settles, Settles
<1>3. ASSUME NEW d \in Dispatcher, StartTick(d) PROVE D!StartTick(d)
  BY <1>1, <1>3, SameText DEF StartTick, D!StartTick, tables, D!tables
<1>4. ASSUME NEW d \in Dispatcher, SweepExpired(d) PROVE D!SweepExpired(d)
  <2>1. /\ D!Held = Held /\ D!ExpiresAt = ExpiresAt
        /\ D!Expired(disp[d].at) = Expired(disp[d].at)
    BY <1>0, SameChoice, SameText
  <2>2. QED
    BY <1>1, <1>4, <2>1, SameText, SameCardinality DEF SweepExpired, D!SweepExpired
<1>5. ASSUME NEW d \in Dispatcher, SweepExhausted(d) PROVE D!SweepExhausted(d)
  <2>1. /\ D!Held = Held /\ D!Attempts = Attempts
        /\ D!Exhausted(disp[d].at) = Exhausted(disp[d].at)
    BY <1>0, SameChoice, SameText
  <2>2. QED
    BY <1>1, <1>5, <2>1, SameText, SameCardinality DEF SweepExhausted, D!SweepExhausted
<1>6. ASSUME NEW d \in Dispatcher, ClaimDeliveries(d) PROVE D!ClaimDeliveries(d)
  <2> DEFINE Effect(claim, claimed) ==
               /\ outbox' = [c \in ChallengeId |->
                    IF c \in claimed
                    THEN [outbox[c] EXCEPT !.attempts = @ + 1, !.claim = claim,
                                           !.claimExpiresAt = disp[d].at + Lease]
                    ELSE outbox[c]]
               /\ IF claimed = {}
                  THEN D!EndTick(d)
                  ELSE disp' = [disp EXCEPT ![d].pc = "send", ![d].claim = claim,
                         ![d].batch = [c \in ChallengeId |->
                             IF c \in claimed THEN outbox[c].attempts + 1 ELSE 0]]
  <2>1. /\ D!Held = Held /\ D!AvailableAt = AvailableAt /\ D!FreshClaim = FreshClaim
        /\ D!Claimable(disp[d].at) = Claimable(disp[d].at)
    BY <1>0, SameChoice, SameText
  <2>2. /\ disp[d].pc = "claim"
        /\ \E claim \in FreshClaim, held \in Held :
             \E claimed \in FirstBy(AvailableAt, Claimable(disp[d].at) \ held, Batch) :
               Effect(claim, claimed)
        /\ UNCHANGED <<now, challenge, sent>>
    <3> DEFINE Plain(claim, claimed) ==
                 /\ outbox' = [c \in ChallengeId |->
                      IF c \in claimed
                      THEN [outbox[c] EXCEPT !.attempts = @ + 1, !.claim = claim,
                                             !.claimExpiresAt = disp[d].at + Lease]
                      ELSE outbox[c]]
                 /\ IF claimed = {}
                    THEN EndTick(d)
                    ELSE disp' = [disp EXCEPT ![d].pc = "send", ![d].claim = claim,
                           ![d].batch = [c \in ChallengeId |->
                               IF c \in claimed THEN outbox[c].attempts + 1 ELSE 0]]
    <3>1. /\ disp[d].pc = "claim"
          /\ \E claim \in FreshClaim, held \in Held :
               \E claimed \in FirstBy(AvailableAt, Claimable(disp[d].at) \ held, Batch) :
                 Plain(claim, claimed)
          /\ UNCHANGED <<now, challenge, sent>>
      BY <1>6 DEF ClaimDeliveries
    <3>2. ASSUME NEW claim, NEW claimed, Plain(claim, claimed) PROVE Effect(claim, claimed)
      BY <3>2, SameText
    <3> HIDE DEF Plain, Effect
    <3>3. QED
      BY <3>1, <3>2
  <2>3. \E claim \in D!FreshClaim, held \in D!Held :
          \E claimed \in D!FirstBy(D!AvailableAt, D!Claimable(disp[d].at) \ held, Batch) :
            Effect(claim, claimed)
    <3> HIDE DEF Effect
    <3>1. QED
      BY <2>1, <2>2, SameText
  <2>4. QED
    BY <1>1, <2>2, <2>3 DEF D!ClaimDeliveries
<1>7. ASSUME NEW d \in Dispatcher, BeginSend(d) PROVE D!BeginSend(d)
  BY <1>1, <1>7 DEF BeginSend, D!BeginSend, tables, D!tables
<1>8. ASSUME NEW d \in Dispatcher, EndSend(d) PROVE D!EndSend(d)
  BY <1>1, <1>8 DEF EndSend, D!EndSend, tables, D!tables, Never, D!Never
<1>9. ASSUME NEW d \in Dispatcher, Accept(d) PROVE D!Accept(d)
  BY <1>1, <1>9 DEF Accept, D!Accept
<1>10. ASSUME NEW d \in Dispatcher, SettleDelivery(d) PROVE D!SettleDelivery(d)
  BY <1>1, <1>2, <1>10, SameText DEF SettleDelivery, D!SettleDelivery
<1>11. ASSUME NEW d \in Dispatcher, RescheduleDelivery(d) PROVE D!RescheduleDelivery(d)
  BY <1>1, <1>2, <1>11, SameText DEF RescheduleDelivery, D!RescheduleDelivery
<1>12. ASSUME NEW d \in Dispatcher, LoseDelivery(d) PROVE D!LoseDelivery(d)
  BY <1>1, <1>12, SameText DEF LoseDelivery, D!LoseDelivery, tables, D!tables
<1>13. ASSUME NEW d \in Dispatcher, AbortTick(d) PROVE D!AbortTick(d)
  BY <1>1, <1>13, SameText DEF AbortTick, D!AbortTick, tables, D!tables
<1>14. ASSUME Elapse PROVE D!Elapse
  BY <1>1, <1>14 DEF Elapse, D!Elapse, tables, D!tables
<1>15. ASSUME NEW d \in Dispatcher, Decide(d) PROVE D!Decide(d)
  BY <1>1, <1>15, SameText DEF Decide, D!Decide, tables, D!tables, Never, D!Never
<1>16. QED
  BY <1>3, <1>4, <1>5, <1>6, <1>7, <1>8, <1>9, <1>10, <1>11, <1>12, <1>13, <1>14, <1>15
  DEF DeliveryNext, Dispatch, D!DeliveryNext, D!Dispatch

\* An issuance is what dispatchers call a post, whatever it is issued for.
LEMMA IssuanceSeen ==
  ASSUME TypeOK, NEW a \in Address, NEW at \in 0..now, NEW revision \in Nat,
         NEW fresh \in FreshChallenge,
         challenge' = Reissued(a, CurrentOf(a), fresh, at, revision),
         outbox' = Requeued(CurrentOf(a), fresh, at),
         \A c \in CurrentOf(a) : challenge[c].issuedAt < at,
         now' = now, sent' = sent, disp' = disp
  PROVE  D!Post(a, at)
<1>0. TablesTypeOK /\ at \in Nat
  BY DEF TypeOK, TablesTypeOK, Time
<1>1. \A c \in D!CurrentOf(a) : ChallengeForDispatchers[c].issuedAt < at
  BY <1>0, SameView DEF CurrentOf
<1>2. ASSUME NEW c \in ChallengeId
      PROVE  Outer(challenge'[c]) =
               IF c = fresh THEN NewChallenge(a, at, 0)
               ELSE IF c \in CurrentOf(a) THEN [Outer(challenge[c]) EXCEPT !.supersededAt = at]
               ELSE Outer(challenge[c])
  <2>1. challenge[c] \in ChallengeRow
    BY <1>0 DEF TablesTypeOK
  <2>2. CASE c = fresh
    BY <1>0, <2>2, OuterNew DEF Reissued
  <2>3. CASE c # fresh
    BY <1>0, <2>1, <2>3, OuterEnded DEF Reissued
  <2>4. QED
    BY <2>2, <2>3
<1>3. ChallengeForDispatchers' = D!Reissued(a, CurrentOf(a), fresh, at, 0)
  BY <1>0, <1>2, OuterRows DEF D!Reissued, D!NewChallenge, NewChallenge, D!Never, Never
<1>4. outbox' = D!Requeued(CurrentOf(a), fresh, at)
  BY SameText
<1>5. fresh \in D!FreshChallenge /\ D!CurrentOf(a) = CurrentOf(a)
  BY <1>0, SameView
<1>6. QED
  BY <1>1, <1>3, <1>4, <1>5 DEF D!Post

\* Creations and refreshes post; no posting is older than what it supersedes.
LEMMA RequestsPost ==
  ASSUME TypeOK, R!RegistrationIInv, disp' = disp, NEW r \in Request,
         CreateRegistration(r) \/ RefreshRegistration(r)
  PROVE  D!Requests
<1> DEFINE a == req[r].address
           at == req[r].at
<1>1. /\ a \in Address /\ at \in 0..now /\ account[a] \in AccountRow
      /\ \A c \in ChallengeId : challenge[c] \in ChallengeRow
  <2>1. req[r].at <= now /\ req[r].at \in Nat /\ now \in Nat
    BY DEF R!RegistrationIInv, R!InstantsArePast, TypeOK, TablesTypeOK, RequestTypeOK,
           RequestState, Time
  <2>2. QED
    BY <2>1 DEF CreateRegistration, RefreshRegistration, TypeOK, TablesTypeOK, RequestTypeOK
<1>2. CASE CreateRegistration(r)
  <2>1. CurrentOf(a) = {}
    BY <1>1, <1>2 DEF CreateRegistration, CurrentOf, Current, Exists, Issued, R!RegistrationIInv,
                      R!ChallengesHaveAccounts, R!Issued, R!Exists
  <2>2. PICK fresh \in FreshChallenge :
          challenge' = Reissued(a, {}, fresh, at, 1) /\ outbox' = Requeued({}, fresh, at)
    BY <1>2 DEF CreateRegistration
  <2>3. now' = now /\ sent' = sent
    BY <1>2 DEF CreateRegistration
  <2>4. D!Post(a, at)
    BY <1>1, <2>1, <2>2, <2>3, IssuanceSeen
  <2>5. QED
    BY <1>1, <2>4 DEF D!Requests
<1>3. CASE RefreshRegistration(r)
  <2> DEFINE revision == RefreshedRevision(a, req[r].op)
  <2>1. PICK fresh \in FreshChallenge :
          /\ challenge' = Reissued(a, CurrentOf(a), fresh, at, revision)
          /\ outbox' = Requeued(CurrentOf(a), fresh, at)
    BY <1>3 DEF RefreshRegistration
  <2>2. now' = now /\ sent' = sent /\ revision \in Nat
    BY <1>1, <1>3 DEF RefreshRegistration, RefreshedRevision, AccountRow
  <2>3. ASSUME NEW c \in CurrentOf(a) PROVE challenge[c].issuedAt < at
    <3>1. at - challenge[c].issuedAt >= ResendInterval
      BY <1>3 DEF RefreshRegistration, MayRefresh, MayReissueAt
    <3>2. challenge[c].issuedAt \in Int /\ at \in Int
      BY <1>1 DEF CurrentOf, ChallengeRow, Instant, Time, Never
    <3>3. QED
      BY <3>1, <3>2, TablesAssumption
  <2> HIDE DEF revision
  <2>4. D!Post(a, at)
    BY <1>1, <2>1, <2>2, <2>3, IssuanceSeen
  <2>5. QED
    BY <1>1, <2>4 DEF D!Requests
<1>4. QED
  BY <1>2, <1>3

\* A verification spends a challenge whose message was carried.
LEMMA RequestsSpend ==
  ASSUME TypeOK, R!RegistrationIInv, disp' = disp, NEW r \in Request, ConsumeVerification(r)
  PROVE  D!Requests
<1> DEFINE c == req[r].challenge
           at == req[r].at
<1>0. TablesTypeOK
  BY DEF TypeOK
<1>1. /\ c \in ChallengeId /\ at \in 0..now /\ at \in Nat /\ challenge[c] \in ChallengeRow
  <2>1. req[r].at <= now /\ req[r].at \in Nat /\ now \in Nat
    BY DEF R!RegistrationIInv, R!InstantsArePast, TypeOK, TablesTypeOK, RequestTypeOK,
           RequestState, Time
  <2>2. QED
    BY <2>1 DEF ConsumeVerification, TypeOK, TablesTypeOK, RequestTypeOK
<1>2. /\ MayConsume(c, at)
      /\ challenge' = [challenge EXCEPT ![c].consumedAt = at]
      /\ outbox' = [outbox EXCEPT ![c] = Dequeue(outbox[c])]
      /\ now' = now /\ sent' = sent
  BY DEF ConsumeVerification
<1>3. Issued(c) /\ SentForRequests[c] > 0 /\ challenge[c].issuedAt <= at
  BY DEF ConsumeVerification, R!RegistrationIInv, R!PresentedAfterIssuance, R!Issued, Issued
<1>4. sent[c] > 0
  BY <1>1, <1>3 DEF SentForRequests
<1>5. D!Current(c) /\ ChallengeForDispatchers[c].issuedAt <= at
      /\ at < ChallengeForDispatchers[c].expiresAt
  BY <1>0, <1>1, <1>2, <1>3, SameView DEF MayConsume, Current
<1>6. ASSUME NEW b \in ChallengeId
      PROVE  Outer(challenge'[b]) =
               IF b = c THEN [Outer(challenge[b]) EXCEPT !.consumedAt = at] ELSE Outer(challenge[b])
  <2>1. CASE b = c
    <3>1. challenge'[b] = [challenge[b] EXCEPT !.consumedAt = at]
      BY <1>0, <1>1, <1>2, <2>1 DEF TablesTypeOK
    <3>2. QED
      BY <1>1, <2>1, <3>1, OuterEnded
  <2>2. CASE b # c
    BY <1>0, <1>2, <2>2 DEF TablesTypeOK
  <2>3. QED
    BY <2>1, <2>2
<1>7. ChallengeForDispatchers' = [ChallengeForDispatchers EXCEPT ![c].consumedAt = at]
  <2>1. ChallengeForDispatchers' = [b \in ChallengeId |-> Outer(challenge'[b])]
        /\ ChallengeForDispatchers = [b \in ChallengeId |-> Outer(challenge[b])]
    BY OuterRows
  <2>2. [ChallengeForDispatchers EXCEPT ![c].consumedAt = at] =
          [b \in ChallengeId |-> IF b = c THEN [Outer(challenge[b]) EXCEPT !.consumedAt = at]
                                 ELSE Outer(challenge[b])]
    BY <1>1, <2>1
  <2>3. QED
    BY <1>6, <2>1, <2>2
<1>8. outbox' = [outbox EXCEPT ![c] = D!Dequeue(outbox[c])]
  BY <1>2, SameText
<1>9. D!Spend(c, at)
  BY <1>2, <1>4, <1>5, <1>7, <1>8 DEF D!Spend
<1>10. QED
  BY <1>1, <1>9 DEF D!Requests

LEMMA RequestsExpected ==
  ASSUME TypeOK, R!RegistrationIInv, RegistrationNext, disp' = disp
  PROVE  D!Requests \/ UNCHANGED D!deliveryVars
<1>1. ASSUME NEW r \in Request,
             \/ \E a \in Address : StartRegister(r, a) \/ StartReissue(r, a)
             \/ \E c \in ChallengeId : StartVerify(r, c)
             \/ Discover(r) \/ Collide(r) \/ RefuseRefresh(r)
             \/ RefuseVerification(r) \/ AbandonRequest(r)
      PROVE  UNCHANGED <<now, challenge, outbox, sent>>
  BY <1>1 DEF StartRegister, StartReissue, StartVerify, Discover, Collide, RefuseRefresh,
              RefuseVerification, AbandonRequest, tables
<1>2. ASSUME NEW a \in Address, CreateAccount(a) \/ Suspend(a)
      PROVE  UNCHANGED <<now, challenge, outbox, sent>>
  BY <1>2 DEF CreateAccount, Suspend
<1>3. UNCHANGED <<now, challenge, outbox, sent>> => UNCHANGED D!deliveryVars
  BY NothingEnded DEF D!deliveryVars
<1>4. QED
  BY <1>1, <1>2, <1>3, RequestsPost, RequestsSpend DEF RegistrationNext, RequestStep

LEMMA SeenByDispatchers == Spec => D!DeliverySpec
<1>1. Init => D!DeliveryInit
  <2> SUFFICES ASSUME Init PROVE D!DeliveryInit
    OBVIOUS
  <2>1. Outer(Unissued) = Unissued
    <3>1. Unissued \in ChallengeRow /\ Unissued.revision = 0
      BY DEF Unissued, ChallengeRow, Instant
    <3>2. QED
      BY <3>1, OuterRow, SameChallenge
  <2>2. ChallengeForDispatchers = [c \in ChallengeId |-> Unissued]
    BY <2>1, OuterRows DEF Init, TablesInit
  <2>3. QED
    BY <2>2 DEF Init, TablesInit, DispatcherInit, D!DeliveryInit, D!TablesInit, D!DispatcherInit,
                Unissued, D!Unissued, NoDelivery, D!NoDelivery, IdleDispatcher, D!IdleDispatcher,
                Never, D!Never
<1>2. TypeOK /\ Carriage /\ R!RegistrationIInv /\ [Next]_vars =>
        [D!DeliveryNext \/ D!Elapse \/ D!Requests]_(D!deliveryVars)
  <2> SUFFICES ASSUME TypeOK, Carriage, R!RegistrationIInv, [Next]_vars
               PROVE  [D!DeliveryNext \/ D!Elapse \/ D!Requests]_(D!deliveryVars)
    OBVIOUS
  <2>1. CASE RegistrationNext /\ UNCHANGED disp
    BY <2>1, RequestsExpected
  <2>2. CASE DeliveryNext \/ Elapse
    BY <2>2, DispatchersThemselves
  <2>3. CASE UNCHANGED vars
    BY <2>3, NothingEnded DEF vars, D!deliveryVars
  <2>4. QED
    BY <2>1, <2>2, <2>3 DEF Next
<1>3. QED
  BY <1>1, <1>2, TypeCorrect, CarriageHolds, RegistrationHolds, PTL DEF Spec, D!DeliverySpec

LEMMA SameDelivery == D!DeliverySpec <=> ForDispatchers!DeliverySpec
<1>1. D!DeliveryInit <=> ForDispatchers!DeliveryInit
  BY DEF D!DeliveryInit, ForDispatchers!DeliveryInit, D!TablesInit, ForDispatchers!TablesInit,
         D!DispatcherInit, ForDispatchers!DispatcherInit, D!Unissued, ForDispatchers!Unissued,
         D!NoDelivery, ForDispatchers!NoDelivery, D!IdleDispatcher, ForDispatchers!IdleDispatcher,
         D!Never, ForDispatchers!Never
<1>2. D!DeliveryNext \/ D!Elapse \/ D!Requests <=>
        ForDispatchers!DeliveryNext \/ ForDispatchers!Elapse \/ ForDispatchers!Requests
  BY Zenon
  DEF  D!DeliveryNext, ForDispatchers!DeliveryNext, D!Elapse, ForDispatchers!Elapse,
       D!Requests, ForDispatchers!Requests, D!Dispatch, ForDispatchers!Dispatch,
       D!StartTick, ForDispatchers!StartTick, D!SweepExpired, ForDispatchers!SweepExpired,
       D!SweepExhausted, ForDispatchers!SweepExhausted, D!ClaimDeliveries,
       ForDispatchers!ClaimDeliveries, D!BeginSend, ForDispatchers!BeginSend, D!EndSend,
       ForDispatchers!EndSend, D!Decide, ForDispatchers!Decide, D!Spent, ForDispatchers!Spent,
       D!SettleDelivery, ForDispatchers!SettleDelivery,
       D!RescheduleDelivery, ForDispatchers!RescheduleDelivery, D!LoseDelivery,
       ForDispatchers!LoseDelivery, D!Accept, ForDispatchers!Accept, D!AbortTick,
       ForDispatchers!AbortTick, D!Post, ForDispatchers!Post, D!Spend,
       ForDispatchers!Spend, D!tables, ForDispatchers!tables, D!IdleDispatcher,
       ForDispatchers!IdleDispatcher, D!EndTick, ForDispatchers!EndTick, D!Held,
       ForDispatchers!Held, D!FirstBy, ForDispatchers!FirstBy, D!ExpiresAt,
       ForDispatchers!ExpiresAt, D!AvailableAt, ForDispatchers!AvailableAt, D!Attempts,
       ForDispatchers!Attempts, D!Expired, ForDispatchers!Expired, D!Exhausted,
       ForDispatchers!Exhausted, D!Claimable, ForDispatchers!Claimable, D!FreshClaim,
       ForDispatchers!FreshClaim, D!Draw, ForDispatchers!Draw, D!Current,
       ForDispatchers!Current, D!CurrentOf, ForDispatchers!CurrentOf, D!Issued,
       ForDispatchers!Issued, D!FreshChallenge, ForDispatchers!FreshChallenge, D!Unleased,
       ForDispatchers!Unleased, D!Dequeue, ForDispatchers!Dequeue, D!Advance,
       ForDispatchers!Advance, D!Settles, ForDispatchers!Settles, D!NextAttemptAt,
       ForDispatchers!NextAttemptAt, D!BackoffAfter, ForDispatchers!BackoffAfter, D!Holds,
       ForDispatchers!Holds, D!Released, ForDispatchers!Released, D!Reissued,
       ForDispatchers!Reissued, D!Requeued, ForDispatchers!Requeued, D!NewChallenge,
       ForDispatchers!NewChallenge, D!NewDelivery, ForDispatchers!NewDelivery, D!Never,
       ForDispatchers!Never, D!Cardinality, ForDispatchers!Cardinality
<1>3. [D!DeliveryNext \/ D!Elapse \/ D!Requests]_(D!deliveryVars) <=>
      [ForDispatchers!DeliveryNext \/ ForDispatchers!Elapse \/ ForDispatchers!Requests]_(ForDispatchers!deliveryVars)
  BY <1>2 DEF D!deliveryVars, ForDispatchers!deliveryVars
<1>4. QED
  BY <1>1, <1>3, PTL DEF D!DeliverySpec, ForDispatchers!DeliverySpec

\* The requests do to the tables only what the dispatchers expect: what they post is
\* younger than what it supersedes and no younger than the clock, and what they
\* consume is current, unexpired and was carried, however late they commit.
THEOREM RequestsAreAsExpected == Spec => RequestsAreExpected
BY SeenByDispatchers, SameDelivery DEF RequestsAreExpected

\* So the invariant of delivery alone holds beside requests.
LEMMA DeliveryHolds == Spec => []D!DeliveryIInv
<1>0. D!IsFiniteSet(ChallengeId)
  BY IdentifiersAssumption DEF D!IsFiniteSet, IsFiniteSet
<1>1. D!DeliveryInit => D!DeliveryIInv
  BY <1>0, D!DeliveryInvInit, TablesAssumption, PolicyAssumption
<1>2. D!DeliveryIInv /\ [D!DeliveryStep]_(D!deliveryVars) => D!DeliveryIInv'
  BY <1>0, D!DeliveryInvStep, TablesAssumption, PolicyAssumption
<1>3. QED
  BY <1>1, <1>2, SeenByDispatchers, PTL DEF D!DeliverySpec, D!DeliveryStep

-----------------------------------------------------------------------------
(* What was promised of each alone, promised of both together.               *)

\* The rows the two components share, as they are, satisfy what registration says of
\* them as it sees them.
LEMMA PromisesSeen ==
  ASSUME TypeOK, R!RegistrationIInv
  PROVE  /\ OneCurrentChallenge /\ QueuedOnlyWhileCurrent /\ VerifiedByOneConsumption
         /\ PasswordBehindTheToken /\ ResendSpacing /\ RetryNeverCollides
         /\ \A c \in ChallengeId : challenge[c].consumedAt # Never => sent[c] > 0
<1>1. /\ \A c : R!Issued(c) <=> Issued(c)
      /\ \A c : R!Current(c) <=> Current(c)
      /\ \A a : R!CurrentOf(a) = CurrentOf(a) /\ (R!Exists(a) <=> Exists(a))
  BY SameReading DEF R!Current, Current, R!Never, Never
<1>2. OneCurrentChallenge
  BY <1>1 DEF OneCurrentChallenge, R!RegistrationIInv, R!OneCurrentChallenge
<1>3. QueuedOnlyWhileCurrent
  <2>1. \A c \in ChallengeId : OutboxForRequests[c].queued = outbox[c].queued
    BY SeenRows DEF TypeOK, Seen
  <2>2. QED
    BY <1>1, <2>1 DEF QueuedOnlyWhileCurrent, R!RegistrationIInv, R!QueuedOnlyWhileCurrent
<1>4. VerifiedByOneConsumption
  BY DEF VerifiedByOneConsumption, R!RegistrationIInv, R!VerifiedByOneConsumption, R!Never, Never
<1>5. PasswordBehindTheToken
  BY <1>1 DEF PasswordBehindTheToken, R!RegistrationIInv, R!PasswordBehindTheToken
<1>6. ResendSpacing
  BY <1>1 DEF ResendSpacing, R!RegistrationIInv, R!ResendSpacing
<1>7. RetryNeverCollides
  BY <1>1 DEF RetryNeverCollides, R!RegistrationIInv, R!RetryNeverCollides
<1>8. ASSUME NEW c \in ChallengeId, challenge[c].consumedAt # Never PROVE sent[c] > 0
  <2>1. SentForRequests[c] > 0
    BY <1>8 DEF R!RegistrationIInv, R!ConsumedWereCarried, R!Never, Never
  <2>2. QED
    BY <2>1 DEF SentForRequests
<1>9. QED
  BY <1>2, <1>3, <1>4, <1>5, <1>6, <1>7, <1>8

\* Whatever any number of dispatchers does to the outbox meanwhile, one token at
\* most works for an address, its message is queued only as long as it works, and
\* the account it activates has the password it was sent for.
THEOREM TokensStaySound ==
  Spec => [](OneCurrentChallenge /\ QueuedOnlyWhileCurrent /\ PasswordBehindTheToken)
<1>1. TypeOK /\ R!RegistrationIInv =>
        OneCurrentChallenge /\ QueuedOnlyWhileCurrent /\ PasswordBehindTheToken
  BY PromisesSeen
<1>2. QED
  BY <1>1, TypeCorrect, RegistrationHolds, PTL

\* Issuances stay spaced and the retry of a collision stays without one, too.
THEOREM RequestsStaySound == Spec => [](ResendSpacing /\ RetryNeverCollides)
<1>1. TypeOK /\ R!RegistrationIInv => ResendSpacing /\ RetryNeverCollides
  BY PromisesSeen
<1>2. QED
  BY <1>1, TypeCorrect, RegistrationHolds, PTL

\* Behind a verified address there is exactly one consumed challenge, consumed when
\* the address was verified, and the transport had accepted a message with its token.
VerifiedByAMessage ==
  \A a \in Address : account[a].verifiedAt # Never =>
    \E c \in ChallengeId :
      /\ challenge[c].address = a
      /\ challenge[c].consumedAt = account[a].verifiedAt
      /\ sent[c] > 0

\* Nobody's address is verified unless a dispatcher carried a message to it.
THEOREM VerifiedWereReached == Spec => [](VerifiedByOneConsumption /\ VerifiedByAMessage)
<1>1. ASSUME TypeOK, R!RegistrationIInv PROVE VerifiedByOneConsumption /\ VerifiedByAMessage
  <2>1. /\ VerifiedByOneConsumption
        /\ \A c \in ChallengeId : challenge[c].consumedAt # Never => sent[c] > 0
    BY <1>1, PromisesSeen
  <2>2. ASSUME NEW a \in Address, account[a].verifiedAt # Never
        PROVE  \E c \in ChallengeId :
                 /\ challenge[c].address = a
                 /\ challenge[c].consumedAt = account[a].verifiedAt
                 /\ sent[c] > 0
    <3>1. PICK c \in ChallengeId :
            /\ challenge[c].address = a /\ challenge[c].consumedAt # Never
            /\ account[a].verifiedAt = challenge[c].consumedAt
      BY <2>1, <2>2 DEF VerifiedByOneConsumption
    <3>2. QED
      BY <2>1, <3>1
  <2>3. QED
    BY <2>1, <2>2 DEF VerifiedByAMessage
<1>2. QED
  BY <1>1, TypeCorrect, RegistrationHolds, PTL

\* A retry that was decided is due after the challenge was issued, as the decision is.
RetriesAfterIssuance == \A d \in Dispatcher :
  disp[d].pc = "record" /\ ~Spent(d) => disp[d].next >= challenge[disp[d].current].issuedAt

LEMMA RetriesInit == Init => RetriesAfterIssuance
BY DEF Init, DispatcherInit, IdleDispatcher, RetriesAfterIssuance

LEMMA RetriesStep ==
  TypeOK /\ TypeOK' /\ Carriage /\ R!RegistrationIInv /\ RetriesAfterIssuance /\ [Next]_vars
    => RetriesAfterIssuance'
<1> SUFFICES ASSUME TypeOK, TypeOK', Carriage, R!RegistrationIInv, RetriesAfterIssuance,
                    [Next]_vars, NEW d \in Dispatcher, disp'[d].pc = "record", ~Spent(d)'
             PROVE  disp'[d].next >= challenge'[disp'[d].current].issuedAt
  BY DEF RetriesAfterIssuance
<1>1. CASE disp'[d] = disp[d]
  <2>1. disp[d].pc = "record" /\ ~Spent(d)
    BY <1>1 DEF Spent
  <2>2. disp[d].current \in ChallengeId /\ Issued(disp[d].current)
    BY <2>1 DEF Carriage, CarriesIssued, Stage
  <2>3. challenge'[disp[d].current].issuedAt = challenge[disp[d].current].issuedAt
    BY <2>2, StaysIssued
  <2>4. QED
    BY <1>1, <2>1, <2>3 DEF RetriesAfterIssuance
<1>2. CASE Decide(d)
  <2>1. disp[d].current \in ChallengeId /\ Issued(disp[d].current)
    BY <1>2 DEF Decide, Carriage, CarriesIssued, Stage
  <2>2. challenge[disp[d].current].issuedAt \in 0..now
    BY <2>1, SameReading DEF R!RegistrationIInv, R!InstantsArePast
  <2>3. disp[d] \in DispatcherState /\ now \in Nat /\ challenge' = challenge
    BY <1>2 DEF Decide, tables, TypeOK, TablesTypeOK, DispatcherTypeOK, Time
  <2>4. /\ disp'[d].current = disp[d].current
        /\ disp'[d].next = IF Spent(d) THEN Never ELSE NextAttemptAt(d)
        /\ disp'[d].ok = disp[d].ok /\ disp'[d].batch = disp[d].batch
    BY <1>2, <2>3 DEF Decide, TypeOK, DispatcherTypeOK, DispatcherState
  <2>5. ~Spent(d)
    BY <2>4 DEF Spent
  <2>6. NextAttemptAt(d) \in Nat /\ NextAttemptAt(d) >= now
    BY <2>3, BackoffTyped DEF NextAttemptAt
  <2>7. QED
    BY <2>2, <2>3, <2>4, <2>5, <2>6
<1>3. CASE DeliveryNext
  <2>1. PICK e \in Dispatcher : Moves(e)
    BY <1>3, DispatcherMoves DEF DeliveryNext, Carriage, CarriesIssued
  <2>2. QED
    BY <1>1, <1>2, <2>1 DEF Moves
<1>4. QED
  BY <1>1, <1>3 DEF Next, Elapse, vars

\* No message is due before its challenge was issued: a retry is due as it was decided.
DueAfterIssuance == \A c \in ChallengeId :
  outbox[c].queued => outbox[c].availableAt >= challenge[c].issuedAt

LEMMA DueInit == Init => DueAfterIssuance
BY DEF Init, TablesInit, NoDelivery, DueAfterIssuance

LEMMA DueStep ==
  TypeOK /\ TypeOK' /\ Carriage /\ R!RegistrationIInv /\ RetriesAfterIssuance /\ DueAfterIssuance
    /\ [Next]_vars => DueAfterIssuance'
<1> SUFFICES ASSUME TypeOK, TypeOK', Carriage, R!RegistrationIInv, RetriesAfterIssuance,
                    DueAfterIssuance, [Next]_vars
             PROVE  DueAfterIssuance'
  OBVIOUS
<1>1. ASSUME NEW c \in ChallengeId
      PROVE  /\ outbox[c] \in DeliveryRow /\ challenge[c] \in ChallengeRow
             /\ outbox[c].queued => /\ challenge[c].issuedAt \in Nat /\ challenge[c].issuedAt <= now
                                    /\ outbox[c].availableAt >= challenge[c].issuedAt
  <2>1. outbox[c].queued => Issued(c)
    BY PromisesSeen DEF QueuedOnlyWhileCurrent, Current
  <2>2. Issued(c) => challenge[c].issuedAt \in 0..now
    BY SameReading DEF R!RegistrationIInv, R!InstantsArePast
  <2>3. QED
    BY <2>1, <2>2 DEF TypeOK, TablesTypeOK, DueAfterIssuance
<1>2. ASSUME NEW a, NEW superseded, NEW fresh \in ChallengeId, NEW at \in Nat, NEW revision,
             challenge' = Reissued(a, superseded, fresh, at, revision),
             outbox' = Requeued(superseded, fresh, at)
      PROVE  DueAfterIssuance'
  <2> SUFFICES ASSUME NEW c \in ChallengeId, outbox'[c].queued
               PROVE  outbox'[c].availableAt >= challenge'[c].issuedAt
    BY DEF DueAfterIssuance
  <2>1. CASE c = fresh
    BY <1>2, <2>1 DEF Reissued, Requeued, NewChallenge, NewDelivery
  <2>2. CASE c # fresh
    <3>1. challenge'[c].issuedAt = challenge[c].issuedAt
      BY <1>1, <1>2, <2>2 DEF Reissued, ChallengeRow
    <3>2. outbox'[c] = outbox[c]
      BY <1>1, <1>2, <2>2 DEF Requeued, Dequeue, DeliveryRow
    <3>3. QED
      BY <1>1, <3>1, <3>2
  <2>3. QED
    BY <2>1, <2>2
<1>3. ASSUME NEW r \in Request, CreateRegistration(r) \/ RefreshRegistration(r)
      PROVE  DueAfterIssuance'
  <2>1. req[r].at \in Nat
    BY DEF TypeOK, RequestTypeOK, RequestState, Time
  <2>2. \A fresh \in FreshChallenge : fresh \in ChallengeId
    BY DEF FreshChallenge, Draw
  <2>3. QED
    BY <1>2, <1>3, <2>1, <2>2 DEF CreateRegistration, RefreshRegistration
<1>4. ASSUME NEW r \in Request, ConsumeVerification(r) PROVE DueAfterIssuance'
  <2> SUFFICES ASSUME NEW c \in ChallengeId, outbox'[c].queued
               PROVE  outbox'[c].availableAt >= challenge'[c].issuedAt
    BY DEF DueAfterIssuance
  <2>1. /\ challenge' = [challenge EXCEPT ![req[r].challenge].consumedAt = req[r].at]
        /\ outbox' = [outbox EXCEPT ![req[r].challenge] = Dequeue(outbox[req[r].challenge])]
    BY <1>4 DEF ConsumeVerification
  <2>2. challenge'[c].issuedAt = challenge[c].issuedAt
    BY <1>1, <2>1 DEF TypeOK, TablesTypeOK, ChallengeRow
  <2>3. outbox'[c] = outbox[c]
    BY <1>1, <2>1 DEF TypeOK, TablesTypeOK, Dequeue, DeliveryRow
  <2>4. QED
    BY <1>1, <2>2, <2>3
<1>5. ASSUME challenge' = challenge,
             \A c \in ChallengeId : outbox'[c].queued =>
               /\ outbox[c].queued
               /\ \/ outbox'[c].availableAt = outbox[c].availableAt
                  \/ outbox'[c].availableAt >= challenge[c].issuedAt
      PROVE  DueAfterIssuance'
  <2> SUFFICES ASSUME NEW c \in ChallengeId, outbox'[c].queued
               PROVE  outbox'[c].availableAt >= challenge[c].issuedAt
    BY <1>5 DEF DueAfterIssuance
  <2>1. QED
    BY <1>1, <1>5
<1>6. ASSUME NEW rows, Swept(rows), challenge' = challenge PROVE DueAfterIssuance'
  <2>1. \A c \in ChallengeId : outbox'[c].queued => outbox'[c] = outbox[c]
    BY <1>1, <1>6 DEF Swept, Dequeue, DeliveryRow
  <2>2. QED
    BY <1>5, <1>6, <2>1
<1>7. ASSUME NEW d \in Dispatcher, SweepExpired(d) \/ SweepExhausted(d) PROVE DueAfterIssuance'
  <2>1. challenge' = challenge
    BY <1>7 DEF SweepExpired, SweepExhausted
  <2>2. QED
    BY <1>6, <1>7, <2>1, SweepExpiredEffect, SweepExhaustedEffect
<1>8. ASSUME NEW d \in Dispatcher, ClaimDeliveries(d) PROVE DueAfterIssuance'
  <2>1. PICK claim, rows : Leased(d, claim, rows)
    BY <1>8, ClaimEffect
  <2>2. \A c \in ChallengeId : /\ outbox'[c].queued = outbox[c].queued
                               /\ outbox'[c].availableAt = outbox[c].availableAt
    BY <1>1, <2>1 DEF Leased, DeliveryRow
  <2>3. QED
    BY <1>5, <1>8, <2>2 DEF ClaimDeliveries
<1>9. ASSUME NEW d \in Dispatcher, SettleDelivery(d) PROVE DueAfterIssuance'
  <2>1. \A c \in ChallengeId : outbox'[c].queued => outbox'[c] = outbox[c]
    BY <1>1, <1>9 DEF SettleDelivery, TypeOK, TablesTypeOK, Dequeue, DeliveryRow
  <2>2. QED
    BY <1>5, <1>9, <2>1 DEF SettleDelivery
<1>10. ASSUME NEW d \in Dispatcher, RescheduleDelivery(d) PROVE DueAfterIssuance'
  <2> DEFINE b == disp[d].current
  <2>1. disp[d].next >= challenge[b].issuedAt
    BY <1>10 DEF RescheduleDelivery, Settles, RetriesAfterIssuance
  <2>2. outbox' = [outbox EXCEPT ![b] = Released(outbox[b], disp[d].next)]
    BY <1>10 DEF RescheduleDelivery
  <2>3. \A c \in ChallengeId :
          /\ outbox'[c].queued = outbox[c].queued
          /\ \/ outbox'[c].availableAt = outbox[c].availableAt
             \/ outbox'[c].availableAt >= challenge[c].issuedAt
    BY <1>1, <2>1, <2>2 DEF Released, DeliveryRow, TypeOK, TablesTypeOK
  <2>4. QED
    BY <1>5, <1>10, <2>3 DEF RescheduleDelivery
<1>11. CASE UNCHANGED <<challenge, outbox>>
  BY <1>11 DEF DueAfterIssuance
<1>12. QED
  BY <1>3, <1>4, <1>7, <1>8, <1>9, <1>10, <1>11
  DEF Next, RegistrationNext, RequestStep, StartRegister, StartReissue, StartVerify, Discover,
      Collide, RefuseRefresh, RefuseVerification, AbandonRequest, CreateAccount, Suspend,
      DeliveryNext, Dispatch, StartTick, BeginSend, EndSend, Decide, LoseDelivery, Accept,
      AbortTick, Elapse, tables, vars

\* Rescheduled or not, and whatever instant a request decides on, every row meets the
\* CHECK constraints of migration 0003.
THEOREM ConstraintsStayMet == Spec => []ConstraintsHold
<1>1. TypeOK /\ R!RegistrationIInv /\ DueAfterIssuance => ConstraintsHold
  BY SameReading DEF ConstraintsHold, DueAfterIssuance, R!RegistrationIInv, R!ConstraintsHold,
                     R!Never, Never
<1>2. Spec => []RetriesAfterIssuance
  BY RetriesInit, RetriesStep, TypeCorrect, CarriageHolds, RegistrationHolds, PTL DEF Spec
<1>3. Spec => []DueAfterIssuance
  BY <1>2, DueInit, DueStep, TypeCorrect, CarriageHolds, RegistrationHolds, PTL DEF Spec
<1>4. QED
  BY <1>1, <1>3, TypeCorrect, RegistrationHolds, PTL

\* Beside dispatchers as without them, no transaction reopens or rewrites a challenge
\* that ended, and none writes over a suspension.
THEOREM EndsStayFinal == Spec => EndedChallengesAreFinal /\ SuspensionIsNotUndone
<1>1. R!RegistrationIInv /\ [R!RegistrationStep]_(R!registrationVars) =>
        [\A c \in ChallengeId : Issued(c) /\ ~Current(c) =>
           challenge'[c] = challenge[c]]_challenge
  <2>1. R!RegistrationIInv /\ [R!RegistrationStep]_(R!registrationVars) =>
          [\A c \in ChallengeId : R!Issued(c) /\ ~R!Current(c) =>
             challenge'[c] = challenge[c]]_challenge
    BY R!EndsStand, TablesAssumption, ProvisionedAssumption DEF Kind, Status, R!Kind, R!Status
  <2>2. \A c : (R!Issued(c) <=> Issued(c)) /\ (R!Current(c) <=> Current(c))
    BY SameReading DEF R!Current, Current, R!Never, Never
  <2>3. QED
    BY <2>1, <2>2
<1>2. R!RegistrationIInv /\ [R!RegistrationStep]_(R!registrationVars) =>
        [\A a \in Address : account[a].status = "suspended" =>
           account'[a].status = "suspended"]_account
  BY R!SuspensionStands, TablesAssumption, ProvisionedAssumption DEF Kind, Status, R!Kind, R!Status
<1>3. QED
  BY <1>1, <1>2, SeenByRequests, RegistrationHolds, PTL
  DEF R!RegistrationSpec, R!RegistrationStep, EndedChallengesAreFinal, SuspensionIsNotUndone

\* Whatever registers and verifies meanwhile, no recipient gets more copies than the
\* policy has attempts, and nothing is due past the expiry of its challenge.
THEOREM DeliveryStaysBounded == Spec => [](CopiesWithinAttempts /\ NeverScheduledPastExpiry)
<1>1. TypeOK /\ D!DeliveryIInv => CopiesWithinAttempts /\ NeverScheduledPastExpiry
  <2> SUFFICES ASSUME TypeOK, D!DeliveryIInv
               PROVE  CopiesWithinAttempts /\ NeverScheduledPastExpiry
    OBVIOUS
  <2>1. D!IsFiniteSet(ChallengeId)
    BY IdentifiersAssumption DEF D!IsFiniteSet, IsFiniteSet
  <2>2. D!CopiesWithinAttempts
    BY <2>1, D!CopiesCounted, TablesAssumption, PolicyAssumption
  <2>3. CopiesWithinAttempts
    BY <2>2 DEF D!CopiesWithinAttempts, CopiesWithinAttempts
  <2>4. NeverScheduledPastExpiry
    BY SameView DEF NeverScheduledPastExpiry, D!DeliveryIInv, D!RowSound, TypeOK
  <2>5. QED
    BY <2>3, <2>4
<1>2. QED
  BY <1>1, TypeCorrect, DeliveryHolds, PTL

\* Nor do registrations and verifications open a way around a live lease, or drop a
\* message that could still have been carried, except by ending its challenge.
THEOREM DeliveryStaysSafe == Spec => LiveLeaseIsProtected /\ NothingIsDroppedUnsent
<1>0. D!IsFiniteSet(ChallengeId)
  BY IdentifiersAssumption DEF D!IsFiniteSet, IsFiniteSet
<1>1. \A c \in ChallengeId :
        ChallengeForDispatchers'[c] # ChallengeForDispatchers[c] => challenge'[c] # challenge[c]
  BY OuterRows
<1>2. D!DeliveryIInv /\ [D!DeliveryStep]_(D!deliveryVars) =>
        [\A c \in ChallengeId :
           /\ outbox[c].queued
           /\ outbox[c].claim # None
           /\ now < outbox[c].claimExpiresAt
           /\ outbox'[c] # outbox[c]
           => \/ challenge'[c] # challenge[c]
              \/ \E d \in Dispatcher :
                   /\ disp[d].claim = outbox[c].claim
                   /\ disp[d].pc = "record"
                   /\ disp[d].current = c]_<<outbox, challenge, disp>>
  <2>1. D!DeliveryIInv /\ [D!DeliveryStep]_(D!deliveryVars) =>
          [\A c \in ChallengeId :
             /\ outbox[c].queued
             /\ outbox[c].claim # None
             /\ now < outbox[c].claimExpiresAt
             /\ outbox'[c] # outbox[c]
             => \/ ChallengeForDispatchers'[c] # ChallengeForDispatchers[c]
                \/ \E d \in Dispatcher :
                     /\ disp[d].claim = outbox[c].claim
                     /\ disp[d].pc = "record"
                     /\ disp[d].current = c]_<<outbox, ChallengeForDispatchers, disp>>
    BY <1>0, D!LeaseStands, TablesAssumption, PolicyAssumption
  <2>2. QED
    BY <1>1, <2>1
<1>3. TypeOK /\ D!DeliveryIInv /\ [D!DeliveryStep]_(D!deliveryVars) =>
        [\A c \in ChallengeId :
           /\ outbox[c].queued /\ ~outbox'[c].queued
           /\ sent[c] = 0
           => \/ challenge'[c] # challenge[c]
              \/ outbox[c].attempts >= MaxAttempts
              \/ challenge[c].expiresAt <= now
              \/ /\ outbox[c].attempts > 0
                 /\ now + BackoffAfter(outbox[c].attempts) >= challenge[c].expiresAt
          ]_<<now, outbox, challenge>>
  <2>1. D!DeliveryIInv /\ [D!DeliveryStep]_(D!deliveryVars) =>
          [\A c \in ChallengeId :
             /\ outbox[c].queued /\ ~outbox'[c].queued
             /\ sent[c] = 0
             => \/ ChallengeForDispatchers'[c] # ChallengeForDispatchers[c]
                \/ outbox[c].attempts >= MaxAttempts
                \/ ChallengeForDispatchers[c].expiresAt <= now
                \/ /\ outbox[c].attempts > 0
                   /\ now + D!BackoffAfter(outbox[c].attempts) >= ChallengeForDispatchers[c].expiresAt
            ]_<<now, outbox, ChallengeForDispatchers>>
    BY <1>0, D!RowsLeaveForAReason, TablesAssumption, PolicyAssumption
  <2>2. \A attempt : D!BackoffAfter(attempt) = BackoffAfter(attempt)
    BY DEF D!BackoffAfter, BackoffAfter
  <2>3. TypeOK => \A c \in ChallengeId : ChallengeForDispatchers[c].expiresAt = challenge[c].expiresAt
    BY SameView DEF TypeOK
  <2>4. QED
    BY <1>1, <2>1, <2>2, <2>3
<1>4. QED
  BY <1>2, <1>3, SeenByDispatchers, TypeCorrect, DeliveryHolds, PTL
  DEF D!DeliverySpec, D!DeliveryStep, LiveLeaseIsProtected, NothingIsDroppedUnsent

=============================================================================
