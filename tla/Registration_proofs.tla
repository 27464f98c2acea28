-------------------------- MODULE Registration_proofs --------------------------
(***************************************************************************)
(* What Registration promises, proved for any number of addresses,         *)
(* challenges and overlapping requests, and for any lifetime and interval. *)
(***************************************************************************)
EXTENDS Registration, TLAPS

\* The next-state relation of RegistrationSpec.
RegistrationStep == RegistrationNext \/ Surroundings

-----------------------------------------------------------------------------
(* The rows the transactions write.                                          *)

\* A drawn identifier is one no challenge carries.
LEMMA FreshIsUnissued ==
  \A fresh \in FreshChallenge : fresh \in ChallengeId /\ ~Issued(fresh)
BY DEF FreshChallenge, Draw

\* A row that leaves the outbox stays well formed.
LEMMA DequeueTyped == \A row \in DeliveryRow : Dequeue(row) \in DeliveryRow
<1> SUFFICES ASSUME NEW row \in DeliveryRow PROVE Dequeue(row) \in DeliveryRow
  OBVIOUS
<1>1. Never \in Instant
  BY DEF Instant
<1>2. QED
  BY <1>1 DEF Dequeue, DeliveryRow

\* An issuance keeps both tables well formed.
LEMMA IssuanceTyped ==
  ASSUME TablesTypeOK, NEW a \in Address \cup {None}, NEW at \in Time, NEW revision \in Nat,
         NEW superseded \in SUBSET ChallengeId, NEW fresh \in ChallengeId
  PROVE  /\ Reissued(a, superseded, fresh, at, revision) \in [ChallengeId -> ChallengeRow]
         /\ Requeued(superseded, fresh, at) \in [ChallengeId -> DeliveryRow]
<1>1. NewChallenge(a, at, revision) \in ChallengeRow
  BY TablesAssumption DEF NewChallenge, ChallengeRow, Instant, Time
<1>2. NewDelivery(at) \in DeliveryRow
  BY DEF NewDelivery, DeliveryRow, Instant, Time
<1>3. ASSUME NEW c \in ChallengeId
      PROVE  [challenge[c] EXCEPT !.supersededAt = at] \in ChallengeRow
  BY DEF TablesTypeOK, ChallengeRow, Instant
<1>4. ASSUME NEW c \in ChallengeId
      PROVE  Dequeue(outbox[c]) \in DeliveryRow
  BY DequeueTyped DEF TablesTypeOK
<1>5. QED
  BY <1>1, <1>2, <1>3, <1>4 DEF TablesTypeOK, Reissued, Requeued

-----------------------------------------------------------------------------
(* Type correctness.                                                         *)

LEMMA RegistrationTypeInit == RegistrationInit => RegistrationTypeOK
<1> SUFFICES ASSUME RegistrationInit PROVE RegistrationTypeOK
  OBVIOUS
<1> USE DEF RegistrationInit
<1>1. Unissued \in ChallengeRow
  BY DEF Unissued, ChallengeRow, Instant
<1>2. NoDelivery \in DeliveryRow
  BY DEF NoDelivery, DeliveryRow, Instant
<1>3. TablesTypeOK
  BY <1>1, <1>2 DEF TablesInit, TablesTypeOK, Time
<1>4. NoAccount \in AccountRow
  BY DEF NoAccount, AccountRow, Kind, Status, Instant
<1>5. IdleRequest \in RequestState
  BY DEF IdleRequest, RequestState, Time
<1>6. QED
  BY <1>3, <1>4, <1>5 DEF RequestInit, RequestTypeOK, RegistrationTypeOK, IdleRequest

\* What a request is about is kept or forgotten as a whole.
LEMMA FinishTyped ==
  ASSUME RequestTypeOK, NEW r \in Request, Finish(r), account' \in [Address -> AccountRow]
  PROVE  RequestTypeOK'
<1>1. IdleRequest \in RequestState
  BY DEF IdleRequest, RequestState, Time
<1>2. QED
  BY <1>1 DEF Finish, RequestTypeOK, IdleRequest

LEMMA RegistrationTypeStep ==
  RegistrationTypeOK /\ [RegistrationStep]_registrationVars => RegistrationTypeOK'
<1> SUFFICES ASSUME RegistrationTypeOK, [RegistrationStep]_registrationVars
             PROVE  RegistrationTypeOK'
  OBVIOUS
<1> USE DEF RegistrationTypeOK
<1>1. ASSUME NEW r \in Request, NEW a \in Address, StartRegister(r, a)
      PROVE  RegistrationTypeOK'
  BY <1>1 DEF StartRegister, IdleRequest, tables, TablesTypeOK, RequestTypeOK, RequestState, Time
<1>2. ASSUME NEW r \in Request, NEW a \in Address, StartReissue(r, a)
      PROVE  RegistrationTypeOK'
  BY <1>2 DEF StartReissue, IdleRequest, tables, TablesTypeOK, RequestTypeOK, RequestState, Time
<1>3. ASSUME NEW r \in Request, NEW c \in ChallengeId, StartVerify(r, c)
      PROVE  RegistrationTypeOK'
  BY <1>3 DEF StartVerify, IdleRequest, tables, TablesTypeOK, RequestTypeOK, RequestState, Time
<1>4. ASSUME NEW r \in Request, Discover(r)
      PROVE  RegistrationTypeOK'
  <2>1. TablesTypeOK' /\ account' = account
    BY <1>4 DEF Discover, tables, TablesTypeOK
  <2>2. CASE Finish(r)
    BY <2>1, <2>2, FinishTyped DEF RequestTypeOK
  <2>3. CASE \E pc \in {"refresh", "create"} : req' = [req EXCEPT ![r].pc = pc]
    BY <1>4, <2>1, <2>3 DEF Discover, RequestTypeOK, RequestState
  <2>4. QED
    BY <1>4, <2>2, <2>3 DEF Discover
<1>5. ASSUME NEW r \in Request, CreateRegistration(r)
      PROVE  RegistrationTypeOK'
  <2> DEFINE a == req[r].address
             at == req[r].at
  <2>1. a \in Address /\ at \in Time
    BY <1>5 DEF CreateRegistration, RequestTypeOK, RequestState
  <2>2. PICK fresh \in FreshChallenge :
           /\ challenge' = Reissued(a, {}, fresh, at, 1)
           /\ outbox' = Requeued({}, fresh, at)
    BY <1>5 DEF CreateRegistration
  <2>3. TablesTypeOK'
    BY <1>5, <2>1, <2>2, FreshIsUnissued, IssuanceTyped DEF CreateRegistration, TablesTypeOK
  <2>4. account' \in [Address -> AccountRow]
    BY <1>5 DEF CreateRegistration, RequestTypeOK, AccountRow, Kind, Status, Instant
  <2>5. QED
    BY <1>5, <2>3, <2>4, FinishTyped DEF CreateRegistration
<1>6. ASSUME NEW r \in Request, Collide(r)
      PROVE  RegistrationTypeOK'
  <2>1. TablesTypeOK' /\ account' = account
    BY <1>6 DEF Collide, tables, TablesTypeOK
  <2>2. CASE Finish(r)
    BY <2>1, <2>2, FinishTyped DEF RequestTypeOK
  <2>3. CASE req' = [req EXCEPT ![r].pc = "discover", ![r].retried = TRUE]
    <3>1. req' = [req EXCEPT ![r] = [req[r] EXCEPT !.pc = "discover", !.retried = TRUE]]
      BY <2>3
    <3>2. req[r].address \in Address
      BY <1>6 DEF Collide, RequestTypeOK
    <3>3. [req[r] EXCEPT !.pc = "discover", !.retried = TRUE] \in RequestState
      BY DEF RequestTypeOK, RequestState
    <3>4. QED
      BY <2>1, <3>1, <3>2, <3>3 DEF RequestTypeOK, RequestState
  <2>4. QED
    BY <1>6, <2>2, <2>3 DEF Collide
<1>7. ASSUME NEW r \in Request, RefreshRegistration(r)
      PROVE  RegistrationTypeOK'
  <2> DEFINE a == req[r].address
             at == req[r].at
             revision == RefreshedRevision(a, req[r].op)
  <2>1. a \in Address /\ at \in Time
    BY <1>7 DEF RefreshRegistration, RequestTypeOK, RequestState
  <2>2. PICK fresh \in FreshChallenge :
           /\ challenge' = Reissued(a, CurrentOf(a), fresh, at, revision)
           /\ outbox' = Requeued(CurrentOf(a), fresh, at)
    BY <1>7 DEF RefreshRegistration
  <2>3. CurrentOf(a) \subseteq ChallengeId
    BY DEF CurrentOf
  <2>4. revision \in Nat
    BY <2>1 DEF RequestTypeOK, AccountRow, RefreshedRevision
  <2>5. TablesTypeOK'
    BY <1>7, <2>1, <2>2, <2>3, <2>4, FreshIsUnissued, IssuanceTyped
    DEF RefreshRegistration, TablesTypeOK
  <2>6. account' \in [Address -> AccountRow]
    BY <1>7, <2>1, <2>4 DEF RefreshRegistration, RequestTypeOK, AccountRow
  <2>7. QED
    BY <1>7, <2>5, <2>6, FinishTyped DEF RefreshRegistration
<1>8. ASSUME NEW r \in Request,
             RefuseRefresh(r) \/ RefuseVerification(r) \/ AbandonRequest(r)
      PROVE  RegistrationTypeOK'
  <2>1. TablesTypeOK' /\ account' = account
    BY <1>8 DEF RefuseRefresh, RefuseVerification, AbandonRequest, tables, TablesTypeOK
  <2>2. Finish(r)
    BY <1>8 DEF RefuseRefresh, RefuseVerification, AbandonRequest
  <2>3. QED
    BY <2>1, <2>2, FinishTyped DEF RequestTypeOK
<1>9. ASSUME NEW r \in Request, ConsumeVerification(r)
      PROVE  RegistrationTypeOK'
  <2> DEFINE c == req[r].challenge
             at == req[r].at
  <2>1. c \in ChallengeId /\ at \in Time
    BY <1>9 DEF ConsumeVerification, RequestTypeOK, RequestState
  <2>2. challenge' \in [ChallengeId -> ChallengeRow]
    <3>1. [challenge[c] EXCEPT !.consumedAt = at] \in ChallengeRow
      BY <2>1 DEF TablesTypeOK, ChallengeRow, Instant
    <3>2. challenge' = [challenge EXCEPT ![c] = [challenge[c] EXCEPT !.consumedAt = at]]
      BY <1>9 DEF ConsumeVerification
    <3>3. QED
      BY <3>1, <3>2 DEF TablesTypeOK
  <2>3. Dequeue(outbox[c]) \in DeliveryRow
    BY <2>1, DequeueTyped DEF TablesTypeOK
  <2>4. TablesTypeOK'
    BY <1>9, <2>2, <2>3 DEF ConsumeVerification, TablesTypeOK
  <2>5. account' \in [Address -> AccountRow]
    <3> DEFINE a == challenge[c].address
               activated == [account[a] EXCEPT !.verifiedAt = at, !.status = "active"]
    <3>1. account' = [account EXCEPT ![a] = activated]
      BY <1>9 DEF ConsumeVerification, Activated
    <3>2. ASSUME a \in Address
          PROVE  activated \in AccountRow
      <4>1. account[a] \in AccountRow
        BY <3>2 DEF RequestTypeOK
      <4>2. at \in Instant /\ "active" \in Status
        BY <2>1 DEF Instant, Status
      <4>3. QED
        BY <4>1, <4>2 DEF AccountRow
    <3> HIDE DEF activated
    <3>3. QED
      BY <3>1, <3>2 DEF RequestTypeOK
  <2>6. QED
    BY <1>9, <2>4, <2>5, FinishTyped DEF ConsumeVerification
<1>10. ASSUME NEW a \in Address, CreateAccount(a)
       PROVE  RegistrationTypeOK'
  <2>1. PICK p \in Provisioned :
          account' = [account EXCEPT ![a] = [status |-> p.status, kind |-> p.kind,
                        verifiedAt |-> Never, revision |-> p.revision]]
    BY <1>10 DEF CreateAccount
  <2>2. p.status \in Status /\ p.kind \in Kind /\ p.revision \in Nat
    BY ProvisionedAssumption
  <2>3. account' \in [Address -> AccountRow]
    BY <2>1, <2>2 DEF RequestTypeOK, AccountRow, Instant
  <2>4. QED
    BY <1>10, <2>3 DEF CreateAccount, TablesTypeOK, RequestTypeOK
<1>11. ASSUME NEW a \in Address, Suspend(a)
       PROVE  RegistrationTypeOK'
  BY <1>11 DEF Suspend, TablesTypeOK, RequestTypeOK, AccountRow, Status
<1>12. ASSUME NEW c \in ChallengeId, Carry(c)
       PROVE  RegistrationTypeOK'
  BY <1>12 DEF Carry, TablesTypeOK, RequestTypeOK
<1>13. ASSUME NEW rows \in SUBSET ChallengeId, Drain(rows)
       PROVE  RegistrationTypeOK'
  <2>1. \A c \in ChallengeId : Dequeue(outbox[c]) \in DeliveryRow
    BY DequeueTyped DEF TablesTypeOK
  <2>2. QED
    BY <1>13, <2>1 DEF Drain, TablesTypeOK, RequestTypeOK
<1>14. ASSUME PassTime
       PROVE  RegistrationTypeOK'
  BY <1>14 DEF PassTime, tables, TablesTypeOK, RequestTypeOK, Time
<1>15. ASSUME UNCHANGED registrationVars
       PROVE  RegistrationTypeOK'
  BY <1>15 DEF registrationVars, TablesTypeOK, RequestTypeOK
<1>16. QED
  BY <1>1, <1>2, <1>3, <1>4, <1>5, <1>6, <1>7, <1>8, <1>9, <1>10, <1>11, <1>12, <1>13,
     <1>14, <1>15
  DEF RegistrationStep, RegistrationNext, RequestStep, Surroundings

\* Every reachable state of the requests and of the tables has the shape the
\* migrations declare: no transaction writes an ill-formed row.
THEOREM RegistrationTypeCorrect == RegistrationSpec => []RegistrationTypeOK
<1>1. RegistrationInit => RegistrationTypeOK
  BY RegistrationTypeInit
<1>2. RegistrationTypeOK /\ [RegistrationStep]_registrationVars => RegistrationTypeOK'
  BY RegistrationTypeStep
<1>3. QED
  BY <1>1, <1>2, PTL DEF RegistrationSpec, RegistrationStep

-----------------------------------------------------------------------------
(* The inductive invariant.                                                  *)

\* Nothing was issued to an address nobody registered.
ChallengesHaveAccounts == \A c \in ChallengeId :
  Issued(c) => challenge[c].address \in Address /\ Exists(challenge[c].address)

\* Nothing bears an instant the clock has not reached.
InstantsArePast ==
  /\ \A c \in ChallengeId : Issued(c) => challenge[c].issuedAt \in 0..now
  /\ \A r \in Request : req[r].at <= now

\* A token is presented after a message carried it, and that after it was issued, so
\* the instant of the presentation does not precede the challenge.
PresentedAfterIssuance ==
  /\ \A c \in ChallengeId : sent[c] > 0 => Issued(c)
  /\ \A r \in Request : req[r].pc = "consume" =>
       /\ sent[req[r].challenge] > 0
       /\ Issued(req[r].challenge)
       /\ challenge[req[r].challenge].issuedAt <= req[r].at

\* Nobody consumes a challenge whose message never reached anybody.
ConsumedWereCarried == \A c \in ChallengeId :
  challenge[c].consumedAt # Never => sent[c] > 0

\* As long as the address is not verified, the latest of its challenges is the
\* current one: the interval is measured from the right challenge.
LatestIsCurrent == \A c \in ChallengeId :
  Issued(c) /\ account[challenge[c].address].verifiedAt = Never =>
    \E d \in CurrentOf(challenge[c].address) :
      challenge[c].issuedAt <= challenge[d].issuedAt

RegistrationIInv ==
  /\ RegistrationTypeOK
  /\ ChallengesHaveAccounts
  /\ InstantsArePast
  /\ PresentedAfterIssuance
  /\ ConsumedWereCarried
  /\ LatestIsCurrent
  /\ OneCurrentChallenge
  /\ QueuedOnlyWhileCurrent
  /\ VerifiedByOneConsumption
  /\ ConstraintsHold
  /\ PasswordBehindTheToken
  /\ ResendSpacing
  /\ RetryNeverCollides

-----------------------------------------------------------------------------
(* What a step can do to the challenges and the accounts.                    *)

\* Both paths that issue a challenge, as one effect.
Issuance(a, fresh, at, revision) ==
  /\ ~Issued(fresh)
  /\ challenge' = Reissued(a, CurrentOf(a), fresh, at, revision)
  /\ outbox' = Requeued(CurrentOf(a), fresh, at)
  /\ account'[a].status = "pending"
  /\ account'[a].verifiedAt = Never
  /\ account'[a].revision = revision
  /\ \A b \in Address \ {a} : account'[b] = account[b]
  /\ \A c \in ChallengeId : challenge[c].address = a =>
       /\ challenge[c].consumedAt = Never
       /\ challenge[c].issuedAt + ResendInterval <= at

LEMMA CreateIssues ==
  ASSUME RegistrationIInv, NEW r \in Request, CreateRegistration(r)
  PROVE  \E fresh \in ChallengeId : Issuance(req[r].address, fresh, req[r].at, 1)
<1> DEFINE a == req[r].address
           at == req[r].at
<1>1. a \in Address /\ account \in [Address -> AccountRow]
  BY DEF CreateRegistration, RegistrationIInv, RegistrationTypeOK, RequestTypeOK
<1>2. PICK fresh \in FreshChallenge :
         /\ challenge' = Reissued(a, {}, fresh, at, 1)
         /\ outbox' = Requeued({}, fresh, at)
  BY DEF CreateRegistration
<1>3. \A c \in ChallengeId : challenge[c].address # a
  BY <1>1, TablesAssumption
  DEF CreateRegistration, RegistrationIInv, ChallengesHaveAccounts, Issued
<1>4. CurrentOf(a) = {}
  BY <1>3 DEF CurrentOf
<1>5. account' = [account EXCEPT ![a] = [status |-> "pending",
                    kind |-> "viewer", verifiedAt |-> Never, revision |-> 1]]
  BY DEF CreateRegistration
<1>6. QED
  BY <1>1, <1>2, <1>3, <1>4, <1>5, FreshIsUnissued DEF Issuance

LEMMA RefreshIssues ==
  ASSUME RegistrationIInv, NEW r \in Request, RefreshRegistration(r)
  PROVE  \E fresh \in ChallengeId, revision \in Nat :
           Issuance(req[r].address, fresh, req[r].at, revision)
<1> DEFINE a == req[r].address
           at == req[r].at
           revision == RefreshedRevision(a, req[r].op)
<1>1. a \in Address /\ at \in Nat /\ account \in [Address -> AccountRow]
      /\ challenge \in [ChallengeId -> ChallengeRow]
  BY DEF RefreshRegistration, RegistrationIInv, RegistrationTypeOK, RequestTypeOK, TablesTypeOK,
         RequestState, Time
<1>2. PICK fresh \in FreshChallenge :
         /\ challenge' = Reissued(a, CurrentOf(a), fresh, at, revision)
         /\ outbox' = Requeued(CurrentOf(a), fresh, at)
  BY DEF RefreshRegistration
<1>3. account' = [account EXCEPT ![a].revision = revision] /\ MayRefresh(a, at)
  BY DEF RefreshRegistration
<1>4. revision \in Nat
  BY <1>1 DEF RefreshedRevision, AccountRow
<1>5. /\ account'[a].status = "pending"
      /\ account'[a].verifiedAt = Never
      /\ account'[a].revision = revision
      /\ \A b \in Address \ {a} : account'[b] = account[b]
  BY <1>1, <1>3 DEF MayRefresh, AccountRow
<1>6. ASSUME NEW c \in ChallengeId, challenge[c].address = a
      PROVE  /\ challenge[c].consumedAt = Never
             /\ challenge[c].issuedAt + ResendInterval <= at
  <2>1. account[a].verifiedAt = Never
    BY <1>3 DEF MayRefresh
  <2>2. challenge[c].consumedAt = Never
    BY <1>1, <1>6, <2>1 DEF RegistrationIInv, VerifiedByOneConsumption
  <2>3. PICK d \in CurrentOf(a) : challenge[c].issuedAt <= challenge[d].issuedAt
    BY <1>1, <1>6, <2>1, TablesAssumption DEF RegistrationIInv, LatestIsCurrent, Issued
  <2>4. at - challenge[d].issuedAt >= ResendInterval
    BY <1>3, <2>3 DEF MayRefresh, MayReissueAt
  <2>5. challenge[c].issuedAt \in Int /\ challenge[d].issuedAt \in Int
    BY <1>1, <2>3 DEF ChallengeRow, Instant, Time, Never, CurrentOf
  <2>6. QED
    BY <1>1, <2>2, <2>3, <2>4, <2>5, TablesAssumption
<1>7. QED
  BY <1>2, <1>4, <1>5, <1>6, FreshIsUnissued DEF Issuance

\* Only four operations write a challenge or an account.
LEMMA Writers ==
  ASSUME RegistrationIInv, [RegistrationStep]_registrationVars
  PROVE  \/ UNCHANGED <<challenge, account>>
         \/ \E a \in Address, fresh \in ChallengeId, at \in Nat, revision \in Nat :
              at <= now /\ Issuance(a, fresh, at, revision)
         \/ \E r \in Request : ConsumeVerification(r)
         \/ \E a \in Address : CreateAccount(a) \/ Suspend(a)
<1>1. ASSUME NEW r \in Request, CreateRegistration(r) \/ RefreshRegistration(r)
      PROVE  \E a \in Address, fresh \in ChallengeId, at \in Nat, revision \in Nat :
               at <= now /\ Issuance(a, fresh, at, revision)
  <2>1. req[r].address \in Address /\ req[r].at \in Nat /\ req[r].at <= now
    BY <1>1 DEF CreateRegistration, RefreshRegistration, RegistrationIInv, InstantsArePast,
                RegistrationTypeOK, RequestTypeOK, RequestState, Time
  <2>2. QED
    BY <1>1, <2>1, CreateIssues, RefreshIssues
<1>2. ASSUME NEW r \in Request,
             \/ \E a \in Address : StartRegister(r, a) \/ StartReissue(r, a)
             \/ \E c \in ChallengeId : StartVerify(r, c)
             \/ Discover(r) \/ Collide(r) \/ RefuseRefresh(r)
             \/ RefuseVerification(r) \/ AbandonRequest(r)
      PROVE  UNCHANGED <<challenge, account>>
  BY <1>2 DEF StartRegister, StartReissue, StartVerify, Discover, Collide, RefuseRefresh,
              RefuseVerification, AbandonRequest, tables
<1>3. ASSUME Surroundings
      PROVE  UNCHANGED <<challenge, account>>
  BY <1>3 DEF Surroundings, Carry, Drain, PassTime, tables
<1>4. QED
  BY <1>1, <1>2, <1>3 DEF RegistrationStep, RegistrationNext, RequestStep, registrationVars

\* A row as a value, to be read in either state of a step.
IsCurrent(row) ==
  row.address # None /\ row.consumedAt = Never /\ row.supersededAt = Never

\* An issuance, row by row.
LEMMA IssuedRows ==
  ASSUME RegistrationIInv, NEW a \in Address, NEW fresh \in ChallengeId,
         NEW at \in Nat, NEW revision \in Nat, Issuance(a, fresh, at, revision),
         NEW c \in ChallengeId
  PROVE  /\ c = fresh =>
              /\ challenge'[c].address = a
              /\ challenge'[c].issuedAt = at
              /\ challenge'[c].expiresAt = at + Lifetime
              /\ challenge'[c].consumedAt = Never
              /\ challenge'[c].supersededAt = Never
              /\ challenge'[c].revision = revision
         /\ c # fresh =>
              /\ challenge'[c].address = challenge[c].address
              /\ challenge'[c].issuedAt = challenge[c].issuedAt
              /\ challenge'[c].expiresAt = challenge[c].expiresAt
              /\ challenge'[c].consumedAt = challenge[c].consumedAt
              /\ challenge'[c].revision = challenge[c].revision
              /\ c \in CurrentOf(a) => challenge'[c].supersededAt = at
              /\ c \notin CurrentOf(a) => challenge'[c] = challenge[c]
              /\ IsCurrent(challenge'[c]) <=> Current(c) /\ challenge[c].address # a
<1>1. challenge \in [ChallengeId -> ChallengeRow]
  BY DEF RegistrationIInv, RegistrationTypeOK, TablesTypeOK
<1>2. challenge' = Reissued(a, CurrentOf(a), fresh, at, revision)
  BY DEF Issuance
<1>3. CASE c = fresh
  BY <1>2, <1>3 DEF Reissued, NewChallenge
<1>4. CASE c # fresh /\ c \in CurrentOf(a)
  <2>1. challenge'[c] = [challenge[c] EXCEPT !.supersededAt = at]
    BY <1>2, <1>4 DEF Reissued
  <2>2. challenge[c].address = a
    BY <1>4 DEF CurrentOf
  <2>3. QED
    BY <1>1, <1>4, <2>1, <2>2 DEF ChallengeRow, IsCurrent, Never
<1>5. CASE c # fresh /\ c \notin CurrentOf(a)
  <2>1. challenge'[c] = challenge[c]
    BY <1>2, <1>5 DEF Reissued
  <2>2. QED
    BY <1>5, <2>1 DEF IsCurrent, Current, Issued, CurrentOf
<1>6. QED
  BY <1>3, <1>4, <1>5

\* A consumption, row by row.
LEMMA ConsumedRows ==
  ASSUME RegistrationIInv, NEW r \in Request, ConsumeVerification(r), NEW d \in ChallengeId
  PROVE  LET c == req[r].challenge
             at == req[r].at
         IN  /\ c \in ChallengeId /\ Current(c)
             /\ challenge[c].address \in Address
             /\ at \in Nat /\ at <= now
             /\ challenge[c].issuedAt <= at /\ at < challenge[c].expiresAt
             /\ challenge'[d].address = challenge[d].address
             /\ challenge'[d].issuedAt = challenge[d].issuedAt
             /\ challenge'[d].expiresAt = challenge[d].expiresAt
             /\ challenge'[d].supersededAt = challenge[d].supersededAt
             /\ challenge'[d].revision = challenge[d].revision
             /\ d = c => challenge'[d].consumedAt = at
             /\ d # c => challenge'[d] = challenge[d]
             /\ IsCurrent(challenge'[d]) <=> Current(d) /\ d # c
<1> DEFINE c == req[r].challenge
           at == req[r].at
<1>1. /\ challenge \in [ChallengeId -> ChallengeRow]
      /\ c \in ChallengeId /\ at \in Nat /\ at <= now
  BY DEF RegistrationIInv, RegistrationTypeOK, TablesTypeOK, RequestTypeOK, InstantsArePast,
         ConsumeVerification, RequestState, Time
<1>2. Issued(c) /\ challenge[c].issuedAt <= at
  BY DEF RegistrationIInv, PresentedAfterIssuance, ConsumeVerification
<1>3. Current(c) /\ at < challenge[c].expiresAt
  BY <1>2 DEF ConsumeVerification, MayConsume, Current
<1>4. challenge[c].address \in Address
  BY <1>1, <1>2 DEF RegistrationIInv, ChallengesHaveAccounts
<1>5. challenge' = [challenge EXCEPT ![c].consumedAt = at]
  BY DEF ConsumeVerification
<1>6. CASE d = c
  <2>1. challenge'[d] = [challenge[d] EXCEPT !.consumedAt = at]
    BY <1>1, <1>5, <1>6
  <2>2. QED
    BY <1>1, <1>2, <1>3, <1>4, <1>6, <2>1 DEF IsCurrent, Never, ChallengeRow
<1>7. CASE d # c
  <2>1. challenge'[d] = challenge[d]
    BY <1>1, <1>5, <1>7
  <2>2. QED
    BY <1>1, <1>2, <1>3, <1>4, <1>7, <2>1 DEF IsCurrent, Issued, Current
<1>8. QED
  BY <1>6, <1>7

\* A consumption, as the account sees it.
LEMMA ConsumedAccount ==
  ASSUME RegistrationIInv, NEW r \in Request, ConsumeVerification(r)
  PROVE  LET a == challenge[req[r].challenge].address
         IN  /\ a \in Address
             /\ account[a].status = "pending" /\ account[a].verifiedAt = Never
             /\ account'[a].status = "active"
             /\ account'[a].verifiedAt = req[r].at
             /\ account'[a].revision = account[a].revision
             /\ \A b \in Address \ {a} : account'[b] = account[b]
<1> DEFINE a == challenge[req[r].challenge].address
<1>1. a \in Address /\ account \in [Address -> AccountRow]
  BY ConsumedRows DEF RegistrationIInv, RegistrationTypeOK, RequestTypeOK, ConsumeVerification
<1>2. account' = [account EXCEPT ![a] = [account[a] EXCEPT !.verifiedAt = req[r].at,
                                                           !.status = "active"]]
  BY DEF ConsumeVerification, Activated
<1>3. account[a].status = "pending" /\ account[a].verifiedAt = Never
  BY DEF ConsumeVerification, MayConsume
<1>4. QED
  BY <1>1, <1>2, <1>3 DEF AccountRow

-----------------------------------------------------------------------------
(* The parts of the invariant that speak of challenges and accounts.         *)

LEMMA ChallengesHaveAccountsStep ==
  RegistrationIInv /\ [RegistrationStep]_registrationVars => ChallengesHaveAccounts'
<1> SUFFICES ASSUME RegistrationIInv, [RegistrationStep]_registrationVars,
                    NEW c \in ChallengeId, challenge'[c].address # None
             PROVE  /\ challenge'[c].address \in Address
                    /\ account'[challenge'[c].address].status # "none"
  BY DEF ChallengesHaveAccounts, Exists, Issued
<1>1. account \in [Address -> AccountRow] /\ challenge \in [ChallengeId -> ChallengeRow]
  BY DEF RegistrationIInv, RegistrationTypeOK, RequestTypeOK, TablesTypeOK
<1>2. Issued(c) => challenge[c].address \in Address /\ account[challenge[c].address].status # "none"
  BY DEF RegistrationIInv, ChallengesHaveAccounts, Exists
<1>3. CASE UNCHANGED <<challenge, account>>
  BY <1>2, <1>3 DEF Issued
<1>4. ASSUME NEW a \in Address, NEW fresh \in ChallengeId, NEW at \in Nat,
             NEW revision \in Nat, Issuance(a, fresh, at, revision)
      PROVE  /\ challenge'[c].address \in Address
             /\ account'[challenge'[c].address].status # "none"
  <2>1. CASE c = fresh
    <3>1. challenge'[c].address = a
      BY <1>4, <2>1, IssuedRows
    <3>2. QED
      BY <1>4, <3>1 DEF Issuance
  <2>2. CASE c # fresh
    <3>1. challenge'[c].address = challenge[c].address
      BY <1>4, <2>2, IssuedRows
    <3>2. Issued(c)
      BY <3>1 DEF Issued
    <3>3. QED
      BY <1>2, <1>4, <3>1, <3>2 DEF Issuance
  <2>3. QED
    BY <2>1, <2>2
<1>5. ASSUME NEW r \in Request, ConsumeVerification(r)
      PROVE  /\ challenge'[c].address \in Address
             /\ account'[challenge'[c].address].status # "none"
  <2>1. challenge'[c].address = challenge[c].address /\ Issued(c)
    BY <1>1, <1>5, ConsumedRows DEF Issued
  <2>2. QED
    BY <1>2, <1>5, <2>1, ConsumedAccount
<1>6. ASSUME NEW a \in Address, CreateAccount(a) \/ Suspend(a)
      PROVE  /\ challenge'[c].address \in Address
             /\ account'[challenge'[c].address].status # "none"
  <2>1. challenge' = challenge
    BY <1>6 DEF CreateAccount, Suspend
  <2>2. \A b \in Address : account[b].status # "none" => account'[b].status # "none"
    BY <1>1, <1>6 DEF CreateAccount, Suspend, Exists, AccountRow
  <2>3. QED
    BY <1>2, <2>1, <2>2 DEF Issued
<1>7. QED
  BY <1>3, <1>4, <1>5, <1>6, Writers

LEMMA OneCurrentStep ==
  RegistrationIInv /\ [RegistrationStep]_registrationVars => OneCurrentChallenge'
<1> SUFFICES ASSUME RegistrationIInv, [RegistrationStep]_registrationVars,
                    NEW c \in ChallengeId, NEW d \in ChallengeId,
                    Current(c)', Current(d)', challenge'[c].address = challenge'[d].address
             PROVE  c = d
  BY DEF OneCurrentChallenge, CurrentOf
<1>1. challenge \in [ChallengeId -> ChallengeRow]
  BY DEF RegistrationIInv, RegistrationTypeOK, TablesTypeOK
<1>2. Current(c) /\ Current(d) /\ challenge[c].address = challenge[d].address => c = d
  BY DEF RegistrationIInv, OneCurrentChallenge, CurrentOf, ChallengesHaveAccounts, Current
<1>3. CASE UNCHANGED <<challenge, account>>
  BY <1>2, <1>3 DEF Current, Issued
<1>4. ASSUME NEW a \in Address, NEW fresh \in ChallengeId, NEW at \in Nat,
             NEW revision \in Nat, Issuance(a, fresh, at, revision)
      PROVE  c = d
  <2>1. \A e \in {c, d} :
          /\ e = fresh => challenge'[e].address = a
          /\ e # fresh => challenge'[e].address = challenge[e].address
    BY <1>4, IssuedRows
  <2>2. \A e \in {c, d} : e # fresh => Current(e) /\ challenge[e].address # a
    BY <1>4, IssuedRows DEF Current, Issued, IsCurrent
  <2>3. QED
    BY <1>2, <2>1, <2>2
<1>5. ASSUME NEW r \in Request, ConsumeVerification(r)
      PROVE  c = d
  <2>1. \A e \in {c, d} : challenge'[e].address = challenge[e].address /\ Current(e)
    BY <1>1, <1>5, ConsumedRows DEF Current, Issued, IsCurrent
  <2>2. QED
    BY <1>2, <2>1
<1>6. ASSUME NEW a \in Address, CreateAccount(a) \/ Suspend(a)
      PROVE  c = d
  BY <1>2, <1>6 DEF CreateAccount, Suspend, Current, Issued
<1>7. QED
  BY <1>3, <1>4, <1>5, <1>6, Writers

LEMMA LatestIsCurrentStep ==
  RegistrationIInv /\ [RegistrationStep]_registrationVars => LatestIsCurrent'
<1> SUFFICES ASSUME RegistrationIInv, [RegistrationStep]_registrationVars, NEW c \in ChallengeId,
                    challenge'[c].address # None,
                    account'[challenge'[c].address].verifiedAt = Never
             PROVE  \E d \in ChallengeId :
                      /\ challenge'[d].address = challenge'[c].address
                      /\ IsCurrent(challenge'[d])
                      /\ challenge'[c].issuedAt <= challenge'[d].issuedAt
  BY DEF LatestIsCurrent, CurrentOf, Current, Issued, IsCurrent
<1> DEFINE Goal(d) == /\ challenge'[d].address = challenge'[c].address
                      /\ IsCurrent(challenge'[d])
                      /\ challenge'[c].issuedAt <= challenge'[d].issuedAt
<1>1. account \in [Address -> AccountRow] /\ challenge \in [ChallengeId -> ChallengeRow]
  BY DEF RegistrationIInv, RegistrationTypeOK, RequestTypeOK, TablesTypeOK
<1>2. ASSUME Issued(c), account[challenge[c].address].verifiedAt = Never
      PROVE  \E d \in ChallengeId :
               /\ challenge[d].address = challenge[c].address
               /\ Current(d)
               /\ challenge[c].issuedAt <= challenge[d].issuedAt
  BY <1>2 DEF RegistrationIInv, LatestIsCurrent, CurrentOf
<1>3. CASE UNCHANGED <<challenge, account>>
  BY <1>2, <1>3 DEF Issued, Current, IsCurrent
<1>4. ASSUME NEW a \in Address, NEW fresh \in ChallengeId, NEW at \in Nat,
             NEW revision \in Nat, Issuance(a, fresh, at, revision)
      PROVE  \E d \in ChallengeId : Goal(d)
  <2>1. IsCurrent(challenge'[fresh])
    BY <1>4, IssuedRows, TablesAssumption DEF IsCurrent
  <2>2. CASE c = fresh
    BY <1>4, <2>1, <2>2, IssuedRows
  <2>3. CASE c # fresh /\ challenge[c].address = a
    <3>1. challenge[c].issuedAt + ResendInterval <= at
      BY <1>4, <2>3 DEF Issuance
    <3>2. challenge[c].issuedAt \in Int
      BY <1>1 DEF ChallengeRow, Instant, Time, Never
    <3>3. Goal(fresh)
      BY <1>4, <2>1, <2>3, <3>1, <3>2, IssuedRows, TablesAssumption
    <3>4. QED
      BY <3>3
  <2>4. CASE c # fresh /\ challenge[c].address # a
    <3>1. challenge'[c].address = challenge[c].address
          /\ challenge'[c].issuedAt = challenge[c].issuedAt
      BY <1>4, <2>4, IssuedRows
    <3>2. Issued(c) /\ challenge[c].address \in Address
      BY <3>1 DEF Issued, RegistrationIInv, ChallengesHaveAccounts
    <3>3. account[challenge[c].address].verifiedAt = Never
      BY <1>4, <2>4, <3>1, <3>2 DEF Issuance
    <3>4. PICK d \in ChallengeId :
             /\ challenge[d].address = challenge[c].address
             /\ Current(d)
             /\ challenge[c].issuedAt <= challenge[d].issuedAt
      BY <1>2, <3>2, <3>3
    <3>5. d # fresh
      BY <1>4, <3>4 DEF Issuance, Current
    <3>6. Goal(d)
      BY <1>4, <2>4, <3>1, <3>4, <3>5, IssuedRows
    <3>7. QED
      BY <3>6
  <2>5. QED
    BY <2>2, <2>3, <2>4
<1>5. ASSUME NEW r \in Request, ConsumeVerification(r)
      PROVE  \E d \in ChallengeId : Goal(d)
  <2> DEFINE e == req[r].challenge
             b == challenge[e].address
  <2>1. challenge'[c].address = challenge[c].address
        /\ challenge'[c].issuedAt = challenge[c].issuedAt
        /\ e \in ChallengeId /\ b \in Address /\ req[r].at \in Nat
    BY <1>5, ConsumedRows
  <2>2. Issued(c) /\ challenge[c].address \in Address
    BY <2>1 DEF Issued, RegistrationIInv, ChallengesHaveAccounts
  <2>3. /\ account'[b].verifiedAt = req[r].at
        /\ \A x \in Address \ {b} : account'[x] = account[x]
    BY <1>5, ConsumedAccount
  <2>4. challenge[c].address # b /\ account[challenge[c].address].verifiedAt = Never
    BY <2>1, <2>2, <2>3 DEF Never
  <2>5. PICK d \in ChallengeId :
           /\ challenge[d].address = challenge[c].address
           /\ Current(d)
           /\ challenge[c].issuedAt <= challenge[d].issuedAt
    BY <1>2, <2>2, <2>4
  <2>6. d # e
    BY <2>4, <2>5
  <2>7. Goal(d)
    BY <1>5, <2>1, <2>5, <2>6, ConsumedRows
  <2>8. QED
    BY <2>7
<1>6. ASSUME NEW a \in Address, CreateAccount(a) \/ Suspend(a)
      PROVE  \E d \in ChallengeId : Goal(d)
  <2>1. challenge' = challenge
    BY <1>6 DEF CreateAccount, Suspend
  <2>2. Issued(c) /\ challenge[c].address \in Address /\ Exists(challenge[c].address)
    BY <2>1 DEF Issued, RegistrationIInv, ChallengesHaveAccounts
  <2>3. account[challenge[c].address].verifiedAt = Never
    BY <1>1, <1>6, <2>1, <2>2 DEF CreateAccount, Suspend, AccountRow
  <2>4. QED
    BY <1>2, <2>1, <2>2, <2>3 DEF Current, Issued, IsCurrent
<1>7. QED
  BY <1>3, <1>4, <1>5, <1>6, Writers

LEMMA VerifiedByOneConsumptionStep ==
  RegistrationIInv /\ [RegistrationStep]_registrationVars => VerifiedByOneConsumption'
<1> SUFFICES ASSUME RegistrationIInv, [RegistrationStep]_registrationVars, NEW x \in Address
             PROVE  /\ \A c, d \in ChallengeId :
                         /\ challenge'[c].address = x /\ challenge'[c].consumedAt # Never
                         /\ challenge'[d].address = x /\ challenge'[d].consumedAt # Never
                         => c = d
                    /\ \A c \in ChallengeId :
                         challenge'[c].address = x /\ challenge'[c].consumedAt # Never
                         => account'[x].verifiedAt = challenge'[c].consumedAt
                    /\ account'[x].verifiedAt # Never =>
                         /\ \E c \in ChallengeId :
                              challenge'[c].address = x /\ challenge'[c].consumedAt # Never
                         /\ account'[x].status \in {"active", "suspended"}
  BY DEF VerifiedByOneConsumption
<1> DEFINE Spent(c) == challenge[c].address = x /\ challenge[c].consumedAt # Never
           SpentNext(c) == challenge'[c].address = x /\ challenge'[c].consumedAt # Never
           Goal == /\ \A c, d \in ChallengeId : SpentNext(c) /\ SpentNext(d) => c = d
                   /\ \A c \in ChallengeId :
                        SpentNext(c) => account'[x].verifiedAt = challenge'[c].consumedAt
                   /\ account'[x].verifiedAt # Never =>
                        /\ \E c \in ChallengeId : SpentNext(c)
                        /\ account'[x].status \in {"active", "suspended"}
<1>1. account \in [Address -> AccountRow] /\ challenge \in [ChallengeId -> ChallengeRow]
  BY DEF RegistrationIInv, RegistrationTypeOK, RequestTypeOK, TablesTypeOK
<1>2. /\ \A c, d \in ChallengeId : Spent(c) /\ Spent(d) => c = d
      /\ \A c \in ChallengeId : Spent(c) => account[x].verifiedAt = challenge[c].consumedAt
      /\ account[x].verifiedAt # Never =>
           /\ \E c \in ChallengeId : Spent(c)
           /\ account[x].status \in {"active", "suspended"}
  BY DEF RegistrationIInv, VerifiedByOneConsumption
<1>3. CASE UNCHANGED <<challenge, account>>
  <2>1. Goal
    BY <1>2, <1>3
  <2>2. QED
    BY <2>1
<1>4. ASSUME NEW a \in Address, NEW fresh \in ChallengeId, NEW at \in Nat,
             NEW revision \in Nat, Issuance(a, fresh, at, revision)
      PROVE  Goal
  <2>1. \A c \in ChallengeId : Spent(c) => c # fresh
    BY <1>4, TablesAssumption DEF Issuance, Issued
  <2>2. \A c \in ChallengeId :
          /\ SpentNext(c) <=> Spent(c)
          /\ Spent(c) => challenge'[c].consumedAt = challenge[c].consumedAt
    BY <1>4, <2>1, IssuedRows
  <2>3. CASE x = a
    <3>1. \A c \in ChallengeId : ~Spent(c)
      BY <1>4, <2>3 DEF Issuance
    <3>2. account'[x].verifiedAt = Never
      BY <1>4, <2>3 DEF Issuance
    <3>3. QED
      BY <2>2, <3>1, <3>2
  <2>4. CASE x # a
    <3>1. account'[x] = account[x]
      BY <1>4, <2>4 DEF Issuance
    <3>2. QED
      BY <1>2, <2>2, <3>1
  <2>5. QED
    BY <2>3, <2>4
<1>5. ASSUME NEW r \in Request, ConsumeVerification(r)
      PROVE  Goal
  <2> DEFINE e == req[r].challenge
             at == req[r].at
  <2> e \in ChallengeId
    BY <1>5 DEF ConsumeVerification, RegistrationIInv, RegistrationTypeOK, RequestTypeOK
  <2>1. /\ Current(e) /\ at \in Nat
        /\ \A c \in ChallengeId : challenge'[c].address = challenge[c].address
        /\ challenge'[e].consumedAt = at
        /\ \A c \in ChallengeId : c # e => challenge'[c] = challenge[c]
    BY <1>5, ConsumedRows
  <2>2. CASE x = challenge[e].address
    <3>1. /\ account[x].verifiedAt = Never
          /\ account'[x].verifiedAt = at /\ account'[x].status = "active"
      BY <1>5, <2>2, ConsumedAccount
    <3>2. \A c \in ChallengeId : ~Spent(c)
      BY <1>2, <3>1
    <3>3. \A c \in ChallengeId : SpentNext(c) <=> c = e
      BY <2>1, <2>2, <3>2 DEF Never
    <3>4. QED
      BY <2>1, <3>1, <3>3
  <2>3. CASE x # challenge[e].address
    <3>1. account'[x] = account[x]
      BY <1>5, <2>3, ConsumedAccount
    <3>2. \A c \in ChallengeId :
            /\ SpentNext(c) <=> Spent(c)
            /\ Spent(c) => challenge'[c].consumedAt = challenge[c].consumedAt
      BY <2>1, <2>3
    <3>3. QED
      BY <1>2, <3>1, <3>2
  <2>4. QED
    BY <2>2, <2>3
<1>6. ASSUME NEW a \in Address, CreateAccount(a) \/ Suspend(a)
      PROVE  Goal
  <2>1. challenge' = challenge
    BY <1>6 DEF CreateAccount, Suspend
  <2>2. CASE CreateAccount(a) /\ x = a
    <3>1. \A c \in ChallengeId : ~Spent(c)
      BY <2>2, TablesAssumption DEF CreateAccount, RegistrationIInv, ChallengesHaveAccounts, Issued
    <3>2. account'[x].verifiedAt = Never
      BY <1>1, <2>2 DEF CreateAccount
    <3>3. QED
      BY <2>1, <3>1, <3>2
  <2>3. CASE Suspend(a) \/ x # a
    <3>1. /\ account'[x].verifiedAt = account[x].verifiedAt
          /\ account'[x].status \in {account[x].status, "suspended"}
      BY <1>1, <1>6, <2>3 DEF CreateAccount, Suspend, AccountRow
    <3>2. QED
      BY <1>2, <2>1, <3>1
  <2>4. QED
    BY <1>6, <2>2, <2>3
<1>7. QED
  <2>1. Goal
    BY <1>3, <1>4, <1>5, <1>6, Writers
  <2>2. QED
    BY <2>1

LEMMA PasswordBehindTheTokenStep ==
  RegistrationIInv /\ [RegistrationStep]_registrationVars => PasswordBehindTheToken'
<1> SUFFICES ASSUME RegistrationIInv, [RegistrationStep]_registrationVars, NEW c \in ChallengeId,
                    IsCurrent(challenge'[c])
             PROVE  challenge'[c].revision = account'[challenge'[c].address].revision
  BY DEF PasswordBehindTheToken, IsCurrent, Current, Issued
<1> DEFINE Goal == challenge'[c].revision = account'[challenge'[c].address].revision
<1>1. account \in [Address -> AccountRow]
  BY DEF RegistrationIInv, RegistrationTypeOK, RequestTypeOK
<1>2. Current(c) => /\ challenge[c].revision = account[challenge[c].address].revision
                    /\ challenge[c].address \in Address
                    /\ Exists(challenge[c].address)
  BY DEF RegistrationIInv, PasswordBehindTheToken, ChallengesHaveAccounts, Current
<1>3. CASE UNCHANGED <<challenge, account>>
  BY <1>2, <1>3 DEF IsCurrent, Current, Issued
<1>4. ASSUME NEW a \in Address, NEW fresh \in ChallengeId, NEW at \in Nat,
             NEW revision \in Nat, Issuance(a, fresh, at, revision)
      PROVE  Goal
  <2>1. CASE c = fresh
    BY <1>4, <2>1, IssuedRows DEF Issuance
  <2>2. CASE c # fresh
    <3>1. Current(c) /\ challenge[c].address # a
      BY <1>4, <2>2, IssuedRows
    <3>2. account'[challenge[c].address] = account[challenge[c].address]
      BY <1>2, <1>4, <3>1 DEF Issuance
    <3>3. QED
      BY <1>2, <1>4, <2>2, <3>1, <3>2, IssuedRows
  <2>3. QED
    BY <2>1, <2>2
<1>5. ASSUME NEW r \in Request, ConsumeVerification(r)
      PROVE  Goal
  <2>1. Current(c) /\ c # req[r].challenge
    BY <1>5, ConsumedRows
  <2>2. challenge'[c] = challenge[c]
    BY <1>5, <2>1, ConsumedRows
  <2>3. account'[challenge[c].address].revision = account[challenge[c].address].revision
    BY <1>2, <1>5, <2>1, ConsumedAccount
  <2>4. QED
    BY <1>2, <2>1, <2>2, <2>3
<1>6. ASSUME NEW a \in Address, CreateAccount(a) \/ Suspend(a)
      PROVE  Goal
  <2>1. challenge' = challenge
    BY <1>6 DEF CreateAccount, Suspend
  <2>2. Current(c)
    BY <2>1 DEF IsCurrent, Current, Issued
  <2>3. account'[challenge[c].address].revision = account[challenge[c].address].revision
    BY <1>1, <1>2, <1>6, <2>2 DEF CreateAccount, Suspend, AccountRow
  <2>4. QED
    BY <1>2, <2>1, <2>2, <2>3
<1>7. QED
  BY <1>3, <1>4, <1>5, <1>6, Writers

LEMMA ResendSpacingStep ==
  RegistrationIInv /\ [RegistrationStep]_registrationVars => ResendSpacing'
<1> SUFFICES ASSUME RegistrationIInv, [RegistrationStep]_registrationVars,
                    NEW c \in ChallengeId, NEW d \in ChallengeId,
                    c # d, challenge'[c].address # None,
                    challenge'[c].address = challenge'[d].address
             PROVE  \/ challenge'[c].issuedAt - challenge'[d].issuedAt >= ResendInterval
                    \/ challenge'[d].issuedAt - challenge'[c].issuedAt >= ResendInterval
  BY DEF ResendSpacing, Issued
<1> DEFINE Goal == \/ challenge'[c].issuedAt - challenge'[d].issuedAt >= ResendInterval
                   \/ challenge'[d].issuedAt - challenge'[c].issuedAt >= ResendInterval
<1>1. /\ challenge \in [ChallengeId -> ChallengeRow]
      /\ challenge[c].issuedAt \in Int /\ challenge[d].issuedAt \in Int
  BY DEF RegistrationIInv, RegistrationTypeOK, TablesTypeOK, ChallengeRow, Instant, Time, Never
<1>2. challenge[c].address # None /\ challenge[c].address = challenge[d].address =>
        \/ challenge[c].issuedAt - challenge[d].issuedAt >= ResendInterval
        \/ challenge[d].issuedAt - challenge[c].issuedAt >= ResendInterval
  BY DEF RegistrationIInv, ResendSpacing, Issued
<1>3. CASE challenge' = challenge
  BY <1>2, <1>3
<1>4. ASSUME NEW a \in Address, NEW fresh \in ChallengeId, NEW at \in Nat,
             NEW revision \in Nat, Issuance(a, fresh, at, revision)
      PROVE  Goal
  <2>1. ASSUME NEW e \in ChallengeId, e # fresh, challenge'[e].address = a
        PROVE  at - challenge'[e].issuedAt >= ResendInterval
    <3>1. challenge[e].address = a /\ challenge'[e].issuedAt = challenge[e].issuedAt
      BY <1>4, <2>1, IssuedRows
    <3>2. challenge[e].issuedAt + ResendInterval <= at
      BY <1>4, <3>1 DEF Issuance
    <3>3. challenge[e].issuedAt \in Int
      BY <1>1 DEF ChallengeRow, Instant, Time, Never
    <3>4. QED
      BY <3>1, <3>2, <3>3, TablesAssumption
  <2>2. CASE c = fresh
    <3>1. challenge'[c].issuedAt = at /\ challenge'[d].address = a
      BY <1>4, <2>2, IssuedRows
    <3>2. QED
      BY <2>1, <2>2, <3>1
  <2>3. CASE d = fresh
    <3>1. challenge'[d].issuedAt = at /\ challenge'[c].address = a
      BY <1>4, <2>3, IssuedRows
    <3>2. QED
      BY <2>1, <2>3, <3>1
  <2>4. CASE c # fresh /\ d # fresh
    <3>1. /\ challenge'[c].address = challenge[c].address
          /\ challenge'[c].issuedAt = challenge[c].issuedAt
      BY <1>4, <2>4, IssuedRows
    <3>2. /\ challenge'[d].address = challenge[d].address
          /\ challenge'[d].issuedAt = challenge[d].issuedAt
      BY <1>4, <2>4, IssuedRows
    <3>3. QED
      BY <1>2, <3>1, <3>2
  <2>5. QED
    BY <2>2, <2>3, <2>4
<1>5. ASSUME NEW r \in Request, ConsumeVerification(r)
      PROVE  Goal
  <2>1. /\ challenge'[c].address = challenge[c].address
        /\ challenge'[c].issuedAt = challenge[c].issuedAt
        /\ challenge'[d].address = challenge[d].address
        /\ challenge'[d].issuedAt = challenge[d].issuedAt
    BY <1>5, ConsumedRows
  <2>2. QED
    BY <1>2, <2>1
<1>6. ASSUME NEW a \in Address, CreateAccount(a) \/ Suspend(a)
      PROVE  challenge' = challenge
  BY <1>6 DEF CreateAccount, Suspend
<1>7. QED
  BY <1>3, <1>4, <1>5, <1>6, Writers

-----------------------------------------------------------------------------
(* The parts that speak of the outbox.                                       *)

\* Only an issuance queues; otherwise what is still queued is as it was.
LEMMA OutboxWriters ==
  ASSUME RegistrationIInv, [RegistrationStep]_registrationVars
  PROVE  \/ \E a \in Address, fresh \in ChallengeId, at \in Nat, revision \in Nat :
              Issuance(a, fresh, at, revision)
         \/ \E r \in Request : ConsumeVerification(r)
         \/ /\ challenge' = challenge
            /\ \A c \in ChallengeId : outbox'[c].queued => outbox'[c] = outbox[c]
<1> DEFINE Goal == /\ challenge' = challenge
                   /\ \A c \in ChallengeId : outbox'[c].queued => outbox'[c] = outbox[c]
<1>1. outbox \in [ChallengeId -> DeliveryRow]
  BY DEF RegistrationIInv, RegistrationTypeOK, TablesTypeOK
<1>2. ASSUME NEW r \in Request, CreateRegistration(r) \/ RefreshRegistration(r)
      PROVE  \E a \in Address, fresh \in ChallengeId, at \in Nat, revision \in Nat :
               Issuance(a, fresh, at, revision)
  <2>1. req[r].address \in Address /\ req[r].at \in Nat
    BY <1>2 DEF CreateRegistration, RefreshRegistration, RegistrationIInv,
                RegistrationTypeOK, RequestTypeOK, RequestState, Time
  <2>2. QED
    BY <1>2, <2>1, CreateIssues, RefreshIssues
<1>3. ASSUME NEW r \in Request,
             \/ \E a \in Address : StartRegister(r, a) \/ StartReissue(r, a)
             \/ \E c \in ChallengeId : StartVerify(r, c)
             \/ Discover(r) \/ Collide(r) \/ RefuseRefresh(r)
             \/ RefuseVerification(r) \/ AbandonRequest(r)
      PROVE  Goal
  BY <1>3 DEF StartRegister, StartReissue, StartVerify, Discover, Collide, RefuseRefresh,
              RefuseVerification, AbandonRequest, tables
<1>4. ASSUME NEW rows \in SUBSET ChallengeId, Drain(rows)
      PROVE  Goal
  BY <1>1, <1>4 DEF Drain, Dequeue, DeliveryRow
<1>5. ASSUME \/ \E c \in ChallengeId : Carry(c)
             \/ \E a \in Address : CreateAccount(a) \/ Suspend(a)
             \/ PassTime
             \/ UNCHANGED registrationVars
      PROVE  Goal
  BY <1>5 DEF Carry, CreateAccount, Suspend, PassTime, tables, registrationVars
<1>6. QED
  BY <1>2, <1>3, <1>4, <1>5 DEF RegistrationStep, RegistrationNext, RequestStep, Surroundings

\* What an issuance leaves queued.
LEMMA IssuedDeliveries ==
  ASSUME RegistrationIInv, NEW a \in Address, NEW fresh \in ChallengeId,
         NEW at \in Nat, NEW revision \in Nat, Issuance(a, fresh, at, revision),
         NEW c \in ChallengeId, outbox'[c].queued
  PROVE  /\ c = fresh => outbox'[c].availableAt = at
         /\ c # fresh => outbox'[c] = outbox[c] /\ c \notin CurrentOf(a)
<1>1. outbox' = Requeued(CurrentOf(a), fresh, at) /\ outbox \in [ChallengeId -> DeliveryRow]
  BY DEF Issuance, RegistrationIInv, RegistrationTypeOK, TablesTypeOK
<1>2. CASE c = fresh
  BY <1>1, <1>2 DEF Requeued, NewDelivery
<1>3. CASE c # fresh /\ c \in CurrentOf(a)
  <2>1. outbox'[c] = Dequeue(outbox[c])
    BY <1>1, <1>3 DEF Requeued
  <2>2. QED
    BY <1>1, <2>1 DEF Dequeue, DeliveryRow
<1>4. CASE c # fresh /\ c \notin CurrentOf(a)
  BY <1>1, <1>4 DEF Requeued
<1>5. QED
  BY <1>2, <1>3, <1>4

\* What a consumption leaves queued.
LEMMA ConsumedDeliveries ==
  ASSUME RegistrationIInv, NEW r \in Request, ConsumeVerification(r),
         NEW c \in ChallengeId, outbox'[c].queued
  PROVE  c # req[r].challenge /\ outbox'[c] = outbox[c]
<1> DEFINE e == req[r].challenge
<1>1. /\ outbox' = [outbox EXCEPT ![e] = Dequeue(outbox[e])]
      /\ outbox \in [ChallengeId -> DeliveryRow]
  BY DEF ConsumeVerification, RegistrationIInv, RegistrationTypeOK, TablesTypeOK
<1>2. CASE c = e
  BY <1>1, <1>2 DEF Dequeue, DeliveryRow
<1>3. CASE c # e
  BY <1>1, <1>3
<1>4. QED
  BY <1>2, <1>3

LEMMA QueuedOnlyWhileCurrentStep ==
  RegistrationIInv /\ [RegistrationStep]_registrationVars => QueuedOnlyWhileCurrent'
<1> SUFFICES ASSUME RegistrationIInv, [RegistrationStep]_registrationVars, NEW c \in ChallengeId, outbox'[c].queued
             PROVE  IsCurrent(challenge'[c])
  BY DEF QueuedOnlyWhileCurrent, IsCurrent, Current, Issued
<1>1. outbox[c].queued => Current(c)
  BY DEF RegistrationIInv, QueuedOnlyWhileCurrent
<1>2. ASSUME NEW a \in Address, NEW fresh \in ChallengeId, NEW at \in Nat,
             NEW revision \in Nat, Issuance(a, fresh, at, revision)
      PROVE  IsCurrent(challenge'[c])
  <2>1. CASE c = fresh
    BY <1>2, <2>1, IssuedRows, TablesAssumption DEF IsCurrent
  <2>2. CASE c # fresh
    <3>1. outbox[c].queued /\ c \notin CurrentOf(a)
      BY <1>2, <2>2, IssuedDeliveries
    <3>2. challenge'[c] = challenge[c]
      BY <1>2, <2>2, <3>1, IssuedRows
    <3>3. QED
      BY <1>1, <3>1, <3>2 DEF IsCurrent, Current, Issued
  <2>3. QED
    BY <2>1, <2>2
<1>3. ASSUME NEW r \in Request, ConsumeVerification(r)
      PROVE  IsCurrent(challenge'[c])
  <2>1. outbox[c].queued /\ c # req[r].challenge
    BY <1>3, ConsumedDeliveries
  <2>2. QED
    BY <1>1, <1>3, <2>1, ConsumedRows
<1>4. CASE challenge' = challenge /\ outbox'[c] = outbox[c]
  BY <1>1, <1>4 DEF IsCurrent, Current, Issued
<1>5. QED
  BY <1>2, <1>3, <1>4, OutboxWriters

\* The CHECK constraints of one challenge and of the message queued for it.
RowsHold(v, d) ==
  /\ v.expiresAt > v.issuedAt
  /\ v.consumedAt # Never => v.issuedAt <= v.consumedAt /\ v.consumedAt < v.expiresAt
  /\ v.supersededAt # Never => v.issuedAt <= v.supersededAt
  /\ v.consumedAt = Never \/ v.supersededAt = Never
  /\ d.queued => d.availableAt >= v.issuedAt

LEMMA ConstraintsHoldStep ==
  RegistrationIInv /\ [RegistrationStep]_registrationVars => ConstraintsHold'
<1> SUFFICES ASSUME RegistrationIInv, [RegistrationStep]_registrationVars,
                    NEW c \in ChallengeId, challenge'[c].address # None
             PROVE  RowsHold(challenge'[c], outbox'[c])
  BY DEF ConstraintsHold, RowsHold, Issued
<1>1. /\ challenge[c].issuedAt \in Int /\ challenge[c].expiresAt \in Int
      /\ challenge[c].supersededAt \in Int
  BY DEF RegistrationIInv, RegistrationTypeOK, TablesTypeOK, ChallengeRow, Instant, Time, Never
<1>2. Issued(c) => RowsHold(challenge[c], outbox[c])
  BY DEF RegistrationIInv, ConstraintsHold, RowsHold
<1>3. ASSUME NEW a \in Address, NEW fresh \in ChallengeId, NEW at \in Nat,
             NEW revision \in Nat, Issuance(a, fresh, at, revision)
      PROVE  RowsHold(challenge'[c], outbox'[c])
  <2>1. CASE c = fresh
    <3>1. outbox'[c].queued => outbox'[c].availableAt = at
      BY <1>3, <2>1, IssuedDeliveries
    <3>2. QED
      BY <1>3, <2>1, <3>1, IssuedRows, TablesAssumption DEF RowsHold
  <2>2. CASE c # fresh
    <3>1. /\ challenge'[c].address = challenge[c].address
          /\ challenge'[c].issuedAt = challenge[c].issuedAt
          /\ challenge'[c].expiresAt = challenge[c].expiresAt
          /\ challenge'[c].consumedAt = challenge[c].consumedAt
          /\ c \in CurrentOf(a) => challenge'[c].supersededAt = at
          /\ c \notin CurrentOf(a) => challenge'[c] = challenge[c]
      BY <1>3, <2>2, IssuedRows
    <3>2. RowsHold(challenge[c], outbox[c])
      BY <1>2, <3>1 DEF Issued
    <3>3. outbox'[c].queued => outbox'[c] = outbox[c]
      BY <1>3, <2>2, IssuedDeliveries
    <3>4. CASE c \in CurrentOf(a)
      <4>1. challenge[c].issuedAt + ResendInterval <= at /\ challenge[c].consumedAt = Never
        BY <1>3, <3>4 DEF Issuance, CurrentOf
      <4>2. challenge[c].issuedAt <= at
        BY <1>1, <4>1, TablesAssumption
      <4>3. QED
        BY <3>1, <3>2, <3>3, <3>4, <4>1, <4>2 DEF RowsHold
    <3>5. CASE c \notin CurrentOf(a)
      BY <3>1, <3>2, <3>3, <3>5 DEF RowsHold
    <3>6. QED
      BY <3>4, <3>5
  <2>3. QED
    BY <2>1, <2>2
<1>4. ASSUME NEW r \in Request, ConsumeVerification(r)
      PROVE  RowsHold(challenge'[c], outbox'[c])
  <2> DEFINE e == req[r].challenge
  <2>1. outbox'[c].queued => outbox'[c] = outbox[c] /\ c # e
    BY <1>4, ConsumedDeliveries
  <2>2. CASE c = e
    <3>1. /\ challenge'[c].issuedAt = challenge[c].issuedAt
          /\ challenge'[c].expiresAt = challenge[c].expiresAt
          /\ challenge'[c].supersededAt = challenge[c].supersededAt
          /\ challenge'[c].consumedAt = req[r].at
          /\ challenge[c].issuedAt <= req[r].at /\ req[r].at < challenge[c].expiresAt
          /\ Current(c)
      BY <1>4, <2>2, ConsumedRows
    <3>2. RowsHold(challenge[c], outbox[c]) /\ challenge[c].supersededAt = Never
      BY <1>2, <3>1 DEF Current
    <3>3. QED
      BY <2>1, <2>2, <3>1, <3>2 DEF RowsHold
  <2>3. CASE c # e
    <3>1. challenge'[c] = challenge[c]
      BY <1>4, <2>3, ConsumedRows
    <3>2. QED
      BY <1>2, <2>1, <3>1 DEF RowsHold, Issued
  <2>4. QED
    BY <2>2, <2>3
<1>5. CASE challenge' = challenge /\ (outbox'[c].queued => outbox'[c] = outbox[c])
  BY <1>2, <1>5 DEF RowsHold, Issued
<1>6. QED
  BY <1>3, <1>4, <1>5, OutboxWriters

-----------------------------------------------------------------------------
(* The parts that speak of the requests and of the clock.                    *)

\* The ways one request's state changes.
Starts(q) == /\ req'[q].at = now /\ ~req'[q].retried
             /\ req'[q].pc = "consume" =>
                  req'[q].challenge \in ChallengeId /\ sent[req'[q].challenge] > 0
Proceeds(q) == /\ req'[q].at = req[q].at
               /\ req'[q].address = req[q].address
               /\ req[q].address \in Address
               /\ \/ /\ req'[q].retried = req[q].retried /\ Exists(req[q].address)
                     /\ req'[q].pc = "refresh"
                  \/ /\ req'[q].retried = req[q].retried /\ ~Exists(req[q].address)
                     /\ req'[q].pc = "create"
                  \/ /\ Exists(req[q].address) /\ req'[q].pc = "discover"

LEMMA RequestMoves ==
  ASSUME RegistrationIInv, [RegistrationStep]_registrationVars, NEW q \in Request
  PROVE  req'[q] = req[q] \/ req'[q] = IdleRequest \/ Starts(q) \/ Proceeds(q)
<1> DEFINE Goal == req'[q] = req[q] \/ req'[q] = IdleRequest \/ Starts(q) \/ Proceeds(q)
<1>1. req \in [Request -> RequestState]
  BY DEF RegistrationIInv, RegistrationTypeOK, RequestTypeOK
<1>2. ASSUME NEW r \in Request, Finish(r)
      PROVE  Goal
  BY <1>1, <1>2 DEF Finish
<1>3. ASSUME NEW r \in Request, NEW a \in Address, StartRegister(r, a) \/ StartReissue(r, a)
      PROVE  Goal
  <2>1. CASE StartRegister(r, a)
    BY <1>1, <2>1 DEF StartRegister, Starts, IdleRequest
  <2>2. CASE StartReissue(r, a)
    BY <1>1, <2>2 DEF StartReissue, Starts, IdleRequest
  <2>3. QED
    BY <1>3, <2>1, <2>2
<1>4. ASSUME NEW r \in Request, NEW c \in ChallengeId, StartVerify(r, c)
      PROVE  Goal
  BY <1>1, <1>4 DEF StartVerify, Starts, IdleRequest
<1>5. ASSUME NEW r \in Request, Discover(r)
      PROVE  Goal
  <2>1. req[r].address \in Address
    BY <1>5 DEF Discover, RegistrationIInv, RegistrationTypeOK, RequestTypeOK
  <2>2. CASE Exists(req[r].address) /\ req' = [req EXCEPT ![r].pc = "refresh"]
    BY <1>1, <2>1, <2>2 DEF Proceeds, RequestState
  <2>3. CASE ~Exists(req[r].address) /\ req' = [req EXCEPT ![r].pc = "create"]
    BY <1>1, <2>1, <2>3 DEF Proceeds, RequestState
  <2>4. QED
    BY <1>2, <1>5, <2>2, <2>3 DEF Discover
<1>6. ASSUME NEW r \in Request, Collide(r)
      PROVE  Goal
  <2>1. req[r].address \in Address /\ Exists(req[r].address)
    BY <1>6 DEF Collide, RegistrationIInv, RegistrationTypeOK, RequestTypeOK
  <2>2. CASE req' = [req EXCEPT ![r].pc = "discover", ![r].retried = TRUE]
    <3>1. req' = [req EXCEPT ![r] = [req[r] EXCEPT !.pc = "discover", !.retried = TRUE]]
      BY <2>2
    <3>2. QED
      BY <1>1, <2>1, <3>1 DEF Proceeds, RequestState
  <2>3. QED
    BY <1>2, <1>6, <2>2 DEF Collide
<1>7. ASSUME NEW r \in Request,
             \/ CreateRegistration(r) \/ RefreshRegistration(r) \/ RefuseRefresh(r)
             \/ ConsumeVerification(r) \/ RefuseVerification(r) \/ AbandonRequest(r)
      PROVE  Finish(r)
  BY <1>7 DEF CreateRegistration, RefreshRegistration, RefuseRefresh, ConsumeVerification,
              RefuseVerification, AbandonRequest
<1>8. ASSUME \/ \E a \in Address : CreateAccount(a) \/ Suspend(a)
             \/ Surroundings
             \/ UNCHANGED registrationVars
      PROVE  Goal
  BY <1>8 DEF CreateAccount, Suspend, Surroundings, Carry, Drain, PassTime, registrationVars
<1>9. QED
  BY <1>2, <1>3, <1>4, <1>5, <1>6, <1>7, <1>8 DEF RegistrationStep, RegistrationNext, RequestStep

\* The clock never goes back.
LEMMA ClockAdvances ==
  ASSUME RegistrationIInv, [RegistrationStep]_registrationVars
  PROVE  now \in Nat /\ now' \in Nat /\ now <= now'
<1>1. now \in Nat
  BY DEF RegistrationIInv, RegistrationTypeOK, TablesTypeOK, Time
<1>2. now' = now \/ now' = now + 1
  BY DEF RegistrationStep, RegistrationNext, RequestStep, Surroundings, StartRegister, StartReissue,
         StartVerify, Discover, CreateRegistration, Collide, RefreshRegistration,
         RefuseRefresh, ConsumeVerification, RefuseVerification, AbandonRequest,
         CreateAccount, Suspend, Carry, Drain, PassTime, registrationVars
<1>3. QED
  BY <1>1, <1>2

\* What carries a message is told of an issued challenge.
LEMMA CarriedRows ==
  ASSUME RegistrationIInv, [RegistrationStep]_registrationVars, NEW c \in ChallengeId, sent'[c] # sent[c]
  PROVE  Issued(c)
BY DEF RegistrationStep, RegistrationNext, RequestStep, Surroundings, StartRegister, StartReissue,
       StartVerify, Discover, CreateRegistration, Collide, RefreshRegistration,
       RefuseRefresh, ConsumeVerification, RefuseVerification, AbandonRequest,
       CreateAccount, Suspend, Carry, Drain, PassTime, registrationVars, tables,
       RegistrationIInv, RegistrationTypeOK, TablesTypeOK

\* What was carried cannot be recalled.
LEMMA CarriedForever ==
  ASSUME RegistrationIInv, [RegistrationStep]_registrationVars, NEW c \in ChallengeId, sent[c] > 0
  PROVE  sent'[c] > 0
<1>1. CASE sent' = sent
  BY <1>1
<1>2. ASSUME NEW b \in ChallengeId, Carry(b) PROVE sent'[c] > 0
  <2>1. sent \in [ChallengeId -> Nat] /\ sent' = [sent EXCEPT ![b] = 1]
    BY <1>2 DEF Carry, RegistrationIInv, RegistrationTypeOK, TablesTypeOK
  <2>2. QED
    BY <2>1
<1>3. sent' = sent \/ \E b \in ChallengeId : Carry(b)
  BY DEF RegistrationStep, RegistrationNext, RequestStep, Surroundings, StartRegister, StartReissue,
         StartVerify, Discover, CreateRegistration, Collide, RefreshRegistration,
         RefuseRefresh, ConsumeVerification, RefuseVerification, AbandonRequest,
         CreateAccount, Suspend, Drain, PassTime, registrationVars, tables
<1>4. QED
  BY <1>1, <1>2, <1>3

\* An issued challenge keeps its address and its instant.
LEMMA IssuedForever ==
  ASSUME RegistrationIInv, [RegistrationStep]_registrationVars, NEW c \in ChallengeId, Issued(c)
  PROVE  /\ challenge'[c].address = challenge[c].address
         /\ challenge'[c].issuedAt = challenge[c].issuedAt
<1> DEFINE Goal == /\ challenge'[c].address = challenge[c].address
                   /\ challenge'[c].issuedAt = challenge[c].issuedAt
<1>1. ASSUME NEW a \in Address, NEW fresh \in ChallengeId, NEW at \in Nat,
             NEW revision \in Nat, Issuance(a, fresh, at, revision)
      PROVE  Goal
  <2>1. c # fresh
    BY <1>1 DEF Issuance
  <2>2. QED
    BY <1>1, <2>1, IssuedRows
<1>2. ASSUME NEW r \in Request, ConsumeVerification(r)
      PROVE  Goal
  BY <1>2, ConsumedRows
<1>3. CASE challenge' = challenge
  BY <1>3
<1>4. QED
  BY <1>1, <1>2, <1>3, OutboxWriters

\* An account is never removed.
LEMMA ExistsForever ==
  ASSUME RegistrationIInv, [RegistrationStep]_registrationVars, NEW a \in Address, Exists(a)
  PROVE  account'[a].status # "none"
<1> DEFINE Goal == account'[a].status # "none"
<1>1. account \in [Address -> AccountRow]
  BY DEF RegistrationIInv, RegistrationTypeOK, RequestTypeOK
<1>2. ASSUME NEW b \in Address, NEW fresh \in ChallengeId, NEW at \in Nat,
             NEW revision \in Nat, Issuance(b, fresh, at, revision)
      PROVE  Goal
  BY <1>2 DEF Issuance, Exists
<1>3. ASSUME NEW r \in Request, ConsumeVerification(r)
      PROVE  Goal
  BY <1>3, ConsumedAccount DEF Exists
<1>4. ASSUME NEW b \in Address, CreateAccount(b) \/ Suspend(b)
      PROVE  Goal
  BY <1>1, <1>4 DEF CreateAccount, Suspend, Exists, AccountRow
<1>5. CASE account' = account
  BY <1>5 DEF Exists
<1>6. QED
  BY <1>2, <1>3, <1>4, <1>5, Writers

LEMMA InstantsArePastStep ==
  RegistrationIInv /\ [RegistrationStep]_registrationVars => InstantsArePast'
<1> SUFFICES ASSUME RegistrationIInv, [RegistrationStep]_registrationVars
             PROVE  /\ \A c \in ChallengeId :
                         challenge'[c].address # None => challenge'[c].issuedAt \in 0..now'
                    /\ \A q \in Request : req'[q].at <= now'
  BY DEF InstantsArePast, Issued
<1>1. now \in Nat /\ now' \in Nat /\ now <= now'
  BY ClockAdvances
<1>2. ASSUME NEW c \in ChallengeId, challenge'[c].address # None
      PROVE  challenge'[c].issuedAt \in 0..now'
  <2>1. CASE Issued(c)
    BY <1>1, <2>1, IssuedForever DEF RegistrationIInv, InstantsArePast
  <2>2. CASE ~Issued(c)
    <3>1. ASSUME NEW a \in Address, NEW fresh \in ChallengeId, NEW at \in Nat,
                 NEW revision \in Nat, at <= now, Issuance(a, fresh, at, revision)
          PROVE  challenge'[c].issuedAt \in 0..now'
      <4>1. c = fresh
        BY <1>2, <2>2, <3>1, IssuedRows DEF Issued
      <4>2. challenge'[c].issuedAt = at
        BY <3>1, <4>1, IssuedRows
      <4>3. QED
        BY <1>1, <3>1, <4>2
    <3>2. ASSUME NEW r \in Request, ConsumeVerification(r)
          PROVE  FALSE
      BY <1>2, <2>2, <3>2, ConsumedRows DEF Issued
    <3>3. challenge' # challenge
      BY <1>2, <2>2 DEF Issued
    <3>4. ASSUME NEW a \in Address, CreateAccount(a) \/ Suspend(a)
          PROVE  FALSE
      BY <3>3, <3>4 DEF CreateAccount, Suspend
    <3>5. QED
      BY <3>1, <3>2, <3>3, <3>4, Writers
  <2>3. QED
    BY <2>1, <2>2
<1>3. ASSUME NEW q \in Request
      PROVE  req'[q].at <= now'
  <2>1. req[q].at <= now /\ req[q].at \in Nat
    BY DEF RegistrationIInv, InstantsArePast, RegistrationTypeOK, RequestTypeOK, RequestState, Time
  <2>2. req'[q].at \in {0, now, req[q].at}
    BY RequestMoves DEF Starts, Proceeds, IdleRequest
  <2>3. QED
    BY <1>1, <2>1, <2>2
<1>4. QED
  BY <1>2, <1>3

LEMMA PresentedAfterIssuanceStep ==
  RegistrationIInv /\ [RegistrationStep]_registrationVars => PresentedAfterIssuance'
<1> SUFFICES ASSUME RegistrationIInv, [RegistrationStep]_registrationVars
             PROVE  /\ \A c \in ChallengeId : sent'[c] > 0 => challenge'[c].address # None
                    /\ \A q \in Request : req'[q].pc = "consume" =>
                         /\ sent'[req'[q].challenge] > 0
                         /\ challenge'[req'[q].challenge].address # None
                         /\ challenge'[req'[q].challenge].issuedAt <= req'[q].at
  BY DEF PresentedAfterIssuance, Issued
<1>1. \A c \in ChallengeId : sent[c] > 0 => Issued(c)
  BY DEF RegistrationIInv, PresentedAfterIssuance
<1>2. ASSUME NEW c \in ChallengeId, sent'[c] > 0
      PROVE  challenge'[c].address # None
  <2>1. Issued(c)
    BY <1>1, <1>2, CarriedRows
  <2>2. QED
    BY <2>1, IssuedForever DEF Issued
<1>3. ASSUME NEW q \in Request, req'[q].pc = "consume"
      PROVE  /\ sent'[req'[q].challenge] > 0
             /\ challenge'[req'[q].challenge].address # None
             /\ challenge'[req'[q].challenge].issuedAt <= req'[q].at
  <2> DEFINE e == req'[q].challenge
  <2>1. CASE Starts(q)
    <3>1. e \in ChallengeId /\ Issued(e) /\ sent[e] > 0
      BY <1>1, <1>3, <2>1 DEF Starts
    <3>2. challenge[e].issuedAt <= now
      BY <3>1 DEF RegistrationIInv, InstantsArePast
    <3>3. QED
      BY <2>1, <3>1, <3>2, CarriedForever, IssuedForever DEF Starts, Issued
  <2>2. CASE req'[q] = req[q]
    <3>1. e \in ChallengeId /\ Issued(e) /\ sent[e] > 0 /\ challenge[e].issuedAt <= req[q].at
      BY <1>3, <2>2 DEF RegistrationIInv, PresentedAfterIssuance, RegistrationTypeOK, RequestTypeOK
    <3>2. QED
      BY <2>2, <3>1, CarriedForever, IssuedForever DEF Issued
  <2>3. QED
    BY <1>3, <2>1, <2>2, RequestMoves DEF Proceeds, IdleRequest
<1>4. QED
  BY <1>2, <1>3

LEMMA ConsumedWereCarriedStep ==
  RegistrationIInv /\ [RegistrationStep]_registrationVars => ConsumedWereCarried'
<1> SUFFICES ASSUME RegistrationIInv, [RegistrationStep]_registrationVars,
                    NEW c \in ChallengeId, challenge'[c].consumedAt # Never
             PROVE  sent'[c] > 0
  BY DEF ConsumedWereCarried
<1>1. challenge[c].consumedAt # Never => sent'[c] > 0
  BY CarriedForever DEF RegistrationIInv, ConsumedWereCarried
<1>2. ASSUME NEW a \in Address, NEW fresh \in ChallengeId, NEW at \in Nat,
             NEW revision \in Nat, Issuance(a, fresh, at, revision)
      PROVE  sent'[c] > 0
  BY <1>1, <1>2, IssuedRows
<1>3. ASSUME NEW r \in Request, ConsumeVerification(r)
      PROVE  sent'[c] > 0
  <2>1. CASE c = req[r].challenge
    <3>1. sent[c] > 0
      BY <1>3, <2>1 DEF ConsumeVerification, RegistrationIInv, PresentedAfterIssuance
    <3>2. QED
      BY <3>1, CarriedForever
  <2>2. CASE c # req[r].challenge
    BY <1>1, <1>3, <2>2, ConsumedRows
  <2>3. QED
    BY <2>1, <2>2
<1>4. CASE challenge' = challenge
  BY <1>1, <1>4
<1>5. QED
  BY <1>2, <1>3, <1>4, OutboxWriters

LEMMA RetryNeverCollidesStep ==
  RegistrationIInv /\ [RegistrationStep]_registrationVars => RetryNeverCollides'
<1> SUFFICES ASSUME RegistrationIInv, [RegistrationStep]_registrationVars, NEW q \in Request, req'[q].retried
             PROVE  /\ account'[req'[q].address].status # "none"
                    /\ req'[q].pc \in {"discover", "refresh"}
  BY DEF RetryNeverCollides, Exists
<1>1. req[q].retried =>
        /\ Exists(req[q].address)
        /\ req[q].pc \in {"discover", "refresh"}
        /\ req[q].address \in Address
  BY DEF RegistrationIInv, RetryNeverCollides, RegistrationTypeOK, RequestTypeOK
<1>2. CASE req'[q] = req[q]
  BY <1>1, <1>2, ExistsForever
<1>3. CASE Proceeds(q)
  <2>1. Exists(req[q].address) /\ req'[q].pc \in {"discover", "refresh"}
    BY <1>1, <1>3 DEF Proceeds
  <2>2. QED
    BY <1>3, <2>1, ExistsForever DEF Proceeds
<1>4. QED
  BY <1>2, <1>3, RequestMoves DEF Starts, IdleRequest

-----------------------------------------------------------------------------
(* The theorems.                                                             *)

LEMMA RegistrationInvInit == RegistrationInit => RegistrationIInv
<1> SUFFICES ASSUME RegistrationInit PROVE RegistrationIInv
  OBVIOUS
<1>1. /\ now = 0
      /\ challenge = [c \in ChallengeId |-> Unissued]
      /\ outbox = [c \in ChallengeId |-> NoDelivery]
      /\ sent = [c \in ChallengeId |-> 0]
      /\ account = [a \in Address |-> NoAccount]
      /\ req = [r \in Request |-> IdleRequest]
  BY DEF RegistrationInit, TablesInit, RequestInit
<1>2. \A c \in ChallengeId : /\ ~Issued(c)
                             /\ ~Current(c)
                             /\ challenge[c].consumedAt = Never
                             /\ ~outbox[c].queued
                             /\ sent[c] = 0
  BY <1>1 DEF Issued, Current, Unissued, NoDelivery
<1>3. \A r \in Request : req[r].at = 0 /\ req[r].pc = "idle" /\ ~req[r].retried
  BY <1>1 DEF IdleRequest
<1>4. \A a \in Address : account[a].verifiedAt = Never
  BY <1>1 DEF NoAccount
<1>5. RegistrationTypeOK
  BY RegistrationTypeInit
<1>6. /\ ChallengesHaveAccounts /\ InstantsArePast /\ PresentedAfterIssuance
      /\ ConsumedWereCarried /\ LatestIsCurrent
  BY <1>1, <1>2, <1>3
  DEF ChallengesHaveAccounts, InstantsArePast, PresentedAfterIssuance, ConsumedWereCarried,
      LatestIsCurrent
<1>7. OneCurrentChallenge /\ QueuedOnlyWhileCurrent /\ VerifiedByOneConsumption
  BY <1>2, <1>4
  DEF OneCurrentChallenge, CurrentOf, QueuedOnlyWhileCurrent, VerifiedByOneConsumption
<1>8. ConstraintsHold /\ PasswordBehindTheToken /\ ResendSpacing /\ RetryNeverCollides
  BY <1>2, <1>3
  DEF ConstraintsHold, PasswordBehindTheToken, ResendSpacing, RetryNeverCollides
<1>9. QED
  BY <1>5, <1>6, <1>7, <1>8 DEF RegistrationIInv

\* The conjunction is inductive: no part survives a step without the others.
LEMMA RegistrationInvStep == RegistrationIInv /\ [RegistrationStep]_registrationVars => RegistrationIInv'
<1>1. RegistrationIInv => RegistrationTypeOK
  BY DEF RegistrationIInv
<1>2. QED
  BY <1>1, RegistrationTypeStep, ChallengesHaveAccountsStep, InstantsArePastStep,
     PresentedAfterIssuanceStep, ConsumedWereCarriedStep, LatestIsCurrentStep, OneCurrentStep,
     QueuedOnlyWhileCurrentStep, VerifiedByOneConsumptionStep, ConstraintsHoldStep,
     PasswordBehindTheTokenStep, ResendSpacingStep, RetryNeverCollidesStep
  DEF RegistrationIInv

LEMMA RegistrationInvariance == RegistrationSpec => []RegistrationIInv
<1>1. RegistrationInit => RegistrationIInv
  BY RegistrationInvInit
<1>2. RegistrationIInv /\ [RegistrationStep]_registrationVars => RegistrationIInv'
  BY RegistrationInvStep
<1>3. QED
  BY <1>1, <1>2, PTL DEF RegistrationSpec, RegistrationStep

\* However registrations, reissues and verifications overlap, one token at most
\* works for an address (the partial unique index of migration 0003).
THEOREM AtMostOneTokenWorks == RegistrationSpec => []OneCurrentChallenge
<1>1. RegistrationIInv => OneCurrentChallenge
  BY DEF RegistrationIInv
<1>2. QED
  BY <1>1, RegistrationInvariance, PTL

\* No message is left queued for a challenge that was consumed or superseded.
THEOREM NoSpentTokenIsQueued == RegistrationSpec => []QueuedOnlyWhileCurrent
<1>1. RegistrationIInv => QueuedOnlyWhileCurrent
  BY DEF RegistrationIInv
<1>2. QED
  BY <1>1, RegistrationInvariance, PTL

\* An address becomes verified by the consumption of exactly one challenge.
THEOREM OneConsumptionVerifies == RegistrationSpec => []VerifiedByOneConsumption
<1>1. RegistrationIInv => VerifiedByOneConsumption
  BY DEF RegistrationIInv
<1>2. QED
  BY <1>1, RegistrationInvariance, PTL

\* A request that decides on an instant older than the rows it meets still writes
\* only rows the CHECK constraints of migration 0003 accept.
THEOREM StaleInstantsAreHarmless == RegistrationSpec => []ConstraintsHold
<1>1. RegistrationIInv => ConstraintsHold
  BY DEF RegistrationIInv
<1>2. QED
  BY <1>1, RegistrationInvariance, PTL

\* The password in force is the one the current token was issued with.
THEOREM NobodySwapsThePassword == RegistrationSpec => []PasswordBehindTheToken
<1>1. RegistrationIInv => PasswordBehindTheToken
  BY DEF RegistrationIInv
<1>2. QED
  BY <1>1, RegistrationInvariance, PTL

\* Any two challenges of an address are the resend interval apart.
THEOREM IssuancesAreSpaced == RegistrationSpec => []ResendSpacing
<1>1. RegistrationIInv => ResendSpacing
  BY DEF RegistrationIInv
<1>2. QED
  BY <1>1, RegistrationInvariance, PTL

\* The collision flag of the retry, which Execute discards, is never set.
THEOREM OneRetryIsEnough == RegistrationSpec => []RetryNeverCollides
<1>1. RegistrationIInv => RetryNeverCollides
  BY DEF RegistrationIInv
<1>2. QED
  BY <1>1, RegistrationInvariance, PTL

\* An ended challenge is out of every transaction's reach.
LEMMA EndsStand ==
  RegistrationIInv /\ [RegistrationStep]_registrationVars =>
    [\A c \in ChallengeId : Issued(c) /\ ~Current(c) =>
       challenge'[c] = challenge[c]]_challenge
<1>1. ASSUME RegistrationIInv, [RegistrationStep]_registrationVars, NEW c \in ChallengeId, Issued(c), ~Current(c)
      PROVE  challenge'[c] = challenge[c]
  <2>1. ASSUME NEW a \in Address, NEW fresh \in ChallengeId, NEW at \in Nat,
               NEW revision \in Nat, Issuance(a, fresh, at, revision)
        PROVE  challenge'[c] = challenge[c]
    <3>1. c # fresh /\ c \notin CurrentOf(a)
      BY <1>1, <2>1 DEF Issuance, CurrentOf
    <3>2. QED
      BY <1>1, <2>1, <3>1, IssuedRows
  <2>2. ASSUME NEW r \in Request, ConsumeVerification(r)
        PROVE  challenge'[c] = challenge[c]
    BY <1>1, <2>2, ConsumedRows
  <2>3. QED
    BY <1>1, <2>1, <2>2, OutboxWriters
<1>2. QED
  BY <1>1

\* No transaction touches a challenge again once it was consumed or superseded.
THEOREM EndsAreFinal == RegistrationSpec => EndedChallengesAreFinal
BY EndsStand, RegistrationInvariance, PTL DEF RegistrationSpec, EndedChallengesAreFinal, RegistrationStep

\* Nothing that is under way writes another status over a suspension.
LEMMA SuspensionStands ==
  RegistrationIInv /\ [RegistrationStep]_registrationVars =>
    [\A a \in Address : account[a].status = "suspended" =>
       account'[a].status = "suspended"]_account
<1>1. ASSUME RegistrationIInv, [RegistrationStep]_registrationVars, NEW a \in Address,
             account[a].status = "suspended"
      PROVE  account'[a].status = "suspended"
  <2>1. ASSUME NEW r \in Request, CreateRegistration(r)
        PROVE  account'[a].status = "suspended"
    BY <1>1, <2>1 DEF CreateRegistration, Exists, RegistrationIInv, RegistrationTypeOK, RequestTypeOK
  <2>2. ASSUME NEW r \in Request, RefreshRegistration(r)
        PROVE  account'[a].status = "suspended"
    BY <1>1, <2>2 DEF RefreshRegistration, AccountRow, RegistrationIInv, RegistrationTypeOK, RequestTypeOK
  <2>3. ASSUME NEW r \in Request, ConsumeVerification(r)
        PROVE  account'[a].status = "suspended"
    BY <1>1, <2>3, ConsumedAccount
  <2>4. ASSUME NEW b \in Address, CreateAccount(b) \/ Suspend(b)
        PROVE  account'[a].status = "suspended"
    BY <1>1, <2>4
    DEF CreateAccount, Suspend, Exists, AccountRow, RegistrationIInv, RegistrationTypeOK, RequestTypeOK
  <2>5. CASE account' = account
    BY <1>1, <2>5
  <2>6. QED
    BY <1>1, <2>1, <2>2, <2>3, <2>4, <2>5
    DEF RegistrationStep, RegistrationNext, RequestStep, Surroundings, StartRegister, StartReissue,
        StartVerify, Discover, Collide, RefuseRefresh, RefuseVerification, AbandonRequest,
        Carry, Drain, PassTime, registrationVars
<1>2. QED
  BY <1>1

\* A verification or a registration under way does not reactivate a suspended account.
THEOREM SuspensionsStay == RegistrationSpec => SuspensionIsNotUndone
BY SuspensionStands, RegistrationInvariance, PTL DEF RegistrationSpec, SuspensionIsNotUndone, RegistrationStep
=============================================================================
