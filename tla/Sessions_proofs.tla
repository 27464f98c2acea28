---------------------------- MODULE Sessions_proofs ----------------------------
(***************************************************************************)
(* What sessions promise, proved for any number of accounts, sessions and  *)
(* overlapping requests, for any lifetimes, and with any of the store's    *)
(* operations in use.                                                      *)
(***************************************************************************)
EXTENDS Sessions, TLAPS

\* The facts about the constants that steps use.
LEMMA Durations ==
  /\ Idle \in Nat /\ Absolute \in Nat /\ ActivityInterval \in Nat
  /\ 0 < ActivityInterval /\ Idle <= Absolute
  /\ None \notin Account /\ None \notin SessionId
BY SessionsAssumption, Zenon

\* A drawn identifier is one no session carries.
LEMMA FreshIsUncreated ==
  \A fresh \in FreshSession : fresh \in SessionId /\ ~Created(fresh)
BY DEF FreshSession

-----------------------------------------------------------------------------
(* Type correctness.                                                         *)

LEMMA IdleTyped == IdleRequest \in RequestState
BY DEF IdleRequest, RequestState, Time

LEMMA NoSessionTyped == NoSession \in SessionRow
BY DEF NoSession, SessionRow, Instant

LEMMA NewSessionTyped ==
  ASSUME NEW a \in Account, NEW at \in Time, NEW verified \in Nat,
         NEW origin \in SessionId \cup {None}
  PROVE  NewSession(a, at, verified, origin) \in SessionRow
<1>1. at \in Instant /\ at + Idle \in Instant /\ at + Absolute \in Instant
  BY Durations DEF Time, Instant
<1>2. QED
  BY <1>1, NoSessionTyped DEF NewSession, SessionRow

LEMMA RevokedTyped ==
  ASSUME NEW row \in SessionRow, NEW at \in Time, NEW events \in Nat
  PROVE  Revoked(row, at, events) \in SessionRow
<1>1. at \in Instant /\ row.revocations + events \in Nat
  BY DEF SessionRow, Time, Instant
<1>2. [row EXCEPT !.revokedAt = at, !.revocations = row.revocations + events] \in SessionRow
  BY <1>1 DEF SessionRow
<1>3. QED
  BY <1>2 DEF Revoked

\* What the guards of a request's steps need to know of it.
Addressed(request) ==
  /\ request.pc \in {"lookup", "present", "replace", "snapshot", "sweep"}
       => request.account \in Account
  /\ request.pc \in {"authenticate", "end", "revoke", "renew", "rotate"}
       => request.presented \in SessionId

RequestsTypeOK == req \in [Request -> RequestState] /\ \A r \in Request : Addressed(req[r])

LEMMA OneTyped ==
  ASSUME RequestsTypeOK, NEW r \in Request, NEW q \in RequestState, Addressed(q),
         req' = [req EXCEPT ![r] = q]
  PROVE  RequestsTypeOK'
BY DEF RequestsTypeOK, Addressed

LEMMA FinishTyped ==
  ASSUME RequestsTypeOK, NEW r \in Request, Finish(r)
  PROVE  RequestsTypeOK'
<1>1. Addressed(IdleRequest)
  BY DEF Addressed, IdleRequest
<1>2. QED
  BY <1>1, IdleTyped, OneTyped DEF Finish

LEMMA TypeInit == SessionsInit => SessionsTypeOK
<1> SUFFICES ASSUME SessionsInit PROVE SessionsTypeOK
  OBVIOUS
<1>1. Provisioned \subseteq AccountRow
  <2>1. Provisioned \subseteq [kind : Kind, status : Status, roles : SUBSET Role,
                              revision : Nat, cutoff : {0}]
    BY SessionsAssumption, Zenon
  <2>2. QED
    BY <2>1 DEF AccountRow
<1>2. QED
  BY <1>1, IdleTyped, NoSessionTyped DEF SessionsInit, SessionsTypeOK, IdleRequest, Time

LEMMA TypeStep == SessionsTypeOK /\ [SessionsNext]_vars => SessionsTypeOK'
<1> SUFFICES ASSUME SessionsTypeOK, [SessionsNext]_vars PROVE SessionsTypeOK'
  OBVIOUS
<1>0. /\ RequestsTypeOK
      /\ RequestsTypeOK' /\ now' \in Time /\ account' \in [Account -> AccountRow]
           /\ session' \in [SessionId -> SessionRow] => SessionsTypeOK'
  BY DEF SessionsTypeOK, RequestsTypeOK, Addressed
<1>1. ASSUME NEW r \in Request, NEW a \in Account, NEW token \in SessionId \cup {None},
             StartSignIn(r, a, token)
      PROVE  SessionsTypeOK'
  <2> DEFINE q == [IdleRequest EXCEPT !.pc = "lookup", !.op = "sign in", !.account = a,
                                      !.presented = token, !.at = now]
  <2>1. q \in RequestState /\ Addressed(q)
    BY DEF RequestState, IdleRequest, Addressed, SessionsTypeOK, Time
  <2>2. QED
    BY <1>0, <1>1, <2>1, OneTyped DEF StartSignIn, SessionsTypeOK
<1>2. ASSUME NEW r \in Request, NEW op \in {"sign out", "activity"}, NEW token \in SessionId,
             StartAuthenticated(r, op, token)
      PROVE  SessionsTypeOK'
  <2> DEFINE q == [IdleRequest EXCEPT !.pc = "authenticate", !.op = op,
                                      !.presented = token, !.at = now]
  <2>1. q \in RequestState /\ Addressed(q)
    BY DEF RequestState, IdleRequest, Addressed, SessionsTypeOK, Time
  <2>2. QED
    BY <1>0, <1>2, <2>1, OneTyped DEF StartAuthenticated, SessionsTypeOK
<1>3. ASSUME NEW r \in Request, NEW s \in SessionId, StartRotation(r, s) PROVE SessionsTypeOK'
  <2> DEFINE q == [IdleRequest EXCEPT !.pc = "rotate", !.op = "rotate",
                                      !.presented = s, !.at = now]
  <2>1. q \in RequestState /\ Addressed(q)
    BY DEF RequestState, IdleRequest, Addressed, SessionsTypeOK, Time
  <2>2. QED
    BY <1>0, <1>3, <2>1, OneTyped DEF StartRotation, SessionsTypeOK
<1>4. ASSUME NEW r \in Request, NEW a \in Account, StartRevokeAll(r, a) PROVE SessionsTypeOK'
  <2> DEFINE q == [IdleRequest EXCEPT !.pc = "snapshot", !.op = "revoke all",
                                      !.account = a, !.at = now]
  <2>1. q \in RequestState /\ Addressed(q)
    BY DEF RequestState, IdleRequest, Addressed, SessionsTypeOK, Time
  <2>2. QED
    BY <1>0, <1>4, <2>1, OneTyped DEF StartRevokeAll, SessionsTypeOK
<1>5. ASSUME NEW r \in Request, LookupCredential(r) PROVE SessionsTypeOK'
  <2> DEFINE q == [req[r] EXCEPT !.pc = "present", !.revision = account[req[r].account].revision]
  <2>1. req[r] \in RequestState /\ req[r].account \in Account
    BY <1>5 DEF SessionsTypeOK, LookupCredential
  <2>2. account[req[r].account].revision \in Nat
    BY <2>1 DEF SessionsTypeOK, AccountRow
  <2>3. q \in RequestState /\ Addressed(q)
    BY <2>1, <2>2 DEF RequestState, Addressed
  <2>4. req' = [req EXCEPT ![r] = q]
    BY <1>5 DEF LookupCredential
  <2>5. QED
    BY <1>0, <1>5, <2>3, <2>4, OneTyped DEF LookupCredential, SessionsTypeOK
<1>6. ASSUME NEW r \in Request, IdentifyPresented(r) PROVE SessionsTypeOK'
  <2> DEFINE s == req[r].presented
             p == IF s # None /\ ResolvesAt(s, req[r].at) THEN s ELSE None
             q == [req[r] EXCEPT !.pc = "replace", !.presented = p]
  <2>1. req[r] \in RequestState /\ req[r].account \in Account
    BY <1>6 DEF SessionsTypeOK, IdentifyPresented
  <2>2. p \in SessionId \cup {None}
    BY <2>1 DEF RequestState
  <2>3. q \in RequestState /\ Addressed(q)
    BY <2>1, <2>2 DEF RequestState, Addressed
  <2>4. req' = [req EXCEPT ![r] = q]
    BY <1>6 DEF IdentifyPresented
  <2>5. QED
    BY <1>0, <1>6, <2>3, <2>4, OneTyped DEF IdentifyPresented, SessionsTypeOK
<1>7. ASSUME NEW r \in Request, ReplaceSession(r) PROVE SessionsTypeOK'
  <2>1. req[r] \in RequestState /\ req[r].account \in Account
    BY <1>7 DEF SessionsTypeOK, ReplaceSession
  <2>2. PICK fresh \in FreshSession :
          session' = [s \in SessionId |->
             IF s = fresh THEN NewSession(req[r].account, req[r].at, req[r].revision, fresh)
             ELSE IF s = req[r].presented THEN Revoked(session[s], req[r].at, 1)
             ELSE session[s]]
    BY <1>7 DEF ReplaceSession
  <2>3. NewSession(req[r].account, req[r].at, req[r].revision, fresh) \in SessionRow
    BY <2>1, FreshIsUncreated, NewSessionTyped DEF RequestState
  <2>4. ASSUME NEW s \in SessionId PROVE Revoked(session[s], req[r].at, 1) \in SessionRow
    BY <2>1, RevokedTyped DEF RequestState, SessionsTypeOK
  <2>5. session' \in [SessionId -> SessionRow]
    BY <2>2, <2>3, <2>4 DEF SessionsTypeOK
  <2>6. QED
    BY <1>0, <1>7, <2>5, FinishTyped DEF ReplaceSession, SessionsTypeOK
<1>8. ASSUME NEW r \in Request, Authenticate(r) PROVE SessionsTypeOK'
  <2> DEFINE q == [req[r] EXCEPT !.pc = IF req[r].op = "sign out" THEN "end" ELSE "renew"]
  <2>1. req[r] \in RequestState /\ req[r].presented \in SessionId
    BY <1>8 DEF SessionsTypeOK, Authenticate
  <2>2. q \in RequestState /\ Addressed(q)
    BY <2>1 DEF RequestState, Addressed
  <2>3. req' = [req EXCEPT ![r] = q]
    BY <1>8 DEF Authenticate
  <2>4. QED
    BY <1>0, <1>8, <2>2, <2>3, OneTyped DEF Authenticate, SessionsTypeOK
<1>8a. ASSUME NEW r \in Request, End(r) PROVE SessionsTypeOK'
  <2> DEFINE q == [req[r] EXCEPT !.pc = "revoke", !.at = now]
  <2>1. req[r] \in RequestState /\ req[r].presented \in SessionId /\ now \in Time
    BY <1>8a DEF SessionsTypeOK, End
  <2>2. q \in RequestState /\ Addressed(q)
    BY <2>1 DEF RequestState, Addressed
  <2>3. req' = [req EXCEPT ![r] = q]
    BY <1>8a DEF End
  <2>4. QED
    BY <1>0, <1>8a, <2>2, <2>3, OneTyped DEF End, SessionsTypeOK
<1>9. ASSUME NEW r \in Request, RevokeSession(r) PROVE SessionsTypeOK'
  <2>1. req[r] \in RequestState /\ req[r].presented \in SessionId
    BY <1>9 DEF SessionsTypeOK, RevokeSession
  <2>2. Revoked(session[req[r].presented], req[r].at, 1) \in SessionRow
    BY <2>1, RevokedTyped DEF RequestState, SessionsTypeOK
  <2>3. session' \in [SessionId -> SessionRow]
    BY <1>9, <2>2 DEF RevokeSession, SessionsTypeOK
  <2>4. QED
    BY <1>0, <1>9, <2>3, FinishTyped DEF RevokeSession, SessionsTypeOK
<1>10. ASSUME NEW r \in Request, RecordActivity(r) PROVE SessionsTypeOK'
  <2> DEFINE s == req[r].presented
             row == [session[s] EXCEPT !.lastActiveAt = req[r].at,
                                       !.idleExpiresAt = RenewedIdleAt(s, req[r].at)]
  <2>1. req[r] \in RequestState /\ s \in SessionId /\ session[s] \in SessionRow /\ req[r].at \in Nat
    BY <1>10 DEF SessionsTypeOK, RecordActivity, RequestState, Time
  <2>2. RenewedIdleAt(s, req[r].at) \in Instant
    <3>1. req[r].at + Idle \in Nat /\ session[s].absoluteExpiresAt \in Instant
      BY <2>1, Durations DEF SessionRow
    <3>2. QED
      BY <3>1 DEF RenewedIdleAt, Earlier, Instant, Time
  <2>3. row \in SessionRow
    BY <2>1, <2>2 DEF SessionRow, Instant, Time
  <2>4. session' = [session EXCEPT ![s] = row]
    BY <1>10 DEF RecordActivity
  <2>5. session' \in [SessionId -> SessionRow]
    BY <2>3, <2>4 DEF SessionsTypeOK
  <2>6. QED
    BY <1>0, <1>10, <2>5, FinishTyped DEF RecordActivity, SessionsTypeOK
<1>11. ASSUME NEW r \in Request, Rotate(r) PROVE SessionsTypeOK'
  <2> DEFINE p == req[r].presented
             successor == NewSession(session[p].account, req[r].at, session[p].verified,
                                     session[p].origin)
  <2>1. /\ req[r] \in RequestState /\ p \in SessionId /\ session[p] \in SessionRow /\ Created(p)
        /\ req[r].at \in Time
    BY <1>11 DEF SessionsTypeOK, Rotate, MayRotate, UsableAt, Open, RequestState
  <2>2. PICK fresh \in FreshSession :
          session' = [session EXCEPT ![fresh] = successor, ![p].rotatedTo = fresh]
    BY <1>11 DEF Rotate
  <2>3. fresh \in SessionId /\ fresh # p
    BY <2>1, FreshIsUncreated
  <2>4. /\ session[p].account \in Account /\ session[p].verified \in Nat
        /\ session[p].origin \in SessionId \cup {None}
    BY <2>1 DEF Created, SessionRow
  <2>5. successor \in SessionRow
    BY <2>1, <2>4, NewSessionTyped
  <2>6. [session[p] EXCEPT !.rotatedTo = fresh] \in SessionRow
    BY <2>1, <2>3 DEF SessionRow
  <2>7. session' = [session EXCEPT ![fresh] = successor,
                                   ![p] = [session[p] EXCEPT !.rotatedTo = fresh]]
    BY <2>1, <2>2, <2>3 DEF SessionsTypeOK
  <2>8. session' \in [SessionId -> SessionRow]
    BY <2>5, <2>6, <2>7 DEF SessionsTypeOK
  <2>9. QED
    BY <1>0, <1>11, <2>8, FinishTyped DEF Rotate, SessionsTypeOK
<1>12. ASSUME NEW r \in Request, SnapshotSessions(r) PROVE SessionsTypeOK'
  <2> DEFINE a == req[r].account
             live == {s \in SessionId : session[s].account = a /\ session[s].revokedAt = Never}
             q == [req[r] EXCEPT !.pc = "sweep", !.revision = account[a].revision, !.live = live]
  <2>1. req[r] \in RequestState /\ a \in Account
    BY <1>12 DEF SessionsTypeOK, SnapshotSessions
  <2>2. account[a].revision \in Nat /\ live \in SUBSET SessionId
    BY <2>1 DEF SessionsTypeOK, AccountRow
  <2>3. q \in RequestState /\ Addressed(q)
    BY <2>1, <2>2 DEF RequestState, Addressed
  <2>4. req' = [req EXCEPT ![r] = q]
    BY <1>12 DEF SnapshotSessions
  <2>5. QED
    BY <1>0, <1>12, <2>3, <2>4, OneTyped DEF SnapshotSessions, SessionsTypeOK
<1>13. ASSUME NEW r \in Request, RevokeAccountSessions(r) PROVE SessionsTypeOK'
  <2> DEFINE a == req[r].account
             cutoff == IF req[r].revision > account[a].cutoff
                       THEN req[r].revision ELSE account[a].cutoff
  <2>1. req[r] \in RequestState /\ a \in Account /\ account[a] \in AccountRow
    BY <1>13 DEF SessionsTypeOK, RevokeAccountSessions
  <2>2. cutoff \in Nat
    BY <2>1 DEF RequestState, AccountRow
  <2>3. [account[a] EXCEPT !.cutoff = cutoff] \in AccountRow
    BY <2>1, <2>2 DEF AccountRow
  <2>4. account' = [account EXCEPT ![a] = [account[a] EXCEPT !.cutoff = cutoff]]
    BY <1>13 DEF RevokeAccountSessions
  <2>5. account' \in [Account -> AccountRow]
    BY <2>3, <2>4 DEF SessionsTypeOK
  <2>6. ASSUME NEW s \in SessionId PROVE Revoked(session[s], req[r].at, 0) \in SessionRow
    BY <2>1, RevokedTyped DEF RequestState, SessionsTypeOK
  <2>7. session' \in [SessionId -> SessionRow]
    BY <1>13, <2>6 DEF RevokeAccountSessions, SessionsTypeOK
  <2>8. QED
    BY <1>0, <1>13, <2>5, <2>7, FinishTyped DEF RevokeAccountSessions, SessionsTypeOK
<1>14. ASSUME NEW r \in Request,
              \/ RejectSignIn(r) \/ RefuseReplacement(r) \/ RefuseAuthentication(r)
              \/ RefuseActivity(r) \/ RefuseRotation(r) \/ AbandonRequest(r)
       PROVE  SessionsTypeOK'
  BY <1>0, <1>14, FinishTyped
  DEF RejectSignIn, RefuseReplacement, RefuseAuthentication, RefuseActivity, RefuseRotation,
      AbandonRequest, SessionsTypeOK
<1>15. ASSUME NEW a \in Account, SetPassword(a) PROVE SessionsTypeOK'
  <2>1. [account[a] EXCEPT !.revision = account[a].revision + 1] \in AccountRow
    BY DEF SessionsTypeOK, AccountRow
  <2>2. account' = [account EXCEPT ![a] = [account[a] EXCEPT !.revision = account[a].revision + 1]]
    BY <1>15 DEF SetPassword
  <2>3. QED
    BY <1>15, <2>1, <2>2 DEF SetPassword, SessionsTypeOK
<1>16. ASSUME NEW a \in Account, Suspend(a) PROVE SessionsTypeOK'
  <2>1. [account[a] EXCEPT !.status = "suspended"] \in AccountRow
    BY DEF SessionsTypeOK, AccountRow, Status
  <2>2. account' = [account EXCEPT ![a] = [account[a] EXCEPT !.status = "suspended"]]
    BY <1>16 DEF Suspend
  <2>3. QED
    BY <1>16, <2>1, <2>2 DEF Suspend, SessionsTypeOK
<1>17. CASE PassTime
  BY <1>17 DEF PassTime, SessionsTypeOK, Time
<1>18. CASE UNCHANGED vars
  BY <1>18 DEF vars, SessionsTypeOK
<1>19. CASE \E r \in Request : StartRequest(r)
  BY <1>1, <1>2, <1>3, <1>4, <1>19 DEF StartRequest
<1>20. CASE \E r \in Request : RequestStep(r)
  BY <1>5, <1>6, <1>7, <1>8, <1>8a, <1>9, <1>10, <1>11, <1>12, <1>13, <1>14, <1>20
  DEF RequestStep
<1>21. QED
  BY <1>15, <1>16, <1>17, <1>18, <1>19, <1>20 DEF SessionsNext

\* Accounts, sessions, requests and the clock keep their types.
THEOREM TypeCorrect == SessionsSpec => []SessionsTypeOK
BY TypeInit, TypeStep, PTL DEF SessionsSpec

-----------------------------------------------------------------------------
(* What one step does to one session.                                        *)

\* A sign-in opens it, or a rotation does.
SignedIn(s, r) ==
  /\ ReplaceSession(r) /\ ~Created(s) /\ account' = account
  /\ session'[s] = NewSession(req[r].account, req[r].at, req[r].revision, s)

Succeeded(s, r) ==
  LET p == req[r].presented
  IN  /\ Rotate(r) /\ ~Created(s) /\ p \in SessionId /\ p # s /\ Open(p)
      /\ session'[s] = NewSession(session[p].account, req[r].at, session[p].verified,
                                  session[p].origin)

\* It is revoked, or found to be, renewed, or rotated into another.
Ended(s, r) ==
  \E events \in {0, 1} : session'[s] = Revoked(session[s], req[r].at, events)

Renewed(s, r) ==
  /\ MayRenew(s, req[r].at) /\ account' = account
  /\ session'[s] = [session[s] EXCEPT !.lastActiveAt = req[r].at,
                                      !.idleExpiresAt = RenewedIdleAt(s, req[r].at)]

RotatedAway(s, r) ==
  /\ Rotate(r) /\ Open(s)
  /\ \E next \in SessionId : session'[s] = [session[s] EXCEPT !.rotatedTo = next]

LEMMA ReplaceSessionRows ==
  ASSUME SessionsTypeOK, NEW r \in Request, ReplaceSession(r), NEW s \in SessionId
  PROVE  session'[s] = session[s] \/ SignedIn(s, r) \/ Ended(s, r)
<1>1. PICK fresh \in FreshSession :
        session' = [t \in SessionId |->
           IF t = fresh THEN NewSession(req[r].account, req[r].at, req[r].revision, fresh)
           ELSE IF t = req[r].presented THEN Revoked(session[t], req[r].at, 1)
           ELSE session[t]]
  BY DEF ReplaceSession
<1>2. CASE s = fresh
  BY <1>1, <1>2, FreshIsUncreated DEF SignedIn, ReplaceSession
<1>3. CASE s # fresh
  BY <1>1, <1>3 DEF Ended
<1>4. QED
  BY <1>2, <1>3

\* The whole effect of a rotation.
LEMMA RotateEffect ==
  ASSUME SessionsTypeOK, NEW r \in Request, Rotate(r)
  PROVE  \E p, fresh \in SessionId :
           /\ p = req[r].presented /\ p # fresh /\ Open(p) /\ ~Created(fresh)
           /\ session'[fresh] = NewSession(session[p].account, req[r].at, session[p].verified,
                                           session[p].origin)
           /\ session'[p] = [session[p] EXCEPT !.rotatedTo = fresh]
           /\ \A s \in SessionId \ {p, fresh} : session'[s] = session[s]
<1> DEFINE p == req[r].presented
<1>1. p \in SessionId /\ Open(p) /\ Created(p)
  BY DEF SessionsTypeOK, Rotate, MayRotate, UsableAt, Open
<1>2. PICK fresh \in FreshSession :
        session' = [session EXCEPT
                      ![fresh] = NewSession(session[p].account, req[r].at, session[p].verified,
                                            session[p].origin),
                      ![p].rotatedTo = fresh]
  BY DEF Rotate
<1>3. fresh \in SessionId /\ ~Created(fresh) /\ fresh # p
  BY <1>1, FreshIsUncreated
<1>4. /\ session'[fresh] = NewSession(session[p].account, req[r].at, session[p].verified,
                                      session[p].origin)
      /\ session'[p] = [session[p] EXCEPT !.rotatedTo = fresh]
      /\ \A s \in SessionId \ {p, fresh} : session'[s] = session[s]
  BY <1>1, <1>2, <1>3 DEF SessionsTypeOK
<1>5. QED
  BY <1>1, <1>3, <1>4

LEMMA RotateRows ==
  ASSUME SessionsTypeOK, NEW r \in Request, Rotate(r), NEW s \in SessionId
  PROVE  session'[s] = session[s] \/ Succeeded(s, r) \/ RotatedAway(s, r)
<1>1. PICK p, fresh \in SessionId :
        /\ p = req[r].presented /\ p # fresh /\ Open(p) /\ ~Created(fresh)
        /\ session'[fresh] = NewSession(session[p].account, req[r].at, session[p].verified,
                                        session[p].origin)
        /\ session'[p] = [session[p] EXCEPT !.rotatedTo = fresh]
        /\ \A t \in SessionId \ {p, fresh} : session'[t] = session[t]
  BY RotateEffect
<1>2. CASE s = fresh
  BY <1>1, <1>2 DEF Succeeded
<1>3. CASE s = p
  BY <1>1, <1>3 DEF RotatedAway
<1>4. CASE s \notin {p, fresh}
  BY <1>1, <1>4
<1>5. QED
  BY <1>2, <1>3, <1>4

LEMMA RecordActivityRows ==
  ASSUME SessionsTypeOK, NEW r \in Request, RecordActivity(r), NEW s \in SessionId
  PROVE  session'[s] = session[s] \/ Renewed(s, r)
<1>1. /\ session' = [session EXCEPT ![req[r].presented] =
                       [session[req[r].presented] EXCEPT !.lastActiveAt = req[r].at,
                          !.idleExpiresAt = RenewedIdleAt(req[r].presented, req[r].at)]]
      /\ MayRenew(req[r].presented, req[r].at) /\ account' = account
  BY DEF RecordActivity
<1>2. QED
  BY <1>1 DEF Renewed, SessionsTypeOK

LEMMA RowChanges ==
  ASSUME SessionsTypeOK, [SessionsNext]_vars, NEW s \in SessionId, session'[s] # session[s]
  PROVE  \E r \in Request :
           SignedIn(s, r) \/ Succeeded(s, r) \/ Ended(s, r) \/ Renewed(s, r) \/ RotatedAway(s, r)
<1>1. ASSUME NEW r \in Request, RevokeSession(r) PROVE Ended(s, r)
  <2>1. session' = [session EXCEPT ![req[r].presented] =
                      Revoked(session[req[r].presented], req[r].at, 1)]
    BY <1>1 DEF RevokeSession
  <2>2. QED
    BY <2>1 DEF Ended, SessionsTypeOK
<1>2. ASSUME NEW r \in Request, RevokeAccountSessions(r) PROVE Ended(s, r)
  BY <1>2 DEF RevokeAccountSessions, Ended
<1>3. ASSUME NEW r \in Request, RequestStep(r)
      PROVE  SignedIn(s, r) \/ Succeeded(s, r) \/ Ended(s, r) \/ Renewed(s, r) \/ RotatedAway(s, r)
  BY <1>1, <1>2, <1>3, ReplaceSessionRows, RotateRows, RecordActivityRows
  DEF RequestStep, LookupCredential, RejectSignIn, IdentifyPresented, RefuseReplacement,
      Authenticate, RefuseAuthentication, End, RefuseActivity, RefuseRotation,
      SnapshotSessions, AbandonRequest
<1>4. QED
  BY <1>3 DEF SessionsNext, StartRequest, StartSignIn, StartAuthenticated, StartRotation,
     StartRevokeAll, SetPassword, Suspend, PassTime, vars

\* The fields of a row that was revoked, or was already.
LEMMA EndedFields ==
  ASSUME SessionsTypeOK, NEW r \in Request, NEW s \in SessionId, Ended(s, r)
  PROVE  /\ session'[s].account = session[s].account
         /\ session'[s].createdAt = session[s].createdAt
         /\ session'[s].lastActiveAt = session[s].lastActiveAt
         /\ session'[s].idleExpiresAt = session[s].idleExpiresAt
         /\ session'[s].absoluteExpiresAt = session[s].absoluteExpiresAt
         /\ session'[s].rotatedTo = session[s].rotatedTo
         /\ session'[s].verified = session[s].verified
         /\ session'[s].origin = session[s].origin
         /\ session'[s].revokedAt # Never
         /\ session[s].revokedAt # Never =>
              /\ session'[s].revokedAt = session[s].revokedAt
              /\ session'[s].revocations = session[s].revocations
         /\ session[s].revokedAt = Never =>
              session'[s].revocations \in {session[s].revocations, session[s].revocations + 1}
<1>1. PICK events \in {0, 1} : session'[s] = Revoked(session[s], req[r].at, events)
  BY DEF Ended
<1>2. session[s] \in SessionRow /\ req[r].at # Never
  <2>1. req[r].at \in Nat
    BY DEF SessionsTypeOK, RequestState, Time
  <2>2. QED
    BY <2>1 DEF SessionsTypeOK, Never
<1>3. session[s].revocations \in Nat
  BY <1>2 DEF SessionRow
<1>4. QED
  BY <1>1, <1>2, <1>3 DEF Revoked, SessionRow

LEMMA RenewedFields ==
  ASSUME SessionsTypeOK, NEW r \in Request, NEW s \in SessionId, Renewed(s, r)
  PROVE  /\ session'[s].account = session[s].account
         /\ session'[s].createdAt = session[s].createdAt
         /\ session'[s].lastActiveAt = req[r].at
         /\ session'[s].idleExpiresAt = RenewedIdleAt(s, req[r].at)
         /\ session'[s].absoluteExpiresAt = session[s].absoluteExpiresAt
         /\ session'[s].revokedAt = session[s].revokedAt
         /\ session'[s].rotatedTo = session[s].rotatedTo
         /\ session'[s].verified = session[s].verified
         /\ session'[s].origin = session[s].origin
         /\ session'[s].revocations = session[s].revocations
         /\ Open(s)
BY DEF Renewed, SessionsTypeOK, SessionRow, MayRenew, UsableAt

LEMMA RotatedFields ==
  ASSUME SessionsTypeOK, NEW r \in Request, NEW s \in SessionId, RotatedAway(s, r)
  PROVE  /\ session'[s].account = session[s].account
         /\ session'[s].createdAt = session[s].createdAt
         /\ session'[s].lastActiveAt = session[s].lastActiveAt
         /\ session'[s].idleExpiresAt = session[s].idleExpiresAt
         /\ session'[s].absoluteExpiresAt = session[s].absoluteExpiresAt
         /\ session'[s].revokedAt = session[s].revokedAt
         /\ session'[s].rotatedTo # None
         /\ session'[s].verified = session[s].verified
         /\ session'[s].origin = session[s].origin
         /\ session'[s].revocations = session[s].revocations
         /\ Open(s)
BY Durations DEF RotatedAway, SessionsTypeOK, SessionRow

LEMMA NewFields ==
  ASSUME NEW a, NEW at, NEW verified, NEW origin
  PROVE  LET row == NewSession(a, at, verified, origin)
         IN  /\ row.account = a /\ row.createdAt = at /\ row.lastActiveAt = at
             /\ row.idleExpiresAt = at + Idle /\ row.absoluteExpiresAt = at + Absolute
             /\ row.revokedAt = Never /\ row.rotatedTo = None /\ row.verified = verified
             /\ row.origin = origin /\ row.revocations = 0
BY DEF NewSession, NoSession

-----------------------------------------------------------------------------
(* Each session by itself.                                                   *)

\* Its deadlines are what its instants give, and its end was recorded once at most.
RowSound(s) ==
  /\ Created(s) =>
       /\ session[s].createdAt \in Time /\ session[s].lastActiveAt \in Time
       /\ session[s].absoluteExpiresAt = session[s].createdAt + Absolute
       /\ session[s].idleExpiresAt =
            Earlier(session[s].lastActiveAt + Idle, session[s].createdAt + Absolute)
  /\ session[s].revocations <= 1
  /\ session[s].revocations = 1 => session[s].revokedAt # Never

LEMMA RowStep ==
  ASSUME SessionsTypeOK, [SessionsNext]_vars, NEW s \in SessionId, RowSound(s)
  PROVE  RowSound(s)'
<1>1. CASE session'[s] = session[s]
  BY <1>1 DEF RowSound, Created
<1>2. ASSUME NEW a, NEW at \in Time, NEW verified, NEW origin,
             session'[s] = NewSession(a, at, verified, origin)
      PROVE  RowSound(s)'
  <2>1. Earlier(at + Idle, at + Absolute) = at + Idle
    BY Durations DEF Earlier, Time
  <2>2. QED
    BY <1>2, <2>1, NewFields DEF RowSound, Created
<1>3. ASSUME NEW r \in Request, SignedIn(s, r) \/ Succeeded(s, r) PROVE RowSound(s)'
  <2>1. req[r].at \in Time
    BY DEF SessionsTypeOK, RequestState
  <2>2. QED
    BY <1>2, <1>3, <2>1 DEF SignedIn, Succeeded
<1>4. ASSUME NEW r \in Request, Ended(s, r) PROVE RowSound(s)'
  <2>1. session[s].revocations \in Nat
    BY DEF SessionsTypeOK, SessionRow
  <2>2. session[s].revokedAt = Never => session[s].revocations = 0
    BY <2>1 DEF RowSound
  <2>3. QED
    BY <1>4, <2>1, <2>2, EndedFields DEF RowSound, Created
<1>5. ASSUME NEW r \in Request, Renewed(s, r) PROVE RowSound(s)'
  <2>1. Created(s) /\ req[r].at \in Time
    BY <1>5, RenewedFields DEF Open, SessionsTypeOK, RequestState
  <2>2. RenewedIdleAt(s, req[r].at) = Earlier(req[r].at + Idle, session[s].createdAt + Absolute)
    BY <2>1 DEF RenewedIdleAt, RowSound
  <2>3. QED
    BY <1>5, <2>1, <2>2, RenewedFields DEF RowSound, Created
<1>6. ASSUME NEW r \in Request, RotatedAway(s, r) PROVE RowSound(s)'
  BY <1>6, RotatedFields DEF RowSound, Created
<1>7. QED
  BY <1>1, <1>3, <1>4, <1>5, <1>6, RowChanges

\* A session, once created, keeps its account, its origin and what was verified.
LEMMA CreatedStays ==
  ASSUME SessionsTypeOK, [SessionsNext]_vars, NEW s \in SessionId, Created(s)
  PROVE  /\ Created(s)'
         /\ session'[s].account = session[s].account
         /\ session'[s].origin = session[s].origin
         /\ session'[s].verified = session[s].verified
         /\ Open(s)' => Open(s)
         /\ session[s].revokedAt # Never => session'[s].revokedAt # Never
<1>1. CASE session'[s] = session[s]
  BY <1>1 DEF Created, Open
<1>2. ASSUME NEW r \in Request, Ended(s, r) \/ Renewed(s, r) \/ RotatedAway(s, r)
      PROVE  /\ Created(s)'
             /\ session'[s].account = session[s].account
             /\ session'[s].origin = session[s].origin
             /\ session'[s].verified = session[s].verified
             /\ Open(s)' => Open(s)
             /\ session[s].revokedAt # Never => session'[s].revokedAt # Never
  BY <1>2, EndedFields, RenewedFields, RotatedFields DEF Created, Open
<1>3. QED
  BY <1>1, <1>2, RowChanges DEF SignedIn, Succeeded

-----------------------------------------------------------------------------
(* Sessions, accounts and requests together.                                 *)

\* Every chain of rotations starts at a session.
ChainsStart ==
  \A s \in SessionId : Created(s) =>
    session[s].origin \in SessionId /\ Created(session[s].origin)

\* A revocation's snapshot was taken of a revision that was in force.
CutoffsArePast == \A a \in Account : account[a].cutoff <= account[a].revision

\* While a revocation is under way, the sessions it did not see were opened with the
\* password in force at its snapshot, or a later one.
SweepsSee ==
  \A r \in Request : req[r].pc = "sweep" =>
    /\ req[r].revision <= account[req[r].account].revision
    /\ \A s \in SessionId :
         session[s].account = req[r].account /\ session[s].revokedAt = Never
           /\ session[s].origin = s /\ session[s].verified < req[r].revision
         => s \in req[r].live

IInv ==
  /\ SessionsTypeOK
  /\ \A s \in SessionId : RowSound(s)
  /\ ChainsStart
  /\ OneOpenPerChain
  /\ CutoffsArePast
  /\ SweepsSee
  /\ PasswordCutoff

LEMMA InvInit == SessionsInit => IInv
<1> SUFFICES ASSUME SessionsInit PROVE IInv
  OBVIOUS
<1>1. SessionsTypeOK
  BY TypeInit
<1>2. \A s \in SessionId : session[s] = NoSession /\ ~Created(s)
  BY DEF SessionsInit, Created, NoSession
<1>3. \A s \in SessionId : RowSound(s)
  BY <1>2 DEF RowSound, NoSession
<1>4. ChainsStart /\ OneOpenPerChain /\ PasswordCutoff
  BY <1>2 DEF ChainsStart, OneOpenPerChain, PasswordCutoff, Open
<1>5. CutoffsArePast
  <2> SUFFICES ASSUME NEW a \in Account PROVE account[a].cutoff <= account[a].revision
    BY DEF CutoffsArePast
  <2>1. Provisioned \subseteq [kind : Kind, status : Status, roles : SUBSET Role,
                               revision : Nat, cutoff : {0}]
    BY SessionsAssumption, Zenon
  <2>2. account[a].cutoff = 0 /\ account[a].revision \in Nat
    BY <2>1 DEF SessionsInit
  <2>3. QED
    BY <2>2
<1>6. SweepsSee
  BY DEF SessionsInit, SweepsSee, IdleRequest
<1>7. QED
  BY <1>1, <1>3, <1>4, <1>5, <1>6 DEF IInv

LEMMA ChainsStep == IInv /\ [SessionsNext]_vars => ChainsStart'
<1> SUFFICES ASSUME IInv, [SessionsNext]_vars, NEW s \in SessionId, Created(s)'
             PROVE  /\ session'[s].origin \in SessionId
                    /\ session'[session'[s].origin].account # None
  BY DEF ChainsStart, Created
<1>1. ASSUME NEW t \in SessionId, Created(t) PROVE session'[t].account # None
  BY <1>1, CreatedStays DEF IInv, Created
<1>2. CASE Created(s)
  BY <1>1, <1>2, CreatedStays DEF IInv, ChainsStart
<1>3. CASE ~Created(s)
  <2>1. session'[s] # session[s]
    BY <1>3 DEF Created
  <2>2. PICK r \in Request :
          SignedIn(s, r) \/ Succeeded(s, r) \/ Ended(s, r) \/ Renewed(s, r) \/ RotatedAway(s, r)
    BY <2>1, RowChanges DEF IInv
  <2>3. CASE SignedIn(s, r)
    BY <2>3, NewFields DEF SignedIn, Created
  <2>4. CASE Succeeded(s, r)
    <3>1. req[r].presented \in SessionId /\ Created(req[r].presented)
      BY <2>4 DEF Succeeded, Open
    <3>2. /\ session[req[r].presented].origin \in SessionId
          /\ Created(session[req[r].presented].origin)
      BY <3>1 DEF IInv, ChainsStart
    <3>3. session'[s].origin = session[req[r].presented].origin
      BY <2>4, NewFields DEF Succeeded
    <3>4. QED
      BY <1>1, <3>2, <3>3
  <2>5. CASE Ended(s, r)
    BY <1>3, <2>5, EndedFields DEF IInv, Created
  <2>6. CASE Renewed(s, r) \/ RotatedAway(s, r)
    BY <1>3, <2>6, RenewedFields, RotatedFields DEF IInv, Open
  <2>7. QED
    BY <2>2, <2>3, <2>4, <2>5, <2>6
<1>4. QED
  BY <1>2, <1>3

\* What opens in a step, opens by a sign-in or a rotation.
LEMMA OnlyTheseOpen ==
  ASSUME IInv, [SessionsNext]_vars, NEW s \in SessionId, Open(s)', ~Open(s)
  PROVE  \E r \in Request : SignedIn(s, r) \/ Succeeded(s, r)
<1>1. ~Created(s)
  BY CreatedStays DEF IInv
<1>2. session'[s] # session[s]
  BY DEF Open, Created
<1>3. PICK r \in Request :
        SignedIn(s, r) \/ Succeeded(s, r) \/ Ended(s, r) \/ Renewed(s, r) \/ RotatedAway(s, r)
  BY <1>2, RowChanges DEF IInv
<1>4. ~Ended(s, r)
  BY EndedFields DEF IInv, Open
<1>5. ~Renewed(s, r) /\ ~RotatedAway(s, r)
  BY <1>1, RenewedFields, RotatedFields DEF IInv, Open
<1>6. QED
  BY <1>3, <1>4, <1>5

\* A session a sign-in opens starts a chain; one a rotation opens takes the place of
\* the one it was rotated from.
LEMMA ChainStep == IInv /\ [SessionsNext]_vars => OneOpenPerChain'
<1> SUFFICES ASSUME IInv, [SessionsNext]_vars, NEW s \in SessionId, NEW t \in SessionId,
                    Open(s)', Open(t)', session'[s].origin = session'[t].origin, s # t
             PROVE  FALSE
  BY DEF OneOpenPerChain
<1>1. ASSUME NEW x \in SessionId, Open(x)
      PROVE  Created(x) /\ session'[x].origin = session[x].origin
             /\ session[x].origin \in SessionId /\ Created(session[x].origin)
  BY <1>1, CreatedStays DEF IInv, Open, ChainsStart
<1>2. ASSUME NEW x \in SessionId, NEW y \in SessionId, NEW r \in Request, x # y,
             SignedIn(x, r), Open(y)', session'[x].origin = session'[y].origin
      PROVE  FALSE
  <2>1. session'[x].origin = x /\ ~Created(x)
    BY <1>2, NewFields DEF SignedIn
  <2>2. PICK fresh \in SessionId :
          \A z \in SessionId \ {fresh} : session'[z] = session[z] \/ Ended(z, r)
    <3>1. PICK fresh \in FreshSession :
            session' = [z \in SessionId |->
               IF z = fresh THEN NewSession(req[r].account, req[r].at, req[r].revision, fresh)
               ELSE IF z = req[r].presented THEN Revoked(session[z], req[r].at, 1)
               ELSE session[z]]
      BY <1>2 DEF SignedIn, ReplaceSession
    <3>2. QED
      BY <3>1, FreshIsUncreated DEF Ended
  <2>3. x = fresh
    <3>1. session'[x] # session[x]
      BY <1>2, NewFields, Durations DEF SignedIn, Created, ReplaceSession, IInv, SessionsTypeOK
    <3>2. ~Ended(x, r)
      BY <1>2, NewFields, EndedFields DEF SignedIn, IInv
    <3>3. QED
      BY <2>2, <3>1, <3>2
  <2>4. session'[y] = session[y] \/ Ended(y, r)
    BY <1>2, <2>2, <2>3
  <2>5. Open(y)
    BY <1>2, <2>4, EndedFields DEF IInv, Open, Created
  <2>6. QED
    BY <1>1, <1>2, <2>1, <2>5
<1>3. ASSUME NEW x \in SessionId, NEW y \in SessionId, NEW r \in Request, x # y,
             Succeeded(x, r), Open(y)', session'[x].origin = session'[y].origin
      PROVE  FALSE
  <2>1. PICK p, fresh \in SessionId :
          /\ p = req[r].presented /\ p # fresh /\ Open(p) /\ ~Created(fresh)
          /\ session'[fresh] = NewSession(session[p].account, req[r].at, session[p].verified,
                                          session[p].origin)
          /\ session'[p] = [session[p] EXCEPT !.rotatedTo = fresh]
          /\ \A z \in SessionId \ {p, fresh} : session'[z] = session[z]
    BY <1>3, RotateEffect DEF Succeeded, IInv
  <2>2. x # p /\ ~Created(x) /\ session'[x].origin = session[p].origin /\ Created(x)'
    BY <1>1, <1>3, <2>1, NewFields, Durations
    DEF Succeeded, Created, Open, IInv, SessionsTypeOK, SessionRow
  <2>3. x = fresh
    BY <2>1, <2>2 DEF Created
  <2>4. ~Open(p)'
    <3>1. session'[p].rotatedTo = fresh /\ fresh # None
      BY <2>1, Durations DEF IInv, SessionsTypeOK, SessionRow
    <3>2. QED
      BY <3>1 DEF Open
  <2>5. session'[y] = session[y] /\ y # p
    BY <1>3, <2>1, <2>3, <2>4
  <2>6. Open(y)
    BY <1>3, <2>5 DEF Open, Created
  <2>7. session[y].origin = session[p].origin
    BY <1>3, <2>2, <2>5
  <2>8. QED
    BY <2>1, <2>5, <2>6, <2>7 DEF IInv, OneOpenPerChain
<1>4. CASE Open(s) /\ Open(t)
  BY <1>1, <1>4 DEF IInv, OneOpenPerChain
<1>5. CASE ~Open(s)
  BY <1>2, <1>3, <1>5, OnlyTheseOpen
<1>6. CASE ~Open(t)
  BY <1>2, <1>3, <1>6, OnlyTheseOpen
<1>7. QED
  BY <1>4, <1>5, <1>6

\* Revisions only grow, and a cutoff moves to what a revocation saw.
LEMMA AccountStep ==
  ASSUME SessionsTypeOK, [SessionsNext]_vars, NEW a \in Account
  PROVE  /\ account[a].revision <= account'[a].revision
         /\ \/ account'[a].cutoff = account[a].cutoff
            \/ \E r \in Request :
                 /\ RevokeAccountSessions(r) /\ req[r].account = a
                 /\ account'[a].cutoff = IF req[r].revision > account[a].cutoff
                                         THEN req[r].revision ELSE account[a].cutoff
<1> DEFINE Goal == /\ account[a].revision <= account'[a].revision
                   /\ \/ account'[a].cutoff = account[a].cutoff
                      \/ \E r \in Request :
                           /\ RevokeAccountSessions(r) /\ req[r].account = a
                           /\ account'[a].cutoff = IF req[r].revision > account[a].cutoff
                                                   THEN req[r].revision ELSE account[a].cutoff
<1>1. account[a] \in AccountRow /\ account[a].revision \in Nat
  BY DEF SessionsTypeOK, AccountRow
<1>2. ASSUME account' = account PROVE Goal
  BY <1>1, <1>2
<1>3. ASSUME NEW b \in Account, SetPassword(b) \/ Suspend(b) PROVE Goal
  <2>1. CASE a # b
    <3>1. account'[a] = account[a]
      BY <1>3, <2>1 DEF SetPassword, Suspend, SessionsTypeOK
    <3>2. QED
      BY <1>1, <3>1
  <2>2. CASE a = b /\ SetPassword(b)
    <3>1. account'[a] = [account[a] EXCEPT !.revision = account[a].revision + 1]
      BY <2>2 DEF SetPassword, SessionsTypeOK
    <3>2. QED
      BY <1>1, <3>1 DEF AccountRow
  <2>3. CASE a = b /\ Suspend(b)
    <3>1. account'[a] = [account[a] EXCEPT !.status = "suspended"]
      BY <2>3 DEF Suspend, SessionsTypeOK
    <3>2. QED
      BY <1>1, <3>1 DEF AccountRow
  <2>4. QED
    BY <1>3, <2>1, <2>2, <2>3
<1>4. ASSUME NEW r \in Request, RevokeAccountSessions(r) PROVE Goal
  <2>1. CASE a # req[r].account
    BY <1>1, <1>4, <2>1 DEF RevokeAccountSessions, SessionsTypeOK
  <2>2. CASE a = req[r].account
    <3>1. account'[a] = [account[a] EXCEPT !.cutoff =
                           IF req[r].revision > account[a].cutoff
                           THEN req[r].revision ELSE account[a].cutoff]
      BY <1>4, <2>2 DEF RevokeAccountSessions, SessionsTypeOK
    <3>2. QED
      BY <1>1, <1>4, <2>2, <3>1 DEF AccountRow
  <2>3. QED
    BY <2>1, <2>2
<1>5. ASSUME NEW r \in Request, StartRequest(r) PROVE account' = account
  BY <1>5 DEF StartRequest, StartSignIn, StartAuthenticated, StartRotation, StartRevokeAll
<1>6. ASSUME NEW r \in Request, RequestStep(r), ~RevokeAccountSessions(r) PROVE account' = account
  BY <1>6 DEF RequestStep, LookupCredential, RejectSignIn, IdentifyPresented, ReplaceSession,
     RefuseReplacement, Authenticate, RefuseAuthentication, End, RevokeSession, RecordActivity,
     RefuseActivity, Rotate, RefuseRotation, SnapshotSessions, AbandonRequest
<1>7. QED
  BY <1>2, <1>3, <1>4, <1>5, <1>6 DEF SessionsNext, PassTime, vars

LEMMA CutoffsStep == IInv /\ [SessionsNext]_vars => CutoffsArePast'
<1> SUFFICES ASSUME IInv, [SessionsNext]_vars, NEW a \in Account
             PROVE  account'[a].cutoff <= account'[a].revision
  BY DEF CutoffsArePast
<1>1. /\ account[a].revision <= account'[a].revision
      /\ account[a].revision \in Nat /\ account'[a].revision \in Nat /\ account[a].cutoff \in Nat
      /\ account[a].cutoff <= account[a].revision
  BY AccountStep, TypeStep DEF IInv, SessionsTypeOK, AccountRow, CutoffsArePast
<1>2. CASE account'[a].cutoff = account[a].cutoff
  BY <1>1, <1>2
<1>3. ASSUME NEW r \in Request, RevokeAccountSessions(r), req[r].account = a,
             account'[a].cutoff = IF req[r].revision > account[a].cutoff
                                  THEN req[r].revision ELSE account[a].cutoff
      PROVE  account'[a].cutoff <= account'[a].revision
  <2>1. req[r].revision \in Nat /\ req[r].revision <= account[a].revision
    BY <1>3 DEF IInv, SweepsSee, RevokeAccountSessions, SessionsTypeOK, RequestState
  <2>2. QED
    BY <1>1, <1>3, <2>1
<1>4. QED
  BY <1>2, <1>3, AccountStep DEF IInv

\* Of the sessions a sign-in opened, one that is unrevoked after a step was so before,
\* or was opened by it with the password in force.
LEMMA FirstOfChain ==
  ASSUME IInv, [SessionsNext]_vars, NEW s \in SessionId,
         Created(s)', session'[s].revokedAt = Never, session'[s].origin = s
  PROVE  \/ /\ Created(s) /\ session[s].revokedAt = Never /\ session[s].origin = s
            /\ session'[s].account = session[s].account
            /\ session'[s].verified = session[s].verified
         \/ /\ session'[s].account \in Account /\ account' = account
            /\ session'[s].verified = account[session'[s].account].revision
<1>1. CASE Created(s)
  BY <1>1, CreatedStays DEF IInv
<1>2. CASE ~Created(s)
  <2>1. session'[s] # session[s]
    BY <1>2 DEF Created
  <2>2. PICK r \in Request :
          SignedIn(s, r) \/ Succeeded(s, r) \/ Ended(s, r) \/ Renewed(s, r) \/ RotatedAway(s, r)
    BY <2>1, RowChanges DEF IInv
  <2>3. CASE SignedIn(s, r)
    <3>1. req[r].account \in Account /\ account[req[r].account].revision = req[r].revision
      BY <2>3 DEF SignedIn, ReplaceSession, MayReplace, IInv, SessionsTypeOK
    <3>2. QED
      BY <2>3, <3>1, NewFields DEF SignedIn
  <2>4. CASE Succeeded(s, r)
    <3>1. session'[s].origin = session[req[r].presented].origin
      BY <2>4, NewFields DEF Succeeded
    <3>2. Created(session[req[r].presented].origin)
      BY <2>4 DEF Succeeded, Open, IInv, ChainsStart
    <3>3. QED
      BY <1>2, <3>1, <3>2
  <2>5. CASE Ended(s, r)
    BY <2>5, EndedFields DEF IInv
  <2>6. CASE Renewed(s, r) \/ RotatedAway(s, r)
    BY <1>2, <2>6, RenewedFields, RotatedFields DEF IInv, Open
  <2>7. QED
    BY <2>2, <2>3, <2>4, <2>5, <2>6
<1>3. QED
  BY <1>1, <1>2

\* A request in its sweep was there before, or has just taken its snapshot.
LEMMA SweepStep ==
  ASSUME SessionsTypeOK, [SessionsNext]_vars, NEW r \in Request, req'[r].pc = "sweep"
  PROVE  req'[r] = req[r] \/ SnapshotSessions(r)
<1>1. ASSUME NEW q \in Request, StartRequest(q) PROVE req'[r] = req[r]
  BY <1>1 DEF StartRequest, StartSignIn, StartAuthenticated, StartRotation, StartRevokeAll,
     IdleRequest, SessionsTypeOK
<1>2. ASSUME NEW q \in Request, Finish(q) PROVE req'[r] = req[r]
  BY <1>2 DEF Finish, IdleRequest, SessionsTypeOK
<1>3. ASSUME NEW q \in Request,
             \/ LookupCredential(q) \/ IdentifyPresented(q) \/ Authenticate(q) \/ End(q)
      PROVE  req'[r] = req[r]
  <2>1. CASE r # q
    BY <1>3, <2>1 DEF LookupCredential, IdentifyPresented, Authenticate, End, SessionsTypeOK
  <2>2. CASE r = q
    <3>1. /\ LookupCredential(q) => req'[r] = [req[r] EXCEPT !.pc = "present",
                                        !.revision = account[req[r].account].revision]
          /\ IdentifyPresented(q) => \E p : req'[r] = [req[r] EXCEPT !.pc = "replace",
                                                                    !.presented = p]
          /\ Authenticate(q) => \E p \in {"end", "renew"} : req'[r] = [req[r] EXCEPT !.pc = p]
          /\ End(q) => req'[r] = [req[r] EXCEPT !.pc = "revoke", !.at = now]
      BY <2>2 DEF LookupCredential, IdentifyPresented, Authenticate, End, SessionsTypeOK
    <3>2. req'[r].pc # "sweep"
      <4>1. req[r] \in RequestState
        BY DEF SessionsTypeOK
      <4>2. QED
        BY <1>3, <3>1, <4>1 DEF RequestState
    <3>3. QED
      BY <3>2
  <2>3. QED
    BY <2>1, <2>2
<1>4. ASSUME NEW q \in Request, SnapshotSessions(q), q # r PROVE req'[r] = req[r]
  BY <1>4 DEF SnapshotSessions, SessionsTypeOK
<1>5. ASSUME NEW q \in Request, RequestStep(q) PROVE req'[r] = req[r] \/ SnapshotSessions(r)
  BY <1>2, <1>3, <1>4, <1>5
  DEF RequestStep, RejectSignIn, ReplaceSession, RefuseReplacement, RefuseAuthentication,
      RevokeSession, RecordActivity, RefuseActivity, Rotate, RefuseRotation,
      RevokeAccountSessions, AbandonRequest
<1>6. QED
  BY <1>1, <1>5 DEF SessionsNext, SetPassword, Suspend, PassTime, vars

LEMMA SweepsStep == IInv /\ [SessionsNext]_vars => SweepsSee'
<1> SUFFICES ASSUME IInv, [SessionsNext]_vars, NEW r \in Request, req'[r].pc = "sweep"
             PROVE  /\ req'[r].revision <= account'[req'[r].account].revision
                    /\ \A s \in SessionId :
                         session'[s].account = req'[r].account /\ session'[s].revokedAt = Never
                           /\ session'[s].origin = s /\ session'[s].verified < req'[r].revision
                         => s \in req'[r].live
  BY DEF SweepsSee
<1>1. CASE SnapshotSessions(r)
  <2>1. /\ req'[r] = [req[r] EXCEPT !.pc = "sweep",
                        !.revision = account[req[r].account].revision,
                        !.live = {s \in SessionId : /\ session[s].account = req[r].account
                                                    /\ session[s].revokedAt = Never}]
        /\ account' = account /\ session' = session
        /\ req[r] \in RequestState /\ req[r].account \in Account
    BY <1>1 DEF SnapshotSessions, IInv, SessionsTypeOK
  <2>2. /\ req'[r].account = req[r].account
        /\ req'[r].revision = account[req[r].account].revision
        /\ req'[r].live = {s \in SessionId : /\ session[s].account = req[r].account
                                             /\ session[s].revokedAt = Never}
    BY <2>1 DEF RequestState
  <2>3. account[req[r].account].revision \in Nat
    BY <2>1 DEF IInv, SessionsTypeOK, AccountRow
  <2>4. QED
    BY <2>1, <2>2, <2>3
<1>2. CASE req'[r] = req[r]
  <2> DEFINE a == req[r].account
  <2>1. /\ req[r].pc = "sweep" /\ a \in Account /\ req[r].revision \in Nat
        /\ req[r].revision <= account[a].revision
    BY <1>2 DEF IInv, SweepsSee, SessionsTypeOK, RequestState
  <2>2. /\ account[a].revision <= account'[a].revision
        /\ account[a].revision \in Nat /\ account'[a].revision \in Nat
    BY <2>1, AccountStep, TypeStep DEF IInv, SessionsTypeOK, AccountRow
  <2>3. ASSUME NEW s \in SessionId, session'[s].account = a, session'[s].revokedAt = Never,
               session'[s].origin = s, session'[s].verified < req[r].revision
        PROVE  s \in req[r].live
    <3>1. Created(s)'
      BY <2>1, <2>3, Durations DEF Created
    <3>2. CASE /\ session[s].revokedAt = Never /\ session[s].origin = s
               /\ session'[s].account = session[s].account
               /\ session'[s].verified = session[s].verified
      BY <2>1, <2>3, <3>2 DEF IInv, SweepsSee
    <3>3. CASE session'[s].verified = account[session'[s].account].revision
      BY <2>1, <2>2, <2>3, <3>3
    <3>4. QED
      BY <2>3, <3>1, <3>2, <3>3, FirstOfChain
  <2>4. QED
    BY <1>2, <2>1, <2>2, <2>3
<1>3. QED
  BY <1>1, <1>2, SweepStep DEF IInv

\* A revocation that completes leaves open no session its snapshot saw, and the
\* others were opened with its revision or a later one.
LEMMA CutoffStep == IInv /\ [SessionsNext]_vars => PasswordCutoff'
<1> SUFFICES ASSUME IInv, [SessionsNext]_vars, NEW s \in SessionId,
                    Open(s)', session'[s].origin = s
             PROVE  session'[s].verified >= account'[session'[s].account].cutoff
  BY DEF PasswordCutoff
<1>0. Created(s)' /\ session'[s].revokedAt = Never
  BY DEF Open
<1>1. CASE /\ session'[s].account \in Account /\ account' = account
           /\ session'[s].verified = account[session'[s].account].revision
  <2>1. /\ account[session'[s].account].cutoff <= account[session'[s].account].revision
        /\ account[session'[s].account].cutoff \in Nat
        /\ account[session'[s].account].revision \in Nat
    BY <1>1 DEF IInv, CutoffsArePast, SessionsTypeOK, AccountRow
  <2>2. QED
    BY <1>1, <2>1
<1>2. CASE /\ Created(s) /\ session[s].revokedAt = Never /\ session[s].origin = s
           /\ session'[s].account = session[s].account
           /\ session'[s].verified = session[s].verified
  <2> DEFINE a == session[s].account
  <2>1. a \in Account /\ session[s].verified \in Nat /\ Open(s)
    BY <1>2, CreatedStays DEF IInv, SessionsTypeOK, SessionRow, Created
  <2>2. session[s].verified >= account[a].cutoff
    BY <1>2, <2>1 DEF IInv, PasswordCutoff
  <2>3. CASE account'[a].cutoff = account[a].cutoff
    BY <1>2, <2>2, <2>3
  <2>4. ASSUME NEW r \in Request, RevokeAccountSessions(r), req[r].account = a,
               account'[a].cutoff = IF req[r].revision > account[a].cutoff
                                    THEN req[r].revision ELSE account[a].cutoff
        PROVE  session'[s].verified >= account'[a].cutoff
    <3>1. req[r].pc = "sweep" /\ req[r].revision \in Nat
      BY <2>4 DEF RevokeAccountSessions, IInv, SessionsTypeOK, RequestState
    <3>2. s \notin req[r].live
      <4> SUFFICES ASSUME s \in req[r].live PROVE FALSE
        OBVIOUS
      <4>1. Ended(s, r)
        BY <2>4 DEF RevokeAccountSessions, Ended
      <4>2. QED
        BY <1>0, <4>1, EndedFields DEF IInv
    <3>3. session[s].verified >= req[r].revision
      BY <1>2, <2>1, <2>4, <3>1, <3>2 DEF IInv, SweepsSee
    <3>4. QED
      BY <1>2, <2>2, <2>4, <3>3
  <2>5. QED
    BY <1>2, <2>1, <2>3, <2>4, AccountStep DEF IInv
<1>3. QED
  BY <1>0, <1>1, <1>2, FirstOfChain

LEMMA InvStep == IInv /\ [SessionsNext]_vars => IInv'
<1> SUFFICES ASSUME IInv, [SessionsNext]_vars PROVE IInv'
  OBVIOUS
<1>1. SessionsTypeOK' /\ \A s \in SessionId : RowSound(s)'
  BY TypeStep, RowStep DEF IInv
<1>2. QED
  BY <1>1, ChainsStep, ChainStep, CutoffsStep, SweepsStep, CutoffStep DEF IInv

LEMMA Invariance == SessionsSpec => []IInv
BY InvInit, InvStep, PTL DEF SessionsSpec

-----------------------------------------------------------------------------
(* What sessions promise.                                                    *)

\* A revocation of an account's sessions, however it interleaves with sign-ins and
\* replaced passwords, leaves none open that a superseded password opened.
THEOREM CutoffHolds == SessionsSpec => []PasswordCutoff
<1>1. IInv => PasswordCutoff
  BY DEF IInv
<1>2. QED
  BY <1>1, Invariance, PTL

\* A session rotated by several requests at once has one live successor at most.
THEOREM ChainsHoldOne == SessionsSpec => []OneOpenPerChain
<1>1. IInv => OneOpenPerChain
  BY DEF IInv
<1>2. QED
  BY <1>1, Invariance, PTL

\* Sign-ins, sign-outs and revocations that end one session record it once.
THEOREM RevocationsCountOnce == SessionsSpec => []RecordedOnce
<1>1. IInv => RecordedOnce
  BY DEF IInv, RowSound, RecordedOnce
<1>2. QED
  BY <1>1, Invariance, PTL

\* The deadlines stored are those the last recorded activity gives.
THEOREM DeadlinesHold == SessionsSpec => []DeadlinesFollowActivity
<1>1. IInv => DeadlinesFollowActivity
  BY DEF IInv, RowSound, DeadlinesFollowActivity
<1>2. QED
  BY <1>1, Invariance, PTL

\* A signal that commits late moves nothing back: what is worth persisting is later
\* than what is stored.
LEMMA RenewedLater ==
  ASSUME IInv, NEW r \in Request, NEW s \in SessionId, Renewed(s, r)
  PROVE  /\ session[s].lastActiveAt \in Nat /\ req[r].at \in Nat
         /\ req[r].at >= session[s].lastActiveAt
         /\ RenewedIdleAt(s, req[r].at) > session[s].idleExpiresAt
         /\ session[s].idleExpiresAt \in Int /\ RenewedIdleAt(s, req[r].at) \in Int
<1>1. Created(s) /\ session[s].lastActiveAt \in Nat /\ req[r].at \in Nat
  BY RenewedFields DEF IInv, RowSound, Open, SessionsTypeOK, RequestState, Time
<1>2. /\ req[r].at - session[s].lastActiveAt >= ActivityInterval
      /\ RenewedIdleAt(s, req[r].at) > session[s].idleExpiresAt
  BY DEF Renewed, MayRenew, ActivityIsWorthPersisting
<1>3. session[s].idleExpiresAt \in Int /\ session[s].absoluteExpiresAt \in Int
  BY DEF IInv, SessionsTypeOK, SessionRow, Instant, Time, Never
<1>4. RenewedIdleAt(s, req[r].at) \in Int
  BY <1>1, <1>3, Durations DEF RenewedIdleAt, Earlier
<1>5. QED
  BY <1>1, <1>2, <1>3, <1>4, Durations

\* Whatever the order in which signals commit, activity and its deadline only move
\* forward and the absolute expiry stays.
THEOREM ActivityHolds == SessionsSpec => ActivityMovesForward
<1>1. ASSUME IInv, [SessionsNext]_vars, NEW s \in SessionId, Created(s)
      PROVE  /\ session'[s].lastActiveAt >= session[s].lastActiveAt
             /\ session'[s].idleExpiresAt >= session[s].idleExpiresAt
             /\ session'[s].absoluteExpiresAt = session[s].absoluteExpiresAt
  <2>1. session[s].lastActiveAt \in Int /\ session[s].idleExpiresAt \in Int
    BY <1>1 DEF IInv, SessionsTypeOK, SessionRow, Instant, Time, Never
  <2>2. CASE session'[s] = session[s]
    BY <2>1, <2>2
  <2>3. ASSUME NEW r \in Request, Renewed(s, r)
        PROVE  /\ session'[s].lastActiveAt >= session[s].lastActiveAt
               /\ session'[s].idleExpiresAt >= session[s].idleExpiresAt
               /\ session'[s].absoluteExpiresAt = session[s].absoluteExpiresAt
    BY <1>1, <2>3, RenewedFields, RenewedLater DEF IInv
  <2>4. ASSUME NEW r \in Request, Ended(s, r) \/ RotatedAway(s, r)
        PROVE  /\ session'[s].lastActiveAt >= session[s].lastActiveAt
               /\ session'[s].idleExpiresAt >= session[s].idleExpiresAt
               /\ session'[s].absoluteExpiresAt = session[s].absoluteExpiresAt
    BY <1>1, <2>1, <2>4, EndedFields, RotatedFields DEF IInv
  <2>5. QED
    BY <1>1, <2>2, <2>3, <2>4, RowChanges DEF IInv, SignedIn, Succeeded
<1>2. IInv /\ [SessionsNext]_vars =>
        [\A s \in SessionId : Created(s) =>
           /\ session'[s].lastActiveAt >= session[s].lastActiveAt
           /\ session'[s].idleExpiresAt >= session[s].idleExpiresAt
           /\ session'[s].absoluteExpiresAt = session[s].absoluteExpiresAt]_session
  BY <1>1
<1>3. QED
  BY <1>2, Invariance, PTL DEF SessionsSpec, ActivityMovesForward

\* A session that was revoked or rotated stays as it ended, whatever a request that
\* resolved it before does to it.
THEOREM EndsHold == SessionsSpec => EndsAreFinal
<1> DEFINE Final(s) == /\ session[s].revokedAt # Never =>
                            session'[s].revokedAt = session[s].revokedAt
                       /\ session[s].rotatedTo # None =>
                            session'[s].rotatedTo = session[s].rotatedTo
                       /\ ~Open(s) => session'[s].idleExpiresAt = session[s].idleExpiresAt
<1>1. ASSUME IInv, [SessionsNext]_vars, NEW s \in SessionId, Created(s)
      PROVE  Final(s)
  <2>1. CASE session'[s] = session[s]
    BY <2>1
  <2>2. ASSUME NEW r \in Request, Ended(s, r) PROVE Final(s)
    BY <1>1, <2>2, EndedFields DEF IInv
  <2>3. ASSUME NEW r \in Request, Renewed(s, r) \/ RotatedAway(s, r) PROVE Final(s)
    BY <1>1, <2>3, RenewedFields, RotatedFields DEF IInv, Open
  <2>4. QED
    BY <1>1, <2>1, <2>2, <2>3, RowChanges DEF IInv, SignedIn, Succeeded
<1>2. IInv /\ [SessionsNext]_vars => [\A s \in SessionId : Created(s) => Final(s)]_session
  BY <1>1
<1>3. QED
  BY <1>2, Invariance, PTL DEF SessionsSpec, EndsAreFinal

\* A request that looked at the account before its suspension opens no session and
\* renews none after it.
THEOREM SuspensionHolds == SessionsSpec => SuspensionStopsWrites
<1> DEFINE Stopped(s) == LET a == session'[s].account
                             rotated == ~Created(s) /\ session'[s].origin # s
                         IN  /\ session'[s].lastActiveAt # session[s].lastActiveAt
                             /\ ~rotated
                             => account[a].status # "suspended"
<1>1. ASSUME IInv, [SessionsNext]_vars, NEW s \in SessionId PROVE Stopped(s)
  <2>1. CASE session'[s] = session[s]
    BY <2>1
  <2>2. ASSUME NEW r \in Request, SignedIn(s, r) PROVE Stopped(s)
    <3>1. session'[s].account = req[r].account /\ CanAuthenticate(account[req[r].account].status)
      BY <2>2, NewFields DEF SignedIn, ReplaceSession, MayReplace
    <3>2. QED
      BY <3>1 DEF CanAuthenticate
  <2>3. ASSUME NEW r \in Request, Succeeded(s, r) PROVE Stopped(s)
    <3>1. ~Created(s) /\ session'[s].origin = session[req[r].presented].origin
      BY <2>3, NewFields DEF Succeeded
    <3>2. Created(session[req[r].presented].origin)
      BY <1>1, <2>3 DEF Succeeded, Open, IInv, ChainsStart
    <3>3. QED
      BY <3>1, <3>2
  <2>4. ASSUME NEW r \in Request, Renewed(s, r) PROVE Stopped(s)
    <3>1. /\ session'[s].account = session[s].account
          /\ account[session[s].account].status # "suspended"
      BY <1>1, <2>4, RenewedFields DEF IInv, Renewed, MayRenew, Authorized, CanAuthenticate
    <3>2. QED
      BY <3>1
  <2>5. ASSUME NEW r \in Request, Ended(s, r) \/ RotatedAway(s, r) PROVE Stopped(s)
    BY <1>1, <2>5, EndedFields, RotatedFields DEF IInv
  <2>6. QED
    BY <1>1, <2>1, <2>2, <2>3, <2>4, <2>5, RowChanges DEF IInv
<1>2. IInv /\ [SessionsNext]_vars => [\A s \in SessionId : Stopped(s)]_session
  BY <1>1
<1>3. QED
  BY <1>2, Invariance, PTL DEF SessionsSpec, SuspensionStopsWrites
=============================================================================
