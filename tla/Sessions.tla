------------------------------ MODULE Sessions ------------------------------
(***************************************************************************)
(* Server-side sessions (auth/signin.go, auth/sessions.go, authstore):     *)
(* signing in, which replaces the session the request carried, signing     *)
(* out, renewing activity, rotating and revoking, while passwords are      *)
(* replaced and accounts suspended.                                        *)
(*                                                                         *)
(* As in Registration, a request captures its instant when it starts and   *)
(* decides on it later, and every use case reads before it locks: what it  *)
(* read may have changed when its transaction decides.  A transaction that *)
(* decides under the account's row lock is one step.  RevokeAccountSessions*)
(* takes no such lock: it finds the sessions of its snapshot in one step   *)
(* and revokes those in the next.                                          *)
(*                                                                         *)
(* Every session belongs to the public surface, the only one sign-in opens *)
(* one on.                                                                 *)
(***************************************************************************)
EXTENDS Integers, FiniteSets, Iam

CONSTANTS
    Account,          \* account identifiers
    SessionId,        \* session identifiers, bounding how many are created
    Request,          \* request slots: how many requests overlap
    None,             \* absence of an account or a session
    Provisioned,      \* the accounts the service starts with
    StoreOperations,  \* store operations that no request reaches yet, in use
    Idle,             \* session.Lifetimes
    Absolute,
    ActivityInterval,
    MaxRevision,      \* bound on a credential's revision
    MaxTime           \* bound on the clock

\* Lifetimes.Validate.
ASSUME SessionsAssumption ==
    /\ None \notin Account \cup SessionId
    /\ Provisioned \subseteq [kind : Kind, status : Status, roles : SUBSET Role,
                              revision : Nat, cutoff : {0}]
    /\ \A p \in Provisioned : \A r \in p.roles : ValidGrant(p.kind, r)
    /\ StoreOperations \subseteq {"rotate", "revoke all", "set password", "suspend"}
    /\ Idle \in Nat /\ Absolute \in Nat /\ ActivityInterval \in Nat
    /\ 0 < ActivityInterval /\ ActivityInterval < Idle /\ Idle <= Absolute
    /\ MaxRevision \in Nat /\ MaxTime \in Nat

VARIABLES
    now,      \* the clock every process reads
    account,  \* Account -> account, its grants and its credential
    session,  \* SessionId -> session
    req       \* Request -> what the request is about to do

vars == <<now, account, session, req>>

-----------------------------------------------------------------------------
Never == -1
Time == Nat
Instant == Time \cup {Never}

\* Revision 0 is an account without a credential.  `cutoff' is history: the highest
\* revision in force when a completed account-wide revocation took its snapshot.
AccountRow == [kind : Kind, status : Status, roles : SUBSET Role,
               revision : Nat, cutoff : Nat]

\* History: `verified' is the revision of the credential a sign-in verified,
\* `origin' the session a chain of rotations started from, `revocations' how many
\* session_revoked events name the session.
SessionRow == [account : Account \cup {None}, createdAt : Instant,
               lastActiveAt : Instant, idleExpiresAt : Instant,
               absoluteExpiresAt : Instant, revokedAt : Instant,
               rotatedTo : SessionId \cup {None}, verified : Nat,
               origin : SessionId \cup {None}, revocations : Nat]

NoSession == [account |-> None, createdAt |-> Never, lastActiveAt |-> Never,
              idleExpiresAt |-> Never, absoluteExpiresAt |-> Never,
              revokedAt |-> Never, rotatedTo |-> None, verified |-> 0,
              origin |-> None, revocations |-> 0]

RequestState ==
    [pc : {"idle", "lookup", "present", "replace", "authenticate", "end", "revoke",
           "renew", "rotate", "snapshot", "sweep"},
     op : {"none", "sign in", "sign out", "activity", "rotate", "revoke all"},
     account : Account \cup {None}, presented : SessionId \cup {None},
     revision : Nat, live : SUBSET SessionId, at : Time]

IdleRequest == [pc |-> "idle", op |-> "none", account |-> None,
                presented |-> None, revision |-> 0, live |-> {}, at |-> 0]

SessionsInit ==
    /\ now = 0
    /\ account \in [Account -> Provisioned]
    /\ session = [s \in SessionId |-> NoSession]
    /\ req = [r \in Request |-> IdleRequest]

Created(s) == session[s].account # None

\* A random identifier no session carries yet; which one makes no difference.
FreshSession ==
    LET unused == {s \in SessionId : ~Created(s)}
    IN  IF unused = {} THEN {} ELSE {CHOOSE s \in unused : TRUE}

Finish(r) == req' = [req EXCEPT ![r] = IdleRequest]

-----------------------------------------------------------------------------
(* The session rules (auth/session/session.go).                              *)

Earlier(t, u) == IF t <= u THEN t ELSE u

\* Slip: the idle expiry precedes the creation.
NewSessionExpired(a, at, verified, origin) ==
    [NoSession EXCEPT !.account = a, !.createdAt = at, !.lastActiveAt = at,
        !.idleExpiresAt = at - Idle - 2, !.absoluteExpiresAt = at + Absolute,
        !.verified = verified, !.origin = origin]

\* Issue.
NewSession(a, at, verified, origin) ==
    [NoSession EXCEPT !.account = a, !.createdAt = at, !.lastActiveAt = at,
        !.idleExpiresAt = at + Idle, !.absoluteExpiresAt = at + Absolute,
        !.verified = verified, !.origin = origin]

Open(s) ==
    /\ Created(s)
    /\ session[s].revokedAt = Never
    /\ session[s].rotatedTo = None

\* Slip: the deadlines alone decide.
UnexpiredAt(s, at) ==
    /\ Created(s)
    /\ at < session[s].absoluteExpiresAt
    /\ at < session[s].idleExpiresAt

UsableAt(s, at) ==
    /\ Open(s)
    /\ at < session[s].absoluteExpiresAt
    /\ at < session[s].idleExpiresAt

RenewedIdleAt(s, at) == Earlier(at + Idle, session[s].absoluteExpiresAt)

\* Slip: the two instants are compared whichever is later.
WorthPersistingEitherWay(s, at) ==
    \/ at - session[s].lastActiveAt >= ActivityInterval
    \/ session[s].lastActiveAt - at >= ActivityInterval

ActivityIsWorthPersisting(s, at) ==
    /\ at - session[s].lastActiveAt >= ActivityInterval
    /\ RenewedIdleAt(s, at) > session[s].idleExpiresAt

\* Store.Resolve: one statement, so one snapshot of the session and its account.
ResolvesAt(s, at) ==
    /\ UsableAt(s, at)
    /\ CanAuthenticate(account[session[s].account].status)
    /\ ValidSurface(account[session[s].account].kind, "public")

\* Slip: a revocation stamps a session that was already revoked.
RevokedAgain(row, at, events) ==
    [row EXCEPT !.revokedAt = at, !.revocations = @ + events]

\* UPDATE ... SET revoked_at WHERE revoked_at IS NULL, and its events, if any.
Revoked(row, at, events) ==
    IF row.revokedAt = Never
    THEN [row EXCEPT !.revokedAt = at, !.revocations = @ + events]
    ELSE row

-----------------------------------------------------------------------------
(* Signing in.                                                               *)

StartSignIn(r, a, token) ==
    /\ req[r].pc = "idle"
    /\ token # None => Created(token)
    /\ req' = [req EXCEPT ![r] = [IdleRequest EXCEPT !.pc = "lookup",
                 !.op = "sign in", !.account = a, !.presented = token, !.at = now]]
    /\ UNCHANGED <<now, account, session>>

\* The credential is read without a lock, and the password matches it.
LookupCredential(r) ==
    LET a == account[req[r].account]
    IN  /\ req[r].pc = "lookup"
        /\ a.revision > 0
        /\ CanAuthenticate(a.status)
        /\ ValidSurface(a.kind, "public")
        /\ req' = [req EXCEPT ![r].pc = "present", ![r].revision = a.revision]
        /\ UNCHANGED <<now, account, session>>

\* No credential, another password, or an account that may not authenticate.
RejectSignIn(r) ==
    /\ req[r].pc = "lookup"
    /\ Finish(r)
    /\ UNCHANGED <<now, account, session>>

\* The session the request carried, if it is usable at the request's instant.
IdentifyPresented(r) ==
    LET s == req[r].presented
    IN  /\ req[r].pc = "present"
        /\ req' = [req EXCEPT ![r].pc = "replace",
                     ![r].presented = IF s # None /\ ResolvesAt(s, req[r].at)
                                      THEN s ELSE None]
        /\ UNCHANGED <<now, account, session>>

\* Slip: the password that was verified is not compared with the one in force.
MayReplaceWithAnyRevision(r) == CanAuthenticate(account[req[r].account].status)

\* Slip: the account's status is the one the credential was read with.
MayReplaceWhateverTheStatus(r) == account[req[r].account].revision = req[r].revision

\* What ReplaceSession requires once it holds the account and its credential.
MayReplace(r) ==
    /\ CanAuthenticate(account[req[r].account].status)
    /\ account[req[r].account].revision = req[r].revision

ReplaceSession(r) ==
    LET a == req[r].account
        at == req[r].at
    IN  /\ req[r].pc = "replace"
        /\ MayReplace(r)
        /\ \E fresh \in FreshSession :
             session' = [s \in SessionId |->
                IF s = fresh THEN NewSession(a, at, req[r].revision, fresh)
                ELSE IF s = req[r].presented THEN Revoked(session[s], at, 1)
                ELSE session[s]]
        /\ Finish(r)
        /\ UNCHANGED <<now, account>>

RefuseReplacement(r) ==
    /\ req[r].pc = "replace"
    /\ ~MayReplace(r)
    /\ Finish(r)
    /\ UNCHANGED <<now, account, session>>

-----------------------------------------------------------------------------
(* Signing out and renewing activity: the session is resolved, then written. *)

StartAuthenticated(r, op, token) ==
    /\ req[r].pc = "idle"
    /\ Created(token)
    /\ req' = [req EXCEPT ![r] = [IdleRequest EXCEPT !.pc = "authenticate",
                 !.op = op, !.presented = token, !.at = now]]
    /\ UNCHANGED <<now, account, session>>

\* A renewal keeps the instant the session was resolved at.
Authenticate(r) ==
    /\ req[r].pc = "authenticate"
    /\ ResolvesAt(req[r].presented, req[r].at)
    /\ req' = [req EXCEPT ![r].pc = IF req[r].op = "sign out" THEN "end" ELSE "renew"]
    /\ UNCHANGED <<now, account, session>>

RefuseAuthentication(r) ==
    /\ req[r].pc = "authenticate"
    /\ ~ResolvesAt(req[r].presented, req[r].at)
    /\ Finish(r)
    /\ UNCHANGED <<now, account, session>>

\* A sign-out reads the clock again before its statement.
End(r) ==
    /\ req[r].pc = "end"
    /\ req' = [req EXCEPT ![r].pc = "revoke", ![r].at = now]
    /\ UNCHANGED <<now, account, session>>

\* A session already revoked reports its absence and is left as it was.
RevokeSession(r) ==
    /\ req[r].pc = "revoke"
    /\ session' = [session EXCEPT ![req[r].presented] = Revoked(@, req[r].at, 1)]
    /\ Finish(r)
    /\ UNCHANGED <<now, account>>

\* Slip: the standing of the account is the one the resolution saw.
MayRenewWhateverTheStatus(s, at) ==
    /\ UsableAt(s, at)
    /\ ActivityIsWorthPersisting(s, at)

\* Slip: the session is not looked at again once it is locked.
MayRenewUnexpired(s, at) ==
    /\ UnexpiredAt(s, at)
    /\ CanAuthenticate(account[session[s].account].status)
    /\ ActivityIsWorthPersisting(s, at)

\* What RecordActivity requires of the session and the account it has locked.
MayRenew(s, at) ==
    LET a == account[session[s].account]
    IN  /\ UsableAt(s, at)
        /\ Authorized(a.kind, a.status, "public", a.roles, "own_session:renew")
        /\ ActivityIsWorthPersisting(s, at)

RecordActivity(r) ==
    LET s == req[r].presented
        at == req[r].at
    IN  /\ req[r].pc = "renew"
        /\ MayRenew(s, at)
        /\ session' = [session EXCEPT ![s].lastActiveAt = at,
                                      ![s].idleExpiresAt = RenewedIdleAt(s, at)]
        /\ Finish(r)
        /\ UNCHANGED <<now, account>>

\* Unusable, denied, or accepted without a write.
RefuseActivity(r) ==
    /\ req[r].pc = "renew"
    /\ ~MayRenew(req[r].presented, req[r].at)
    /\ Finish(r)
    /\ UNCHANGED <<now, account, session>>

-----------------------------------------------------------------------------
(* Rotation and account-wide revocation, which the store offers.             *)

StartRotation(r, s) ==
    /\ "rotate" \in StoreOperations
    /\ req[r].pc = "idle"
    /\ Created(s)
    /\ req' = [req EXCEPT ![r] = [IdleRequest EXCEPT !.pc = "rotate",
                 !.op = "rotate", !.presented = s, !.at = now]]
    /\ UNCHANGED <<now, account, session>>

\* Slip: an already rotated session may be rotated again.
MayRotateAgain(s, at) ==
    /\ session[s].revokedAt = Never
    /\ session[s].createdAt <= at
    /\ at < session[s].idleExpiresAt

\* What Rotate requires once it holds the account and the session.  The account's
\* status is not consulted: resolution will read it.
MayRotate(s, at) ==
    /\ UsableAt(s, at)
    /\ session[s].createdAt <= at
    /\ ValidSurface(account[session[s].account].kind, "public")

Rotate(r) ==
    LET p == req[r].presented
        at == req[r].at
        successor == NewSession(session[p].account, at, session[p].verified,
                                session[p].origin)
    IN  /\ req[r].pc = "rotate"
        /\ MayRotate(p, at)
        /\ \E fresh \in FreshSession :
             session' = [session EXCEPT ![fresh] = successor, ![p].rotatedTo = fresh]
        /\ Finish(r)
        /\ UNCHANGED <<now, account>>

RefuseRotation(r) ==
    /\ req[r].pc = "rotate"
    /\ ~MayRotate(req[r].presented, req[r].at)
    /\ Finish(r)
    /\ UNCHANGED <<now, account, session>>

StartRevokeAll(r, a) ==
    /\ "revoke all" \in StoreOperations
    /\ req[r].pc = "idle"
    /\ req' = [req EXCEPT ![r] = [IdleRequest EXCEPT !.pc = "snapshot",
                 !.op = "revoke all", !.account = a, !.at = now]]
    /\ UNCHANGED <<now, account, session>>

\* The UPDATE finds its rows in the snapshot its statement started with.
SnapshotSessions(r) ==
    LET a == req[r].account
    IN  /\ req[r].pc = "snapshot"
        /\ req' = [req EXCEPT ![r].pc = "sweep",
                     ![r].revision = account[a].revision,
                     ![r].live = {s \in SessionId : /\ session[s].account = a
                                                    /\ session[s].revokedAt = Never}]
        /\ UNCHANGED <<now, account, session>>

\* It locks each row, looks at it again, and records one event for the account.
RevokeAccountSessions(r) ==
    LET a == req[r].account
    IN  /\ req[r].pc = "sweep"
        /\ session' = [s \in SessionId |->
              IF s \in req[r].live THEN Revoked(session[s], req[r].at, 0)
                                   ELSE session[s]]
        /\ account' = [account EXCEPT ![a].cutoff =
              IF req[r].revision > @ THEN req[r].revision ELSE @]
        /\ Finish(r)
        /\ UNCHANGED now

-----------------------------------------------------------------------------
SetPassword(a) ==
    /\ "set password" \in StoreOperations
    /\ account[a].revision < MaxRevision
    /\ account' = [account EXCEPT ![a].revision = @ + 1]
    /\ UNCHANGED <<now, session, req>>

\* The status alone is written: the session rows are left alone.
Suspend(a) ==
    /\ "suspend" \in StoreOperations
    /\ account' = [account EXCEPT ![a].status = "suspended"]
    /\ UNCHANGED <<now, session, req>>

\* The process dies, the client goes away or the store fails before the commit.
AbandonRequest(r) ==
    /\ req[r].pc # "idle"
    /\ Finish(r)
    /\ UNCHANGED <<now, account, session>>

PassTime ==
    /\ now < MaxTime
    /\ now' = now + 1
    /\ UNCHANGED <<account, session, req>>

StartRequest(r) ==
    \/ \E a \in Account, token \in SessionId \cup {None} : StartSignIn(r, a, token)
    \/ \E op \in {"sign out", "activity"}, token \in SessionId :
         StartAuthenticated(r, op, token)
    \/ \E s \in SessionId : StartRotation(r, s)
    \/ \E a \in Account : StartRevokeAll(r, a)

RequestStep(r) ==
    \/ LookupCredential(r)
    \/ RejectSignIn(r)
    \/ IdentifyPresented(r)
    \/ ReplaceSession(r)
    \/ RefuseReplacement(r)
    \/ Authenticate(r)
    \/ RefuseAuthentication(r)
    \/ End(r)
    \/ RevokeSession(r)
    \/ RecordActivity(r)
    \/ RefuseActivity(r)
    \/ Rotate(r)
    \/ RefuseRotation(r)
    \/ SnapshotSessions(r)
    \/ RevokeAccountSessions(r)
    \/ AbandonRequest(r)

SessionsNext ==
    \/ \E r \in Request : StartRequest(r) \/ RequestStep(r)
    \/ \E a \in Account : SetPassword(a) \/ Suspend(a)
    \/ PassTime

SessionsSpec == SessionsInit /\ [][SessionsNext]_vars

SessionsTypeOK ==
    /\ now \in Time
    /\ account \in [Account -> AccountRow]
    /\ session \in [SessionId -> SessionRow]
    /\ req \in [Request -> RequestState]
    /\ \A r \in Request :
         /\ req[r].pc \in {"lookup", "present", "replace", "snapshot", "sweep"}
              => req[r].account \in Account
         /\ req[r].pc \in {"authenticate", "end", "revoke", "renew", "rotate"}
              => req[r].presented \in SessionId

-----------------------------------------------------------------------------
(* What sessions promise.                                                    *)

\* Replacing a password and then revoking the account's sessions leaves none a
\* superseded password opened: a sign-in that verified the old password before
\* either commits nothing after them.  (A session made by rotating another is left
\* out: one that a rotation inserts after the snapshot of the revocation stays.)
PasswordCutoff ==
    \A s \in SessionId : Open(s) /\ session[s].origin = s =>
      session[s].verified >= account[session[s].account].cutoff

\* Whatever the order in which activity signals commit, the last activity and the
\* idle expiry never move back, and the absolute expiry never moves.
ActivityMovesForward ==
    [][\A s \in SessionId : Created(s) =>
         /\ session'[s].lastActiveAt >= session[s].lastActiveAt
         /\ session'[s].idleExpiresAt >= session[s].idleExpiresAt
         /\ session'[s].absoluteExpiresAt = session[s].absoluteExpiresAt]_session

\* The idle expiry is always the one the last recorded activity gives, capped by
\* the absolute expiry, as the CHECK of migration 0001 requires.
DeadlinesFollowActivity ==
    \A s \in SessionId : Created(s) =>
      session[s].idleExpiresAt =
        Earlier(session[s].lastActiveAt + Idle, session[s].createdAt + Absolute)

\* A session that was revoked or rotated is finished: no step takes back its end,
\* stamps it anew or renews it, however old the resolution that step relies on.
EndsAreFinal ==
    [][\A s \in SessionId : Created(s) =>
         /\ session[s].revokedAt # Never => session'[s].revokedAt = session[s].revokedAt
         /\ session[s].rotatedTo # None => session'[s].rotatedTo = session[s].rotatedTo
         /\ ~Open(s) => session'[s].idleExpiresAt = session[s].idleExpiresAt]_session

\* However many sign-ins and sign-outs end one session, one of them records it.
RecordedOnce ==
    \A s \in SessionId :
      /\ session[s].revocations <= 1
      /\ session[s].revocations = 1 => session[s].revokedAt # Never

\* Once an account is suspended, requests already past their own look at it open
\* no session and renew none.
SuspensionStopsWrites ==
    [][\A s \in SessionId :
         LET a == session'[s].account
             rotated == ~Created(s) /\ session'[s].origin # s
         IN  /\ session'[s].lastActiveAt # session[s].lastActiveAt
             /\ ~rotated
             => account[a].status # "suspended"]_session

\* Of the sessions one sign-in led to, at most one is open: a token used twice
\* cannot be rotated into two live ones.
OneOpenPerChain ==
    \A s, t \in SessionId :
      Open(s) /\ Open(t) /\ session[s].origin = session[t].origin => s = t

\* A test says that past its idle expiry a cookie is inert and stays inert: the
\* deadline of a session that expired does not move any more.
ExpiredStaysExpired ==
    [][\A s \in SessionId : Created(s) /\ now >= session[s].idleExpiresAt =>
         session'[s].idleExpiresAt = session[s].idleExpiresAt]_session
=============================================================================
