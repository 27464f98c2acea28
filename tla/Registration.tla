----------------------------- MODULE Registration -----------------------------
(***************************************************************************)
(* Public registration as the requests that run concurrently perform it:   *)
(* register, ask for another message, present a token.  A request captures *)
(* its instant once, when it starts (auth/register.go, auth/verifyemail.go)*)
(* and is then delayed arbitrarily: it waits for the limiter, for the      *)
(* password hash, for a connection and for row locks, so the instant it    *)
(* decides on may be older than rows committed meanwhile.                  *)
(*                                                                         *)
(* The discovery of the address is a separate, unlocked read; what follows *)
(* runs under the account's row lock and is one step.  Two creations of    *)
(* one address meet on its unique index, where the loser is told of the    *)
(* collision and retried once.                                             *)
(***************************************************************************)
EXTENDS VerificationTables

CONSTANTS
    Request,      \* request slots: how many requests overlap
    Provisioned   \* the [kind, status, revision] CreateAccount is called with

VARIABLES
    account,      \* Address -> account, login identity and credential
    req           \* Request -> what the request is about to do

-----------------------------------------------------------------------------
(* An account is reached through its login address: its row folds those of   *)
(* accounts, account_email_identities and account_password_credentials.      *)
(* Revision 0 stands for an account without a credential.                    *)

Kind == {"viewer", "creator", "operator"}
Status == {"pending", "active", "suspended", "closed"}

AccountRow == [status : Status \cup {"none"}, kind : Kind,
               verifiedAt : Instant, revision : Nat]

NoAccount == [status |-> "none", kind |-> "viewer",
              verifiedAt |-> Never, revision |-> 0]

ASSUME ProvisionedAssumption ==
    Provisioned \subseteq [kind : Kind, status : Status, revision : {0, 1}]

Exists(a) == account[a].status # "none"

RequestState ==
    [pc : {"idle", "discover", "create", "refresh", "consume"},
     op : {"none", "register", "reissue", "verify"},
     address : Address \cup {None}, challenge : ChallengeId \cup {None},
     at : Time, retried : BOOLEAN]

IdleRequest == [pc |-> "idle", op |-> "none", address |-> None,
                challenge |-> None, at |-> 0, retried |-> FALSE]

RequestTypeOK ==
    /\ account \in [Address -> AccountRow]
    /\ req \in [Request -> RequestState]
    /\ \A r \in Request :
         /\ req[r].pc \in {"discover", "create", "refresh"} => req[r].address \in Address
         /\ req[r].pc = "consume" => req[r].challenge \in ChallengeId

RequestInit ==
    /\ account = [a \in Address |-> NoAccount]
    /\ req = [r \in Request |-> IdleRequest]

Finish(r) == req' = [req EXCEPT ![r] = IdleRequest]

-----------------------------------------------------------------------------
(* The use cases: the instant is taken before anything else.                 *)

StartRegister(r, a) ==
    /\ req[r].pc = "idle"
    /\ req' = [req EXCEPT ![r] = [IdleRequest EXCEPT
                 !.pc = "discover", !.op = "register", !.address = a, !.at = now]]
    /\ UNCHANGED <<now, tables, account>>

StartReissue(r, a) ==
    /\ req[r].pc = "idle"
    /\ req' = [req EXCEPT ![r] = [IdleRequest EXCEPT
                 !.pc = "discover", !.op = "reissue", !.address = a, !.at = now]]
    /\ UNCHANGED <<now, tables, account>>

\* A token is known to nobody before a message carried it.
StartVerify(r, c) ==
    /\ req[r].pc = "idle"
    /\ sent[c] > 0
    /\ req' = [req EXCEPT ![r] = [IdleRequest EXCEPT
                 !.pc = "consume", !.op = "verify", !.challenge = c, !.at = now]]
    /\ UNCHANGED <<now, tables, account>>

-----------------------------------------------------------------------------
(* The store's transactions.                                                 *)

\* identityByAddress reads without a lock; an absent address ends a reissue.
Discover(r) ==
    /\ req[r].pc = "discover"
    /\ \/ /\ Exists(req[r].address)
          /\ req' = [req EXCEPT ![r].pc = "refresh"]
       \/ /\ ~Exists(req[r].address)
          /\ req[r].op = "register"
          /\ req' = [req EXCEPT ![r].pc = "create"]
       \/ /\ ~Exists(req[r].address)
          /\ req[r].op = "reissue"
          /\ Finish(r)
    /\ UNCHANGED <<now, tables, account>>

\* createRegistration, when the address is still free at the unique index.
CreateRegistration(r) ==
    LET a == req[r].address
        at == req[r].at
    IN  /\ req[r].pc = "create"
        /\ ~Exists(a)
        /\ \E fresh \in FreshChallenge :
             /\ challenge' = Reissued(a, {}, fresh, at, 1)
             /\ outbox' = Requeued({}, fresh, at)
        /\ account' = [account EXCEPT ![a] = [status |-> "pending",
                         kind |-> "viewer", verifiedAt |-> Never, revision |-> 1]]
        /\ Finish(r)
        /\ UNCHANGED <<now, sent>>

\* Slip: the retry repeats the insertion without looking the address up again.
CollideAndInsertAgain(r) ==
    /\ req[r].pc = "create"
    /\ Exists(req[r].address)
    /\ IF req[r].retried
       THEN Finish(r)
       ELSE req' = [req EXCEPT ![r].retried = TRUE]
    /\ UNCHANGED <<now, tables, account>>

\* The loser of that race rolls back and Execute calls Register once more.  A
\* second collision would be discarded without anything having been written.
Collide(r) ==
    /\ req[r].pc = "create"
    /\ Exists(req[r].address)
    /\ IF req[r].retried
       THEN Finish(r)
       ELSE req' = [req EXCEPT ![r].pc = "discover", ![r].retried = TRUE]
    /\ UNCHANGED <<now, tables, account>>

\* What refreshRegistration requires before it writes anything.
MayRefresh(a, at) ==
    /\ account[a].kind = "viewer"
    /\ account[a].status = "pending"
    /\ account[a].verifiedAt = Never
    /\ \A c \in CurrentOf(a) : MayReissueAt(c, at)

\* The credential after the upsert; a reissue carries no password.
RefreshedRevision(a, op) ==
    IF op = "register" THEN account[a].revision + 1 ELSE account[a].revision

RefreshRegistration(r) ==
    LET a == req[r].address
        at == req[r].at
        revision == RefreshedRevision(a, req[r].op)
    IN  /\ req[r].pc = "refresh"
        /\ MayRefresh(a, at)
        /\ \E fresh \in FreshChallenge :
             /\ challenge' = Reissued(a, CurrentOf(a), fresh, at, revision)
             /\ outbox' = Requeued(CurrentOf(a), fresh, at)
        /\ account' = [account EXCEPT ![a].revision = revision]
        /\ Finish(r)
        /\ UNCHANGED <<now, sent>>

\* Slip: the password is written before the interval is decided.
RefuseAfterThePassword(r) ==
    /\ req[r].pc = "refresh"
    /\ ~MayRefresh(req[r].address, req[r].at)
    /\ account' = [account EXCEPT ![req[r].address].revision =
                     RefreshedRevision(req[r].address, req[r].op)]
    /\ Finish(r)
    /\ UNCHANGED <<now, tables>>

\* Every refusal of refreshRegistration commits an empty transaction.
RefuseRefresh(r) ==
    /\ req[r].pc = "refresh"
    /\ ~MayRefresh(req[r].address, req[r].at)
    /\ Finish(r)
    /\ UNCHANGED <<now, tables, account>>

\* Slip: an expired challenge is consumed.
MayConsumeLate(c, at) ==
    LET a == challenge[c].address
    IN  /\ Current(c)
        /\ account[a].kind = "viewer"
        /\ account[a].status = "pending"
        /\ account[a].verifiedAt = Never

\* Slip: the account's standing is not looked at again under the locks.
MayConsumeWhateverTheStatus(c, at) ==
    /\ Current(c)
    /\ at < challenge[c].expiresAt
    /\ account[challenge[c].address].verifiedAt = Never

\* What ConsumeVerification requires, once the locks are held, to activate.
MayConsume(c, at) ==
    LET a == challenge[c].address
    IN  /\ challenge[c].consumedAt = Never
        /\ challenge[c].supersededAt = Never
        /\ at < challenge[c].expiresAt
        /\ account[a].kind = "viewer"
        /\ account[a].status = "pending"
        /\ account[a].verifiedAt = Never

\* Slip: the address is verified and the account left pending.
VerifiedOnly(a, at) == [account EXCEPT ![a].verifiedAt = at]

Activated(a, at) == [account EXCEPT ![a].verifiedAt = at, ![a].status = "active"]

ConsumeVerification(r) ==
    LET c == req[r].challenge
        a == challenge[c].address
        at == req[r].at
    IN  /\ req[r].pc = "consume"
        /\ MayConsume(c, at)
        /\ account' = Activated(a, at)
        /\ challenge' = [challenge EXCEPT ![c].consumedAt = at]
        /\ outbox' = [outbox EXCEPT ![c] = Dequeue(@)]
        /\ Finish(r)
        /\ UNCHANGED <<now, sent>>

\* A spent token answers again and writes nothing; every other case is an absence.
RefuseVerification(r) ==
    /\ req[r].pc = "consume"
    /\ ~MayConsume(req[r].challenge, req[r].at)
    /\ Finish(r)
    /\ UNCHANGED <<now, tables, account>>

\* The process dies, the client goes away or the store fails before the commit.
AbandonRequest(r) ==
    /\ req[r].pc # "idle"
    /\ Finish(r)
    /\ UNCHANGED <<now, tables, account>>

-----------------------------------------------------------------------------
(* Administrative operations of the store.                                   *)

CreateAccount(a) ==
    /\ ~Exists(a)
    /\ \E p \in Provisioned :
         account' = [account EXCEPT ![a] = [status |-> p.status, kind |-> p.kind,
                       verifiedAt |-> Never, revision |-> p.revision]]
    /\ UNCHANGED <<now, challenge, outbox, sent, req>>

\* The status alone is written: challenges and queued messages are left alone.
Suspend(a) ==
    /\ Exists(a)
    /\ account' = [account EXCEPT ![a].status = "suspended"]
    /\ UNCHANGED <<now, challenge, outbox, sent, req>>

-----------------------------------------------------------------------------
RequestStep(r) ==
    \/ Discover(r)
    \/ CreateRegistration(r)
    \/ Collide(r)
    \/ RefreshRegistration(r)
    \/ RefuseRefresh(r)
    \/ ConsumeVerification(r)
    \/ RefuseVerification(r)
    \/ AbandonRequest(r)

RegistrationNext ==
    \/ \E r \in Request :
         \/ \E a \in Address : StartRegister(r, a) \/ StartReissue(r, a)
         \/ \E c \in ChallengeId : StartVerify(r, c)
         \/ RequestStep(r)
    \/ \E a \in Address : CreateAccount(a) \/ Suspend(a)

-----------------------------------------------------------------------------
(* What happens around the requests, as far as they can tell: time passes,   *)
(* and the outbox is drained by processes Delivery describes.                *)

\* A challenge's message reaches its recipient; further copies tell no more.  The
\* row may be gone by then: a message in flight cannot be recalled.
Carry(c) ==
    /\ Issued(c)
    /\ sent[c] = 0
    /\ sent' = [sent EXCEPT ![c] = 1]
    /\ UNCHANGED <<now, account, challenge, outbox, req>>

\* Rows leave the outbox: sent, given up, exhausted or expired.
Drain(rows) ==
    /\ \A c \in rows : outbox[c].queued
    /\ outbox' = [c \in ChallengeId |->
                    IF c \in rows THEN Dequeue(outbox[c]) ELSE outbox[c]]
    /\ UNCHANGED <<now, account, challenge, sent, req>>

PassTime ==
    /\ now < MaxTime
    /\ now' = now + 1
    /\ UNCHANGED <<tables, account, req>>

Surroundings ==
    \/ \E c \in ChallengeId : Carry(c)
    \/ \E rows \in SUBSET ChallengeId : Drain(rows)
    \/ PassTime

registrationVars == <<now, account, challenge, outbox, sent, req>>

RegistrationInit == TablesInit /\ RequestInit

RegistrationSpec ==
    RegistrationInit /\ [][RegistrationNext \/ Surroundings]_registrationVars

RegistrationTypeOK == TablesTypeOK /\ RequestTypeOK

-----------------------------------------------------------------------------
(* What registration promises.                                               *)

\* An address has at most one current challenge, so at most one token works: the
\* partial unique index of migration 0003 never refuses an issuance.
OneCurrentChallenge ==
    \A a \in Address : \A c, d \in CurrentOf(a) : c = d

\* A queued message belongs to a current challenge: supersession and consumption
\* leave no bearer token behind in the outbox, however they interleave with the
\* requests that queue the next one.
QueuedOnlyWhileCurrent ==
    \A c \in ChallengeId : outbox[c].queued => Current(c)

\* An address is verified exactly when one of its challenges was consumed, exactly
\* one was, at that instant, and a verified account is never pending again.
VerifiedByOneConsumption ==
    \A a \in Address :
      LET spent == {c \in ChallengeId :
                      challenge[c].address = a /\ challenge[c].consumedAt # Never}
      IN  /\ \A c, d \in spent : c = d
          /\ \A c \in spent : account[a].verifiedAt = challenge[c].consumedAt
          /\ account[a].verifiedAt # Never =>
               /\ spent # {}
               /\ account[a].status \in {"active", "suspended"}

\* No request, however old the instant it captured, writes a row the CHECK
\* constraints of migration 0003 would refuse.
ConstraintsHold ==
    \A c \in ChallengeId : Issued(c) =>
      LET v == challenge[c]
      IN  /\ v.expiresAt > v.issuedAt
          /\ v.consumedAt # Never =>
               v.issuedAt <= v.consumedAt /\ v.consumedAt < v.expiresAt
          /\ v.supersededAt # Never => v.issuedAt <= v.supersededAt
          /\ v.consumedAt = Never \/ v.supersededAt = Never
          /\ outbox[c].queued => outbox[c].availableAt >= v.issuedAt

\* The password an account is activated with is the one in force when the message
\* that activates it was queued: a registration that wrote no message wrote no
\* password either, so nobody swaps the password behind a token already sent.
\* (No path of the service changes a pending account's password otherwise: the
\* store's SetPassword has no caller.)
PasswordBehindTheToken ==
    \A c \in ChallengeId : Current(c) =>
      challenge[c].revision = account[challenge[c].address].revision

\* Two challenges of one address are issued at least the resend interval apart,
\* even when the requests commit in another order than they captured their instants.
ResendSpacing ==
    \A c, d \in ChallengeId :
      /\ c # d /\ Issued(c)
      /\ challenge[c].address = challenge[d].address
      => \/ challenge[c].issuedAt - challenge[d].issuedAt >= ResendInterval
         \/ challenge[d].issuedAt - challenge[c].issuedAt >= ResendInterval

\* The one retry of a collided registration finds the address: its own collision,
\* which Execute does not examine, cannot happen.
RetryNeverCollides ==
    \A r \in Request : req[r].retried =>
      /\ Exists(req[r].address)
      /\ req[r].pc \in {"discover", "refresh"}

\* A challenge that was consumed or superseded stays as it was; no transaction
\* reopens one, moves its expiry or rewrites its end.
EndedChallengesAreFinal ==
    [][\A c \in ChallengeId : Issued(c) /\ ~Current(c) =>
         challenge'[c] = challenge[c]]_challenge

\* A suspension is never undone by a verification that was already under way.
SuspensionIsNotUndone ==
    [][\A a \in Address : account[a].status = "suspended" =>
         account'[a].status = "suspended"]_account
=============================================================================
