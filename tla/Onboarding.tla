------------------------------ MODULE Onboarding ------------------------------
(***************************************************************************)
(* Registration requests and dispatchers over the same tables: what a      *)
(* deployment of several processes does between the first request for an   *)
(* address and its verification.                                           *)
(***************************************************************************)
EXTENDS Registration, Delivery

vars == <<now, challenge, outbox, sent, account, req, disp>>

TypeOK == TablesTypeOK /\ RequestTypeOK /\ DispatcherTypeOK

Init == TablesInit /\ RequestInit /\ DispatcherInit

Next ==
    \/ RegistrationNext /\ UNCHANGED disp
    \/ DeliveryNext /\ UNCHANGED <<account, req>>
    \/ Elapse /\ UNCHANGED <<account, req>>

Spec == Init /\ [][Next]_vars

-----------------------------------------------------------------------------
(* Each component sees the other one only through what its own module says   *)
(* happens around it, so what holds of a component alone holds here.         *)

\* Dispatchers, as requests see them: the leases and the attempts are invisible,
\* and one copy of a message is as good as many.
OutboxForRequests ==
    [c \in ChallengeId |->
       [outbox[c] EXCEPT !.attempts = 0, !.claim = None, !.claimExpiresAt = Never,
          !.availableAt = IF outbox[c].queued THEN challenge[c].issuedAt ELSE Never]]

SentForRequests == [c \in ChallengeId |-> IF sent[c] > 0 THEN 1 ELSE 0]

ForRequests == INSTANCE Registration WITH
    outbox <- OutboxForRequests, sent <- SentForRequests

\* Requests, as dispatchers see them: the credential behind a challenge is not
\* theirs to read.
ChallengeForDispatchers == [c \in ChallengeId |-> [challenge[c] EXCEPT !.revision = 0]]

ForDispatchers == INSTANCE Delivery WITH challenge <- ChallengeForDispatchers

\* What the dispatchers do to the tables is what registration expects of them.
DeliveryIsUnobtrusive == ForRequests!RegistrationSpec

\* What the requests do to the tables is what the dispatchers expect of them.
RequestsAreExpected == ForDispatchers!DeliverySpec
=============================================================================
