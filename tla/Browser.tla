------------------------------- MODULE Browser -------------------------------
(***************************************************************************)
(* One tab of the web client, as far as its components share it: the page  *)
(* shown, the session cookie, the requests under way and the sessions of   *)
(* the service that answers them.                                          *)
(*                                                                         *)
(* A request is answered in two steps: the service handles it, and its     *)
(* reply arrives.  Either may be lost, and between the two anything may    *)
(* happen in the tab.  `live' is what the code asks a reply for before it  *)
(* lets it decide anything: not aborted, made by a component that is still *)
(* mounted and, for the activity reporter, not stopped.                    *)
(*                                                                         *)
(* A session's CSRF token is the session.                                  *)
(***************************************************************************)
EXTENDS Naturals, FiniteSets

CONSTANTS
    Slot,       \* bounds how many requests are under way
    SessionId,  \* sessions the service may open
    None        \* absence of a session or of a slot

ASSUME BrowserAssumption == None \notin Slot \cup SessionId

VARIABLES
    page,     \* the page shown
    cookie,   \* the session the browser's cookie names
    opened,   \* sessions the service opened so far
    live,     \* sessions that still answer
    request   \* Slot -> request

browserVars == <<page, cookie, opened, live, request>>
serviceVars == <<cookie, opened, live>>

Page == {"/", "/sign-in", "/register", "/verify-email"}

ControlsKind == {"resolve", "activity", "sign out"}
FormKind == {"sign in", "register", "resend", "verify"}
Kind == ControlsKind \cup FormKind

\* Requests that change a session or the cookie.
Changing == {"sign in", "sign out"}

\* Requests that omit credentials: the service reads no session for them.
Anonymous == {"register", "resend", "verify"}

\* What the functions of browser-api.ts make of an answer.
Reply == {"none", "authenticated", "anonymous", "accepted", "ended", "unauthenticated",
          "forbidden", "rate-limited", "failed", "refused"}

\* `last' (history): the mounted component made no later request of the kind.
Request == [kind : Kind \cup {"none"}, stage : {"none", "sent", "answered"},
            cookie : SessionId \cup {None}, token : SessionId \cup {None},
            reply : Reply, session : SessionId \cup {None}, live : BOOLEAN, last : BOOLEAN]

NoRequest == [kind |-> "none", stage |-> "none", cookie |-> None, token |-> None,
              reply |-> "none", session |-> None, live |-> FALSE, last |-> FALSE]

BrowserTypeOK ==
    /\ page \in Page
    /\ cookie \in SessionId \cup {None}
    /\ live \subseteq opened /\ opened \subseteq SessionId
    /\ request \in [Slot -> Request]

BrowserInit ==
    /\ page \in Page
    /\ cookie = None /\ opened = {} /\ live = {}
    /\ request = [i \in Slot |-> NoRequest]

\* Some slot no request uses; which one makes no difference.
FreeSlot ==
    LET free == {i \in Slot : request[i].stage = "none"}
    IN  IF free = {} THEN {} ELSE {CHOOSE i \in free : TRUE}

\* A request nobody asks for any more: aborted, stopped or unmounted.  It ends as a
\* failure, unless what the service does with it matters all the same.
Disown(r) ==
    IF r.kind \in Changing THEN [r EXCEPT !.live = FALSE]
    ELSE [NoRequest EXCEPT !.kind = r.kind, !.stage = "answered", !.reply = "failed",
                           !.last = r.last]

\* The requests, those of some kinds disowned.
Disowned(kinds) ==
    [i \in Slot |-> IF request[i].kind \in kinds THEN Disown(request[i]) ELSE request[i]]

\* The requests, those of some kinds overtaken by another, or outlived by their page.
Overtaken(requests, kinds) ==
    [i \in Slot |-> [requests[i] EXCEPT !.last = @ /\ requests[i].kind \notin kinds]]

\* The cookie of the instant, where credentials travel.
Sent(kind, token) ==
    [NoRequest EXCEPT !.kind = kind, !.stage = "sent", !.token = token, !.live = TRUE,
                      !.last = TRUE, !.cookie = IF kind \in Anonymous THEN None ELSE cookie]

\* A fetch leaves through a slot, after others were disowned.
FetchAt(i, kind, token, disowned) ==
    request' = [Overtaken(Disowned(disowned), {kind}) EXCEPT ![i] = Sent(kind, token)]

Fetch(kind, token, disowned) == \E i \in FreeSlot : FetchAt(i, kind, token, disowned)

\* The service or the network answers.
Answer(i, reply, session) ==
    request' = [request EXCEPT ![i].stage = "answered", ![i].reply = reply,
                               ![i].session = session]

Arrives(i, kind) == request[i].stage = "answered" /\ request[i].kind = kind

\* The reply is handed over, after others were disowned.
Consumed(i, disowned) == request' = [Disowned(disowned) EXCEPT ![i] = NoRequest]

\* The session an answer names.
Named(i) == IF request[i].reply = "authenticated" THEN request[i].session ELSE None

Usable(s) == s # None /\ s \in live

\* Open a session in place of the one presented, if any.
FreshSession ==
    LET fresh == SessionId \ opened
    IN  IF fresh = {} THEN {} ELSE {CHOOSE s \in fresh : TRUE}

-----------------------------------------------------------------------------
(* The service (authapi): what its handlers answer and do.  It is the        *)
(* other side of Sessions, reduced to which sessions are usable.             *)

\* SessionHandler: reading a session is authenticated, never permissioned.
HandleResolve(i) ==
    /\ request[i].stage = "sent" /\ request[i].kind = "resolve"
    /\ IF Usable(request[i].cookie)
       THEN Answer(i, "authenticated", request[i].cookie)
       ELSE Answer(i, "anonymous", None)
    /\ UNCHANGED <<page, serviceVars>>

\* The session, then its CSRF token, then the permission, which may be withdrawn.
HandleActivity(i) ==
    LET usable == Usable(request[i].cookie)
    IN  /\ request[i].stage = "sent" /\ request[i].kind = "activity"
        /\ \/ ~usable /\ Answer(i, "unauthenticated", None)
           \/ usable /\ Answer(i, "forbidden", None)
           \/ /\ usable /\ request[i].token = request[i].cookie
              /\ Answer(i, "accepted", None)
        /\ UNCHANGED <<page, serviceVars>>

\* A session that is gone is a sign-out that was accomplished.
HandleSignOut(i) ==
    LET s == request[i].cookie
    IN  /\ request[i].stage = "sent" /\ request[i].kind = "sign out"
        /\ IF Usable(s) /\ request[i].token # s
           THEN Answer(i, "failed", None) /\ live' = live
           ELSE Answer(i, "ended", None) /\ live' = live \ {s}
        /\ UNCHANGED <<page, cookie, opened>>

\* The session the request presented is replaced.
HandleSignIn(i) ==
    /\ request[i].stage = "sent" /\ request[i].kind = "sign in"
    /\ \/ \E s \in FreshSession :
            /\ Answer(i, "authenticated", s)
            /\ opened' = opened \cup {s}
            /\ live' = (live \ {request[i].cookie}) \cup {s}
       \/ Answer(i, "refused", None) /\ UNCHANGED <<opened, live>>
    /\ UNCHANGED <<page, cookie>>

HandleSubmission(i) ==
    /\ request[i].stage = "sent" /\ request[i].kind \in Anonymous
    /\ \E reply \in {"accepted", "refused"} : Answer(i, reply, None)
    /\ UNCHANGED <<page, serviceVars>>

\* Any request may be refused for its rate, which a sign-out takes for a failure.
Throttle(i) ==
    /\ request[i].stage = "sent"
    /\ Answer(i, IF request[i].kind = "sign out" THEN "failed" ELSE "rate-limited", None)
    /\ UNCHANGED <<page, serviceVars>>

\* Any request may be lost, or its answer, which matters where the service changed.
Lost(i) ==
    /\ \/ request[i].stage = "sent"
       \/ request[i].stage = "answered" /\ request[i].kind \in Changing
    /\ request[i].reply # "failed"
    /\ Answer(i, "failed", request[i].session)
    /\ UNCHANGED <<page, serviceVars>>

Handle(i) ==
    HandleResolve(i) \/ HandleActivity(i) \/ HandleSignOut(i) \/ HandleSignIn(i)
      \/ HandleSubmission(i)

\* Other tabs share the cookie; sessions also end by themselves.
OtherTabSignsIn ==
    /\ \E s \in FreshSession :
         /\ opened' = opened \cup {s}
         /\ live' = (live \ {cookie}) \cup {s}
         /\ cookie' = s
    /\ UNCHANGED <<page, request>>

SessionEnds ==
    /\ \E s \in live : live' = live \ {s}
    /\ UNCHANGED <<page, cookie, opened, request>>

Outside ==
    \/ \E i \in Slot : Handle(i) \/ Throttle(i) \/ Lost(i)
    \/ OtherTabSignsIn \/ SessionEnds
=============================================================================
