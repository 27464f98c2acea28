------------------------------ MODULE Web_proofs ------------------------------
(***************************************************************************)
(* What a tab does with late, lost and overtaken replies, proved for any   *)
(* number of requests under way and of sessions.                           *)
(*                                                                         *)
(* A reply that still decides something is one the mounted component waits *)
(* for, and the last of its kind; so a component that does not wait may    *)
(* ask, and a component that is answered has nothing else under way.       *)
(***************************************************************************)
EXTENDS Web, TLAPS

-----------------------------------------------------------------------------
(* The inductive invariant.                                                  *)

\* What the component a request belongs to remembers of it.
Awaited(i) ==
    /\ request[i].kind = "resolve" => controls.status # "none"
    /\ request[i].kind = "activity" => reporter.inFlight
    /\ request[i].kind = "sign out" => controls.ending
    /\ request[i].kind \in {"sign in", "register", "resend"} => form.kind = request[i].kind
    /\ request[i].kind \in {"register", "resend"} => form.inFlight
    /\ request[i].kind = "verify" => panel.inFlight

LiveIsAwaited == \A i \in Slot : request[i].live => request[i].last /\ Awaited(i)

OneLive ==
    \A i, j \in Slot :
      request[i].live /\ request[j].live /\ request[i].kind = request[j].kind => i = j

\* A session has a reporter, which works while one is shown; a hold is that of a state
\* without one; and a gesture waits only as long as it is owed a signal.
ControlsSound ==
    /\ controls.status = "none" => controls = NoControls
    /\ controls.session = None => reporter = NoReporter
    /\ controls.held => controls.session = None
    /\ reporter.pending => earned

\* What may be submitted within the task of a submission was open when that began.
FormSound == form.stale => ~form.held

\* Up to its first run the effect finds the link as it came; and the panel offers a form
\* only where it waits for nothing any more.
PanelSound ==
    /\ panel.shown = "none" => panel.effect = "over"
    /\ panel.shown \in {"checking", "rate-limited", "unavailable"} => form.kind = "none"
    /\ panel.inFlight => panel.shown = "checking"
    /\ panel.stale => panel.inFlight
    /\ panel.effect = "first" =>
         /\ panel.shown = "checking" /\ panel.fragment = panel.link
         /\ ~panel.inFlight /\ ~panel.held

\* An answer that somebody is signed in names the session.
NamingRequest == {r \in Request : r.reply = "authenticated" => r.session # None}

BrowserInv == BrowserTypeOK /\ request \in [Slot -> NamingRequest]
ControlsInv == ControlsTypeOK /\ ControlsSound
FormsInv == FormsTypeOK /\ FormSound /\ PanelSound
RequestsInv == LiveIsAwaited /\ OneLive

IInv == BrowserInv /\ ControlsInv /\ FormsInv /\ RequestsInv

-----------------------------------------------------------------------------
(* What becomes of the requests.                                             *)

\* A request that is neither made nor handed over keeps its kind, is not sent again and
\* comes to life no more; those of some kinds decide nothing afterwards.
Stays(j, kinds) ==
    /\ request'[j].kind = request[j].kind
    /\ request'[j].live => request[j].live /\ request[j].kind \notin kinds
    /\ request[j].stage = "answered" => request'[j].stage = "answered"
    /\ request'[j].stage = "sent" => request[j].stage = "sent"

LEMMA SlotIsFree ==
  ASSUME NEW i \in FreeSlot
  PROVE  i \in Slot /\ request[i].stage = "none"
<1> DEFINE free == {k \in Slot : request[k].stage = "none"}
<1>1. free # {} /\ i = CHOOSE k \in free : TRUE
  BY DEF FreeSlot
<1>2. i \in free
  BY <1>1
<1> QED
  BY <1>2

LEMMA DisownedRequest ==
  ASSUME BrowserInv, NEW kinds, NEW j \in Slot
  PROVE  LET r == Disowned(kinds)[j]
         IN  /\ r \in NamingRequest
             /\ r.kind = request[j].kind /\ r.last = request[j].last
             /\ r.live => request[j].live /\ request[j].kind \notin kinds
             /\ request[j].stage = "answered" => r.stage = "answered"
             /\ r.stage = "sent" => request[j].stage = "sent"
<1>1. request[j] \in NamingRequest
  BY DEF BrowserInv
<1>2. Disowned(kinds)[j] = IF request[j].kind \in kinds THEN Disown(request[j]) ELSE request[j]
  BY DEF Disowned
<1>3. CASE request[j].kind \notin kinds
  BY <1>1, <1>2, <1>3
<1>4. CASE request[j].kind \in kinds /\ request[j].kind \in Changing
  <2>1. Disowned(kinds)[j] = [request[j] EXCEPT !.live = FALSE]
    BY <1>2, <1>4 DEF Disown
  <2> QED
    BY <1>1, <2>1 DEF Request, NamingRequest
<1>5. CASE request[j].kind \in kinds /\ request[j].kind \notin Changing
  <2>1. Disowned(kinds)[j] =
          [NoRequest EXCEPT !.kind = request[j].kind, !.stage = "answered",
                            !.reply = "failed", !.last = request[j].last]
    BY <1>2, <1>5 DEF Disown
  <2> QED
    BY <1>1, <2>1 DEF Request, NamingRequest, NoRequest, Reply
<1> QED
  BY <1>3, <1>4, <1>5

LEMMA FetchedRequests ==
  ASSUME BrowserInv, NEW i \in Slot, NEW kind \in Kind, NEW kinds,
         NEW token \in SessionId \cup {None}, FetchAt(i, kind, token, kinds)
  PROVE  /\ request' \in [Slot -> NamingRequest]
         /\ request'[i].kind = kind /\ request'[i].stage = "sent"
         /\ request'[i].live /\ request'[i].last
         /\ \A j \in Slot \ {i} :
              /\ Stays(j, kinds)
              /\ request'[j].last = (request[j].last /\ request[j].kind # kind)
<1> DEFINE rest == Overtaken(Disowned(kinds), {kind})
           r(j) == Disowned(kinds)[j]
<1>1. request' = [rest EXCEPT ![i] = Sent(kind, token)]
  BY DEF FetchAt
<1>2. rest = [j \in Slot |-> [r(j) EXCEPT !.last = @ /\ r(j).kind \notin {kind}]]
  BY DEF Overtaken
<1>3. /\ Sent(kind, token) \in NamingRequest
      /\ Sent(kind, token).kind = kind /\ Sent(kind, token).stage = "sent"
      /\ Sent(kind, token).live = TRUE /\ Sent(kind, token).last = TRUE
  BY DEF Sent, NoRequest, Request, NamingRequest, Reply, BrowserInv, BrowserTypeOK
<1>4. request'[i] = Sent(kind, token)
  BY <1>1, <1>2
<1>5. ASSUME NEW j \in Slot \ {i}
      PROVE  /\ request'[j] \in NamingRequest
             /\ Stays(j, kinds)
             /\ request'[j].last = (request[j].last /\ request[j].kind # kind)
  <2>1. request'[j] = [r(j) EXCEPT !.last = @ /\ r(j).kind \notin {kind}]
    BY <1>1, <1>2
  <2>2. /\ r(j) \in NamingRequest
        /\ r(j).kind = request[j].kind /\ r(j).last = request[j].last
        /\ r(j).live => request[j].live /\ request[j].kind \notin kinds
        /\ request[j].stage = "answered" => r(j).stage = "answered"
        /\ r(j).stage = "sent" => request[j].stage = "sent"
    BY DisownedRequest
  <2> HIDE DEF r
  <2>3. /\ request'[j] \in NamingRequest
        /\ request'[j].kind = r(j).kind /\ request'[j].live = r(j).live
        /\ request'[j].stage = r(j).stage
        /\ request'[j].last = (r(j).last /\ r(j).kind # kind)
    BY <2>1, <2>2 DEF Request, NamingRequest
  <2> QED
    BY <2>2, <2>3 DEF Stays
<1>6. request' \in [Slot -> NamingRequest]
  <2>1. request' = [j \in Slot |-> request'[j]]
    BY <1>1, <1>2
  <2> QED
    BY <1>3, <1>4, <1>5, <2>1
<1> QED
  BY <1>3, <1>4, <1>5, <1>6

LEMMA ConsumedRequests ==
  ASSUME BrowserInv, NEW i \in Slot, NEW kinds, Consumed(i, kinds)
  PROVE  /\ request' \in [Slot -> NamingRequest]
         /\ request'[i] = NoRequest
         /\ \A j \in Slot \ {i} : Stays(j, kinds) /\ request'[j].last = request[j].last
<1>1. request' = [Disowned(kinds) EXCEPT ![i] = NoRequest]
  BY DEF Consumed
<1>2. Disowned(kinds) = [j \in Slot |-> Disowned(kinds)[j]]
  BY DEF Disowned
<1>3. request'[i] = NoRequest /\ \A j \in Slot \ {i} : request'[j] = Disowned(kinds)[j]
  BY <1>1, <1>2
<1>4. NoRequest \in NamingRequest
  BY DEF NoRequest, Request, NamingRequest, Reply
<1>5. request' \in [Slot -> NamingRequest]
  BY <1>1, <1>2, <1>3, <1>4, DisownedRequest
<1>6. \A j \in Slot \ {i} : Stays(j, kinds) /\ request'[j].last = request[j].last
  BY <1>3, DisownedRequest DEF Stays
<1> QED
  BY <1>3, <1>5, <1>6

LEMMA OutlivedRequests ==
  ASSUME BrowserInv, NEW kinds, request' = Overtaken(Disowned(kinds), kinds)
  PROVE  /\ request' \in [Slot -> NamingRequest]
         /\ \A j \in Slot :
              Stays(j, kinds) /\ request'[j].last = (request[j].last /\ request[j].kind \notin kinds)
<1> DEFINE r(j) == Disowned(kinds)[j]
<1>1. request' = [j \in Slot |-> [r(j) EXCEPT !.last = @ /\ r(j).kind \notin kinds]]
  BY DEF Overtaken
<1>2. ASSUME NEW j \in Slot
      PROVE  /\ request'[j] \in NamingRequest
             /\ Stays(j, kinds)
             /\ request'[j].last = (request[j].last /\ request[j].kind \notin kinds)
  <2>1. request'[j] = [r(j) EXCEPT !.last = @ /\ r(j).kind \notin kinds]
    BY <1>1
  <2>2. /\ r(j) \in NamingRequest
        /\ r(j).kind = request[j].kind /\ r(j).last = request[j].last
        /\ r(j).live => request[j].live /\ request[j].kind \notin kinds
        /\ request[j].stage = "answered" => r(j).stage = "answered"
        /\ r(j).stage = "sent" => request[j].stage = "sent"
    BY DisownedRequest
  <2> HIDE DEF r
  <2>3. /\ request'[j] \in NamingRequest
        /\ request'[j].kind = r(j).kind /\ request'[j].live = r(j).live
        /\ request'[j].stage = r(j).stage
        /\ request'[j].last = (r(j).last /\ r(j).kind \notin kinds)
    BY <2>1, <2>2 DEF Request, NamingRequest
  <2> QED
    BY <2>2, <2>3 DEF Stays
<1> HIDE DEF r
<1>3. request' \in [Slot -> NamingRequest]
  <2>1. request' = [j \in Slot |-> request'[j]]
    BY <1>1
  <2> QED
    BY <1>2, <2>1
<1> QED
  BY <1>2, <1>3

LEMMA AnsweredRequests ==
  ASSUME BrowserInv, NEW i \in Slot, NEW reply \in Reply,
         NEW session \in SessionId \cup {None}, Answer(i, reply, session),
         reply = "authenticated" => session # None
  PROVE  /\ request' \in [Slot -> NamingRequest]
         /\ \A j \in Slot : /\ Stays(j, {})
                            /\ request'[j].live = request[j].live
                            /\ request'[j].last = request[j].last
<1>1. request' = [request EXCEPT ![i] =
                    [request[i] EXCEPT !.stage = "answered", !.reply = reply,
                                       !.session = session]]
  BY DEF Answer, BrowserInv
<1>2. request'[i] = [request[i] EXCEPT !.stage = "answered", !.reply = reply,
                                       !.session = session]
      /\ \A j \in Slot \ {i} : request'[j] = request[j]
  BY <1>1 DEF BrowserInv
<1>3. request[i] \in NamingRequest
  BY DEF BrowserInv
<1>4. /\ request'[i] \in NamingRequest
      /\ request'[i].kind = request[i].kind /\ request'[i].live = request[i].live
      /\ request'[i].last = request[i].last /\ request'[i].stage = "answered"
  BY <1>2, <1>3 DEF Request, NamingRequest
<1>5. request' \in [Slot -> NamingRequest]
  BY <1>1, <1>2, <1>4 DEF BrowserInv
<1> QED
  BY <1>2, <1>4, <1>5 DEF Stays

-----------------------------------------------------------------------------
(* What is still alive afterwards.                                           *)

\* A request that was alive before, waited for and the last of its kind.
Lives(j) ==
    /\ request[j].live /\ Awaited(j)
    /\ request'[j].kind = request[j].kind /\ request'[j].last

\* Whoever asks has no other request of the kind that he would leave alive.
LEMMA LiveAfterFetch ==
  ASSUME BrowserInv, RequestsInv, NEW i \in Slot, NEW kind \in Kind, NEW kinds,
         NEW token \in SessionId \cup {None}, FetchAt(i, kind, token, kinds),
         \A j \in Slot : request[j].live /\ request[j].kind = kind => kind \in kinds
  PROVE  /\ OneLive'
         /\ request'[i].last /\ request'[i].kind = kind
         /\ \A j \in Slot \ {i} : request'[j].live =>
              Lives(j) /\ request[j].kind \notin kinds /\ request[j].kind # kind
<1>0. /\ request'[i].last /\ request'[i].kind = kind
      /\ \A j \in Slot \ {i} :
           /\ Stays(j, kinds)
           /\ request'[j].last = (request[j].last /\ request[j].kind # kind)
  BY FetchedRequests
<1>1. ASSUME NEW j \in Slot \ {i}, request'[j].live
      PROVE  Lives(j) /\ request[j].kind \notin kinds /\ request[j].kind # kind
  <2>1. request[j].live /\ request[j].kind \notin kinds /\ request'[j].kind = request[j].kind
    BY <1>0, <1>1 DEF Stays
  <2>2. request[j].last /\ Awaited(j)
    BY <2>1 DEF RequestsInv, LiveIsAwaited
  <2> QED
    BY <1>0, <2>1, <2>2 DEF Lives
<1>2. request'[i].last /\ request'[i].kind = kind
  BY <1>0
<1>3. OneLive'
  BY <1>1, <1>2 DEF OneLive, RequestsInv, Lives
<1> QED
  BY <1>1, <1>2, <1>3

LEMMA LiveAfterConsumed ==
  ASSUME BrowserInv, RequestsInv, NEW i \in Slot, NEW kinds, Consumed(i, kinds)
  PROVE  /\ OneLive'
         /\ \A j \in Slot : request'[j].live =>
              /\ j # i /\ Lives(j) /\ request[j].kind \notin kinds
              /\ request[i].live => request[j].kind # request[i].kind
<1>1. ~request'[i].live
  BY ConsumedRequests DEF NoRequest
<1>2. \A j \in Slot \ {i} : request'[j].live => Lives(j) /\ request[j].kind \notin kinds
  BY ConsumedRequests DEF Stays, Lives, RequestsInv, LiveIsAwaited
<1>3. OneLive'
  BY <1>1, <1>2 DEF OneLive, RequestsInv, Lives
<1> QED
  BY <1>1, <1>2, <1>3 DEF OneLive, RequestsInv, Lives

LEMMA LiveAfterLeaving ==
  ASSUME BrowserInv, RequestsInv, NEW kinds, request' = Overtaken(Disowned(kinds), kinds)
  PROVE  /\ OneLive'
         /\ \A j \in Slot : request'[j].live => Lives(j) /\ request[j].kind \notin kinds
<1>1. \A j \in Slot : request'[j].live => Lives(j) /\ request[j].kind \notin kinds
  BY OutlivedRequests DEF Stays, Lives, RequestsInv, LiveIsAwaited
<1> QED
  BY <1>1 DEF OneLive, RequestsInv, Lives

-----------------------------------------------------------------------------
(* The session controls.                                                     *)

\* The forms take no notice of what stays on the page.
LEMMA FormsStay ==
  ASSUME FormsInv, UNCHANGED <<page, formVars>>
  PROVE  FormsInv'
BY DEF FormsInv, FormsTypeOK, FormSound, PanelSound, formVars

LEMMA ControlsStay ==
  ASSUME ControlsInv, UNCHANGED <<page, controlsVars>>
  PROVE  ControlsInv'
BY DEF ControlsInv, ControlsTypeOK, ControlsSound, controlsVars

LEMMA MountControlsKeeps ==
  ASSUME IInv, MountControls, UNCHANGED formVars
  PROVE  IInv'
<1> USE DEF IInv
<1>1. PICK i \in Slot : FetchAt(i, "resolve", None, {"resolve"})
  BY SlotIsFree DEF MountControls, Resolve, Fetch
<1>2. "resolve" \in Kind /\ None \in SessionId \cup {None}
  BY DEF Kind, ControlsKind
<1>3. BrowserInv'
  BY <1>1, <1>2, FetchedRequests DEF MountControls, serviceVars, BrowserInv, BrowserTypeOK, NamingRequest, Request
<1>4. ControlsInv'
  BY DEF MountControls, ControlsInv, ControlsTypeOK, ControlsSound, Controls, NoControls
<1>5. FormsInv'
  BY FormsStay DEF MountControls
<1>6. controls'.ending = controls.ending /\ controls'.status # "none"
  BY DEF MountControls, ControlsInv, ControlsSound, NoControls
<1>7. /\ OneLive' /\ request'[i].last /\ request'[i].kind = "resolve"
      /\ \A j \in Slot \ {i} : request'[j].live => Lives(j)
  BY <1>1, <1>2, LiveAfterFetch
<1>8. RequestsInv'
  BY <1>6, <1>7 DEF RequestsInv, LiveIsAwaited, Lives, Awaited, MountControls, formVars
<1> QED
  BY <1>3, <1>4, <1>5, <1>8

LEMMA RetryKeeps ==
  ASSUME IInv, Retry, UNCHANGED formVars
  PROVE  IInv'
<1> USE DEF IInv
<1>1. PICK i \in Slot : FetchAt(i, "resolve", None, {"resolve"})
  BY SlotIsFree DEF Retry, Resolve, Fetch
<1>2. "resolve" \in Kind /\ None \in SessionId \cup {None}
  BY DEF Kind, ControlsKind
<1>3. BrowserInv'
  BY <1>1, <1>2, FetchedRequests DEF Retry, serviceVars, BrowserInv, BrowserTypeOK, NamingRequest, Request
<1>4. ControlsInv' /\ FormsInv'
  BY ControlsStay, FormsStay DEF Retry
<1>5. /\ OneLive' /\ request'[i].last /\ request'[i].kind = "resolve"
      /\ \A j \in Slot \ {i} : request'[j].live => Lives(j)
  BY <1>1, <1>2, LiveAfterFetch
<1>6. RequestsInv'
  BY <1>5 DEF RequestsInv, LiveIsAwaited, Lives, Awaited, Retry, formVars, controlsVars
<1> QED
  BY <1>3, <1>4, <1>6

LEMMA SignOutKeeps ==
  ASSUME IInv, SignOut, UNCHANGED formVars
  PROVE  IInv'
<1> USE DEF IInv
<1>1. PICK i \in Slot, token \in SessionId \cup {None} : FetchAt(i, "sign out", token, {})
  BY SlotIsFree DEF SignOut, Fetch, ControlsInv, ControlsTypeOK, Controls
<1>2. "sign out" \in Kind
  BY DEF Kind, ControlsKind
<1>3. BrowserInv'
  BY <1>1, <1>2, FetchedRequests DEF SignOut, serviceVars, BrowserInv, BrowserTypeOK, NamingRequest, Request
<1>4. ControlsInv'
  BY DEF SignOut, ControlsInv, ControlsTypeOK, ControlsSound, Controls
<1>5. FormsInv'
  BY FormsStay DEF SignOut
<1>6. \A j \in Slot : request[j].live /\ request[j].kind = "sign out" => "sign out" \in {}
  BY DEF SignOut, RequestsInv, LiveIsAwaited, Awaited
<1>7. controls'.ending /\ controls'.status # "none"
  BY DEF SignOut, ControlsInv, ControlsTypeOK, Controls
<1>8. /\ OneLive' /\ request'[i].last /\ request'[i].kind = "sign out"
      /\ \A j \in Slot \ {i} : request'[j].live => Lives(j)
  BY <1>1, <1>2, <1>6, LiveAfterFetch
<1>9. RequestsInv'
  BY <1>7, <1>8 DEF RequestsInv, LiveIsAwaited, Lives, Awaited, SignOut, formVars
<1> QED
  BY <1>3, <1>4, <1>5, <1>9

LEMMA HoldElapsesKeeps ==
  ASSUME IInv, HoldElapses, UNCHANGED formVars
  PROVE  IInv'
<1> USE DEF IInv
<1>1. BrowserInv' /\ FormsInv'
  BY FormsStay DEF HoldElapses, browserVars, BrowserInv, BrowserTypeOK, NamingRequest, Request
<1>2. controls.status # "none" /\ controls.session = None
  BY DEF HoldElapses, ControlsInv, ControlsSound, NoControls
<1>3. /\ controls' \in Controls /\ controls'.held = FALSE
      /\ controls'.status = controls.status /\ controls'.session = controls.session
  BY DEF HoldElapses, ControlsInv, ControlsTypeOK, Controls
<1>4. ControlsInv'
  BY <1>2, <1>3 DEF HoldElapses, ControlsInv, ControlsTypeOK, ControlsSound, browserVars
<1>5. RequestsInv'
  BY DEF HoldElapses, ControlsInv, ControlsTypeOK, Controls, RequestsInv, LiveIsAwaited,
         OneLive, Awaited, browserVars, formVars
<1> QED
  BY <1>1, <1>4, <1>5

LEMMA ElapsesKeeps ==
  ASSUME IInv, Elapses, UNCHANGED formVars
  PROVE  IInv'
<1> USE DEF IInv
<1>1. BrowserInv' /\ FormsInv'
  BY FormsStay DEF Elapses, browserVars, BrowserInv, BrowserTypeOK, NamingRequest, Request
<1>2. controls.session # None
  BY DEF Elapses, ControlsInv, ControlsSound, NoReporter, NewReporter
<1>3. ControlsInv'
  BY <1>2 DEF Elapses, ControlsInv, ControlsTypeOK, ControlsSound, Reporter, browserVars
<1>4. reporter'.inFlight = reporter.inFlight
  BY DEF Elapses, ControlsInv, ControlsTypeOK, Reporter
<1>5. RequestsInv'
  BY <1>4 DEF Elapses, RequestsInv, LiveIsAwaited, OneLive, Awaited, browserVars, formVars
<1> QED
  BY <1>1, <1>3, <1>5

LEMMA LeaveHomeKeeps ==
  ASSUME IInv, LeaveHome, UNCHANGED formVars
  PROVE  IInv'
<1> USE DEF IInv
<1>1. BrowserInv'
  BY OutlivedRequests DEF LeaveHome, serviceVars, BrowserInv, BrowserTypeOK, NamingRequest, Request
<1>2. ControlsInv'
  BY DEF LeaveHome, ControlsInv, ControlsTypeOK, ControlsSound, Controls, NoControls,
         Reporter, NoReporter, NewReporter
<1>3. FormsInv'
  BY DEF LeaveHome, FormsInv, FormsTypeOK, FormSound, PanelSound, formVars, Page
<1>4. OneLive' /\ \A j \in Slot : request'[j].live => Lives(j) /\ request[j].kind \notin ControlsKind
  BY LiveAfterLeaving DEF LeaveHome
<1>5. RequestsInv'
  BY <1>4 DEF RequestsInv, LiveIsAwaited, Lives, Awaited, formVars, ControlsKind
<1> QED
  BY <1>1, <1>2, <1>3, <1>5

\* A signal leaves from a reporter that waits for none.
LEMMA SendKeeps ==
  ASSUME IInv, NEW c \in Reporter, Send(c), ~reporter.inFlight, controls.session # None,
         UNCHANGED <<page, serviceVars, controls, formVars>>
  PROVE  IInv'
<1> USE DEF IInv
<1>1. PICK i \in Slot, token \in SessionId \cup {None} : FetchAt(i, "activity", token, {})
  BY SlotIsFree DEF Send, Fetch, ControlsInv, ControlsTypeOK, Controls
<1>2. "activity" \in Kind
  BY DEF Kind, ControlsKind
<1>3. BrowserInv'
  BY <1>1, <1>2, FetchedRequests DEF serviceVars, BrowserInv, BrowserTypeOK, NamingRequest
<1>4. reporter' \in Reporter /\ reporter'.inFlight /\ ~reporter'.pending
  BY DEF Send, Reporter
<1>5. ControlsInv'
  BY <1>4 DEF Send, ControlsInv, ControlsTypeOK, ControlsSound
<1>6. FormsInv'
  BY FormsStay
<1>7. \A j \in Slot : request[j].live /\ request[j].kind = "activity" => "activity" \in {}
  BY DEF RequestsInv, LiveIsAwaited, Awaited
<1>8. /\ OneLive' /\ request'[i].last /\ request'[i].kind = "activity"
      /\ \A j \in Slot \ {i} : request'[j].live => Lives(j)
  BY <1>1, <1>2, <1>7, LiveAfterFetch
<1>9. RequestsInv'
  BY <1>4, <1>8 DEF RequestsInv, LiveIsAwaited, Lives, Awaited, formVars
<1> QED
  BY <1>3, <1>5, <1>6, <1>9

LEMMA GestureKeeps ==
  ASSUME IInv, Gesture, UNCHANGED formVars
  PROVE  IInv'
<1> USE DEF IInv
<1>1. reporter \in Reporter /\ controls.session # None
  BY DEF Gesture, ControlsInv, ControlsTypeOK, ControlsSound, NoReporter, NewReporter
<1>2. CASE Admissible
  <2>1. Send(reporter) /\ ~reporter.inFlight
    BY <1>2 DEF Gesture, Admissible
  <2> QED
    BY <1>1, <2>1, SendKeeps DEF Gesture
<1>3. CASE ~Admissible
  <2>1. /\ reporter' = Armed([reporter EXCEPT !.pending = TRUE]) /\ earned' = TRUE
        /\ UNCHANGED <<page, serviceVars, request, controls>>
    BY <1>3 DEF Gesture
  <2>2. reporter' \in Reporter /\ reporter'.inFlight = reporter.inFlight
    BY <1>1, <2>1 DEF Armed, Reporter
  <2>3. BrowserInv' /\ FormsInv'
    BY <2>1, FormsStay DEF serviceVars, BrowserInv, BrowserTypeOK
  <2>4. ControlsInv'
    BY <1>1, <2>1, <2>2 DEF ControlsInv, ControlsTypeOK, ControlsSound
  <2>5. RequestsInv'
    BY <2>1, <2>2 DEF RequestsInv, LiveIsAwaited, OneLive, Awaited, formVars
  <2> QED
    BY <2>3, <2>4, <2>5
<1> QED
  BY <1>2, <1>3

LEMMA TimerFiresKeeps ==
  ASSUME IInv, TimerFires, UNCHANGED formVars
  PROVE  IInv'
<1> USE DEF IInv
<1> DEFINE fired == [reporter EXCEPT !.timer = "none"]
<1>1. /\ reporter \in Reporter /\ controls.session # None
      /\ UNCHANGED <<page, serviceVars, controls>>
      /\ \/ Admissible /\ Send(fired)
         \/ reporter' = fired /\ UNCHANGED <<request, earned>>
  BY DEF TimerFires, ControlsInv, ControlsTypeOK, ControlsSound, NoReporter, NewReporter
<1>2. /\ fired \in Reporter
      /\ fired.inFlight = reporter.inFlight /\ fired.pending = reporter.pending
  BY <1>1 DEF Reporter
<1> HIDE DEF fired
<1>3. CASE Admissible /\ Send(fired)
  BY <1>1, <1>2, <1>3, SendKeeps DEF Admissible
<1>4. CASE reporter' = fired /\ UNCHANGED <<request, earned>>
  <2>1. BrowserInv' /\ FormsInv'
    BY <1>1, <1>4, FormsStay DEF serviceVars, BrowserInv, BrowserTypeOK
  <2>2. ControlsInv'
    BY <1>1, <1>2, <1>4 DEF ControlsInv, ControlsTypeOK, ControlsSound
  <2>3. RequestsInv'
    BY <1>1, <1>2, <1>4 DEF RequestsInv, LiveIsAwaited, OneLive, Awaited, formVars
  <2> QED
    BY <2>1, <2>2, <2>3
<1> QED
  BY <1>1, <1>3, <1>4

\* What the component shows next takes the reporter of an older session with it.
LEMMA ShowKeeps ==
  ASSUME ControlsInv, NEW next \in Controls, Show(next), page' = page, page = "/",
         next.status # "none", next.session # None <=> next.status = "authenticated",
         next.held => next.session = None
  PROVE  /\ ControlsInv'
         /\ next.session = controls.session => reporter' = reporter
<1>1. reporter' \in Reporter /\ earned' \in BOOLEAN
  BY DEF Show, ControlsInv, ControlsTypeOK, NoReporter, NewReporter, Reporter
<1>2. /\ next.session = controls.session => reporter' = reporter /\ earned' = earned
      /\ next.session # controls.session /\ next.session = None => reporter' = NoReporter
      /\ next.session # controls.session => ~reporter'.pending
  BY DEF Show, ControlsInv, ControlsTypeOK, NoReporter, NewReporter
<1>3. ControlsTypeOK'
  BY <1>1 DEF Show, ControlsTypeOK
<1>4. ControlsSound'
  BY <1>2 DEF Show, ControlsInv, ControlsSound
<1> QED
  BY <1>2, <1>3, <1>4 DEF ControlsInv

\* Whose component still shows something is on the home page.
LEMMA AtHome ==
  ASSUME IInv, controls.status # "none"
  PROVE  page = "/"
BY DEF IInv, ControlsInv, ControlsTypeOK

\* A reply that decides nothing any more.
LEMMA DroppedReplyKeeps ==
  ASSUME IInv, NEW i \in Slot, Consumed(i, {}),
         cookie' \in SessionId \cup {None},
         UNCHANGED <<page, opened, live, controlsVars, formVars>>
  PROVE  IInv'
<1> USE DEF IInv
<1>1. BrowserInv'
  BY ConsumedRequests DEF BrowserInv, BrowserTypeOK, NamingRequest
<1>2. ControlsInv' /\ FormsInv'
  BY ControlsStay, FormsStay
<1>3. OneLive' /\ \A j \in Slot : request'[j].live => Lives(j)
  BY LiveAfterConsumed
<1>4. RequestsInv'
  BY <1>3 DEF RequestsInv, LiveIsAwaited, Lives, Awaited, controlsVars, formVars
<1> QED
  BY <1>1, <1>2, <1>4

LEMMA ResolveReplyKeeps ==
  ASSUME IInv, NEW i \in Slot, ResolveReply(i), UNCHANGED formVars
  PROVE  IInv'
<1> USE DEF IInv
<1> DEFINE reply == request[i].reply
           session == Named(i)
           next == [controls EXCEPT !.status = StatusOf(reply), !.session = session,
                                    !.held = (reply = "rate-limited")]
<1>1. UNCHANGED <<page, serviceVars>> /\ request[i].kind = "resolve"
  BY DEF ResolveReply, Arrives
<1>2. CASE ~request[i].live
  <2>1. cookie' \in SessionId \cup {None}
    BY <1>1 DEF serviceVars, BrowserInv, BrowserTypeOK
  <2> QED
    BY <1>1, <1>2, <2>1, DroppedReplyKeeps DEF ResolveReply, serviceVars, controlsVars
<1>3. CASE request[i].live
  <2>1. Show(next) /\ Consumed(i, OutlivedBy(session))
    BY <1>3 DEF ResolveReply
  <2>2. request[i] \in NamingRequest /\ controls \in Controls
    BY DEF BrowserInv, ControlsInv, ControlsTypeOK
  <2>3. /\ session \in SessionId \cup {None}
        /\ session # None <=> reply = "authenticated"
    BY <2>2 DEF Named, NamingRequest, Request
  <2>4. /\ StatusOf(reply) \in {"anonymous", "authenticated", "rate-limited", "unavailable"}
        /\ StatusOf(reply) = "authenticated" <=> reply = "authenticated"
    BY DEF StatusOf
  <2> HIDE DEF session, reply
  <2>5. /\ next \in Controls /\ next.status = StatusOf(reply) /\ next.session = session
        /\ next.held = (reply = "rate-limited") /\ next.ending = controls.ending
    BY <2>2, <2>3, <2>4 DEF Controls
  <2>6. controls' = next
    BY <2>1 DEF Show
  <2> HIDE DEF next
  <2>7. page = "/"
    BY <1>1, <1>3, AtHome DEF RequestsInv, LiveIsAwaited, Awaited
  <2>8. ControlsInv' /\ (session = controls.session => reporter' = reporter)
    BY <1>1, <2>1, <2>3, <2>4, <2>5, <2>7, ShowKeeps
  <2>9. BrowserInv'
    BY <1>1, <2>1, ConsumedRequests DEF serviceVars, BrowserInv, BrowserTypeOK, NamingRequest
  <2>10. FormsInv'
    BY <1>1, FormsStay
  <2>11. OneLive' /\ \A j \in Slot : request'[j].live =>
           Lives(j) /\ request[j].kind \notin OutlivedBy(session)
    BY <2>1, LiveAfterConsumed
  <2>12. RequestsInv'
    BY <2>4, <2>5, <2>6, <2>8, <2>11
       DEF RequestsInv, LiveIsAwaited, Lives, Awaited, OutlivedBy, formVars
  <2> QED
    BY <2>8, <2>9, <2>10, <2>12
<1> QED
  BY <1>2, <1>3
LEMMA SignOutReplyKeeps ==
  ASSUME IInv, NEW i \in Slot, SignOutReply(i), UNCHANGED formVars
  PROVE  IInv'
<1> USE DEF IInv
<1> DEFINE status == IF request[i].reply = "failed" THEN "unavailable" ELSE "anonymous"
           next == EndedBy([controls EXCEPT !.status = status, !.session = None])
<1>1. /\ UNCHANGED <<page, opened, live>> /\ request[i].kind = "sign out"
      /\ cookie' \in SessionId \cup {None}
  BY DEF SignOutReply, Arrives, BrowserInv, BrowserTypeOK
<1>2. CASE ~request[i].live
  BY <1>1, <1>2, DroppedReplyKeeps DEF SignOutReply, controlsVars
<1>3. CASE request[i].live
  <2>1. Show(next) /\ Consumed(i, OutlivedBy(None))
    BY <1>3 DEF SignOutReply
  <2>2. status \in {"anonymous", "unavailable"} /\ controls \in Controls
    BY DEF ControlsInv, ControlsTypeOK
  <2> HIDE DEF status
  <2>3. next \in Controls /\ next.status = status /\ next.session = None
    BY <2>2 DEF Controls, EndedBy
  <2>4. controls' = next
    BY <2>1 DEF Show
  <2> HIDE DEF next
  <2>5. page = "/"
    <3>1. controls.ending
      BY <1>1, <1>3 DEF RequestsInv, LiveIsAwaited, Awaited
    <3>2. controls # NoControls
      BY <3>1 DEF NoControls
    <3> QED
      BY <3>2, AtHome DEF ControlsInv, ControlsSound
  <2>6. ControlsInv' /\ (None = controls.session => reporter' = reporter)
    BY <1>1, <2>1, <2>2, <2>3, <2>5, ShowKeeps
  <2>7. BrowserInv'
    BY <1>1, <2>1, ConsumedRequests DEF BrowserInv, BrowserTypeOK, NamingRequest
  <2>8. FormsInv'
    BY <1>1, FormsStay
  <2>9. OneLive' /\ \A j \in Slot : request'[j].live =>
          /\ Lives(j) /\ request[j].kind \notin OutlivedBy(None)
          /\ request[j].kind # "sign out"
    BY <1>1, <1>3, <2>1, LiveAfterConsumed
  <2>10. RequestsInv'
    BY <2>2, <2>3, <2>4, <2>6, <2>9
       DEF RequestsInv, LiveIsAwaited, Lives, Awaited, OutlivedBy, formVars
  <2> QED
    BY <2>6, <2>7, <2>8, <2>10
<1> QED
  BY <1>2, <1>3

LEMMA ActivityReplyKeeps ==
  ASSUME IInv, NEW i \in Slot, ActivityReply(i), UNCHANGED formVars
  PROVE  IInv'
<1> USE DEF IInv
<1> DEFINE reply == request[i].reply
           settled == Settled(reply)
           signedOut == [controls EXCEPT !.status = "anonymous", !.session = None]
<1>1. UNCHANGED <<page, serviceVars>> /\ request[i].kind = "activity"
  BY DEF ActivityReply, Arrives
<1>2. /\ FormsInv' /\ reporter \in Reporter /\ controls \in Controls
      /\ cookie' \in SessionId \cup {None}
  BY <1>1, FormsStay
     DEF ControlsInv, ControlsTypeOK, serviceVars, BrowserInv, BrowserTypeOK
<1>3. CASE ~request[i].live
  BY <1>1, <1>2, <1>3, DroppedReplyKeeps DEF ActivityReply, serviceVars, controlsVars
<1>4. ASSUME request[i].live
      PROVE  /\ controls.session # None /\ controls.status = "authenticated"
             /\ page = "/"
  <2>1. reporter.inFlight
    BY <1>1, <1>4 DEF RequestsInv, LiveIsAwaited, Awaited
  <2>2. controls.session # None
    BY <2>1 DEF ControlsInv, ControlsSound, NoReporter, NewReporter
  <2> QED
    BY <2>2, AtHome DEF ControlsInv, ControlsTypeOK
<1>5. ASSUME Consumed(i, {}), request[i].live
      PROVE  /\ BrowserInv' /\ OneLive'
             /\ \A j \in Slot : request'[j].live => Lives(j) /\ request[j].kind # "activity"
  BY <1>1, <1>5, ConsumedRequests, LiveAfterConsumed
     DEF serviceVars, BrowserInv, BrowserTypeOK, NamingRequest
<1>6. settled \in Reporter /\ (settled.pending => reporter.pending /\ reply # "failed")
  BY <1>2 DEF Settled, Reporter
<1>7. CASE request[i].live /\ reply = "unauthenticated"
  <2>1. Show(signedOut) /\ Consumed(i, {})
    BY <1>7 DEF ActivityReply
  <2>2. /\ signedOut \in Controls /\ signedOut.status = "anonymous"
        /\ signedOut.session = None /\ signedOut.ending = controls.ending
    BY <1>2 DEF Controls
  <2>3. controls' = signedOut
    BY <2>1 DEF Show
  <2> HIDE DEF signedOut
  <2>4. ControlsInv'
    BY <1>1, <1>4, <1>7, <2>1, <2>2, ShowKeeps
  <2>5. RequestsInv'
    BY <1>5, <1>7, <2>1, <2>2, <2>3 DEF RequestsInv, LiveIsAwaited, Lives, Awaited, formVars
  <2> QED
    BY <1>2, <1>5, <1>7, <2>1, <2>4, <2>5
<1>8. CASE request[i].live /\ reply = "forbidden"
  <2>1. /\ reporter' = [settled EXCEPT !.stopped = TRUE] /\ earned' = FALSE
        /\ FetchAt(i, "resolve", None, {"resolve"}) /\ controls' = controls
    BY <1>8 DEF ActivityReply
  <2>2. "resolve" \in Kind /\ None \in SessionId \cup {None}
    BY DEF Kind, ControlsKind
  <2>3. BrowserInv'
    BY <1>1, <2>1, <2>2, FetchedRequests
       DEF serviceVars, BrowserInv, BrowserTypeOK, NamingRequest
  <2>4. reporter' \in Reporter /\ ~reporter'.pending
    BY <1>2, <1>8, <2>1 DEF Settled, Reporter
  <2>5. ControlsInv'
    BY <1>1, <1>4, <1>8, <2>1, <2>4 DEF ControlsInv, ControlsTypeOK, ControlsSound
  <2>6. /\ OneLive' /\ request'[i].last /\ request'[i].kind = "resolve"
        /\ \A j \in Slot \ {i} : request'[j].live => Lives(j)
    BY <2>1, <2>2, LiveAfterFetch
  <2>7. \A j \in Slot \ {i} : Lives(j) => request[j].kind # "activity"
    BY <1>1, <1>8 DEF Lives, RequestsInv, OneLive
  <2>8. RequestsInv'
    BY <1>4, <1>8, <2>1, <2>6, <2>7
       DEF RequestsInv, LiveIsAwaited, Lives, Awaited, formVars
  <2> QED
    BY <1>2, <2>3, <2>5, <2>8
<1>9. CASE request[i].live /\ reply \in {"accepted", "rate-limited", "failed"}
  <2>1. /\ reporter' = Armed(settled) /\ earned' = (earned /\ reply # "failed")
        /\ Consumed(i, {}) /\ controls' = controls
    BY <1>9 DEF ActivityReply
  <2> HIDE DEF settled
  <2>2. reporter' \in Reporter /\ reporter'.pending = settled.pending
    BY <1>6, <2>1 DEF Armed, Reporter
  <2>3. ControlsInv'
    BY <1>1, <1>4, <1>6, <1>9, <2>1, <2>2 DEF ControlsInv, ControlsTypeOK, ControlsSound
  <2>4. RequestsInv'
    BY <1>5, <1>9, <2>1 DEF RequestsInv, LiveIsAwaited, Lives, Awaited, formVars
  <2> QED
    BY <1>2, <1>5, <1>9, <2>1, <2>3, <2>4
<1> QED
  BY <1>3, <1>7, <1>8, <1>9 DEF ActivityReply

LEMMA ControlsKeep ==
  ASSUME IInv, ControlsNext, UNCHANGED formVars
  PROVE  IInv'
BY MountControlsKeeps, RetryKeeps, HoldElapsesKeeps, SignOutKeeps, GestureKeeps,
   TimerFiresKeeps, ResolveReplyKeeps, SignOutReplyKeeps, ActivityReplyKeeps,
   ElapsesKeeps, LeaveHomeKeeps
   DEF ControlsNext, ControlsReply

-----------------------------------------------------------------------------
(* The forms and the verification panel.                                     *)

LEMMA MountFormKeeps ==
  ASSUME IInv, MountForm, UNCHANGED controlsVars
  PROVE  IInv'
<1> USE DEF IInv
<1>1. /\ UNCHANGED browserVars /\ page # "/" /\ form.kind = "none" /\ panel.shown = "none"
      /\ form \in Form /\ panel \in Panel
  BY DEF MountForm, Mounted, FormsInv, FormsTypeOK, PanelSound
<1>2. BrowserInv' /\ ControlsInv'
  BY <1>1, ControlsStay DEF browserVars, BrowserInv, BrowserTypeOK
<1>3. ~panel.inFlight /\ page' = page
  BY <1>1 DEF FormsInv, PanelSound, browserVars
<1>4. \A j \in Slot : request[j].live =>
        request[j].kind \notin {"sign in", "register", "resend", "verify"}
  BY <1>1, <1>3 DEF RequestsInv, LiveIsAwaited, Awaited
<1>5. RequestsInv'
  BY <1>1, <1>4
     DEF RequestsInv, LiveIsAwaited, OneLive, Awaited, browserVars, controlsVars
<1>6. CASE \E kind \in {"sign in", "register"} : form' = NewForm(kind) /\ panel' = panel
  <2>1. form' \in Form /\ form'.stale = FALSE /\ panel' = panel
    BY <1>1, <1>6 DEF Form, NewForm, NoForm
  <2> QED
    BY <1>1, <1>2, <1>3, <1>5, <2>1 DEF FormsInv, FormsTypeOK, FormSound, PanelSound
<1>7. CASE /\ page = "/verify-email" /\ form' = form
           /\ \E link \in Link :
                panel' = [NoPanel EXCEPT !.shown = "checking", !.effect = "first",
                                         !.link = link, !.fragment = link]
  <2>1. PICK link \in Link :
          panel' = [NoPanel EXCEPT !.shown = "checking", !.effect = "first",
                                   !.link = link, !.fragment = link]
    BY <1>7
  <2>2. /\ panel' \in Panel /\ panel'.shown = "checking" /\ panel'.effect = "first"
        /\ panel'.link = link /\ panel'.fragment = link
        /\ ~panel'.inFlight /\ ~panel'.held /\ ~panel'.stale
    BY <2>1 DEF NoPanel, Panel, Link
  <2> QED
    BY <1>1, <1>2, <1>3, <1>5, <1>7, <2>2
       DEF FormsInv, FormsTypeOK, FormSound, PanelSound
<1> QED
  BY <1>6, <1>7 DEF MountForm

LEMMA SubmitSignInKeeps ==
  ASSUME IInv, SubmitSignIn, UNCHANGED controlsVars
  PROVE  IInv'
<1> USE DEF IInv
<1>1. PICK i \in Slot : FetchAt(i, "sign in", None, {"sign in"})
  BY SlotIsFree DEF SubmitSignIn, Fetch
<1>2. "sign in" \in Kind /\ None \in SessionId \cup {None}
  BY DEF Kind, FormKind
<1>3. BrowserInv'
  BY <1>1, <1>2, FetchedRequests
     DEF SubmitSignIn, serviceVars, BrowserInv, BrowserTypeOK, NamingRequest
<1>4. /\ form' \in Form /\ form'.kind = form.kind /\ form'.held = form.held
      /\ form'.inFlight = form.inFlight /\ form.kind = "sign in"
  BY DEF SubmitSignIn, FormsInv, FormsTypeOK, Form
<1>5. ~form.held
  BY DEF SubmitSignIn, Blocked, FormsInv, FormSound
<1>6. ControlsInv'
  BY ControlsStay DEF SubmitSignIn
<1>7. FormsInv'
  BY <1>4, <1>5 DEF SubmitSignIn, FormsInv, FormsTypeOK, FormSound, PanelSound
<1>8. /\ OneLive' /\ request'[i].last /\ request'[i].kind = "sign in"
      /\ \A j \in Slot \ {i} : request'[j].live => Lives(j)
  BY <1>1, <1>2, LiveAfterFetch
<1>9. RequestsInv'
  BY <1>4, <1>8 DEF RequestsInv, LiveIsAwaited, Lives, Awaited, SubmitSignIn, controlsVars
<1> QED
  BY <1>3, <1>6, <1>7, <1>9

LEMMA SubmitKeeps ==
  ASSUME IInv, Submit, UNCHANGED controlsVars
  PROVE  IInv'
<1> USE DEF IInv
<1>1. PICK kind \in {"register", "resend"} : kind = form.kind
  BY DEF Submit
<1>2. PICK i \in Slot : FetchAt(i, kind, None, {})
  BY <1>1, SlotIsFree DEF Submit, Fetch
<1>3. kind \in Kind /\ None \in SessionId \cup {None}
  BY DEF Kind, FormKind
<1>4. BrowserInv'
  BY <1>2, <1>3, FetchedRequests
     DEF Submit, serviceVars, BrowserInv, BrowserTypeOK, NamingRequest
<1>5. /\ form' \in Form /\ form'.kind = form.kind /\ form'.held = form.held
      /\ form'.inFlight
  BY DEF Submit, FormsInv, FormsTypeOK, Form
<1>6. ~form.held /\ ~form.inFlight
  BY DEF Submit, MaySubmit, Blocked, FormsInv, FormSound
<1>7. ControlsInv'
  BY ControlsStay DEF Submit
<1>8. FormsInv'
  BY <1>5, <1>6 DEF Submit, FormsInv, FormsTypeOK, FormSound, PanelSound
<1>9. \A j \in Slot : request[j].live /\ request[j].kind = kind => kind \in {}
  BY <1>6 DEF RequestsInv, LiveIsAwaited, Awaited
<1>10. /\ OneLive' /\ request'[i].last /\ request'[i].kind = kind
       /\ \A j \in Slot \ {i} : request'[j].live => Lives(j)
  BY <1>2, <1>3, <1>9, LiveAfterFetch
<1>11. RequestsInv'
  BY <1>1, <1>5, <1>10 DEF RequestsInv, LiveIsAwaited, Lives, Awaited, Submit, controlsVars
<1> QED
  BY <1>4, <1>7, <1>8, <1>11

\* The panel sends its link when it has no other answer to wait for.
LEMMA VerifyKeeps ==
  ASSUME IInv, Fetch("verify", None, {}), ~panel.inFlight, panel' \in Panel,
         panel'.inFlight, panel'.shown = "checking", panel'.effect # "first",
         page = "/verify-email", form.kind = "none",
         UNCHANGED <<page, serviceVars, form, controlsVars>>
  PROVE  IInv'
<1> USE DEF IInv
<1>1. PICK i \in Slot : FetchAt(i, "verify", None, {})
  BY SlotIsFree DEF Fetch
<1>2. "verify" \in Kind /\ None \in SessionId \cup {None}
  BY DEF Kind, FormKind
<1>3. BrowserInv'
  BY <1>1, <1>2, FetchedRequests DEF serviceVars, BrowserInv, BrowserTypeOK, NamingRequest
<1>4. ControlsInv'
  BY ControlsStay
<1>5. FormsInv'
  BY DEF FormsInv, FormsTypeOK, FormSound, PanelSound
<1>6. \A j \in Slot : request[j].live /\ request[j].kind = "verify" => "verify" \in {}
  BY DEF RequestsInv, LiveIsAwaited, Awaited
<1>7. /\ OneLive' /\ request'[i].last /\ request'[i].kind = "verify"
      /\ \A j \in Slot \ {i} : request'[j].live => Lives(j)
  BY <1>1, <1>2, <1>6, LiveAfterFetch
<1>8. RequestsInv'
  BY <1>7 DEF RequestsInv, LiveIsAwaited, Lives, Awaited, controlsVars
<1> QED
  BY <1>3, <1>4, <1>5, <1>8

LEMMA RetryVerificationKeeps ==
  ASSUME IInv, RetryVerification, UNCHANGED controlsVars
  PROVE  IInv'
<1> USE DEF IInv
<1>1. /\ panel.shown \in {"rate-limited", "unavailable"} /\ ~panel.inFlight
      /\ panel \in Panel
  BY DEF RetryVerification, RetryShown, FormsInv, FormsTypeOK, PanelSound
<1>2. page = "/verify-email" /\ form.kind = "none" /\ panel.effect # "first"
  BY <1>1 DEF FormsInv, FormsTypeOK, PanelSound
<1>3. /\ panel' \in Panel /\ panel'.inFlight /\ panel'.shown = "checking"
      /\ panel'.effect = panel.effect
  BY <1>1 DEF RetryVerification, Panel
<1> QED
  BY <1>1, <1>2, <1>3, VerifyKeeps DEF RetryVerification

LEMMA EffectKeeps ==
  ASSUME IInv, Effect, UNCHANGED controlsVars
  PROVE  IInv'
<1> USE DEF IInv
<1> DEFINE ran == [panel EXCEPT !.effect = IF @ = "first" THEN "again" ELSE "over"]
           read == [ran EXCEPT !.fragment = "empty", !.token = (panel.fragment = "valid")]
           shown == IF panel.fragment = "empty" THEN "absent" ELSE "refused"
<1>1. /\ panel.effect # "over" /\ UNCHANGED <<page, serviceVars>>
      /\ \/ ~Starts /\ panel' = ran /\ UNCHANGED <<form, request>>
         \/ Starts /\ panel' = [read EXCEPT !.shown = shown] /\ Offers(shown)
              /\ UNCHANGED <<request>>
         \/ /\ Starts /\ panel' = [read EXCEPT !.inFlight = TRUE]
            /\ Fetch("verify", None, {}) /\ UNCHANGED form
  BY DEF Effect
<1>2. panel \in Panel /\ form \in Form /\ panel.shown # "none"
  BY <1>1 DEF FormsInv, FormsTypeOK, PanelSound
<1>3. /\ ran \in Panel /\ ran.effect # "first"
      /\ ran.shown = panel.shown /\ ran.inFlight = panel.inFlight /\ ran.stale = panel.stale
  BY <1>2 DEF Panel
<1>4. ControlsInv' /\ page = "/verify-email"
  BY <1>1, <1>2, ControlsStay DEF FormsInv, FormsTypeOK
<1>5. ASSUME request' = request
      PROVE  BrowserInv'
  BY <1>1, <1>5 DEF serviceVars, BrowserInv, BrowserTypeOK
<1>6. CASE ~Starts /\ panel' = ran /\ UNCHANGED <<form, request>>
  <2> HIDE DEF ran
  <2>1. FormsInv'
    BY <1>1, <1>2, <1>3, <1>6 DEF FormsInv, FormsTypeOK, FormSound, PanelSound
  <2>2. RequestsInv'
    BY <1>3, <1>6 DEF RequestsInv, LiveIsAwaited, OneLive, Awaited, controlsVars
  <2> QED
    BY <1>4, <1>5, <1>6, <2>1, <2>2
<1>7. ASSUME Starts
      PROVE  /\ form.kind = "none" /\ panel.shown = "checking" /\ ~panel.inFlight
             /\ ~panel.stale
  BY <1>7 DEF Starts, FormsInv, PanelSound
<1>8. CASE /\ Starts /\ panel' = [read EXCEPT !.shown = shown] /\ Offers(shown)
           /\ UNCHANGED <<request>>
  <2>1. shown \in {"absent", "refused"}
    OBVIOUS
  <2>2. form' = NewForm("resend")
    BY <1>8, <2>1 DEF Offers
  <2>3. form' \in Form /\ ~form'.stale
    BY <2>2 DEF Form, NewForm, NoForm
  <2>4. /\ read \in Panel /\ read.effect = ran.effect
        /\ read.inFlight = ran.inFlight /\ read.stale = ran.stale
    BY <1>3 DEF Panel, Link
  <2> HIDE DEF shown, read, ran
  <2>5. /\ panel' \in Panel /\ panel'.effect # "first" /\ panel'.shown = shown
        /\ ~panel'.inFlight /\ ~panel'.stale
    BY <1>3, <1>7, <1>8, <2>1, <2>4 DEF Panel
  <2>6. FormsInv'
    BY <1>1, <1>4, <2>1, <2>3, <2>5 DEF FormsInv, FormsTypeOK, FormSound, PanelSound
  <2>7. \A j \in Slot : request[j].live =>
          request[j].kind \notin {"sign in", "register", "resend", "verify"}
    BY <1>7, <1>8 DEF RequestsInv, LiveIsAwaited, Awaited
  <2>8. RequestsInv'
    BY <1>8, <2>7 DEF RequestsInv, LiveIsAwaited, OneLive, Awaited, controlsVars
  <2> QED
    BY <1>4, <1>5, <1>8, <2>6, <2>8
<1>9. CASE /\ Starts /\ panel' = [read EXCEPT !.inFlight = TRUE]
           /\ Fetch("verify", None, {}) /\ UNCHANGED form
  <2>1. read \in Panel /\ read.effect = ran.effect /\ read.shown = ran.shown
    BY <1>3 DEF Panel, Link
  <2> HIDE DEF read, ran
  <2>2. /\ panel' \in Panel /\ panel'.inFlight /\ panel'.effect # "first"
        /\ panel'.shown = "checking"
    BY <1>3, <1>7, <1>9, <2>1 DEF Panel
  <2> QED
    BY <1>1, <1>4, <1>7, <1>9, <2>2, VerifyKeeps
<1> QED
  BY <1>1, <1>6, <1>8, <1>9
\* A rendering and the end of a hold ask nothing and answer nothing.
LEMMA QuietStepKeeps ==
  ASSUME IInv, UNCHANGED <<browserVars, controlsVars>>, FormsInv',
         form'.kind = form.kind, form'.inFlight = form.inFlight,
         panel'.inFlight = panel.inFlight
  PROVE  IInv'
<1>1. BrowserInv' /\ ControlsInv'
  BY ControlsStay DEF IInv, browserVars, BrowserInv, BrowserTypeOK
<1>2. RequestsInv'
  BY DEF IInv, RequestsInv, LiveIsAwaited, OneLive, Awaited, browserVars, controlsVars
<1> QED
  BY <1>1, <1>2 DEF IInv

LEMMA RenderKeeps ==
  ASSUME IInv, Render, UNCHANGED controlsVars
  PROVE  IInv'
<1>1. /\ form \in Form /\ panel \in Panel /\ page' = page /\ UNCHANGED browserVars
  BY DEF Render, IInv, FormsInv, FormsTypeOK, PanelSound, browserVars
<1>2. /\ form' \in Form /\ form'.kind = form.kind /\ form'.inFlight = form.inFlight
      /\ form'.held = form.held /\ ~form'.stale
  BY <1>1 DEF Render, Form
<1>3. /\ panel' \in Panel /\ panel'.inFlight = panel.inFlight
      /\ panel'.shown = panel.shown /\ panel'.held = panel.held
      /\ panel'.link = panel.link /\ panel'.fragment = panel.fragment
      /\ ~panel'.stale /\ (panel'.effect = "first" => panel.effect = "first")
  BY <1>1 DEF Render, Panel
<1>4. panel.effect = "over" => panel'.effect = "over"
  BY <1>1 DEF Render, Panel
<1>5. FormsInv'
  BY <1>1, <1>2, <1>3, <1>4 DEF IInv, FormsInv, FormsTypeOK, FormSound, PanelSound
<1> QED
  BY <1>1, <1>2, <1>3, <1>5, QuietStepKeeps

LEMMA FormHoldElapsesKeeps ==
  ASSUME IInv, FormHoldElapses, UNCHANGED controlsVars
  PROVE  IInv'
<1>1. form \in Form /\ page' = page /\ UNCHANGED <<browserVars, panel>>
  BY DEF FormHoldElapses, IInv, FormsInv, FormsTypeOK, browserVars
<1>2. /\ form' \in Form /\ form'.kind = form.kind /\ form'.inFlight = form.inFlight
      /\ ~form'.held
  BY <1>1 DEF FormHoldElapses, Form
<1>3. FormsInv'
  BY <1>1, <1>2 DEF IInv, FormsInv, FormsTypeOK, FormSound, PanelSound
<1> QED
  BY <1>1, <1>2, <1>3, QuietStepKeeps

LEMMA PanelHoldElapsesKeeps ==
  ASSUME IInv, PanelHoldElapses, UNCHANGED controlsVars
  PROVE  IInv'
<1>1. /\ panel \in Panel /\ page' = page /\ UNCHANGED <<browserVars, form>>
  BY DEF PanelHoldElapses, IInv, FormsInv, FormsTypeOK, PanelSound, browserVars
<1>2. /\ panel' \in Panel /\ panel'.inFlight = panel.inFlight
      /\ panel'.shown = panel.shown /\ panel'.stale = panel.stale
      /\ panel'.effect = panel.effect /\ ~panel'.held
      /\ panel'.link = panel.link /\ panel'.fragment = panel.fragment
  BY <1>1 DEF PanelHoldElapses, Panel
<1>3. FormsInv'
  BY <1>1, <1>2 DEF IInv, FormsInv, FormsTypeOK, FormSound, PanelSound
<1> QED
  BY <1>1, <1>2, <1>3, QuietStepKeeps

LEMMA LeaveFormKeeps ==
  ASSUME IInv, LeaveForm, UNCHANGED controlsVars
  PROVE  IInv'
<1> USE DEF IInv
<1>1. page' \in Page /\ page # "/" /\ controls.status = "none"
  BY DEF LeaveForm, Mounted, FormsInv, FormsTypeOK, ControlsInv, ControlsTypeOK
<1>2. BrowserInv'
  BY <1>1, OutlivedRequests DEF LeaveForm, serviceVars, BrowserInv, BrowserTypeOK, NamingRequest
<1>3. ControlsInv'
  BY <1>1 DEF ControlsInv, ControlsTypeOK, ControlsSound, controlsVars
<1>4. form' = NoForm /\ panel' = NoPanel
  BY DEF LeaveForm
<1>5. NoForm \in Form /\ NoForm.kind = "none" /\ ~NoForm.stale
  BY DEF NoForm, Form
<1>6. /\ NoPanel \in Panel /\ NoPanel.shown = "none" /\ NoPanel.effect = "over"
      /\ ~NoPanel.inFlight /\ ~NoPanel.stale
  BY DEF NoPanel, Panel, Link
<1>7. FormsInv'
  BY <1>4, <1>5, <1>6 DEF FormsInv, FormsTypeOK, FormSound, PanelSound
<1>8. OneLive' /\ \A j \in Slot : request'[j].live => Lives(j) /\ request[j].kind \notin FormKind
  BY LiveAfterLeaving DEF LeaveForm
<1>9. RequestsInv'
  BY <1>8 DEF RequestsInv, LiveIsAwaited, Lives, Awaited, controlsVars, FormKind
<1> QED
  BY <1>2, <1>3, <1>7, <1>9

LEMMA SignInReplyKeeps ==
  ASSUME IInv, NEW i \in Slot, SignInReply(i), UNCHANGED controlsVars
  PROVE  IInv'
<1> USE DEF IInv
<1>1. /\ UNCHANGED <<page, opened, live, panel>> /\ request[i].kind = "sign in"
      /\ Consumed(i, {}) /\ ~form.stale /\ form \in Form
      /\ request[i] \in NamingRequest
  BY DEF SignInReply, Arrives, Stale, FormsInv, FormsTypeOK, BrowserInv
<1>2. cookie' \in SessionId \cup {None}
  BY <1>1 DEF SignInReply, BrowserInv, BrowserTypeOK, NamingRequest, Request
<1>3. CASE ~request[i].live
  BY <1>1, <1>2, <1>3, DroppedReplyKeeps DEF SignInReply, formVars
<1>4. CASE request[i].live
  <2>1. form' = IF request[i].reply = "authenticated" THEN [form EXCEPT !.done = TRUE]
                ELSE SettledForm(request[i].reply)
    BY <1>4 DEF SignInReply
  <2>2. form' \in Form /\ form'.kind = form.kind /\ ~form'.stale
    BY <1>1, <2>1 DEF SettledForm, Form
  <2>3. BrowserInv'
    BY <1>1, <1>2, ConsumedRequests DEF BrowserInv, BrowserTypeOK, NamingRequest
  <2>4. ControlsInv'
    BY <1>1, ControlsStay
  <2>5. FormsInv'
    BY <1>1, <2>2 DEF FormsInv, FormsTypeOK, FormSound, PanelSound
  <2>6. OneLive' /\ \A j \in Slot : request'[j].live => Lives(j)
    BY <1>1, LiveAfterConsumed
  <2>7. form.kind = "sign in"
    BY <1>1, <1>4 DEF RequestsInv, LiveIsAwaited, Awaited
  <2>8. RequestsInv'
    BY <1>1, <2>2, <2>6, <2>7 DEF RequestsInv, LiveIsAwaited, Lives, Awaited, controlsVars
  <2> QED
    BY <2>3, <2>4, <2>5, <2>8
<1> QED
  BY <1>3, <1>4

LEMMA SubmissionReplyKeeps ==
  ASSUME IInv, NEW i \in Slot, SubmissionReply(i), UNCHANGED controlsVars
  PROVE  IInv'
<1> USE DEF IInv
<1> DEFINE reply == request[i].reply
<1>1. /\ UNCHANGED <<page, serviceVars, panel>> /\ request[i].kind \in {"register", "resend"}
      /\ Consumed(i, {}) /\ ~form.stale /\ form \in Form
      /\ cookie' \in SessionId \cup {None}
  BY DEF SubmissionReply, Arrives, Stale, FormsInv, FormsTypeOK, BrowserInv, BrowserTypeOK,
         serviceVars
<1>2. CASE ~request[i].live
  BY <1>1, <1>2, DroppedReplyKeeps DEF SubmissionReply, serviceVars, formVars
<1>3. CASE request[i].live
  <2>1. form' = IF form.kind = "register" /\ reply = "accepted" THEN NewForm("resend")
                ELSE SettledForm(reply)
    BY <1>3 DEF SubmissionReply
  <2>2. form.kind = request[i].kind
    BY <1>1, <1>3 DEF RequestsInv, LiveIsAwaited, Awaited
  <2>3. form' \in Form /\ ~form'.stale
    BY <1>1, <2>1 DEF SettledForm, NewForm, NoForm, Form
  <2>4. BrowserInv'
    BY <1>1, ConsumedRequests DEF serviceVars, BrowserInv, BrowserTypeOK, NamingRequest
  <2>5. ControlsInv'
    BY <1>1, ControlsStay
  <2>6. FormsInv'
    BY <1>1, <2>2, <2>3 DEF FormsInv, FormsTypeOK, FormSound, PanelSound
  <2>7. /\ OneLive'
        /\ \A j \in Slot : request'[j].live => Lives(j) /\ request[j].kind # request[i].kind
    BY <1>1, <1>3, LiveAfterConsumed
  <2>8. \A j \in Slot : request'[j].live =>
          Lives(j) /\ request[j].kind \notin {"sign in", "register", "resend"}
    BY <2>2, <2>7 DEF Lives, Awaited
  <2>9. RequestsInv'
    BY <1>1, <2>7, <2>8 DEF RequestsInv, LiveIsAwaited, Lives, Awaited, controlsVars
  <2> QED
    BY <2>4, <2>5, <2>6, <2>9
<1> QED
  BY <1>2, <1>3

LEMMA VerificationReplyKeeps ==
  ASSUME IInv, NEW i \in Slot, VerificationReply(i), UNCHANGED controlsVars
  PROVE  IInv'
<1> USE DEF IInv
<1> DEFINE reply == request[i].reply
           shown == ShownAfter(reply)
<1>1. /\ UNCHANGED <<page, serviceVars>> /\ request[i].kind = "verify"
      /\ Consumed(i, {}) /\ ~form.stale /\ ~panel.stale /\ form \in Form /\ panel \in Panel
      /\ cookie' \in SessionId \cup {None}
  BY DEF VerificationReply, Arrives, Stale, FormsInv, FormsTypeOK, BrowserInv, BrowserTypeOK,
         serviceVars
<1>2. CASE ~request[i].live
  BY <1>1, <1>2, DroppedReplyKeeps DEF VerificationReply, serviceVars, formVars
<1>3. CASE request[i].live
  <2>1. /\ panel' = [panel EXCEPT !.inFlight = FALSE, !.shown = shown,
                                  !.held = (@ \/ reply = "rate-limited")]
        /\ Offers(shown)
    BY <1>3 DEF VerificationReply
  <2>2. panel.shown = "checking" /\ form.kind = "none"
    BY <1>1, <1>3 DEF RequestsInv, LiveIsAwaited, Awaited, FormsInv, PanelSound
  <2>3. page = "/verify-email" /\ panel.inFlight
    BY <1>1, <1>3, <2>2 DEF FormsInv, FormsTypeOK, RequestsInv, LiveIsAwaited, Awaited
  <2>4. shown \in {"verified", "refused", "rate-limited", "unavailable"}
    BY DEF ShownAfter
  <2> HIDE DEF shown, reply
  <2>5. /\ panel' \in Panel /\ panel'.shown = shown /\ ~panel'.inFlight /\ ~panel'.stale
        /\ panel'.effect = panel.effect
    BY <1>1, <2>1, <2>4 DEF Panel
  <2>6. form' \in Form /\ ~form'.stale /\ (shown # "refused" => form'.kind = "none")
    BY <1>1, <2>1, <2>2, <2>4 DEF Offers, NewForm, NoForm, Form
  <2>7. BrowserInv'
    BY <1>1, ConsumedRequests DEF serviceVars, BrowserInv, BrowserTypeOK, NamingRequest
  <2>8. ControlsInv'
    BY <1>1, ControlsStay
  <2>9. panel.effect # "first"
    BY <2>3 DEF FormsInv, PanelSound
  <2>10. FormsInv'
    BY <1>1, <2>3, <2>4, <2>5, <2>6, <2>9 DEF FormsInv, FormsTypeOK, FormSound, PanelSound
  <2>11. /\ OneLive'
         /\ \A j \in Slot : request'[j].live => Lives(j) /\ request[j].kind # "verify"
    BY <1>1, <1>3, LiveAfterConsumed
  <2>12. \A j \in Slot : request'[j].live =>
           Lives(j) /\ request[j].kind \notin {"sign in", "register", "resend", "verify"}
    BY <2>2, <2>11 DEF Lives, Awaited
  <2>13. RequestsInv'
    BY <1>1, <2>11, <2>12 DEF RequestsInv, LiveIsAwaited, Lives, Awaited, controlsVars
  <2> QED
    BY <2>7, <2>8, <2>10, <2>13
<1> QED
  BY <1>2, <1>3

LEMMA FormsKeep ==
  ASSUME IInv, FormsNext, UNCHANGED controlsVars
  PROVE  IInv'
BY MountFormKeeps, SubmitSignInKeeps, SubmitKeeps, RenderKeeps, FormHoldElapsesKeeps,
   EffectKeeps, RetryVerificationKeeps, PanelHoldElapsesKeeps, LeaveFormKeeps,
   SignInReplyKeeps, SubmissionReplyKeeps, VerificationReplyKeeps
   DEF FormsNext, FormsReply

-----------------------------------------------------------------------------
(* The service, the network and the other tabs.                              *)

\* What else may happen to the requests is an answer.
AnsweredBy(i) ==
    \E reply \in Reply, session \in SessionId \cup {None} :
      (reply = "authenticated" => session # None) /\ Answer(i, reply, session)

LEMMA OutsideAnswers ==
  ASSUME BrowserInv, Outside
  PROVE  /\ page' = page /\ cookie' \in SessionId \cup {None}
         /\ live' \subseteq opened' /\ opened' \subseteq SessionId
         /\ request' = request \/ \E i \in Slot : AnsweredBy(i)
<1>1. /\ cookie \in SessionId \cup {None} /\ live \subseteq opened /\ opened \subseteq SessionId
      /\ request \in [Slot -> NamingRequest]
  BY DEF BrowserInv, BrowserTypeOK
<1>2. \A s \in FreshSession : s \in SessionId /\ s # None
  <2> DEFINE fresh == SessionId \ opened
  <2> SUFFICES ASSUME NEW s \in FreshSession
               PROVE  s \in SessionId
    BY BrowserAssumption
  <2>1. fresh # {} /\ s = CHOOSE k \in fresh : TRUE
    BY DEF FreshSession
  <2>2. s \in fresh
    BY <2>1
  <2> QED
    BY <2>2
<1>3. ASSUME NEW i \in Slot, Handle(i) \/ Throttle(i) \/ Lost(i)
      PROVE  /\ page' = page /\ cookie' = cookie
             /\ live' \subseteq opened' /\ opened' \subseteq SessionId
             /\ AnsweredBy(i)
  <2>1. /\ request[i].cookie \in SessionId \cup {None}
        /\ request[i].session \in SessionId \cup {None}
    BY <1>1 DEF NamingRequest, Request
  <2>2. CASE HandleResolve(i)
    BY <1>1, <2>1, <2>2 DEF HandleResolve, AnsweredBy, Usable, serviceVars, Reply
  <2>3. CASE HandleActivity(i)
    BY <1>1, <2>1, <2>3 DEF HandleActivity, AnsweredBy, serviceVars, Reply
  <2>4. CASE HandleSignOut(i)
    BY <1>1, <2>1, <2>4 DEF HandleSignOut, AnsweredBy, Reply
  <2>5. CASE HandleSignIn(i)
    BY <1>1, <1>2, <2>1, <2>5 DEF HandleSignIn, AnsweredBy, Reply
  <2>6. CASE HandleSubmission(i)
    BY <1>1, <2>1, <2>6 DEF HandleSubmission, AnsweredBy, serviceVars, Reply
  <2>7. CASE Throttle(i)
    BY <1>1, <2>1, <2>7 DEF Throttle, AnsweredBy, serviceVars, Reply
  <2>8. CASE Lost(i)
    BY <1>1, <2>1, <2>8 DEF Lost, AnsweredBy, serviceVars, Reply
  <2> QED
    BY <1>3, <2>2, <2>3, <2>4, <2>5, <2>6, <2>7, <2>8 DEF Handle
<1>4. CASE OtherTabSignsIn
  BY <1>1, <1>2, <1>4 DEF OtherTabSignsIn
<1>5. CASE SessionEnds
  BY <1>1, <1>5 DEF SessionEnds
<1> QED
  BY <1>1, <1>3, <1>4, <1>5 DEF Outside

LEMMA OutsideKeeps ==
  ASSUME IInv, Outside, UNCHANGED <<controlsVars, formVars>>
  PROVE  IInv'
<1> USE DEF IInv
<1>1. /\ page' = page /\ cookie' \in SessionId \cup {None}
      /\ live' \subseteq opened' /\ opened' \subseteq SessionId
      /\ request' = request \/ \E i \in Slot : AnsweredBy(i)
  BY OutsideAnswers
<1>2. ControlsInv' /\ FormsInv'
  BY <1>1, ControlsStay, FormsStay
<1>3. CASE request' = request
  BY <1>1, <1>2, <1>3 DEF BrowserInv, BrowserTypeOK, RequestsInv, LiveIsAwaited, OneLive,
     Awaited, controlsVars, formVars
<1>4. CASE \E i \in Slot : AnsweredBy(i)
  <2>1. PICK i \in Slot, reply \in Reply, session \in SessionId \cup {None} :
          (reply = "authenticated" => session # None) /\ Answer(i, reply, session)
    BY <1>4 DEF AnsweredBy
  <2>2. /\ request' \in [Slot -> NamingRequest]
        /\ \A j \in Slot : /\ request'[j].kind = request[j].kind
                           /\ request'[j].live = request[j].live
                           /\ request'[j].last = request[j].last
    BY <2>1, AnsweredRequests DEF Stays
  <2>3. BrowserInv'
    BY <1>1, <2>2 DEF BrowserInv, BrowserTypeOK, NamingRequest
  <2>4. LiveIsAwaited'
    BY <2>2 DEF RequestsInv, LiveIsAwaited, Awaited, controlsVars, formVars
  <2>5. OneLive'
    BY <2>2 DEF RequestsInv, OneLive
  <2> QED
    BY <1>2, <2>3, <2>4, <2>5 DEF RequestsInv
<1> QED
  BY <1>1, <1>3, <1>4

-----------------------------------------------------------------------------
(* The invariant.                                                            *)

LEMMA InitEstablishes == WebInit => IInv
<1> SUFFICES ASSUME WebInit
             PROVE  IInv
  OBVIOUS
<1>1. /\ page \in Page /\ cookie = None /\ opened = {} /\ live = {}
      /\ request = [i \in Slot |-> NoRequest]
      /\ controls = NoControls /\ reporter = NoReporter /\ earned = FALSE
      /\ form = NoForm /\ panel = NoPanel
  BY DEF WebInit, BrowserInit, ControlsInit, FormsInit
<1>2. NoRequest \in NamingRequest /\ NoRequest \in Request /\ ~NoRequest.live
  BY DEF NoRequest, NamingRequest, Request, Reply
<1>3. BrowserInv /\ RequestsInv
  BY <1>1, <1>2 DEF BrowserInv, BrowserTypeOK, RequestsInv, LiveIsAwaited, OneLive
<1>4. /\ NoControls \in Controls /\ NoControls.status = "none"
      /\ NoControls.session = None /\ ~NoControls.held
  BY DEF NoControls, Controls
<1>5. NoReporter \in Reporter /\ ~NoReporter.pending
  BY DEF NoReporter, NewReporter, Reporter
<1>6. ControlsInv
  BY <1>1, <1>4, <1>5 DEF ControlsInv, ControlsTypeOK, ControlsSound
<1>7. NoForm \in Form /\ NoForm.kind = "none" /\ ~NoForm.stale
  BY DEF NoForm, Form
<1>8. /\ NoPanel \in Panel /\ NoPanel.shown = "none" /\ NoPanel.effect = "over"
      /\ ~NoPanel.inFlight /\ ~NoPanel.stale
  BY DEF NoPanel, Panel, Link
<1>9. FormsInv
  BY <1>1, <1>7, <1>8 DEF FormsInv, FormsTypeOK, FormSound, PanelSound
<1> QED
  BY <1>3, <1>6, <1>9 DEF IInv

LEMMA NextKeeps == IInv /\ [WebNext]_webVars => IInv'
<1> SUFFICES ASSUME IInv, [WebNext]_webVars
             PROVE  IInv'
  OBVIOUS
<1>1. CASE ControlsNext /\ UNCHANGED formVars
  BY <1>1, ControlsKeep
<1>2. CASE FormsNext /\ UNCHANGED controlsVars
  BY <1>2, FormsKeep
<1>3. CASE Outside /\ UNCHANGED <<controlsVars, formVars>>
  BY <1>3, OutsideKeeps
<1>4. CASE UNCHANGED webVars
  <2>1. UNCHANGED <<browserVars, controlsVars, formVars, page>>
    BY <1>4 DEF webVars, browserVars
  <2>2. FormsInv'
    BY <2>1, FormsStay DEF IInv
  <2> QED
    BY <2>1, <2>2, QuietStepKeeps DEF formVars
<1> QED
  BY <1>1, <1>2, <1>3, <1>4 DEF WebNext

LEMMA Invariance == WebSpec => []IInv
<1>1. WebSpec => WebInit /\ [][WebNext]_webVars
  BY DEF WebSpec
<1> QED
  BY <1>1, InitEstablishes, NextKeeps, PTL

\* The components, the requests and the page stay well formed, however the replies arrive.
THEOREM TypeCorrect == WebSpec => []WebTypeOK
<1>1. IInv => WebTypeOK
  BY DEF IInv, BrowserInv, ControlsInv, FormsInv, WebTypeOK
<1> QED
  BY <1>1, Invariance, PTL

-----------------------------------------------------------------------------
(* Which steps ask, and which hand a reply over.                             *)

KeepsAnswers ==
    \A j \in Slot : request[j].stage = "answered" => request'[j].stage = "answered"

AsksNothing == \A k \in Kind : ~Launched(k)

AsksFor(kind) == KeepsAnswers /\ \A k \in Kind : Launched(k) => k = kind

LEMMA FetchAsks ==
  ASSUME BrowserInv, NEW kind \in Kind, NEW kinds, NEW token \in SessionId \cup {None},
         Fetch(kind, token, kinds)
  PROVE  AsksFor(kind)
<1>1. PICK i \in FreeSlot : FetchAt(i, kind, token, kinds)
  BY DEF Fetch
<1>2. i \in Slot /\ request[i].stage = "none"
  BY SlotIsFree
<1>3. request'[i].kind = kind /\ \A j \in Slot \ {i} : Stays(j, kinds)
  BY <1>1, <1>2, FetchedRequests
<1> QED
  BY <1>2, <1>3 DEF AsksFor, KeepsAnswers, Launched, Stays

LEMMA ConsumedAsks ==
  ASSUME BrowserInv, NEW i \in Slot, NEW kinds, Consumed(i, kinds)
  PROVE  /\ AsksNothing
         /\ \A j \in Slot \ {i} :
              request[j].stage = "answered" => request'[j].stage = "answered"
<1>1. request'[i] = NoRequest /\ \A j \in Slot \ {i} : Stays(j, kinds)
  BY ConsumedRequests
<1>2. NoRequest.stage = "none"
  BY DEF NoRequest
<1> QED
  BY <1>1, <1>2 DEF AsksNothing, Launched, Stays

LEMMA OutlivedAsks ==
  ASSUME BrowserInv, NEW kinds, request' = Overtaken(Disowned(kinds), kinds)
  PROVE  KeepsAnswers /\ AsksNothing
<1>1. \A j \in Slot : Stays(j, kinds)
  BY OutlivedRequests
<1> QED
  BY <1>1 DEF KeepsAnswers, AsksNothing, Launched, Stays

LEMMA OutsideAsks ==
  ASSUME BrowserInv, Outside
  PROVE  KeepsAnswers /\ AsksNothing
<1>1. CASE request' = request
  BY <1>1 DEF KeepsAnswers, AsksNothing, Launched
<1>2. CASE \E i \in Slot : AnsweredBy(i)
  <2>1. PICK i \in Slot, reply \in Reply, session \in SessionId \cup {None} :
          (reply = "authenticated" => session # None) /\ Answer(i, reply, session)
    BY <1>2 DEF AnsweredBy
  <2>2. \A j \in Slot : Stays(j, {})
    BY <2>1, AnsweredRequests
  <2> QED
    BY <2>2 DEF KeepsAnswers, AsksNothing, Launched, Stays
<1> QED
  BY <1>1, <1>2, OutsideAnswers

\* A reply of one component is handed over, and nothing else.
HandsOnly(i) ==
    \A j \in Slot \ {i} : request[j].stage = "answered" => request'[j].stage = "answered"

\* A gesture, or the timer that was armed for one, lets a signal leave.
Signals == (Gesture /\ Admissible) \/ (TimerFires /\ reporter.pending)

\* The first run of the effect, or the button, sends the link.
Verifies == (Effect /\ Starts) \/ RetryVerification

LEMMA ControlsAsk ==
  ASSUME IInv, ControlsNext
  PROVE  \/ (MountControls \/ Retry) /\ AsksFor("resolve")
         \/ SignOut /\ AsksFor("sign out")
         \/ Signals /\ AsksFor("activity")
         \/ \E i \in Slot :
              /\ ControlsReply(i) /\ HandsOnly(i)
              /\ \/ AsksNothing
                 \/ /\ ActivityReply(i) /\ request[i].live /\ UNCHANGED controls
                    /\ \A k \in Kind : Launched(k) => k = "resolve"
         \/ KeepsAnswers /\ AsksNothing
<1>1. BrowserInv /\ controls \in Controls /\ reporter \in Reporter
  BY DEF IInv, ControlsInv, ControlsTypeOK
<1>2. {"resolve", "sign out", "activity"} \subseteq Kind /\ None \in SessionId \cup {None}
  BY DEF Kind, ControlsKind
<1>3. CASE MountControls \/ Retry
  <2>1. Fetch("resolve", None, {"resolve"})
    BY <1>3 DEF MountControls, Retry, Resolve
  <2> QED
    BY <1>1, <1>2, <1>3, <2>1, FetchAsks
<1>4. CASE SignOut
  <2>1. PICK token \in SessionId \cup {None} : Fetch("sign out", token, {})
    BY <1>1, <1>4 DEF SignOut, Controls
  <2> QED
    BY <1>1, <1>2, <1>4, <2>1, FetchAsks
<1>5. CASE Gesture \/ TimerFires
  <2>1. CASE request' = request
    BY <2>1 DEF KeepsAnswers, AsksNothing, Launched
  <2>2. CASE Signals /\ \E c : Send(c)
    <3>1. PICK token \in SessionId \cup {None} : Fetch("activity", token, {})
      BY <1>1, <2>2 DEF Send, Controls
    <3>2. AsksFor("activity")
      BY <1>1, <1>2, <3>1, FetchAsks
    <3> QED
      BY <2>2, <3>2
  <2>3. CASE Gesture
    <3>1. CASE Admissible
      <4>1. Send(reporter)
        BY <2>3, <3>1 DEF Gesture
      <4>2. Signals
        BY <2>3, <3>1 DEF Signals
      <4>3. \E c : Send(c)
        <5> WITNESS reporter
        <5> QED
          BY <4>1
      <4> QED
        BY <2>2, <4>2, <4>3
    <3>2. CASE ~Admissible
      BY <2>1, <2>3, <3>2 DEF Gesture
    <3> QED
      BY <3>1, <3>2
  <2>4. CASE TimerFires
    <3> DEFINE fired == [reporter EXCEPT !.timer = "none"]
    <3>1. \/ reporter.pending /\ Send(fired)
          \/ request' = request
      BY <2>4 DEF TimerFires
    <3> QED
      BY <2>1, <2>2, <2>4, <3>1 DEF Signals
  <2> QED
    BY <1>5, <2>3, <2>4
<1>6. ASSUME NEW i \in Slot, ControlsReply(i)
      PROVE  /\ HandsOnly(i)
             /\ \/ AsksNothing
                \/ /\ ActivityReply(i) /\ request[i].live /\ UNCHANGED controls
                   /\ \A k \in Kind : Launched(k) => k = "resolve"
  <2>1. CASE \E kinds : Consumed(i, kinds)
    BY <1>1, <2>1, ConsumedAsks DEF HandsOnly
  <2>2. CASE /\ ActivityReply(i) /\ request[i].live /\ UNCHANGED controls
             /\ FetchAt(i, "resolve", None, {"resolve"})
    <3>1. request'[i].kind = "resolve" /\ \A j \in Slot \ {i} : Stays(j, {"resolve"})
      BY <1>1, <1>2, <2>2, FetchedRequests
    <3> QED
      BY <2>2, <3>1 DEF HandsOnly, Launched, Stays
  <2> QED
    BY <1>6, <2>1, <2>2 DEF ControlsReply, ResolveReply, SignOutReply, ActivityReply
<1>7. CASE HoldElapses \/ Elapses
  BY <1>7 DEF HoldElapses, Elapses, browserVars, KeepsAnswers, AsksNothing, Launched
<1>8. CASE LeaveHome
  BY <1>1, <1>8, OutlivedAsks DEF LeaveHome
<1> QED
  BY <1>3, <1>4, <1>5, <1>6, <1>7, <1>8 DEF ControlsNext

LEMMA FormsAsk ==
  ASSUME IInv, FormsNext
  PROVE  \/ SubmitSignIn /\ AsksFor("sign in")
         \/ Submit /\ AsksFor(form.kind)
         \/ Verifies /\ AsksFor("verify")
         \/ \E i \in Slot : FormsReply(i) /\ HandsOnly(i) /\ AsksNothing
         \/ KeepsAnswers /\ AsksNothing
<1>1. BrowserInv
  BY DEF IInv
<1>2. FormKind \subseteq Kind /\ None \in SessionId \cup {None}
  BY DEF Kind
<1>3. CASE SubmitSignIn
  BY <1>1, <1>2, <1>3, FetchAsks DEF SubmitSignIn, FormKind
<1>4. CASE Submit
  <2>1. PICK kind \in {"register", "resend"} : kind = form.kind /\ Fetch(kind, None, {})
    BY <1>4 DEF Submit
  <2> QED
    BY <1>1, <1>2, <1>4, <2>1, FetchAsks DEF FormKind
<1>5. CASE Effect \/ RetryVerification
  <2>1. CASE request' = request
    BY <2>1 DEF KeepsAnswers, AsksNothing, Launched
  <2>2. CASE Verifies /\ Fetch("verify", None, {})
    BY <1>1, <1>2, <1>5, <2>2, FetchAsks DEF FormKind
  <2> QED
    BY <1>5, <2>1, <2>2 DEF Verifies, Effect, RetryVerification
<1>6. ASSUME NEW i \in Slot, FormsReply(i)
      PROVE  HandsOnly(i) /\ AsksNothing
  <2>1. Consumed(i, {})
    BY <1>6 DEF FormsReply, SignInReply, SubmissionReply, VerificationReply
  <2> QED
    BY <1>1, <2>1, ConsumedAsks DEF HandsOnly
<1>7. CASE MountForm \/ Render \/ FormHoldElapses \/ PanelHoldElapses
  BY <1>7 DEF MountForm, Render, FormHoldElapses, PanelHoldElapses, browserVars,
              KeepsAnswers, AsksNothing, Launched
<1>8. CASE LeaveForm
  BY <1>1, <1>8, OutlivedAsks DEF LeaveForm
<1> QED
  BY <1>3, <1>4, <1>5, <1>6, <1>7, <1>8 DEF FormsNext

-----------------------------------------------------------------------------
(* What the person at the tab relies on.                                     *)

LEMMA DroppedDecidesNothing ==
  ASSUME IInv, NEW i \in Slot, ~request[i].live,
         \/ ControlsReply(i) /\ UNCHANGED formVars
         \/ FormsReply(i) /\ UNCHANGED controlsVars
  PROVE  UNCHANGED <<controls, reporter, form, panel>>
<1>1. CASE ControlsReply(i) /\ UNCHANGED formVars
  BY <1>1 DEF ControlsReply, ResolveReply, SignOutReply, ActivityReply, formVars
<1>2. CASE FormsReply(i) /\ UNCHANGED controlsVars
  BY <1>2 DEF FormsReply, SignInReply, SubmissionReply, VerificationReply, controlsVars,
              formVars
<1> QED
  BY <1>1, <1>2

\* A reply that changes what the page shows is the answer to the last request of its kind,
\* made by a component that is still mounted; what was aborted, overtaken or outlived is
\* dropped (the sequence numbers and AbortControllers of the components).
THEOREM RepliesInOrder == WebSpec => RepliesDecideInOrder
<1> DEFINE Decided(i) ==
             /\ request[i].stage = "answered" /\ request'[i].stage # "answered"
             /\ <<controls, reporter, form, panel>>' # <<controls, reporter, form, panel>>
<1>1. ASSUME IInv, WebNext, NEW i \in Slot, Decided(i)
      PROVE  request[i].last
  <2>1. BrowserInv
    BY <1>1 DEF IInv
  <2>2. /\ request[i].stage = "answered" /\ request'[i].stage # "answered"
        /\ ~UNCHANGED <<controls, reporter, form, panel>>
    BY <1>1
  <2> HIDE DEF Decided
  <2>3. ~KeepsAnswers /\ \A kind : ~AsksFor(kind)
    BY <2>2 DEF KeepsAnswers, AsksFor
  <2>4. CASE ControlsNext /\ UNCHANGED formVars
    <3>1. PICK k \in Slot : ControlsReply(k) /\ HandsOnly(k)
      BY <1>1, <2>3, <2>4, ControlsAsk
    <3>2. ControlsReply(i)
      BY <2>2, <3>1 DEF HandsOnly
    <3> QED
      BY <1>1, <2>2, <2>4, <3>2, DroppedDecidesNothing DEF IInv, RequestsInv, LiveIsAwaited
  <2>5. CASE FormsNext /\ UNCHANGED controlsVars
    <3>1. PICK k \in Slot : FormsReply(k) /\ HandsOnly(k)
      BY <1>1, <2>3, <2>5, FormsAsk
    <3>2. FormsReply(i)
      BY <2>2, <3>1 DEF HandsOnly
    <3> QED
      BY <1>1, <2>2, <2>5, <3>2, DroppedDecidesNothing DEF IInv, RequestsInv, LiveIsAwaited
  <2>6. CASE Outside
    BY <2>1, <2>3, <2>6, OutsideAsks
  <2> QED
    BY <1>1, <2>4, <2>5, <2>6 DEF WebNext
<1>2. IInv /\ [WebNext]_webVars =>
        [\A i \in Slot : Decided(i) => request[i].last]_webVars
  BY <1>1
<1>3. WebSpec => [][WebNext]_webVars
  BY DEF WebSpec
<1> QED
  BY <1>2, <1>3, Invariance, PTL DEF RepliesDecideInOrder

\* What a launched request of each kind says of the state it was launched in.
LEMMA WhoAsks ==
  ASSUME IInv, WebNext, NEW kind \in Kind, Launched(kind)
  PROVE  \/ kind = "resolve" /\ (MountControls \/ Retry)
         \/ kind = "resolve" /\ \E i \in Slot : /\ ActivityReply(i) /\ request[i].live
                                               /\ UNCHANGED controls
         \/ kind = "sign out" /\ SignOut
         \/ kind = "activity" /\ Signals
         \/ kind = "sign in" /\ SubmitSignIn
         \/ kind \in {"register", "resend"} /\ Submit
         \/ kind = "verify" /\ Verifies
<1>1. BrowserInv /\ ~AsksNothing /\ \A k \in Kind : AsksFor(k) => kind = k
  BY DEF IInv, AsksNothing, AsksFor
<1>2. {"resolve", "sign out", "activity", "sign in", "register", "resend", "verify"} \subseteq Kind
  BY DEF Kind, ControlsKind, FormKind
<1>3. CASE ControlsNext
  BY <1>1, <1>2, <1>3, ControlsAsk
<1>4. CASE FormsNext
  BY <1>1, <1>2, <1>4, FormsAsk DEF Submit
<1>5. CASE Outside
  BY <1>1, <1>5, OutsideAsks
<1> QED
  BY <1>3, <1>4, <1>5 DEF WebNext

\* A component asks only what it may, in any number of submissions in one task: no kind of
\* request is waited for twice, nothing is asked during a hold, and the timer sends a signal
\* only for a gesture that is still owed one (onSubmit and the cadence's guards).
THEOREM RequestsEarned == WebSpec => RequestsAreEarned
<1> DEFINE Earned ==
             /\ \A i, j \in Slot :
                  request[i].live /\ request[j].live /\ request[i].kind = request[j].kind
                    => i = j
             /\ Launched("resolve") => ~controls.held
             /\ (Launched("sign in") \/ Launched("register") \/ Launched("resend"))
                  => ~form.held
             /\ Launched("verify") => ~panel.held
             /\ Launched("activity") /\ reporter.timer = "due" /\ reporter'.timer = "none"
                  => earned
<1>1. ASSUME IInv, WebNext
      PROVE  Earned
  <2>1. {"resolve", "activity", "sign in", "register", "resend", "verify"} \subseteq Kind
    BY DEF Kind, ControlsKind, FormKind
  <2>2. \A i, j \in Slot :
          request[i].live /\ request[j].live /\ request[i].kind = request[j].kind => i = j
    BY <1>1 DEF IInv, RequestsInv, OneLive
  <2>3. Launched("resolve") => ~controls.held
    <3>1. CASE MountControls
      BY <1>1, <3>1 DEF MountControls, IInv, ControlsInv, ControlsSound, NoControls
    <3>2. CASE Retry
      BY <3>2 DEF Retry
    <3>3. CASE \E i \in Slot : ActivityReply(i) /\ request[i].live
      <4>1. PICK i \in Slot : request[i].kind = "activity" /\ request[i].live
        BY <3>3 DEF ActivityReply, Arrives
      <4>2. reporter.inFlight
        BY <1>1, <4>1 DEF IInv, RequestsInv, LiveIsAwaited, Awaited
      <4>3. controls.session # None
        BY <1>1, <4>2 DEF IInv, ControlsInv, ControlsSound, NoReporter, NewReporter
      <4> QED
        BY <1>1, <4>3 DEF IInv, ControlsInv, ControlsSound
    <3> QED
      BY <1>1, <2>1, <3>1, <3>2, <3>3, WhoAsks
  <2>4. Launched("sign in") \/ Launched("register") \/ Launched("resend") => ~form.held
    <3>1. ASSUME SubmitSignIn \/ Submit
          PROVE  ~form.held
      BY <1>1, <3>1
         DEF SubmitSignIn, Submit, MaySubmit, Blocked, IInv, FormsInv, FormSound
    <3> QED
      BY <1>1, <2>1, <3>1, WhoAsks
  <2>5. Launched("verify") => ~panel.held
    <3>1. ASSUME Verifies
          PROVE  ~panel.held
      BY <1>1, <3>1 DEF Verifies, Starts, RetryVerification, RetryShown, IInv, FormsInv,
                        PanelSound
    <3> QED
      BY <1>1, <2>1, <3>1, WhoAsks
  <2>6. ASSUME Launched("activity"), reporter.timer = "due", reporter'.timer = "none"
        PROVE  earned
    <3>1. reporter \in Reporter
      BY <1>1 DEF IInv, ControlsInv, ControlsTypeOK
    <3>2. ~(Gesture /\ Admissible)
      BY <2>6, <3>1 DEF Gesture, Send, Reporter
    <3>3. reporter.pending
      BY <1>1, <2>1, <2>6, <3>2, WhoAsks DEF Signals
    <3> QED
      BY <1>1, <3>3 DEF IInv, ControlsInv, ControlsSound
  <2> QED
    BY <2>2, <2>3, <2>4, <2>5, <2>6
<1>2. IInv /\ [WebNext]_webVars => [Earned]_webVars
  BY <1>1
<1>3. WebSpec => [][WebNext]_webVars
  BY DEF WebSpec
<1> QED
  BY <1>2, <1>3, Invariance, PTL DEF RequestsAreEarned

\* A link of the issued shape is shown as refused only by the answer to it, and never as
\* absent, however often React runs the effect (verification-panel.tsx).
THEOREM LinksAreAnswered == WebSpec => LinkGetsItsAnswer
<1> DEFINE Answered ==
             panel.link = "valid" /\ panel'.shown # panel.shown =>
               /\ panel'.shown # "absent"
               /\ panel'.shown = "refused" =>
                    \E i \in Slot : /\ request[i].kind = "verify" /\ request[i].live
                                    /\ request[i].reply = "refused"
<1>1. ASSUME IInv, WebNext, panel.link = "valid", panel'.shown # panel.shown
      PROVE  /\ panel'.shown # "absent"
             /\ panel'.shown = "refused" =>
                  \E i \in Slot : /\ request[i].kind = "verify" /\ request[i].live
                                  /\ request[i].reply = "refused"
  <2>1. panel \in Panel
    BY <1>1 DEF IInv, FormsInv, FormsTypeOK
  <2>2. FormsNext
    BY <1>1 DEF WebNext, formVars
  <2>3. CASE MountForm
    <3>1. \E link \in Link :
            panel' = [NoPanel EXCEPT !.shown = "checking", !.effect = "first",
                                     !.link = link, !.fragment = link]
      BY <1>1, <2>3 DEF MountForm
    <3>2. panel'.shown = "checking"
      BY <3>1 DEF NoPanel
    <3> QED
      BY <3>2
  <2>4. CASE Effect
    <3>1. Starts => panel.fragment = "valid"
      BY <1>1 DEF Starts, IInv, FormsInv, PanelSound
    <3>2. panel'.shown = panel.shown
      BY <2>1, <2>4, <3>1 DEF Effect, Panel
    <3> QED
      BY <1>1, <3>2
  <2>5. CASE RetryVerification
    <3>1. panel'.shown = "checking"
      BY <2>1, <2>5 DEF RetryVerification, Panel
    <3> QED
      BY <3>1
  <2>6. CASE LeaveForm
    <3>1. panel'.shown = "none"
      BY <2>6 DEF LeaveForm, NoPanel
    <3> QED
      BY <3>1
  <2>7. ASSUME NEW i \in Slot, VerificationReply(i)
        PROVE  /\ panel'.shown # "absent"
               /\ panel'.shown = "refused" =>
                    /\ request[i].kind = "verify" /\ request[i].live
                    /\ request[i].reply = "refused"
    <3>1. request[i].kind = "verify" /\ request[i].live
      BY <1>1, <2>7 DEF VerificationReply, Arrives, formVars
    <3>2. panel'.shown = ShownAfter(request[i].reply)
      BY <2>1, <2>7, <3>1 DEF VerificationReply, Panel
    <3> QED
      BY <3>1, <3>2 DEF ShownAfter
  <2>8. ASSUME \/ SubmitSignIn \/ Submit \/ Render \/ FormHoldElapses \/ PanelHoldElapses
               \/ \E i \in Slot : SignInReply(i) \/ SubmissionReply(i)
        PROVE  panel'.shown = panel.shown
    BY <2>1, <2>8 DEF SubmitSignIn, Submit, Render, FormHoldElapses, PanelHoldElapses,
                      SignInReply, SubmissionReply, Panel
  <2> QED
    BY <1>1, <2>2, <2>3, <2>4, <2>5, <2>6, <2>7, <2>8 DEF FormsNext, FormsReply
<1>2. IInv /\ [WebNext]_webVars => [Answered]_webVars
  BY <1>1
<1>3. WebSpec => [][WebNext]_webVars
  BY DEF WebSpec
<1> QED
  BY <1>2, <1>3, Invariance, PTL DEF LinkGetsItsAnswer
=============================================================================
