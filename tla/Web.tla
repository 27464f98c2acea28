--------------------------------- MODULE Web ---------------------------------
(***************************************************************************)
(* One tab: the page shown decides which components are mounted, and they  *)
(* share its cookie and its requests.                                      *)
(***************************************************************************)
EXTENDS WebSession, WebForms

webVars == <<browserVars, controlsVars, formVars>>

WebInit == BrowserInit /\ ControlsInit /\ FormsInit

WebNext ==
    \/ ControlsNext /\ UNCHANGED formVars
    \/ FormsNext /\ UNCHANGED controlsVars
    \/ Outside /\ UNCHANGED <<controlsVars, formVars>>

Settles(i) ==
    /\ request[i].stage = "sent"
    /\ Lost(i) \/ Throttle(i) \/ Handle(i)
    /\ UNCHANGED <<controlsVars, formVars>>

HandsOver(i) ==
    \/ ControlsReply(i) /\ UNCHANGED formVars
    \/ FormsReply(i) /\ UNCHANGED controlsVars

Shows ==
    \/ (MountControls \/ TimerFires \/ Elapses) /\ UNCHANGED formVars
    \/ (Render \/ Effect \/ ReplaceByHome) /\ UNCHANGED controlsVars

\* The network settles every request, the browser hands every reply over, renders,
\* runs effects and timers.
WebFairness ==
    /\ \A i \in Slot : WF_webVars(Settles(i)) /\ WF_webVars(HandsOver(i))
    /\ WF_webVars(Shows)

WebSpec == WebInit /\ [][WebNext]_webVars /\ WebFairness

-----------------------------------------------------------------------------
WebTypeOK == BrowserTypeOK /\ ControlsTypeOK /\ FormsTypeOK

\* What the page shows is decided by the last request of its kind, and only while the
\* component that made it is mounted: a reply that was overtaken, aborted or outlived
\* its component decides nothing.
RepliesDecideInOrder ==
    [][\A i \in Slot :
         /\ request[i].stage = "answered" /\ request'[i].stage # "answered"
         /\ <<controls, reporter, form, panel>>' # <<controls, reporter, form, panel>>
         => request[i].last]_webVars

Launched(kind) ==
    \E i \in Slot : request[i].stage # "sent" /\ request'[i].stage = "sent"
                    /\ request'[i].kind = kind

\* One request of a kind is waited for at a time, also when two submissions fall into
\* one task; nothing is asked during a hold; and a signal that leaves by the timer is
\* owed to a gesture that neither a signal nor a failure followed.
RequestsAreEarned ==
    [][/\ \A i, j \in Slot :
            request[i].live /\ request[j].live /\ request[i].kind = request[j].kind => i = j
       /\ Launched("resolve") => ~controls.held
       /\ (Launched("sign in") \/ Launched("register") \/ Launched("resend")) => ~form.held
       /\ Launched("verify") => ~panel.held
       /\ Launched("activity") /\ reporter.timer = "due" /\ reporter'.timer = "none"
            => earned]_webVars

\* A link of the issued shape gets the answer of the service: however often the effect
\* runs, it is never shown as absent, nor as refused but by that answer.
LinkGetsItsAnswer ==
    [][panel.link = "valid" /\ panel'.shown # panel.shown =>
         /\ panel'.shown # "absent"
         /\ panel'.shown = "refused" =>
              \E i \in Slot : /\ request[i].kind = "verify" /\ request[i].live
                              /\ request[i].reply = "refused"]_webVars

\* The page waits for a reply.  A component waits for one at a time.
Waiting ==
    controls.status = "loading" \/ controls.ending \/ form.submitting \/ panel.shown = "checking"

\* Nothing waits for ever: a resolution, a sign-out, a submission or a verification that
\* was started ends, and a timer that was armed fires, or a signal leaves before.  ([]<>~P
\* says what P ~> ~P does.)
EveryWaitEnds ==
    /\ []<>~Waiting
    /\ []<>(reporter.timer = "none" \/ reporter.inFlight)
=============================================================================
