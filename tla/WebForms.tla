------------------------------ MODULE WebForms ------------------------------
(***************************************************************************)
(* The pages a person fills in: sign-in-form.tsx, registration-form.tsx    *)
(* with the resend form that follows it, and verification-panel.tsx with   *)
(* the one it offers instead.                                              *)
(*                                                                         *)
(* Two submissions may fall into one task, before anything is rendered     *)
(* again: `stale' is that interval, in which the form still shows itself   *)
(* open and only another submission, or the rendering, may happen.         *)
(***************************************************************************)
EXTENDS Browser

VARIABLES
    form,   \* the form mounted, on its page or inside the verification panel
    panel   \* VerificationPanel

formVars == <<form, panel>>

\* `done': accepted, or for a sign-in on its way home.
Form == [kind : {"none", "sign in", "register", "resend"}, submitting : BOOLEAN,
         held : BOOLEAN, inFlight : BOOLEAN, done : BOOLEAN, stale : BOOLEAN]

NoForm == [kind |-> "none", submitting |-> FALSE, held |-> FALSE, inFlight |-> FALSE,
           done |-> FALSE, stale |-> FALSE]

NewForm(kind) == [NoForm EXCEPT !.kind = kind]

Link == {"valid", "empty", "malformed"}

\* `fragment' is what the address bar holds, `link' what it held at first (history);
\* `effect' is the run of the panel's effect to come: React may repeat it at once.
Panel == [shown : {"none", "checking", "verified", "absent", "refused", "rate-limited",
                   "unavailable"},
          link : Link, fragment : Link, effect : {"first", "again", "over"}, token : BOOLEAN,
          inFlight : BOOLEAN, held : BOOLEAN, stale : BOOLEAN]

NoPanel == [shown |-> "none", link |-> "empty", fragment |-> "empty", effect |-> "over",
            token |-> FALSE, inFlight |-> FALSE, held |-> FALSE, stale |-> FALSE]

FormsTypeOK ==
    /\ form \in Form /\ panel \in Panel
    /\ panel.shown # "none" => page = "/verify-email"
    /\ page = "/" => form.kind = "none"

FormsInit == form = NoForm /\ panel = NoPanel

-----------------------------------------------------------------------------
(* Forms.                                                                    *)

Mounted == form.kind # "none" \/ panel.shown # "none"

Stale == form.stale \/ panel.stale \/ panel.effect = "again"

MountForm ==
    /\ page # "/" /\ ~Mounted
    /\ \/ page = "/sign-in" /\ form' = NewForm("sign in") /\ panel' = panel
       \/ page = "/register" /\ form' = NewForm("register") /\ panel' = panel
       \/ /\ page = "/verify-email"
          /\ \E link \in Link :
               panel' = [NoPanel EXCEPT !.shown = "checking", !.effect = "first",
                                      !.link = link, !.fragment = link]
          /\ form' = form
    /\ UNCHANGED browserVars

\* What the form shows, which may be older than what it knows.
Blocked == ~form.stale /\ (form.submitting \/ form.held)

\* The sign-in form relies on what it shows, and aborts its previous request.
SubmitSignIn ==
    /\ form.kind = "sign in" /\ ~Blocked
    /\ form' = [form EXCEPT !.submitting = TRUE, !.stale = TRUE]
    /\ Fetch("sign in", None, {"sign in"})
    /\ UNCHANGED <<page, serviceVars, panel>>

\* Slip: what the form shows is relied on.
ShowsOpen == ~Blocked

\* The others know of a submission at once.
MaySubmit == ~form.inFlight /\ ~Blocked

Submit ==
    /\ form.kind \in {"register", "resend"} /\ ~form.done /\ MaySubmit
    /\ form' = [form EXCEPT !.submitting = TRUE, !.inFlight = TRUE, !.stale = TRUE]
    /\ Fetch(form.kind, None, {})
    /\ UNCHANGED <<page, serviceVars, panel>>

Render ==
    /\ Stale
    /\ form' = [form EXCEPT !.stale = FALSE]
    /\ panel' = [panel EXCEPT !.stale = FALSE, !.effect = IF @ = "again" THEN "over" ELSE @]
    /\ UNCHANGED browserVars

FormHoldElapses ==
    /\ ~Stale /\ form.held
    /\ form' = [form EXCEPT !.held = FALSE]
    /\ UNCHANGED <<browserVars, panel>>

\* A form that settled, as classifySignIn and classifySubmission let it.
SettledForm(reply) ==
    [form EXCEPT !.submitting = FALSE, !.inFlight = FALSE, !.done = (reply = "accepted"),
                 !.held = (@ \/ reply = "rate-limited")]

\* A sign-in that was aborted, or whose body was lost, may still have set its cookie.
\* One that succeeds leaves for home, still submitting.
SignInReply(i) ==
    LET reply == request[i].reply
    IN  /\ Arrives(i, "sign in") /\ ~Stale
        /\ \/ request[i].session # None /\ cookie' = request[i].session
           \/ ~(request[i].live /\ reply = "authenticated") /\ cookie' = cookie
        /\ Consumed(i, {})
        /\ form' = IF ~request[i].live THEN form
                   ELSE IF reply = "authenticated" THEN [form EXCEPT !.done = TRUE]
                   ELSE SettledForm(reply)
        /\ UNCHANGED <<page, opened, live, panel>>

\* An accepted registration makes room for the resend form.
SubmissionReply(i) ==
    LET reply == request[i].reply
    IN  /\ \E kind \in {"register", "resend"} : Arrives(i, kind)
        /\ ~Stale
        /\ Consumed(i, {})
        /\ form' = IF ~request[i].live THEN form
                   ELSE IF form.kind = "register" /\ reply = "accepted" THEN NewForm("resend")
                   ELSE SettledForm(reply)
        /\ UNCHANGED <<page, serviceVars, panel>>

-----------------------------------------------------------------------------
(* VerificationPanel.                                                        *)

\* Slip: every run of the effect reads the address bar.
StartsAgain == TRUE

Starts == panel.effect = "first"

Offers(shown) == form' = IF shown \in {"absent", "refused"} THEN NewForm("resend") ELSE form

\* The fragment is read once, and cleared before anything leaves.
Effect ==
    /\ panel.effect # "over"
    /\ LET ran == [panel EXCEPT !.effect = IF @ = "first" THEN "again" ELSE "over"]
           read == [ran EXCEPT !.fragment = "empty", !.token = (panel.fragment = "valid")]
           shown == IF panel.fragment = "empty" THEN "absent" ELSE "refused"
       IN  \/ ~Starts /\ panel' = ran /\ UNCHANGED <<form, request>>
           \/ /\ Starts /\ panel.fragment # "valid"
              /\ panel' = [read EXCEPT !.shown = shown]
              /\ Offers(shown) /\ UNCHANGED <<request>>
           \/ /\ Starts /\ panel.fragment = "valid"
              /\ panel' = [read EXCEPT !.inFlight = TRUE]
              /\ Fetch("verify", None, {}) /\ UNCHANGED form
    /\ UNCHANGED <<page, serviceVars>>

\* The button is shown until the panel is rendered again.
RetryShown ==
    panel.stale \/ (panel.shown \in {"rate-limited", "unavailable"} /\ ~panel.held)

RetryVerification ==
    /\ RetryShown /\ panel.token /\ ~panel.inFlight
    /\ panel' = [panel EXCEPT !.inFlight = TRUE, !.shown = "checking", !.stale = TRUE]
    /\ Fetch("verify", None, {})
    /\ UNCHANGED <<page, serviceVars, form>>

\* What classifyVerification makes of the answer.
ShownAfter(reply) ==
    CASE reply = "accepted" -> "verified"
      [] reply \in {"refused", "rate-limited"} -> reply
      [] OTHER -> "unavailable"

\* The component does not abort it; one that outlived the panel decides nothing.
VerificationReply(i) ==
    LET reply == request[i].reply
    IN  /\ Arrives(i, "verify") /\ ~Stale
        /\ Consumed(i, {})
        /\ IF request[i].live
           THEN /\ panel' = [panel EXCEPT !.inFlight = FALSE, !.shown = ShownAfter(reply),
                                          !.held = (@ \/ reply = "rate-limited")]
                /\ Offers(ShownAfter(reply))
           ELSE UNCHANGED formVars
        /\ UNCHANGED <<page, serviceVars>>

PanelHoldElapses ==
    /\ ~Stale /\ panel.held
    /\ panel' = [panel EXCEPT !.held = FALSE]
    /\ UNCHANGED <<browserVars, form>>

-----------------------------------------------------------------------------
\* Another page is shown, the home page after a sign-in: what was mounted aborts its
\* request, or no longer hears of it.
LeaveForm ==
    /\ Mounted /\ ~Stale
    /\ \E p \in Page \ {page} : page' = p
    /\ form' = NoForm /\ panel' = NoPanel
    /\ request' = Overtaken(Disowned(FormKind), FormKind)
    /\ UNCHANGED serviceVars

ReplaceByHome ==
    /\ form.kind = "sign in" /\ form.done /\ LeaveForm /\ page' = "/"

FormsReply(i) == SignInReply(i) \/ SubmissionReply(i) \/ VerificationReply(i)

FormsNext ==
    \/ MountForm \/ SubmitSignIn \/ Submit \/ Render \/ FormHoldElapses
    \/ Effect \/ RetryVerification \/ PanelHoldElapses \/ LeaveForm
    \/ \E i \in Slot : FormsReply(i)
=============================================================================
