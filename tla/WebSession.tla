----------------------------- MODULE WebSession -----------------------------
(***************************************************************************)
(* The session controls of the home page (session-controls.tsx) and the    *)
(* cadence of the activity signal they own (activity.ts).                  *)
(*                                                                         *)
(* A state update is committed, with its effects, before the next event is *)
(* handled.  Durations are not counted: a hold, or the interval between    *)
(* two signals, is on until it elapses, and then what waits for it is due. *)
(***************************************************************************)
EXTENDS Browser

VARIABLES
    controls,    \* the component's state
    reporter,    \* the effect that reports activity, with its cadence
    earned       \* history: a gesture since the last signal and the last failure

controlsVars == <<controls, reporter, earned>>

\* `session' is the one whose CSRF token the component holds.
Controls == [status : {"none", "loading", "anonymous", "authenticated", "rate-limited",
                       "unavailable"},
             session : SessionId \cup {None}, ending : BOOLEAN, held : BOOLEAN]

NoControls == [status |-> "none", session |-> None, ending |-> FALSE, held |-> FALSE]

\* `pending' is a gesture that waits; `heldBack': the interval since the last signal, or
\* what a limit or a failure adds to it, is not over.
Reporter == [stopped : BOOLEAN, inFlight : BOOLEAN, pending : BOOLEAN, heldBack : BOOLEAN,
             timer : {"none", "armed", "due"}]

NewReporter == [stopped |-> FALSE, inFlight |-> FALSE, pending |-> FALSE, heldBack |-> FALSE,
                timer |-> "none"]

NoReporter == [NewReporter EXCEPT !.stopped = TRUE]

ControlsTypeOK ==
    /\ controls \in Controls /\ reporter \in Reporter
    /\ earned \in BOOLEAN
    /\ controls.session # None <=> controls.status = "authenticated"
    /\ page # "/" => controls.status = "none"

ControlsInit ==
    /\ controls = NoControls /\ reporter = NoReporter
    /\ earned = FALSE

-----------------------------------------------------------------------------
(* The component.                                                            *)

\* Another session starts another reporter, none leaves none: the effect of the old
\* one stops it and aborts its signal.
Show(next) ==
    /\ controls' = next
    /\ reporter' = IF next.session = controls.session THEN reporter
                   ELSE IF next.session = None THEN NoReporter ELSE NewReporter
    /\ earned' = (earned /\ next.session = controls.session)

OutlivedBy(session) == IF session = controls.session THEN {} ELSE {"activity"}

\* Slip: an earlier resolution is left to answer.
ResolveAlongside == Fetch("resolve", None, {})

\* The last resolution wins: the previous one is aborted.
Resolve == Fetch("resolve", None, {"resolve"})

\* The home page is shown: the component mounts and resolves.
MountControls ==
    /\ page = "/" /\ controls.status = "none"
    /\ controls' = [NoControls EXCEPT !.status = "loading"]
    /\ Resolve
    /\ UNCHANGED <<page, serviceVars, reporter, earned>>

\* The button is disabled while a hold stands.
Retry ==
    /\ controls.status \in {"rate-limited", "unavailable"} /\ ~controls.held
    /\ Resolve
    /\ UNCHANGED <<page, serviceVars, controlsVars>>

\* Slip: an answer that is no session state is shown as it is.
StatusAsItIs(reply) == reply

\* What classifyResolution makes of the answer.
StatusOf(reply) ==
    IF reply \in {"authenticated", "anonymous", "rate-limited"} THEN reply ELSE "unavailable"

ResolveReply(i) ==
    LET reply == request[i].reply
        session == Named(i)
    IN  /\ Arrives(i, "resolve")
        /\ IF request[i].live
           THEN /\ Show([controls EXCEPT !.status = StatusOf(reply), !.session = session,
                                         !.held = (reply = "rate-limited")])
                /\ Consumed(i, OutlivedBy(session))
           ELSE Consumed(i, {}) /\ UNCHANGED <<controls, reporter, earned>>
        /\ UNCHANGED <<page, serviceVars>>

\* A hold ends by itself and launches nothing.
HoldElapses ==
    /\ controls.held
    /\ controls' = [controls EXCEPT !.held = FALSE]
    /\ UNCHANGED <<browserVars, reporter, earned>>

\* The button is disabled while a sign-out is under way.
SignOut ==
    /\ controls.status = "authenticated" /\ ~controls.ending
    /\ controls' = [controls EXCEPT !.ending = TRUE]
    /\ Fetch("sign out", controls.session, {})
    /\ UNCHANGED <<page, serviceVars, reporter, earned>>

\* Slip: the button stays disabled.
EndedStill(next) == [next EXCEPT !.ending = TRUE]

EndedBy(next) == [next EXCEPT !.ending = FALSE]

\* Sign-out is never aborted, and its reply decides nothing once unmounted.  If it was
\* accomplished it clears the cookie, whichever session that names by then.
SignOutReply(i) ==
    LET status == IF request[i].reply = "failed" THEN "unavailable" ELSE "anonymous"
    IN  /\ Arrives(i, "sign out")
        /\ cookie' = IF request[i].reply = "ended" THEN None ELSE cookie
        /\ IF request[i].live
           THEN /\ Show(EndedBy([controls EXCEPT !.status = status, !.session = None]))
                /\ Consumed(i, OutlivedBy(None))
           ELSE Consumed(i, {}) /\ UNCHANGED <<controls, reporter, earned>>
        /\ UNCHANGED <<page, opened, live>>

-----------------------------------------------------------------------------
(* The cadence (activity.ts), and the effect that drives it.                 *)

Admissible == ~reporter.inFlight /\ ~reporter.heldBack

\* One timer, for the instant a received gesture becomes admissible.
Armed(c) ==
    [c EXCEPT !.timer = IF ~c.pending \/ c.inFlight THEN "none"
                        ELSE IF c.heldBack THEN "armed" ELSE "due"]

\* A signal leaves, from a reporter in the state c.
Send(c) ==
    /\ reporter' = [c EXCEPT !.heldBack = TRUE, !.inFlight = TRUE, !.pending = FALSE]
    /\ earned' = FALSE
    /\ Fetch("activity", controls.session, {})

\* A gesture in the foreground.  The leading edge sends at once; any other waits.
Gesture ==
    /\ ~reporter.stopped
    /\ IF Admissible
       THEN Send(reporter)
       ELSE /\ reporter' = Armed([reporter EXCEPT !.pending = TRUE])
            /\ earned' = TRUE
            /\ UNCHANGED request
    /\ UNCHANGED <<page, serviceVars, controls>>

\* In the foreground a gesture that waits is sent, once it is admissible; out of it,
\* it is dropped, in that nothing is armed again.
TimerFires ==
    LET fired == [reporter EXCEPT !.timer = "none"]
    IN  /\ reporter.timer = "due"
        /\ \/ reporter.pending /\ Admissible /\ Send(fired)
           \/ reporter' = fired /\ UNCHANGED <<request, earned>>
        /\ UNCHANGED <<page, serviceVars, controls>>

\* Slip: a gesture outlives the failure it preceded.
SettledKeeping(reply) ==
    [reporter EXCEPT !.inFlight = FALSE, !.heldBack = (@ \/ reply \in {"failed", "rate-limited"}),
       !.pending = (@ /\ reply # "unauthenticated" /\ reply # "forbidden")]

\* settle: a limit and a failure hold the next signal back, and all but an acceptance
\* and a limit drop the gesture that waited.
Settled(reply) ==
    [reporter EXCEPT !.inFlight = FALSE, !.heldBack = (@ \/ reply \in {"failed", "rate-limited"}),
       !.pending = (@ /\ reply \in {"accepted", "rate-limited"})]

ActivityReply(i) ==
    LET reply == request[i].reply
        settled == Settled(reply)
    IN  /\ Arrives(i, "activity")
        /\ \/ /\ ~request[i].live
              /\ Consumed(i, {}) /\ UNCHANGED <<controls, reporter, earned>>
           \/ /\ request[i].live /\ reply = "unauthenticated"
              /\ Show([controls EXCEPT !.status = "anonymous", !.session = None])
              /\ Consumed(i, {})
           \/ /\ request[i].live /\ reply = "forbidden"
              /\ reporter' = [settled EXCEPT !.stopped = TRUE]
              /\ earned' = FALSE
              /\ FetchAt(i, "resolve", None, {"resolve"})
              /\ UNCHANGED controls
           \/ /\ request[i].live /\ reply \in {"accepted", "rate-limited", "failed"}
              /\ reporter' = Armed(settled)
              /\ earned' = (earned /\ reply # "failed")
              /\ Consumed(i, {}) /\ UNCHANGED controls
        /\ UNCHANGED <<page, serviceVars>>

\* The next signal may leave.
Elapses ==
    /\ reporter.heldBack
    /\ reporter' = [reporter EXCEPT !.heldBack = FALSE,
                                    !.timer = IF @ = "armed" THEN "due" ELSE @]
    /\ UNCHANGED <<browserVars, controls, earned>>

\* Another page is shown: the component unmounts, and nothing of it decides any more.
LeaveHome ==
    /\ page = "/" /\ controls.status # "none"
    /\ \E p \in Page \ {"/"} : page' = p
    /\ controls' = NoControls /\ reporter' = NoReporter /\ earned' = FALSE
    /\ request' = Overtaken(Disowned(ControlsKind), ControlsKind)
    /\ UNCHANGED <<serviceVars>>

ControlsReply(i) == ResolveReply(i) \/ SignOutReply(i) \/ ActivityReply(i)

ControlsNext ==
    \/ MountControls \/ Retry \/ HoldElapses \/ SignOut \/ Gesture \/ TimerFires
    \/ \E i \in Slot : ControlsReply(i)
    \/ Elapses \/ LeaveHome
=============================================================================
