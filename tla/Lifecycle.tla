------------------------------ MODULE Lifecycle ------------------------------
(***************************************************************************)
(* One process of the service (cmd/api, app/app.go): New builds it, Run    *)
(* serves until its context is cancelled, the listener fails or the        *)
(* dispatcher gives up, and then stops its parts in order.                 *)
(*                                                                         *)
(* Three goroutines take steps: Run itself, the one that listens and the   *)
(* one that dispatches; they meet through two channels of capacity one and *)
(* two contexts.  Handlers run on goroutines of the server.  The server    *)
(* (fiber) and the pool (pgxpool) are libraries: what they do is stated    *)
(* where Run calls them.                                                   *)
(***************************************************************************)
EXTENDS Naturals

CONSTANTS
    Handler,             \* requests the server may run at once
    MaxDispatchFailures  \* consecutive undecided ticks that end the service

ASSUME LifecycleAssumption == MaxDispatchFailures \in Nat \ {0}

VARIABLES
    main,         \* what New or Run does next
    registration, \* deliveries # nil: public registration is configured
    cancelled,    \* ctx: SIGINT or SIGTERM arrived
    stopped,      \* dispatchCtx was cancelled
    listener,     \* the listening goroutine
    listenErr,    \* what its channel holds
    server,       \* whether the server still accepts
    handler,      \* Handler -> what the request does
    dispatcher,   \* the dispatching goroutine
    dispatchErr,  \* what its channel holds
    failures,     \* dispatch: failures
    readiness,    \* healthapi.Readiness
    store,        \* the pool
    fatal,        \* Run: fatal # nil
    timedOut,     \* Run: shutdownErr # nil
    outcome,      \* what New or Run returned
    seen          \* history, below

\* `announcedLate': readiness was set after shutdown cleared it.  `missed': the
\* server was shut down before it listened.  `streak': undecided ticks since one was
\* decided.  `gaveUp': the dispatcher ended before it was asked to.
History == [announcedLate : BOOLEAN, missed : BOOLEAN,
            streak : 0..MaxDispatchFailures, gaveUp : BOOLEAN]

runVars == <<main, cancelled, stopped, fatal, timedOut, outcome>>
serving == <<listener, listenErr, server, handler>>
dispatching == <<dispatcher, dispatchErr, failures>>

lifecycleVars == <<runVars, serving, dispatching, registration, readiness, store, seen>>

Channel == {"empty", "nil", "error"}

LifecycleTypeOK ==
    /\ main \in {"new", "run", "select", "clear", "shutdown", "drain", "stop", "join",
                 "report", "close", "closing", "ended"}
    /\ registration \in BOOLEAN /\ cancelled \in BOOLEAN /\ stopped \in BOOLEAN
    /\ listener \in {"none", "starting", "binding", "listening", "returned"}
    /\ listenErr \in Channel /\ dispatchErr \in Channel
    /\ server \in {"open", "closed"}
    /\ handler \in [Handler -> {"none", "running", "holding"}]
    /\ dispatcher \in {"none", "waiting", "ticking", "returned"}
    /\ failures \in 0..MaxDispatchFailures
    /\ readiness \in BOOLEAN
    /\ store \in {"none", "open", "closing", "closed"}
    /\ fatal \in BOOLEAN /\ timedOut \in BOOLEAN
    /\ outcome \in {"none", "refused", "listen", "shutdown", "dispatch", "clean"}
    /\ seen \in History

LifecycleInit ==
    /\ main = "new" /\ registration \in BOOLEAN
    /\ cancelled = FALSE /\ stopped = FALSE
    /\ listener = "none" /\ listenErr = "empty" /\ server = "open"
    /\ handler = [h \in Handler |-> "none"]
    /\ dispatcher = "none" /\ dispatchErr = "empty" /\ failures = 0
    /\ readiness = FALSE /\ store = "none"
    /\ fatal = FALSE /\ timedOut = FALSE /\ outcome = "none"
    /\ seen = [announcedLate |-> FALSE, missed |-> FALSE, streak |-> 0, gaveUp |-> FALSE]

Alive == main # "ended"
Idle == \A h \in Handler : handler[h] = "none"
Holders == {h \in Handler : handler[h] = "holding"}

-----------------------------------------------------------------------------
(* New.                                                                      *)

\* The settings, or the first connection, are refused; or a part that is built once
\* the store is open is, and the store is closed before New returns.
Refuse ==
    /\ main = "new"
    /\ main' = "ended" /\ outcome' = "refused"
    /\ store' \in {"none", "closed"}
    /\ UNCHANGED <<registration, cancelled, stopped, serving, dispatching, readiness,
                   fatal, timedOut, seen>>

\* New starts no goroutine.
Build ==
    /\ main = "new"
    /\ main' = "run" /\ store' = "open"
    /\ UNCHANGED <<registration, cancelled, stopped, serving, dispatching, readiness,
                   fatal, timedOut, outcome, seen>>

-----------------------------------------------------------------------------
(* Run.                                                                      *)

Start ==
    /\ main = "run"
    /\ main' = "select"
    /\ dispatcher' = IF registration THEN "waiting" ELSE "none"
    /\ listener' = "starting"
    /\ UNCHANGED <<registration, cancelled, stopped, listenErr, server, handler,
                   dispatchErr, failures, readiness, store, fatal, timedOut, outcome, seen>>

\* Slip: a dispatcher whose end was already received is waited for again.
JoinTwiceOr(next) == IF registration THEN "join" ELSE next

\* Where Run goes once the dispatcher was asked to stop.
JoinOr(next) == IF registration /\ ~fatal THEN "join" ELSE next

\* The listener failed by itself: nothing is drained.
ListenerFailed ==
    /\ main = "select" /\ listenErr # "empty"
    /\ listenErr' = "empty" /\ readiness' = FALSE /\ stopped' = TRUE
    /\ outcome' = IF listenErr = "error" THEN "listen" ELSE "clean"
    /\ main' = JoinOr("close")
    /\ UNCHANGED <<registration, cancelled, listener, server, handler, dispatching, store,
                   fatal, timedOut, seen>>

DispatcherFailed ==
    /\ main = "select" /\ dispatchErr # "empty"
    /\ dispatchErr' = "empty" /\ fatal' = (dispatchErr = "error")
    /\ main' = "clear"
    /\ UNCHANGED <<registration, cancelled, stopped, serving, dispatcher, failures,
                   readiness, store, timedOut, outcome, seen>>

ContextDone ==
    /\ main = "select" /\ cancelled
    /\ main' = "clear"
    /\ UNCHANGED <<registration, cancelled, stopped, serving, dispatching, readiness, store,
                   fatal, timedOut, outcome, seen>>

ClearReadiness ==
    /\ main = "clear"
    /\ readiness' = FALSE
    /\ main' = "shutdown"
    /\ UNCHANGED <<registration, cancelled, stopped, serving, dispatching, store, fatal,
                   timedOut, outcome, seen>>

\* ShutdownWithContext.  A server that has listened stops accepting and waits for its
\* handlers; one that has not has nothing to shut down, and may listen later.
BeginShutdown ==
    /\ main = "shutdown"
    /\ IF listener \in {"listening", "returned"}
       THEN main' = "drain" /\ server' = "closed" /\ seen' = seen
       ELSE main' = "stop" /\ server' = server /\ seen' = [seen EXCEPT !.missed = TRUE]
    /\ UNCHANGED <<registration, cancelled, stopped, listener, listenErr, handler,
                   dispatching, readiness, store, fatal, timedOut, outcome>>

\* Slip: the server is not waited for.
DrainedOrNot == main = "drain"

\* No request is left.
MayEndDrain == main = "drain" /\ Idle

Drained ==
    /\ MayEndDrain
    /\ main' = "stop"
    /\ UNCHANGED <<registration, cancelled, stopped, serving, dispatching, readiness, store,
                   fatal, timedOut, outcome, seen>>

\* ShutdownTimeout passes with connections open.
TimeOut ==
    /\ main = "drain"
    /\ main' = "stop" /\ timedOut' = TRUE
    /\ UNCHANGED <<registration, cancelled, stopped, serving, dispatching, readiness, store,
                   fatal, outcome, seen>>

StopDispatch ==
    /\ main = "stop"
    /\ stopped' = TRUE
    /\ main' = JoinOr("report")
    /\ UNCHANGED <<registration, cancelled, serving, dispatching, readiness, store, fatal,
                   timedOut, outcome, seen>>

\* <-dispatchErr.  After the listener failed the value is dropped.
Join ==
    /\ main = "join" /\ dispatchErr # "empty"
    /\ dispatchErr' = "empty"
    /\ IF outcome = "none"
       THEN main' = "report" /\ fatal' = (dispatchErr = "error")
       ELSE main' = "close" /\ fatal' = fatal
    /\ UNCHANGED <<registration, cancelled, stopped, serving, dispatcher, failures,
                   readiness, store, timedOut, outcome, seen>>

\* What Run returns once it has waited for the listener.
Returned == IF listenErr = "error" THEN "listen" ELSE IF fatal THEN "dispatch" ELSE "clean"

\* A shutdown that failed is returned at once; otherwise the listener has the word,
\* and only then the dispatcher.
Report ==
    /\ main = "report"
    /\ \/ timedOut /\ outcome' = "shutdown" /\ listenErr' = listenErr
       \/ ~timedOut /\ listenErr # "empty" /\ outcome' = Returned /\ listenErr' = "empty"
    /\ main' = "close"
    /\ UNCHANGED <<registration, cancelled, stopped, listener, server, handler, dispatching,
                   readiness, store, fatal, timedOut, seen>>

\* The deferred Close: nothing is acquired any more, and it waits for what is held.
CloseStore ==
    /\ main = "close"
    /\ main' = "closing" /\ store' = "closing"
    /\ UNCHANGED <<registration, cancelled, stopped, serving, dispatching, readiness, fatal,
                   timedOut, outcome, seen>>

End ==
    /\ main = "closing" /\ Holders = {}
    /\ main' = "ended" /\ store' = "closed"
    /\ UNCHANGED <<registration, cancelled, stopped, serving, dispatching, readiness, fatal,
                   timedOut, outcome, seen>>

RunStep ==
    \/ Start \/ ListenerFailed \/ DispatcherFailed \/ ContextDone \/ ClearReadiness
    \/ BeginShutdown \/ Drained \/ TimeOut \/ StopDispatch \/ Join \/ Report \/ CloseStore
    \/ End

\* A signal; a second one changes nothing.
Cancel ==
    /\ Alive /\ ~cancelled
    /\ cancelled' = TRUE
    /\ UNCHANGED <<main, registration, stopped, serving, dispatching, readiness, store,
                   fatal, timedOut, outcome, seen>>

-----------------------------------------------------------------------------
(* The listening goroutine.                                                  *)

Announce ==
    /\ Alive /\ listener = "starting"
    /\ readiness' = TRUE /\ listener' = "binding"
    /\ seen' = [seen EXCEPT !.announcedLate = main \notin {"select", "clear"}]
    /\ UNCHANGED <<runVars, registration, listenErr, server, handler, dispatching, store>>

Listen ==
    /\ Alive /\ listener = "binding"
    /\ listener' = "listening"
    /\ UNCHANGED <<runVars, registration, listenErr, server, handler, dispatching,
                   readiness, store, seen>>

\* The address cannot be bound, or the listener breaks while it serves.
ListenFails ==
    /\ Alive /\ listener \in {"binding", "listening"} /\ server = "open"
    /\ listener' = "returned" /\ listenErr' = "error"
    /\ UNCHANGED <<runVars, registration, server, handler, dispatching, readiness, store,
                   seen>>

\* Listen returns because the server was shut down.
ListenReturns ==
    /\ Alive /\ listener = "listening" /\ server = "closed"
    /\ listener' = "returned" /\ listenErr' = "nil"
    /\ UNCHANGED <<runVars, registration, server, handler, dispatching, readiness, store,
                   seen>>

ListenStep == Announce \/ Listen \/ ListenReturns

-----------------------------------------------------------------------------
(* Requests: each takes connections from the pool and gives them back, as    *)
(* often as it likes.                                                        *)

Accept(h) ==
    /\ Alive /\ listener = "listening" /\ server = "open" /\ handler[h] = "none"
    /\ handler' = [handler EXCEPT ![h] = "running"]
    /\ UNCHANGED <<runVars, registration, listener, listenErr, server, dispatching,
                   readiness, store, seen>>

Acquire(h) ==
    /\ Alive /\ handler[h] = "running" /\ store = "open"
    /\ handler' = [handler EXCEPT ![h] = "holding"]
    /\ UNCHANGED <<runVars, registration, listener, listenErr, server, dispatching,
                   readiness, store, seen>>

Release(h) ==
    /\ Alive /\ handler[h] = "holding"
    /\ handler' = [handler EXCEPT ![h] = "running"]
    /\ UNCHANGED <<runVars, registration, listener, listenErr, server, dispatching,
                   readiness, store, seen>>

Finish(h) ==
    /\ Alive /\ handler[h] = "running"
    /\ handler' = [handler EXCEPT ![h] = "none"]
    /\ UNCHANGED <<runVars, registration, listener, listenErr, server, dispatching,
                   readiness, store, seen>>

-----------------------------------------------------------------------------
(* The dispatching goroutine.                                                *)

\* With both ready, select picks either.
Tick ==
    /\ Alive /\ dispatcher = "waiting"
    /\ dispatcher' = "ticking"
    /\ UNCHANGED <<runVars, registration, serving, dispatchErr, failures, readiness, store,
                   seen>>

TickDecided ==
    /\ Alive /\ dispatcher = "ticking"
    /\ dispatcher' = "waiting" /\ failures' = 0
    /\ seen' = [seen EXCEPT !.streak = 0]
    /\ UNCHANGED <<runVars, registration, serving, dispatchErr, readiness, store>>

\* Slip: a tick the shutdown interrupted is a failure like any other.
CountsAlways == TRUE

\* A tick that fails after the cancellation is its consequence.
Counts == ~stopped

\* Slip: one failure too many is tolerated.
GivesUpOneLater == failures + 1 > MaxDispatchFailures

GivesUp == failures + 1 >= MaxDispatchFailures

TickUndecided ==
    /\ Alive /\ dispatcher = "ticking" /\ Counts
    /\ failures' = failures + 1
    /\ dispatcher' = IF GivesUp THEN "returned" ELSE "waiting"
    /\ dispatchErr' = IF GivesUp THEN "error" ELSE dispatchErr
    /\ seen' = [seen EXCEPT !.streak = @ + 1, !.gaveUp = GivesUp /\ ~stopped]
    /\ UNCHANGED <<runVars, registration, serving, readiness, store>>

\* The cancellation is seen between ticks, or as the error of one.
DispatcherStops ==
    /\ Alive /\ dispatcher \in {"waiting", "ticking"} /\ stopped
    /\ dispatcher' = "returned" /\ dispatchErr' = "nil"
    /\ UNCHANGED <<runVars, registration, serving, failures, readiness, store, seen>>

-----------------------------------------------------------------------------
LifecycleNext ==
    \/ Refuse \/ Build \/ RunStep \/ Cancel
    \/ Announce \/ Listen \/ ListenFails \/ ListenReturns
    \/ \E h \in Handler : Accept(h) \/ Acquire(h) \/ Release(h) \/ Finish(h)
    \/ Tick \/ TickDecided \/ TickUndecided \/ DispatcherStops

\* Goroutines that can proceed do; a connection is given back, though a request need
\* not end; a context that was cancelled is seen.
LifecycleFairness ==
    /\ WF_lifecycleVars(RunStep) /\ WF_lifecycleVars(ListenStep)
    /\ \A h \in Handler : WF_lifecycleVars(Release(h))
    /\ WF_lifecycleVars(DispatcherStops)

LifecycleSpec == LifecycleInit /\ [][LifecycleNext]_lifecycleVars /\ LifecycleFairness

-----------------------------------------------------------------------------
(* What an operator and the rest of the service rely on.                     *)

\* The dispatcher is asked to stop only when no request can add work to the outbox
\* any more, unless the drain timed out or there was no drain: the listener broke, or
\* the shutdown came before it listened.
DispatcherOutlivesServer ==
    stopped => Idle \/ timedOut \/ seen.missed \/ (outcome = "listen" /\ server = "open")

\* The store is closed only when the dispatcher has returned, and is gone only when
\* every connection was given back.
StoreOutlivesDispatcher ==
    /\ main \in {"closing", "ended"} => dispatcher \in {"none", "returned"}
    /\ store = "closed" => Holders = {}

\* ReadyHandler: the service is announced while it is ready and its store answers.
Announced == readiness /\ store = "open"

\* A service that stops is announced by no probe, unless the listening goroutine was
\* so late that it set readiness after it was cleared.
SilentWhileStopping ==
    Announced => main \in {"select", "clear"} \/ seen.announcedLate

\* Run stops its parts in the order its comments promise, however signals, failures
\* and late goroutines interleave.
StoppedInOrder ==
    /\ DispatcherOutlivesServer
    /\ StoreOutlivesDispatcher
    /\ SilentWhileStopping

\* What Run returns is what happened: a clean end was asked for and left no request
\* and no failure behind, and only a dispatcher that failed often enough in a row,
\* before anybody stopped it, ends the service in its name.
EndsTellTheTruth ==
    /\ outcome = "clean" => cancelled /\ Idle /\ ~seen.gaveUp /\ ~timedOut
    /\ outcome = "dispatch" => seen.gaveUp
    /\ seen.gaveUp => seen.streak = MaxDispatchFailures

\* A service that listens, or whose listener failed, ends once it was told to stop or
\* lost a part: no channel is waited for that nobody will fill, and no request that
\* does not return keeps it.
EveryStopEnds ==
    /\ main = "select" /\ listener \in {"listening", "returned"}
    /\ cancelled \/ dispatchErr = "error" \/ listenErr = "error"
    ~> main = "ended"
=============================================================================
