-------------------------- MODULE Lifecycle_proofs --------------------------
(***************************************************************************)
(* What a process promises about its start and its end, proved for any     *)
(* number of requests and any bound on the failures of its dispatcher.     *)
(***************************************************************************)
EXTENDS Lifecycle, TLAPS

-----------------------------------------------------------------------------
(* The inductive invariant.                                                  *)

\* Where Run stands, and what it cannot have done yet.
Phases ==
    /\ main \in {"new", "run"} =>
         listener = "none" /\ dispatcher = "none" /\ Idle /\ ~readiness
    /\ main \in {"new", "run", "select", "clear", "shutdown"} =>
         server = "open" /\ ~seen.missed /\ ~timedOut
    /\ main \in {"new", "run", "select"} => ~fatal
    /\ main \in {"new", "run", "select", "clear", "shutdown", "drain", "stop"} =>
         ~stopped /\ outcome = "none"
    /\ main = "drain" => server = "closed" /\ ~seen.missed
    /\ main \in {"join", "report", "close"} => stopped
    /\ main = "join" => ~fatal
    /\ main = "report" => outcome = "none"

\* What the channel of a goroutine says, the goroutine did; a listener returns nil only
\* from a server that was shut down.
Channels ==
    /\ listenErr = "nil" => server = "closed"
    /\ seen.missed => server = "open"
    /\ ~registration => dispatcher = "none"
    /\ dispatchErr # "empty" => dispatcher = "returned"
    /\ dispatchErr = "nil" => stopped

\* A dispatcher that gave up is found in its channel, or was: its failures are the
\* streak, and nothing else counts as one.
Failures ==
    /\ seen.streak = failures
    /\ dispatcher # "returned" => failures < MaxDispatchFailures
    /\ dispatchErr = "error" \/ fatal => seen.gaveUp
    /\ seen.gaveUp =>
         /\ dispatcher = "returned" /\ seen.streak = MaxDispatchFailures
         /\ dispatchErr = "error" \/ fatal \/ outcome # "none"

\* The dispatcher is stopped after the server, or the server never stopped accepting
\* on purpose.
Stops ==
    stopped \/ main = "stop" =>
      \/ Idle /\ server = "closed"
      \/ timedOut \/ seen.missed
      \/ outcome = "listen" /\ server = "open"

\* The dispatcher was joined when Run reports, and has not come back since.
Joined ==
    /\ main \in {"report", "close", "closing", "ended"} => dispatcher \in {"none", "returned"}
    /\ main = "report" => fatal \/ ~registration \/ dispatchErr = "empty"
    /\ main \in {"clear", "shutdown", "drain", "stop", "join", "report"} /\ outcome = "none" =>
         cancelled \/ fatal

Stored ==
    /\ store = "closed" => Holders = {}
    /\ readiness => main \in {"select", "clear"} \/ seen.announcedLate

Outcomes ==
    /\ outcome = "clean" =>
         server = "closed" /\ cancelled /\ Idle /\ ~seen.gaveUp /\ ~timedOut
    /\ outcome = "clean" => main \in {"close", "closing", "ended"}
    /\ outcome = "dispatch" => seen.gaveUp

IInv ==
    /\ LifecycleTypeOK
    /\ Phases /\ Channels /\ Failures /\ Stops /\ Joined /\ Stored /\ Outcomes

LEMMA RefuseKeeps ==
  ASSUME IInv, Refuse
  PROVE  IInv'
<1>1. LifecycleTypeOK'
  BY DEF Refuse, serving, dispatching, IInv, LifecycleTypeOK
<1>2. Phases'
  BY DEF Refuse, serving, dispatching, IInv, Phases
<1>3. Channels'
  BY DEF Refuse, serving, dispatching, IInv, Channels
<1>4. Failures'
  BY DEF Refuse, serving, dispatching, IInv, Failures
<1>5. Stops'
  BY DEF Refuse, serving, dispatching, IInv, Stops, Idle, Phases
<1>6. Joined'
  BY DEF Refuse, serving, dispatching, IInv, Joined, Phases, Idle
<1>7. Stored'
  BY DEF Refuse, serving, dispatching, IInv, Stored, Holders, Phases, Idle
<1>8. Outcomes'
  BY DEF Refuse, serving, dispatching, IInv, Outcomes
<1>9. QED
  BY <1>1, <1>2, <1>3, <1>4, <1>5, <1>6, <1>7, <1>8 DEF IInv

LEMMA BuildKeeps ==
  ASSUME IInv, Build
  PROVE  IInv'
<1>1. LifecycleTypeOK'
  BY DEF Build, serving, dispatching, IInv, LifecycleTypeOK
<1>2. Phases'
  BY DEF Build, serving, dispatching, IInv, Phases, Idle
<1>3. Channels'
  BY DEF Build, serving, dispatching, IInv, Channels
<1>4. Failures'
  BY DEF Build, serving, dispatching, IInv, Failures
<1>5. Stops'
  BY DEF Build, serving, dispatching, IInv, Stops, Idle
<1>6. Joined'
  BY DEF Build, serving, dispatching, IInv, Joined
<1>7. Stored'
  BY DEF Build, serving, dispatching, IInv, Stored
<1>8. Outcomes'
  BY DEF Build, serving, dispatching, IInv, Outcomes
<1>9. QED
  BY <1>1, <1>2, <1>3, <1>4, <1>5, <1>6, <1>7, <1>8 DEF IInv

LEMMA StartKeeps ==
  ASSUME IInv, Start
  PROVE  IInv'
<1>1. LifecycleTypeOK'
  <2>1. main' = "select" /\ listener' = "starting" /\ dispatcher' \in {"none", "waiting"}
    BY DEF Start
  <2>2. QED
    BY <2>1 DEF Start, IInv, LifecycleTypeOK
<1>2. Phases'
  BY DEF Start, IInv, Phases
<1>3. Channels'
  BY DEF Start, IInv, Channels, Phases, Idle
<1>4. Failures'
  BY DEF Start, IInv, Failures, Phases, Idle
<1>5. Stops'
  BY DEF Start, IInv, Stops, Idle
<1>6. Joined'
  BY DEF Start, IInv, Joined
<1>7. Stored'
  BY DEF Start, IInv, Stored, Holders
<1>8. Outcomes'
  BY DEF Start, IInv, Outcomes
<1>9. QED
  BY <1>1, <1>2, <1>3, <1>4, <1>5, <1>6, <1>7, <1>8 DEF IInv

LEMMA ListenerFailedKeeps ==
  ASSUME IInv, ListenerFailed
  PROVE  IInv'
<1>1. LifecycleTypeOK'
  <2>1. main' \in {"join", "close"} /\ outcome' \in {"listen", "clean"}
    BY DEF ListenerFailed, JoinOr
  <2>2. listenErr' \in Channel /\ readiness' \in BOOLEAN /\ stopped' \in BOOLEAN
    BY DEF ListenerFailed, Channel
  <2>3. QED
    BY <2>1, <2>2 DEF ListenerFailed, dispatching, IInv, LifecycleTypeOK
<1>2. Phases'
  BY DEF ListenerFailed, JoinOr, dispatching, IInv, Phases
<1>3. Channels'
  BY DEF ListenerFailed, JoinOr, dispatching, IInv, Channels
<1>4. Failures'
  BY DEF ListenerFailed, JoinOr, dispatching, IInv, Failures
<1>5. Stops'
  BY DEF ListenerFailed, JoinOr, dispatching, IInv, Stops, Idle, LifecycleTypeOK,
     Channel, History, Phases, Channels, Failures
<1>6. Joined'
  BY DEF ListenerFailed, JoinOr, dispatching, IInv, Joined, Phases, Idle, Channels
<1>7. Stored'
  BY DEF ListenerFailed, JoinOr, dispatching, IInv, Stored, Holders
<1>8. Outcomes'
  BY DEF ListenerFailed, JoinOr, dispatching, IInv, Outcomes, Idle, LifecycleTypeOK,
     Channel, History, Phases, Channels, Failures, Stops, Joined
<1>9. QED
  BY <1>1, <1>2, <1>3, <1>4, <1>5, <1>6, <1>7, <1>8 DEF IInv

LEMMA DispatcherFailedKeeps ==
  ASSUME IInv, DispatcherFailed
  PROVE  IInv'
<1>1. LifecycleTypeOK'
  BY DEF DispatcherFailed, serving, IInv, LifecycleTypeOK, Channel, History
<1>2. Phases'
  BY DEF DispatcherFailed, serving, IInv, Phases
<1>3. Channels'
  BY DEF DispatcherFailed, serving, IInv, Channels
<1>4. Failures'
  BY DEF DispatcherFailed, serving, IInv, Failures, Phases, Idle
<1>5. Stops'
  BY DEF DispatcherFailed, serving, IInv, Stops, Idle
<1>6. Joined'
  BY DEF DispatcherFailed, serving, IInv, Joined, LifecycleTypeOK, Channel, History,
     Phases, Idle, Channels, Failures
<1>7. Stored'
  BY DEF DispatcherFailed, serving, IInv, Stored, Holders
<1>8. Outcomes'
  BY DEF DispatcherFailed, serving, IInv, Outcomes
<1>9. QED
  BY <1>1, <1>2, <1>3, <1>4, <1>5, <1>6, <1>7, <1>8 DEF IInv

LEMMA ContextDoneKeeps ==
  ASSUME IInv, ContextDone
  PROVE  IInv'
<1>1. LifecycleTypeOK'
  BY DEF ContextDone, serving, dispatching, IInv, LifecycleTypeOK
<1>2. Phases'
  BY DEF ContextDone, serving, dispatching, IInv, Phases
<1>3. Channels'
  BY DEF ContextDone, serving, dispatching, IInv, Channels
<1>4. Failures'
  BY DEF ContextDone, serving, dispatching, IInv, Failures
<1>5. Stops'
  BY DEF ContextDone, serving, dispatching, IInv, Stops, Idle
<1>6. Joined'
  BY DEF ContextDone, serving, dispatching, IInv, Joined
<1>7. Stored'
  BY DEF ContextDone, serving, dispatching, IInv, Stored, Holders
<1>8. Outcomes'
  BY DEF ContextDone, serving, dispatching, IInv, Outcomes
<1>9. QED
  BY <1>1, <1>2, <1>3, <1>4, <1>5, <1>6, <1>7, <1>8 DEF IInv

LEMMA ClearReadinessKeeps ==
  ASSUME IInv, ClearReadiness
  PROVE  IInv'
<1>1. LifecycleTypeOK'
  <2>1. main' = "shutdown" /\ readiness' \in BOOLEAN
    BY DEF ClearReadiness
  <2>2. QED
    BY <2>1 DEF ClearReadiness, serving, dispatching, IInv, LifecycleTypeOK
<1>2. Phases'
  BY DEF ClearReadiness, serving, dispatching, IInv, Phases
<1>3. Channels'
  BY DEF ClearReadiness, serving, dispatching, IInv, Channels
<1>4. Failures'
  BY DEF ClearReadiness, serving, dispatching, IInv, Failures
<1>5. Stops'
  BY DEF ClearReadiness, serving, dispatching, IInv, Stops, Idle
<1>6. Joined'
  BY DEF ClearReadiness, serving, dispatching, IInv, Joined
<1>7. Stored'
  BY DEF ClearReadiness, serving, dispatching, IInv, Stored, Holders
<1>8. Outcomes'
  BY DEF ClearReadiness, serving, dispatching, IInv, Outcomes
<1>9. QED
  BY <1>1, <1>2, <1>3, <1>4, <1>5, <1>6, <1>7, <1>8 DEF IInv

LEMMA BeginShutdownKeeps ==
  ASSUME IInv, BeginShutdown
  PROVE  IInv'
<1>1. LifecycleTypeOK'
  <2>1. main' \in {"drain", "stop"} /\ server' \in {"open", "closed"}
    BY DEF BeginShutdown, IInv, LifecycleTypeOK
  <2>2. seen' \in History
    BY DEF BeginShutdown, IInv, LifecycleTypeOK, History
  <2>3. QED
    BY <2>1, <2>2 DEF BeginShutdown, dispatching, IInv, LifecycleTypeOK
<1>2. Phases'
  BY DEF BeginShutdown, dispatching, IInv, Phases
<1>3. Channels'
  BY DEF BeginShutdown, dispatching, IInv, Channels, Phases, Idle
<1>4. Failures'
  BY DEF BeginShutdown, dispatching, IInv, Failures, LifecycleTypeOK, Channel, History
<1>5. Stops'
  BY DEF BeginShutdown, dispatching, IInv, Stops, Idle, LifecycleTypeOK, Channel,
     History, Phases
<1>6. Joined'
  BY DEF BeginShutdown, dispatching, IInv, Joined
<1>7. Stored'
  BY DEF BeginShutdown, dispatching, IInv, Stored, Holders, LifecycleTypeOK, Channel,
     History
<1>8. Outcomes'
  BY DEF BeginShutdown, dispatching, IInv, Outcomes, Idle, LifecycleTypeOK, Channel,
     History
<1>9. QED
  BY <1>1, <1>2, <1>3, <1>4, <1>5, <1>6, <1>7, <1>8 DEF IInv

LEMMA DrainedKeeps ==
  ASSUME IInv, Drained
  PROVE  IInv'
<1>1. LifecycleTypeOK'
  BY DEF Drained, MayEndDrain, serving, dispatching, IInv, LifecycleTypeOK, Channel,
     History, Failures
<1>2. Phases'
  BY DEF Drained, MayEndDrain, serving, dispatching, IInv, Phases
<1>3. Channels'
  BY DEF Drained, MayEndDrain, serving, dispatching, IInv, Channels, Phases, Idle
<1>4. Failures'
  BY DEF Drained, MayEndDrain, serving, dispatching, IInv, Failures
<1>5. Stops'
  BY DEF Drained, MayEndDrain, serving, dispatching, IInv, Stops, Idle, Phases
<1>6. Joined'
  BY DEF Drained, MayEndDrain, serving, dispatching, IInv, Joined
<1>7. Stored'
  BY DEF Drained, MayEndDrain, serving, dispatching, IInv, Stored, Holders
<1>8. Outcomes'
  BY DEF Drained, MayEndDrain, serving, dispatching, IInv, Outcomes
<1>9. QED
  BY <1>1, <1>2, <1>3, <1>4, <1>5, <1>6, <1>7, <1>8 DEF IInv

LEMMA TimeOutKeeps ==
  ASSUME IInv, TimeOut
  PROVE  IInv'
<1>1. LifecycleTypeOK'
  BY DEF TimeOut, serving, dispatching, IInv, LifecycleTypeOK
<1>2. Phases'
  BY DEF TimeOut, serving, dispatching, IInv, Phases
<1>3. Channels'
  BY DEF TimeOut, serving, dispatching, IInv, Channels
<1>4. Failures'
  BY DEF TimeOut, serving, dispatching, IInv, Failures
<1>5. Stops'
  BY DEF TimeOut, serving, dispatching, IInv, Stops
<1>6. Joined'
  BY DEF TimeOut, serving, dispatching, IInv, Joined
<1>7. Stored'
  BY DEF TimeOut, serving, dispatching, IInv, Stored, Holders
<1>8. Outcomes'
  BY DEF TimeOut, serving, dispatching, IInv, Outcomes
<1>9. QED
  BY <1>1, <1>2, <1>3, <1>4, <1>5, <1>6, <1>7, <1>8 DEF IInv

LEMMA StopDispatchKeeps ==
  ASSUME IInv, StopDispatch
  PROVE  IInv'
<1>1. LifecycleTypeOK'
  BY DEF StopDispatch, JoinOr, serving, dispatching, IInv, LifecycleTypeOK
<1>2. Phases'
  BY DEF StopDispatch, JoinOr, serving, dispatching, IInv, Phases
<1>3. Channels'
  BY DEF StopDispatch, JoinOr, serving, dispatching, IInv, Channels
<1>4. Failures'
  BY DEF StopDispatch, JoinOr, serving, dispatching, IInv, Failures
<1>5. Stops'
  BY DEF StopDispatch, JoinOr, serving, dispatching, IInv, Stops, Idle
<1>6. Joined'
  BY DEF StopDispatch, JoinOr, serving, dispatching, IInv, Joined, Channels, Failures
<1>7. Stored'
  BY DEF StopDispatch, JoinOr, serving, dispatching, IInv, Stored, Holders
<1>8. Outcomes'
  BY DEF StopDispatch, JoinOr, serving, dispatching, IInv, Outcomes
<1>9. QED
  BY <1>1, <1>2, <1>3, <1>4, <1>5, <1>6, <1>7, <1>8 DEF IInv

LEMMA JoinKeeps ==
  ASSUME IInv, Join
  PROVE  IInv'
<1>1. LifecycleTypeOK'
  <2>1. main' \in {"report", "close"} /\ fatal' \in BOOLEAN /\ dispatchErr' \in Channel
    BY DEF Join, Channel, IInv, LifecycleTypeOK
  <2>2. QED
    BY <2>1 DEF Join, serving, IInv, LifecycleTypeOK
<1>2. Phases'
  BY DEF Join, serving, IInv, Phases
<1>3. Channels'
  BY DEF Join, serving, IInv, Channels, LifecycleTypeOK, Channel, History
<1>4. Failures'
  BY DEF Join, serving, IInv, Failures, LifecycleTypeOK, Channel, History, Phases, Idle,
     Channels
<1>5. Stops'
  BY DEF Join, serving, IInv, Stops, Idle, LifecycleTypeOK, Channel, History, Phases,
     Channels, Failures
<1>6. Joined'
  BY DEF Join, serving, IInv, Joined, Phases, Idle, Channels
<1>7. Stored'
  BY DEF Join, serving, IInv, Stored, Holders, Phases, Idle
<1>8. Outcomes'
  BY DEF Join, serving, IInv, Outcomes, Idle
<1>9. QED
  BY <1>1, <1>2, <1>3, <1>4, <1>5, <1>6, <1>7, <1>8 DEF IInv

LEMMA ReportKeeps ==
  ASSUME IInv, Report
  PROVE  IInv'
<1>1. LifecycleTypeOK'
  BY DEF Report, Returned, dispatching, IInv, LifecycleTypeOK, Channel, History
<1>2. Phases'
  BY DEF Report, Returned, dispatching, IInv, Phases, Idle
<1>3. Channels'
  BY DEF Report, Returned, dispatching, IInv, Channels
<1>4. Failures'
  BY DEF Report, Returned, dispatching, IInv, Failures
<1>5. Stops'
  BY DEF Report, Returned, dispatching, IInv, Stops, Idle, Phases
<1>6. Joined'
  BY DEF Report, Returned, dispatching, IInv, Joined
<1>7. Stored'
  BY DEF Report, Returned, dispatching, IInv, Stored, Holders
<1>8. Outcomes'
  BY DEF Report, Returned, dispatching, IInv, Outcomes, Idle, LifecycleTypeOK, Channel,
     History, Phases, Channels, Failures, Stops, Joined
<1>9. QED
  BY <1>1, <1>2, <1>3, <1>4, <1>5, <1>6, <1>7, <1>8 DEF IInv

LEMMA CloseStoreKeeps ==
  ASSUME IInv, CloseStore
  PROVE  IInv'
<1>1. LifecycleTypeOK'
  BY DEF CloseStore, serving, dispatching, IInv, LifecycleTypeOK
<1>2. Phases'
  BY DEF CloseStore, serving, dispatching, IInv, Phases
<1>3. Channels'
  BY DEF CloseStore, serving, dispatching, IInv, Channels
<1>4. Failures'
  BY DEF CloseStore, serving, dispatching, IInv, Failures
<1>5. Stops'
  BY DEF CloseStore, serving, dispatching, IInv, Stops, Idle
<1>6. Joined'
  BY DEF CloseStore, serving, dispatching, IInv, Joined
<1>7. Stored'
  BY DEF CloseStore, serving, dispatching, IInv, Stored
<1>8. Outcomes'
  BY DEF CloseStore, serving, dispatching, IInv, Outcomes, Idle
<1>9. QED
  BY <1>1, <1>2, <1>3, <1>4, <1>5, <1>6, <1>7, <1>8 DEF IInv

LEMMA EndKeeps ==
  ASSUME IInv, End
  PROVE  IInv'
<1>1. LifecycleTypeOK'
  BY DEF End, Holders, serving, dispatching, IInv, LifecycleTypeOK
<1>2. Phases'
  BY DEF End, Holders, serving, dispatching, IInv, Phases
<1>3. Channels'
  BY DEF End, Holders, serving, dispatching, IInv, Channels
<1>4. Failures'
  BY DEF End, Holders, serving, dispatching, IInv, Failures
<1>5. Stops'
  BY DEF End, Holders, serving, dispatching, IInv, Stops, Idle
<1>6. Joined'
  BY DEF End, Holders, serving, dispatching, IInv, Joined
<1>7. Stored'
  BY DEF End, Holders, serving, dispatching, IInv, Stored
<1>8. Outcomes'
  BY DEF End, Holders, serving, dispatching, IInv, Outcomes, Idle
<1>9. QED
  BY <1>1, <1>2, <1>3, <1>4, <1>5, <1>6, <1>7, <1>8 DEF IInv

LEMMA CancelKeeps ==
  ASSUME IInv, Cancel
  PROVE  IInv'
<1>1. LifecycleTypeOK'
  BY DEF Cancel, serving, dispatching, IInv, LifecycleTypeOK
<1>2. Phases'
  BY DEF Cancel, serving, dispatching, IInv, Phases, Idle
<1>3. Channels'
  BY DEF Cancel, serving, dispatching, IInv, Channels
<1>4. Failures'
  BY DEF Cancel, serving, dispatching, IInv, Failures
<1>5. Stops'
  BY DEF Cancel, serving, dispatching, IInv, Stops, Idle
<1>6. Joined'
  BY DEF Cancel, serving, dispatching, IInv, Joined
<1>7. Stored'
  BY DEF Cancel, serving, dispatching, IInv, Stored, Holders
<1>8. Outcomes'
  BY DEF Cancel, serving, dispatching, IInv, Outcomes
<1>9. QED
  BY <1>1, <1>2, <1>3, <1>4, <1>5, <1>6, <1>7, <1>8 DEF IInv

LEMMA AnnounceKeeps ==
  ASSUME IInv, Announce
  PROVE  IInv'
<1>1. LifecycleTypeOK'
  <2>1. seen' \in History
    BY DEF Announce, IInv, LifecycleTypeOK, History
  <2>2. QED
    BY <2>1 DEF Announce, runVars, dispatching, IInv, LifecycleTypeOK
<1>2. Phases'
  BY DEF Announce, runVars, dispatching, IInv, Phases
<1>3. Channels'
  BY DEF Announce, runVars, dispatching, IInv, Channels
<1>4. Failures'
  BY DEF Announce, runVars, dispatching, IInv, Failures
<1>5. Stops'
  BY DEF Announce, runVars, dispatching, IInv, Stops, Idle
<1>6. Joined'
  BY DEF Announce, runVars, dispatching, IInv, Joined
<1>7. Stored'
  BY DEF Announce, runVars, dispatching, IInv, Stored, Holders, LifecycleTypeOK,
     Channel, History
<1>8. Outcomes'
  BY DEF Announce, runVars, dispatching, IInv, Outcomes, Idle
<1>9. QED
  BY <1>1, <1>2, <1>3, <1>4, <1>5, <1>6, <1>7, <1>8 DEF IInv

LEMMA ListenKeeps ==
  ASSUME IInv, Listen
  PROVE  IInv'
<1>1. LifecycleTypeOK'
  BY DEF Listen, runVars, dispatching, IInv, LifecycleTypeOK
<1>2. Phases'
  BY DEF Listen, runVars, dispatching, IInv, Phases
<1>3. Channels'
  BY DEF Listen, runVars, dispatching, IInv, Channels
<1>4. Failures'
  BY DEF Listen, runVars, dispatching, IInv, Failures
<1>5. Stops'
  BY DEF Listen, runVars, dispatching, IInv, Stops, Idle
<1>6. Joined'
  BY DEF Listen, runVars, dispatching, IInv, Joined
<1>7. Stored'
  BY DEF Listen, runVars, dispatching, IInv, Stored, Holders
<1>8. Outcomes'
  BY DEF Listen, runVars, dispatching, IInv, Outcomes, Idle
<1>9. QED
  BY <1>1, <1>2, <1>3, <1>4, <1>5, <1>6, <1>7, <1>8 DEF IInv

LEMMA ListenFailsKeeps ==
  ASSUME IInv, ListenFails
  PROVE  IInv'
<1>1. LifecycleTypeOK'
  BY DEF ListenFails, runVars, dispatching, IInv, LifecycleTypeOK, Channel, History
<1>2. Phases'
  BY DEF ListenFails, runVars, dispatching, IInv, Phases
<1>3. Channels'
  BY DEF ListenFails, runVars, dispatching, IInv, Channels
<1>4. Failures'
  BY DEF ListenFails, runVars, dispatching, IInv, Failures
<1>5. Stops'
  BY DEF ListenFails, runVars, dispatching, IInv, Stops
<1>6. Joined'
  BY DEF ListenFails, runVars, dispatching, IInv, Joined
<1>7. Stored'
  BY DEF ListenFails, runVars, dispatching, IInv, Stored, Holders
<1>8. Outcomes'
  BY DEF ListenFails, runVars, dispatching, IInv, Outcomes
<1>9. QED
  BY <1>1, <1>2, <1>3, <1>4, <1>5, <1>6, <1>7, <1>8 DEF IInv

LEMMA ListenReturnsKeeps ==
  ASSUME IInv, ListenReturns
  PROVE  IInv'
<1>1. LifecycleTypeOK'
  BY DEF ListenReturns, runVars, dispatching, IInv, LifecycleTypeOK, Channel, History
<1>2. Phases'
  BY DEF ListenReturns, runVars, dispatching, IInv, Phases
<1>3. Channels'
  BY DEF ListenReturns, runVars, dispatching, IInv, Channels
<1>4. Failures'
  BY DEF ListenReturns, runVars, dispatching, IInv, Failures
<1>5. Stops'
  BY DEF ListenReturns, runVars, dispatching, IInv, Stops, Idle
<1>6. Joined'
  BY DEF ListenReturns, runVars, dispatching, IInv, Joined
<1>7. Stored'
  BY DEF ListenReturns, runVars, dispatching, IInv, Stored, Holders
<1>8. Outcomes'
  BY DEF ListenReturns, runVars, dispatching, IInv, Outcomes, Idle
<1>9. QED
  BY <1>1, <1>2, <1>3, <1>4, <1>5, <1>6, <1>7, <1>8 DEF IInv

LEMMA AcceptKeeps ==
  ASSUME IInv, NEW h \in Handler, Accept(h)
  PROVE  IInv'
<1>1. LifecycleTypeOK'
  BY DEF Accept, runVars, dispatching, IInv, LifecycleTypeOK
<1>2. Phases'
  BY DEF Accept, runVars, dispatching, IInv, Phases
<1>3. Channels'
  BY DEF Accept, runVars, dispatching, IInv, Channels
<1>4. Failures'
  BY DEF Accept, runVars, dispatching, IInv, Failures
<1>5. Stops'
  BY DEF Accept, runVars, dispatching, IInv, Stops
<1>6. Joined'
  BY DEF Accept, runVars, dispatching, IInv, Joined
<1>7. Stored'
  BY DEF Accept, runVars, dispatching, IInv, Stored, Holders
<1>8. Outcomes'
  BY DEF Accept, runVars, dispatching, IInv, Outcomes
<1>9. QED
  BY <1>1, <1>2, <1>3, <1>4, <1>5, <1>6, <1>7, <1>8 DEF IInv

LEMMA AcquireKeeps ==
  ASSUME IInv, NEW h \in Handler, Acquire(h)
  PROVE  IInv'
<1>1. LifecycleTypeOK'
  BY DEF Acquire, runVars, dispatching, IInv, LifecycleTypeOK
<1>2. Phases'
  BY DEF Acquire, runVars, dispatching, IInv, Phases, Idle
<1>3. Channels'
  BY DEF Acquire, runVars, dispatching, IInv, Channels
<1>4. Failures'
  BY DEF Acquire, runVars, dispatching, IInv, Failures
<1>5. Stops'
  BY DEF Acquire, runVars, dispatching, IInv, Stops, Idle
<1>6. Joined'
  BY DEF Acquire, runVars, dispatching, IInv, Joined
<1>7. Stored'
  BY DEF Acquire, runVars, dispatching, IInv, Stored
<1>8. Outcomes'
  BY DEF Acquire, runVars, dispatching, IInv, Outcomes, Idle
<1>9. QED
  BY <1>1, <1>2, <1>3, <1>4, <1>5, <1>6, <1>7, <1>8 DEF IInv

LEMMA ReleaseKeeps ==
  ASSUME IInv, NEW h \in Handler, Release(h)
  PROVE  IInv'
<1>1. LifecycleTypeOK'
  BY DEF Release, runVars, dispatching, IInv, LifecycleTypeOK
<1>2. Phases'
  BY DEF Release, runVars, dispatching, IInv, Phases, Idle
<1>3. Channels'
  BY DEF Release, runVars, dispatching, IInv, Channels
<1>4. Failures'
  BY DEF Release, runVars, dispatching, IInv, Failures
<1>5. Stops'
  BY DEF Release, runVars, dispatching, IInv, Stops, Idle
<1>6. Joined'
  BY DEF Release, runVars, dispatching, IInv, Joined
<1>7. Stored'
  BY DEF Release, runVars, dispatching, IInv, Stored, Holders
<1>8. Outcomes'
  BY DEF Release, runVars, dispatching, IInv, Outcomes, Idle
<1>9. QED
  BY <1>1, <1>2, <1>3, <1>4, <1>5, <1>6, <1>7, <1>8 DEF IInv

LEMMA FinishKeeps ==
  ASSUME IInv, NEW h \in Handler, Finish(h)
  PROVE  IInv'
<1>1. LifecycleTypeOK'
  BY DEF Finish, runVars, dispatching, IInv, LifecycleTypeOK
<1>2. Phases'
  BY DEF Finish, runVars, dispatching, IInv, Phases, Idle
<1>3. Channels'
  BY DEF Finish, runVars, dispatching, IInv, Channels
<1>4. Failures'
  BY DEF Finish, runVars, dispatching, IInv, Failures
<1>5. Stops'
  BY DEF Finish, runVars, dispatching, IInv, Stops, Idle
<1>6. Joined'
  BY DEF Finish, runVars, dispatching, IInv, Joined
<1>7. Stored'
  BY DEF Finish, runVars, dispatching, IInv, Stored, Holders
<1>8. Outcomes'
  BY DEF Finish, runVars, dispatching, IInv, Outcomes, Idle
<1>9. QED
  BY <1>1, <1>2, <1>3, <1>4, <1>5, <1>6, <1>7, <1>8 DEF IInv

LEMMA TickKeeps ==
  ASSUME IInv, Tick
  PROVE  IInv'
<1>1. LifecycleTypeOK'
  BY DEF Tick, runVars, serving, IInv, LifecycleTypeOK
<1>2. Phases'
  BY DEF Tick, runVars, serving, IInv, Phases
<1>3. Channels'
  BY DEF Tick, runVars, serving, IInv, Channels
<1>4. Failures'
  BY DEF Tick, runVars, serving, IInv, Failures
<1>5. Stops'
  BY DEF Tick, runVars, serving, IInv, Stops, Idle
<1>6. Joined'
  BY DEF Tick, runVars, serving, IInv, Joined
<1>7. Stored'
  BY DEF Tick, runVars, serving, IInv, Stored, Holders
<1>8. Outcomes'
  BY DEF Tick, runVars, serving, IInv, Outcomes, Idle
<1>9. QED
  BY <1>1, <1>2, <1>3, <1>4, <1>5, <1>6, <1>7, <1>8 DEF IInv

LEMMA TickDecidedKeeps ==
  ASSUME IInv, TickDecided
  PROVE  IInv'
<1>1. LifecycleTypeOK'
  BY LifecycleAssumption DEF TickDecided, runVars, serving, IInv, LifecycleTypeOK,
     Channel, History
<1>2. Phases'
  BY DEF TickDecided, runVars, serving, IInv, Phases
<1>3. Channels'
  BY DEF TickDecided, runVars, serving, IInv, Channels
<1>4. Failures'
  BY LifecycleAssumption DEF TickDecided, runVars, serving, IInv, Failures
<1>5. Stops'
  BY DEF TickDecided, runVars, serving, IInv, Stops, Idle
<1>6. Joined'
  BY DEF TickDecided, runVars, serving, IInv, Joined
<1>7. Stored'
  BY DEF TickDecided, runVars, serving, IInv, Stored, Holders
<1>8. Outcomes'
  BY DEF TickDecided, runVars, serving, IInv, Outcomes, Idle
<1>9. QED
  BY <1>1, <1>2, <1>3, <1>4, <1>5, <1>6, <1>7, <1>8 DEF IInv

LEMMA TickUndecidedKeeps ==
  ASSUME IInv, TickUndecided
  PROVE  IInv'
<1>1. LifecycleTypeOK'
  <2>1. failures' = failures + 1 /\ failures + 1 \in 1..MaxDispatchFailures
    BY LifecycleAssumption DEF TickUndecided, IInv, Failures, LifecycleTypeOK
  <2>2. dispatcher' \in {"waiting", "returned"} /\ dispatchErr' \in Channel
    BY DEF TickUndecided, IInv, LifecycleTypeOK, Channel
  <2>3. seen' \in History
    <3>1. seen' = [seen EXCEPT !.streak = @ + 1, !.gaveUp = GivesUp /\ ~stopped]
      BY DEF TickUndecided
    <3>2. seen.streak + 1 \in 0..MaxDispatchFailures
      BY <2>1, LifecycleAssumption DEF IInv, Failures, LifecycleTypeOK
    <3>3. (GivesUp /\ ~stopped) \in BOOLEAN
      OBVIOUS
    <3>4. QED
      BY <3>1, <3>2, <3>3 DEF IInv, LifecycleTypeOK, History
  <2>4. QED
    BY <2>1, <2>2, <2>3, LifecycleAssumption DEF TickUndecided, runVars, serving, IInv, LifecycleTypeOK
<1>2. Phases'
  BY DEF TickUndecided, GivesUp, Counts, runVars, serving, IInv, Phases
<1>3. Channels'
  BY DEF TickUndecided, GivesUp, Counts, runVars, serving, IInv, Channels
<1>4. Failures'
  BY LifecycleAssumption DEF TickUndecided, GivesUp, Counts, runVars, serving, IInv,
     Failures, LifecycleTypeOK, Channel, History, Channels
<1>5. Stops'
  BY DEF TickUndecided, GivesUp, Counts, runVars, serving, IInv, Stops, Idle
<1>6. Joined'
  BY DEF TickUndecided, GivesUp, Counts, runVars, serving, IInv, Joined
<1>7. Stored'
  BY DEF TickUndecided, GivesUp, Counts, runVars, serving, IInv, Stored, Holders
<1>8. Outcomes'
  BY DEF TickUndecided, GivesUp, Counts, runVars, serving, IInv, Outcomes, Idle,
     Failures, Joined
<1>9. QED
  BY <1>1, <1>2, <1>3, <1>4, <1>5, <1>6, <1>7, <1>8 DEF IInv

LEMMA DispatcherStopsKeeps ==
  ASSUME IInv, DispatcherStops
  PROVE  IInv'
<1>1. LifecycleTypeOK'
  BY DEF DispatcherStops, runVars, serving, IInv, LifecycleTypeOK, Channel, History
<1>2. Phases'
  BY DEF DispatcherStops, runVars, serving, IInv, Phases
<1>3. Channels'
  BY DEF DispatcherStops, runVars, serving, IInv, Channels
<1>4. Failures'
  BY DEF DispatcherStops, runVars, serving, IInv, Failures
<1>5. Stops'
  BY DEF DispatcherStops, runVars, serving, IInv, Stops, Idle
<1>6. Joined'
  BY DEF DispatcherStops, runVars, serving, IInv, Joined
<1>7. Stored'
  BY DEF DispatcherStops, runVars, serving, IInv, Stored, Holders
<1>8. Outcomes'
  BY DEF DispatcherStops, runVars, serving, IInv, Outcomes, Idle
<1>9. QED
  BY <1>1, <1>2, <1>3, <1>4, <1>5, <1>6, <1>7, <1>8 DEF IInv

-----------------------------------------------------------------------------
(* The theorems.                                                             *)

LEMMA InitEstablishes ==
  ASSUME LifecycleInit PROVE IInv
<1>1. LifecycleTypeOK
  <2>1. handler \in [Handler -> {"none", "running", "holding"}]
    BY DEF LifecycleInit
  <2>2. failures \in 0..MaxDispatchFailures /\ seen \in History
    BY LifecycleAssumption DEF LifecycleInit, History
  <2>3. QED
    BY <2>1, <2>2 DEF LifecycleInit, LifecycleTypeOK, Channel
<1>2. Phases /\ Channels /\ Failures
  BY LifecycleAssumption DEF LifecycleInit, Phases, Channels, Failures, Idle
<1>3. Stops /\ Joined /\ Stored /\ Outcomes
  BY DEF LifecycleInit, Stops, Joined, Stored, Outcomes
<1>4. QED
  BY <1>1, <1>2, <1>3 DEF IInv

LEMMA StutteringKeeps ==
  ASSUME IInv, UNCHANGED lifecycleVars PROVE IInv'
<1>1. LifecycleTypeOK' /\ Phases' /\ Channels' /\ Failures'
  BY DEF lifecycleVars, runVars, serving, dispatching, IInv, LifecycleTypeOK, Phases, Idle,
         Channels, Failures
<1>2. Stops' /\ Joined' /\ Stored' /\ Outcomes'
  BY DEF lifecycleVars, runVars, serving, dispatching, IInv, Stops, Idle, Joined, Stored,
         Holders, Outcomes
<1>3. QED
  BY <1>1, <1>2 DEF IInv

LEMMA NextKeeps ==
  ASSUME IInv, [LifecycleNext]_lifecycleVars PROVE IInv'
<1>1. CASE Refuse \/ Build
  BY <1>1, RefuseKeeps, BuildKeeps
<1>2. CASE RunStep
  BY <1>2, StartKeeps, ListenerFailedKeeps, DispatcherFailedKeeps, ContextDoneKeeps,
     ClearReadinessKeeps, BeginShutdownKeeps, DrainedKeeps, TimeOutKeeps,
     StopDispatchKeeps, JoinKeeps, ReportKeeps, CloseStoreKeeps, EndKeeps DEF RunStep
<1>3. CASE Cancel
  BY <1>3, CancelKeeps
<1>4. CASE Announce \/ Listen \/ ListenFails \/ ListenReturns
  BY <1>4, AnnounceKeeps, ListenKeeps, ListenFailsKeeps, ListenReturnsKeeps
<1>5. ASSUME NEW h \in Handler, Accept(h) \/ Acquire(h) \/ Release(h) \/ Finish(h)
      PROVE  IInv'
  BY <1>5, AcceptKeeps, AcquireKeeps, ReleaseKeeps, FinishKeeps
<1>6. CASE Tick \/ TickDecided \/ TickUndecided \/ DispatcherStops
  BY <1>6, TickKeeps, TickDecidedKeeps, TickUndecidedKeeps, DispatcherStopsKeeps
<1>7. CASE UNCHANGED lifecycleVars
  BY <1>7, StutteringKeeps
<1>8. QED
  BY <1>1, <1>2, <1>3, <1>4, <1>5, <1>6, <1>7 DEF LifecycleNext

LEMMA Invariant == LifecycleSpec => []IInv
BY InitEstablishes, NextKeeps, PTL DEF LifecycleSpec

\* Every part of a process keeps its type: the failures never pass their bound, and
\* nothing is written to a channel but what its goroutine returned (app.go:203).
THEOREM TypeCorrect == LifecycleSpec => []LifecycleTypeOK
<1>1. IInv => LifecycleTypeOK
  BY DEF IInv
<1>2. QED
  BY <1>1, Invariant, PTL

\* Run stops the server before the dispatcher and the dispatcher before the store, and
\* is announced by no probe meanwhile, whatever fails or is late (app.go:251-263).
THEOREM StopsInOrder == LifecycleSpec => []StoppedInOrder
<1>1. IInv => StoppedInOrder
  <2> SUFFICES ASSUME IInv PROVE StoppedInOrder
    OBVIOUS
  <2>1. DispatcherOutlivesServer
    BY DEF IInv, Stops, DispatcherOutlivesServer
  <2>2. StoreOutlivesDispatcher
    BY DEF IInv, Joined, Stored, StoreOutlivesDispatcher
  <2>3. SilentWhileStopping
    BY DEF IInv, Stored, SilentWhileStopping, Announced
  <2>4. QED
    BY <2>1, <2>2, <2>3 DEF StoppedInOrder
<1>2. QED
  BY <1>1, Invariant, PTL

\* A clean end was asked for and left no request and no failure behind, and the
\* dispatcher ends the service only by its own failures in a row (app.go:265-305).
THEOREM ReportsTheTruth == LifecycleSpec => []EndsTellTheTruth
<1>1. IInv => EndsTellTheTruth
  BY DEF IInv, Outcomes, Failures, EndsTellTheTruth
<1>2. QED
  BY <1>1, Invariant, PTL
=============================================================================
