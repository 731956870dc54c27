-------------------------- MODULE RequestHandling --------------------------
(***************************************************************************)
(* How one intercepted request is resolved (utils/handle-request.ts): the   *)
(* coroutine handleRequest(), the listeners of the "request" event it       *)
(* emits, the client's abort signal, the listeners of "unhandledException"  *)
(* and the request controller they all decide the request with.             *)
(*                                                                          *)
(* Each await of handleRequest() is a value of pc; between two awaits the   *)
(* code runs to completion, so one action is one such stretch.  Listeners   *)
(* are user code: they may call the controller while they run, keep it and  *)
(* call it later (CallController), throw, or never finish.                  *)
(*                                                                          *)
(* Listeners run one after another in the order of their registration, and  *)
(* the first that throws rejects the emission (emitAsPromise of the emitter *)
(* library, seen from how this code awaits it).                             *)
(***************************************************************************)
EXTENDS RequestController, Naturals

CONSTANTS
  MaxListeners,            \* "request" listeners at most
  MaxExceptionListeners    \* "unhandledException" listeners at most

ASSUME ListenersAssumption ==
  MaxListeners \in Nat /\ MaxExceptionListeners \in Nat

VARIABLES
  pc,          \* where handleRequest() is
  signal,      \* options.request.signal
  aborted,     \* isRequestAborted
  raced,       \* what settled Promise.race(): idle before the emission, then open
  listeners,   \* [total, begun, running]: the emission of "request"
  thrown,      \* what a "request" listener threw
  exceptionListeners,  \* the same for "unhandledException"
  exceptionState,      \* readyState of unhandledExceptionController
  decidedBy    \* who moved readyState away from PENDING

vars == <<controllerVars, pc, signal, aborted, raced, listeners, thrown,
          exceptionListeners, exceptionState, decidedBy>>

emissionVars == <<listeners, thrown, exceptionListeners>>

\* A thrown InterceptorError, a Node-like error (code and errno), a Response,
\* any other error, and a falsy value such as a bare Promise.reject().
Thrown == {"interceptor", "nodelike", "response", "other", "falsy"}
Settled == {"returned", "rejected"}

Emissions(n) ==
  {e \in [total: 0..n, begun: 0..n, running: BOOLEAN] :
     e.begun <= e.total /\ (e.running => e.begun > 0)}

TypeOK ==
  /\ ControllerTypeOK
  /\ pc \in {"start", "racing", "raising", "passing", "waiting"} \cup Settled
  /\ signal \in {"none", "open", "aborted"}
  /\ aborted \in BOOLEAN
  /\ raced \in {"idle", "open", "aborted", "listeners", "thrown", "handled"}
  /\ listeners \in Emissions(MaxListeners)
  /\ thrown \in {"nothing"} \cup Thrown
  /\ exceptionListeners \in Emissions(MaxExceptionListeners)
  /\ exceptionState \in {"none"} \cup ReadyStates
  /\ decidedBy \in {"nobody", "listener", "handler", "exception"}

Init ==
  /\ ControllerInit
  /\ pc = "start"
  /\ signal \in {"none", "open", "aborted"}
  /\ aborted = FALSE
  /\ raced = "idle"
  /\ listeners \in {e \in Emissions(MaxListeners) : e.begun = 0}
  /\ thrown = "nothing"
  /\ exceptionListeners \in {e \in Emissions(MaxExceptionListeners) : e.begun = 0}
  /\ exceptionState = "none"
  /\ decidedBy = "nobody"

-----------------------------------------------------------------------------
\* The decisions handleRequest() takes itself.  On a request that is already
\* decided the controller throws, and handleRequest() rejects.

DecideWithError ==
  \/ /\ \E throws \in BOOLEAN :
          /\ errorWith(throws)
          /\ pc' = IF throws THEN "rejected" ELSE "returned"
     /\ decidedBy' = "handler"
  \/ /\ ~Pending
     /\ pc' = "rejected"
     /\ UNCHANGED <<controllerVars, decidedBy>>

DecideWithResponse ==
  \/ respondWith /\ pc' = "returned" /\ decidedBy' = "handler"
  \/ /\ ~Pending
     /\ pc' = "rejected"
     /\ UNCHANGED <<controllerVars, decidedBy>>

DecideToPerform ==
  \/ passthrough /\ pc' = "passing" /\ decidedBy' = "handler"
  \/ /\ ~Pending
     /\ pc' = "waiting"
     /\ UNCHANGED <<controllerVars, decidedBy>>

ListenersEnded ==
  thrown = "nothing" /\ ~listeners.running /\ listeners.begun = listeners.total

\* Whether the promise w of Promise.race() has settled.
Entrant(w) ==
  \/ w = "aborted" /\ aborted
  \/ w = "handled" /\ handled
  \/ w = "thrown" /\ thrown # "nothing"
  \/ w = "listeners" /\ ListenersEnded

-----------------------------------------------------------------------------
\* Faulty variants, each a mistake this code could make.

StartListenerPastTheEnd ==
  /\ raced # "idle" /\ thrown = "nothing" /\ ~listeners.running
  /\ listeners.begun <= listeners.total
  /\ listeners' = [listeners EXCEPT !.begun = @ + 1, !.running = TRUE]
  /\ UNCHANGED <<controllerVars, pc, signal, aborted, raced, thrown,
                 exceptionListeners, exceptionState, decidedBy>>

\* Acting on the listeners' outcome before looking at the abort.
UndecidedBeforeAborted ==
  /\ raced = "thrown" => thrown = "falsy"
  /\ DecideToPerform
  /\ UNCHANGED exceptionState

\* An exception that reached no decision leaves the request undecided.
RaisedWithoutDecision ==
  /\ pc = "raising" /\ ~exceptionListeners.running
  /\ exceptionListeners.begun = exceptionListeners.total
  /\ pc' = "returned"
  /\ UNCHANGED <<controllerVars, decidedBy, signal, aborted, raced, emissionVars,
                 exceptionState>>

\* The exception controller's state is not looked at.
AlwaysServerError ==
  /\ pc = "raising" /\ ~exceptionListeners.running
  /\ exceptionListeners.begun = exceptionListeners.total
  /\ DecideWithResponse
  /\ UNCHANGED <<signal, aborted, raced, emissionVars, exceptionState>>

\* The exception controller's source drops every verdict.
VerdictDropped(verdict) ==
  /\ exceptionListeners.begun > 0 /\ exceptionState = "PENDING"
  /\ exceptionState' = verdict
  /\ UNCHANGED <<controllerVars, decidedBy, pc, signal, aborted, raced,
                 emissionVars>>

-----------------------------------------------------------------------------
\* handleRequest(): an already aborted request is errored, any other is
\* emitted with the abort listener attached.
Begin ==
  /\ pc = "start"
  /\ \/ /\ signal = "aborted"
        /\ DecideWithError
        /\ UNCHANGED raced
     \/ /\ signal # "aborted"
        /\ pc' = "racing"
        /\ raced' = "open"
        /\ UNCHANGED <<controllerVars, decidedBy>>
  /\ UNCHANGED <<signal, aborted, emissionVars, exceptionState>>

\* The client aborts the request; onAbort() is attached while the race is on.
Abort ==
  /\ signal = "open"
  /\ signal' = "aborted"
  /\ aborted' = (pc = "racing")
  /\ UNCHANGED <<controllerVars, pc, raced, emissionVars, exceptionState,
                 decidedBy>>

RaceEntrants == {w \in {"aborted", "handled", "thrown", "listeners"} : Entrant(w)}

RaceSettles ==
  /\ raced = "open"
  /\ raced' \in RaceEntrants
  /\ UNCHANGED <<controllerVars, pc, signal, aborted, emissionVars,
                 exceptionState, decidedBy>>

-----------------------------------------------------------------------------
\* The emission of "request".  It goes on after handleRequest() has stopped
\* waiting for it.

StartListener ==
  /\ raced # "idle" /\ thrown = "nothing"
  /\ ~listeners.running /\ listeners.begun < listeners.total
  /\ listeners' = [listeners EXCEPT !.begun = @ + 1, !.running = TRUE]
  /\ UNCHANGED <<controllerVars, pc, signal, aborted, raced, thrown,
                 exceptionListeners, exceptionState, decidedBy>>

ListenerReturns ==
  /\ listeners.running
  /\ listeners' = [listeners EXCEPT !.running = FALSE]
  /\ UNCHANGED <<controllerVars, pc, signal, aborted, raced, thrown,
                 exceptionListeners, exceptionState, decidedBy>>

\* An InterceptorError comes from deciding a request that is already decided.
ListenerThrows(value) ==
  /\ listeners.running
  /\ value = "interceptor" => ~Pending
  /\ listeners' = [listeners EXCEPT !.running = FALSE]
  /\ thrown' = value
  /\ UNCHANGED <<controllerVars, pc, signal, aborted, raced,
                 exceptionListeners, exceptionState, decidedBy>>

\* Whoever was given the controller may use it, then or at any time later.
CallController ==
  /\ listeners.begun > 0
  /\ passthrough \/ respondWith \/ \E throws \in BOOLEAN : errorWith(throws)
  /\ decidedBy' = "listener"
  /\ UNCHANGED <<pc, signal, aborted, raced, emissionVars, exceptionState>>

-----------------------------------------------------------------------------
\* The continuation of the race: the abort listener is detached and the first
\* that applies of abort, exception and "nobody decided" is acted on.

ResumeAborted ==
  /\ aborted
  /\ DecideWithError
  /\ UNCHANGED exceptionState

\* handleResponseError()
ResumeKnownError ==
  /\ ~aborted /\ raced = "thrown"
  /\ \/ /\ thrown = "interceptor"
        /\ pc' = "rejected"
        /\ UNCHANGED <<controllerVars, decidedBy>>
     \/ thrown = "nodelike" /\ DecideWithError
     \/ thrown = "response" /\ DecideWithResponse
  /\ UNCHANGED exceptionState

ResumeException ==
  /\ ~aborted /\ raced = "thrown" /\ thrown = "other"
  /\ \/ /\ exceptionListeners.total > 0
        /\ pc' = "raising"
        /\ exceptionState' = "PENDING"
        /\ UNCHANGED <<controllerVars, decidedBy>>
     \/ /\ exceptionListeners.total = 0
        /\ DecideWithResponse
        /\ UNCHANGED exceptionState

\* A falsy value thrown is not seen as an error at all.
ResumeUndecided ==
  /\ ~aborted /\ (raced = "thrown" => thrown = "falsy")
  /\ DecideToPerform
  /\ UNCHANGED exceptionState

Resume ==
  /\ pc = "racing" /\ raced # "open"
  /\ ResumeAborted \/ ResumeKnownError \/ ResumeException \/ ResumeUndecided
  /\ UNCHANGED <<signal, aborted, raced, emissionVars>>

-----------------------------------------------------------------------------
\* The emission of "unhandledException", which handleRequest() awaits alone.

StartExceptionListener ==
  /\ pc = "raising"
  /\ ~exceptionListeners.running
  /\ exceptionListeners.begun < exceptionListeners.total
  /\ exceptionListeners' = [exceptionListeners EXCEPT !.begun = @ + 1, !.running = TRUE]
  /\ UNCHANGED <<controllerVars, pc, signal, aborted, raced, listeners, thrown,
                 exceptionState, decidedBy>>

ExceptionListenerReturns ==
  /\ exceptionListeners.running
  /\ exceptionListeners' = [exceptionListeners EXCEPT !.running = FALSE]
  /\ UNCHANGED <<controllerVars, pc, signal, aborted, raced, listeners, thrown,
                 exceptionState, decidedBy>>

ExceptionListenerThrows ==
  /\ exceptionListeners.running
  /\ exceptionListeners' = [exceptionListeners EXCEPT !.running = FALSE]
  /\ pc' = "rejected"
  /\ UNCHANGED <<controllerVars, signal, aborted, raced, listeners, thrown,
                 exceptionState, decidedBy>>

\* The exception controller passes its verdict on to the request's own
\* controller, except passthrough(), whose source method is empty.  On a
\* decided request that call rejects and nothing awaits it.
CallExceptionController(verdict) ==
  /\ exceptionListeners.begun > 0 /\ exceptionState = "PENDING"
  /\ exceptionState' = verdict
  /\ \/ /\ verdict = "PASSTHROUGH"
        /\ UNCHANGED <<controllerVars, decidedBy>>
     \/ /\ verdict = "RESPONSE" /\ respondWith
        /\ decidedBy' = "exception"
     \/ /\ verdict = "ERROR" /\ \E throws \in BOOLEAN : errorWith(throws)
        /\ decidedBy' = "exception"
     \/ /\ verdict # "PASSTHROUGH" /\ ~Pending
        /\ UNCHANGED <<controllerVars, decidedBy>>
  /\ UNCHANGED <<pc, signal, aborted, raced, emissionVars>>

\* Every exception listener has finished: an exception nobody handled becomes
\* a 500 response.
ExceptionRaised ==
  /\ pc = "raising" /\ ~exceptionListeners.running
  /\ exceptionListeners.begun = exceptionListeners.total
  /\ \/ /\ exceptionState # "PENDING"
        /\ pc' = "returned"
        /\ UNCHANGED <<controllerVars, decidedBy>>
     \/ exceptionState = "PENDING" /\ DecideWithResponse
  /\ UNCHANGED <<signal, aborted, raced, emissionVars, exceptionState>>

-----------------------------------------------------------------------------
\* source.passthrough() settles; if handleRequest() called it, it continues.
SourcePerforms(outcome) ==
  /\ PassthroughSettled(outcome)
  /\ pc' = IF pc # "passing" THEN pc
           ELSE IF outcome = "done" THEN "returned" ELSE "rejected"
  /\ UNCHANGED <<signal, aborted, raced, emissionVars, exceptionState,
                 decidedBy>>

\* `return options.controller.handled`
HandledResumes ==
  /\ pc = "waiting" /\ handled
  /\ pc' = "returned"
  /\ UNCHANGED <<controllerVars, signal, aborted, raced, emissionVars,
                 exceptionState, decidedBy>>

Handler ==
  \/ Begin
  \/ RaceSettles
  \/ Resume
  \/ ExceptionRaised
  \/ HandledResumes

Performing == \E outcome \in {"done", "failed"} : SourcePerforms(outcome)

RequestListeners ==
  \/ StartListener
  \/ ListenerReturns
  \/ \E value \in Thrown : ListenerThrows(value)

ExceptionListeners ==
  \/ StartExceptionListener
  \/ ExceptionListenerReturns
  \/ ExceptionListenerThrows

Next ==
  \/ Handler
  \/ Performing
  \/ RequestListeners
  \/ ExceptionListeners
  \/ Abort
  \/ CallController
  \/ \E verdict \in ReadyStates \ {"PENDING"} : CallExceptionController(verdict)

Spec == Init /\ [][Next]_vars

\* The event loop runs every continuation that is ready, and a request that is
\* performed gets an outcome from the network.  Listeners may never finish.
Fairness == WF_vars(Handler) /\ WF_vars(Performing)
FairSpec == Spec /\ Fairness

\* Here every listener finishes too.
ListenersFinish == WF_vars(RequestListeners) /\ WF_vars(ExceptionListeners)
CooperativeSpec == FairSpec /\ ListenersFinish

-----------------------------------------------------------------------------
\* Properties.

SourceCall ==
  [s \in ReadyStates \ {"PENDING"} |->
     CASE s = "PASSTHROUGH" -> "passthrough"
       [] s = "RESPONSE"    -> "respondWith"
       [] s = "ERROR"       -> "errorWith"]

\* A source method that threw or rejected: `handled` never resolves.
SourceFailed == performing = "failed" \/ (readyState = "ERROR" /\ ~handled)

\* However many listeners, exceptions and aborts meet, the interceptor hears
\* one verdict, the one readyState reports, and `handled` resolves only once
\* that verdict is in and a performed request has come to its end.
OneVerdict ==
  /\ calls = IF Pending THEN <<>> ELSE <<SourceCall[readyState]>>
  /\ handled => ~Pending
  /\ handled /\ readyState = "PASSTHROUGH" => performing = "done"
  /\ Pending <=> decidedBy = "nobody"

\* handleRequest() never returns on a request nobody answers: whatever the
\* listeners threw or left undone, by then the request is decided.  The one
\* exception is an "unhandledException" listener that asked to pass the
\* request through, whose source method does nothing.
ReturnedMeansDecided ==
  pc = "returned" => ~Pending \/ exceptionState = "PASSTHROUGH"

\* handleRequest() performs a request as-is only when its listeners all ended
\* without a verdict, and never an aborted or failed one.  A listener that
\* throws a falsy value counts as ended.
ErrorsNeverPassThrough ==
  pc = "passing" => ~aborted /\ (raced = "listeners" \/ thrown = "falsy")

\* A mocked response or error of an "unhandledException" listener becomes the
\* outcome of the request, unless a late call on the request's own controller
\* or the 500 response came first.
ExceptionVerdictStands ==
  exceptionState \in {"RESPONSE", "ERROR"} =>
    \/ decidedBy = "exception" /\ readyState = exceptionState
    \/ decidedBy = "listener"
    \/ decidedBy = "handler" /\ pc \in Settled

\* The client sees handleRequest() fail with an InterceptorError only when a
\* "request" listener had decided the request: the handler never collides
\* with a decision of its own.
CollisionsComeFromListeners ==
  [][ pc' = "rejected" /\ pc # "rejected"
      /\ ~SourceFailed' /\ UNCHANGED exceptionListeners
        => decidedBy = "listener" ]_vars

\* An abort seen while the listeners run ends the wait for them, even if they
\* never finish.  So does a decision; only an exception thrown before it may still
\* be raised with the exception listeners first.  If every listener finishes,
\* handleRequest() settles, unless a failing source keeps `handled` from resolving.
EventuallySettles ==
  /\ aborted ~> pc \in Settled
  /\ (handled /\ pc = "racing") ~> pc \in Settled \cup {"raising"}
  /\ ListenersFinish => <>(pc \in Settled \/ SourceFailed)

\* The detailed machine implements the promise made for a request.
Outcome == INSTANCE RequestOutcome WITH
  outcome <- IF Pending THEN "open" ELSE readyState,
  announced <- handled,
  withdrawn <- aborted,
  ended <- pc \in Settled

ImplementsOutcome == Outcome!Spec

-----------------------------------------------------------------------------
\* What the code's own documentation says and its behaviour refutes.

\* "Perform this request as-is": a request passed through with the controller
\* of the "unhandledException" event is performed.
PassthroughPerforms ==
  pc = "returned" /\ exceptionState = "PASSTHROUGH" => ~Pending

\* "A Promise that resolves when this controller handles a request":
\* handleRequest() relies on it once a listener has decided the request.
HandledResolves == (pc = "waiting") ~> handled

=============================================================================
