----------------------- MODULE RequestHandling_proofs -----------------------
(***************************************************************************)
(* Proofs about RequestHandling, for any number of listeners and any        *)
(* failing source methods; then about FetchRequests: fetch() is one of the   *)
(* sources the handling is specified for, so that what is shown of it holds  *)
(* of fetch(), and an aborted fetch() never resolves.                        *)
(***************************************************************************)
EXTENDS FetchRequests, SequenceTheorems, TLAPS

\* Where handleRequest() is says what has happened before.
Progress ==
  /\ pc = "start" => raced = "idle" /\ Pending
  /\ pc \in {"racing", "raising", "passing", "waiting"} => raced # "idle"
  /\ raced = "idle" => listeners.begun = 0
  /\ pc \in {"raising", "passing", "waiting"} => ~aborted /\ raced # "aborted"
  /\ raced = "aborted" => aborted
  /\ raced = "thrown" => thrown # "nothing"
  /\ listeners.running => thrown = "nothing"
  /\ thrown = "interceptor" => ~Pending
  /\ raced = "handled" => handled
  /\ aborted => signal = "aborted"
  /\ pc = "start" => ~aborted
  /\ pc = "waiting" => ~Pending
  /\ pc = "passing" => performing = "busy" /\ readyState = "PASSTHROUGH"

\* Who decided, and what the source's promises say about it.
Decision ==
  /\ decidedBy = "handler" => pc \in Settled \cup {"passing"}
  /\ readyState = "PASSTHROUGH" <=> performing # "idle"
  /\ performing = "busy" => ~handled
  /\ aborted /\ pc \in Settled => ~Pending

\* The exception controller exists only once the race was lost to a throw.
Exception ==
  /\ pc = "raising" => exceptionState # "none"
  /\ exceptionListeners.running => pc = "raising"
  /\ exceptionListeners.begun > 0 => exceptionState # "none"
  /\ exceptionState # "none" =>
       raced = "thrown" /\ thrown = "other" /\ pc \in Settled \cup {"raising"}
  /\ decidedBy = "exception" => exceptionState = readyState

IInv ==
  /\ TypeOK
  /\ OneVerdict
  /\ Progress
  /\ Decision
  /\ Exception
  /\ ReturnedMeansDecided
  /\ ErrorsNeverPassThrough
  /\ ExceptionVerdictStands

-----------------------------------------------------------------------------
\* What one verdict calls on the source.
LEMMA FirstCall ==
  /\ SourceCall["PASSTHROUGH"] = "passthrough"
  /\ SourceCall["RESPONSE"] = "respondWith"
  /\ SourceCall["ERROR"] = "errorWith"
  BY DEF SourceCall, ReadyStates

\* A verdict is the first call on a source that has heard none.
LEMMA AppendFirst ==
  ASSUME NEW m \in SourceMethods
  PROVE  Append(<<>>, m) = <<m>> /\ <<m>> \in Seq(SourceMethods)
  OBVIOUS

\* The invariant holds before the request is handled.
LEMMA InitInv == Init => IInv
<1> SUFFICES ASSUME Init PROVE IInv
  OBVIOUS
<1>1. TypeOK
  <2>1. ControllerTypeOK
    BY EmptySeq DEF Init, ControllerInit, ControllerTypeOK, ReadyStates
  <2>2. listeners \in Emissions(MaxListeners)
    BY DEF Init
  <2>3. exceptionListeners \in Emissions(MaxExceptionListeners)
    BY DEF Init
  <2>4. QED
    BY <2>1, <2>2, <2>3 DEF Init, TypeOK, Settled
<1>2. OneVerdict /\ Decision
  BY DEF Init, ControllerInit, OneVerdict, Decision, Pending, Settled
<1>3. Progress /\ ReturnedMeansDecided /\ ErrorsNeverPassThrough
  BY DEF Init, ControllerInit, Progress, Pending, Settled, ReturnedMeansDecided,
         ErrorsNeverPassThrough
<1>4. exceptionListeners.begun = 0 /\ ~exceptionListeners.running
  BY DEF Init, Emissions
<1>5. Exception /\ ExceptionVerdictStands
  BY <1>4 DEF Init, Exception, ExceptionVerdictStands, Settled
<1>6. QED
  BY <1>1, <1>2, <1>3, <1>5 DEF IInv

-----------------------------------------------------------------------------
\* The controller's operations, from a controller that keeps OneVerdict.
ControllerStep ==
  \/ passthrough
  \/ respondWith
  \/ \E throws \in BOOLEAN : errorWith(throws)
  \/ \E outcome \in {"done", "failed"} : PassthroughSettled(outcome)
  \/ UNCHANGED controllerVars

\* They keep the types of the controller's variables.
LEMMA ControllerTypes ==
  ASSUME ControllerTypeOK, ControllerStep
  PROVE  ControllerTypeOK'
<1>1. CASE passthrough
  BY <1>1 DEF passthrough, ControllerTypeOK, ReadyStates, SourceMethods
<1>2. CASE respondWith
  BY <1>2 DEF respondWith, ControllerTypeOK, ReadyStates, SourceMethods
<1>3. CASE \E throws \in BOOLEAN : errorWith(throws)
  BY <1>3 DEF errorWith, ControllerTypeOK, ReadyStates, SourceMethods
<1>4. CASE \E outcome \in {"done", "failed"} : PassthroughSettled(outcome)
  BY <1>4 DEF PassthroughSettled, ControllerTypeOK
<1>5. CASE UNCHANGED controllerVars
  BY <1>5 DEF controllerVars, ControllerTypeOK
<1>6. QED
  BY <1>1, <1>2, <1>3, <1>4, <1>5 DEF ControllerStep

\* The part of OneVerdict and Decision that is about the controller alone.
OneCall ==
  /\ calls = IF Pending THEN <<>> ELSE <<SourceCall[readyState]>>
  /\ handled => ~Pending
  /\ handled /\ readyState = "PASSTHROUGH" => performing = "done"
  /\ readyState = "PASSTHROUGH" <=> performing # "idle"
  /\ performing = "busy" => ~handled

\* They keep the source to one call.
LEMMA ControllerOneCall ==
  ASSUME ControllerTypeOK, OneCall, ControllerStep
  PROVE  OneCall'
<1> USE FirstCall, AppendFirst DEF OneCall, Pending, SourceMethods
<1>1. CASE passthrough
  BY <1>1 DEF passthrough
<1>2. CASE respondWith
  BY <1>2 DEF respondWith
<1>3. CASE \E throws \in BOOLEAN : errorWith(throws)
  BY <1>3 DEF errorWith
<1>4. CASE \E outcome \in {"done", "failed"} : PassthroughSettled(outcome)
  BY <1>4 DEF PassthroughSettled
<1>5. CASE UNCHANGED controllerVars
  BY <1>5 DEF controllerVars
<1>6. QED
  BY <1>1, <1>2, <1>3, <1>4, <1>5 DEF ControllerStep

-----------------------------------------------------------------------------
\* Every step of the machine is one of the controller's operations, or leaves
\* the controller alone.
LEMMA StepsController ==
  ASSUME [Next]_vars
  PROVE  ControllerStep
<1> USE DEF ControllerStep
<1>1. CASE Begin
  BY <1>1 DEF Begin, DecideWithError, emissionVars, controllerVars
<1>2. CASE RaceSettles
  BY <1>2 DEF RaceSettles, RaceEntrants, Entrant, emissionVars, controllerVars
<1>3. CASE Resume
  BY <1>3 DEF Resume, ResumeAborted, ResumeKnownError, ResumeException, ResumeUndecided,
         DecideWithError, DecideWithResponse, DecideToPerform, emissionVars, controllerVars
<1>4. CASE ExceptionRaised
  BY <1>4 DEF ExceptionRaised, DecideWithResponse, emissionVars, controllerVars
<1>5. CASE HandledResumes
  BY <1>5 DEF HandledResumes, emissionVars, controllerVars
<1>6. CASE Performing
  BY <1>6 DEF Performing, SourcePerforms, emissionVars, controllerVars
<1>7. CASE StartListener
  BY <1>7 DEF StartListener, emissionVars, controllerVars
<1>8. CASE ListenerReturns
  BY <1>8 DEF ListenerReturns, emissionVars, controllerVars
<1>9. CASE \E value \in Thrown : ListenerThrows(value)
  BY <1>9 DEF ListenerThrows, Thrown, emissionVars, controllerVars
<1>10. CASE StartExceptionListener
  BY <1>10 DEF StartExceptionListener, emissionVars, controllerVars
<1>11. CASE ExceptionListenerReturns
  BY <1>11 DEF ExceptionListenerReturns, emissionVars, controllerVars
<1>12. CASE ExceptionListenerThrows
  BY <1>12 DEF ExceptionListenerThrows, emissionVars, controllerVars
<1>13. CASE Abort
  BY <1>13 DEF Abort, emissionVars, controllerVars
<1>14. CASE CallController
  BY <1>14 DEF CallController, emissionVars, controllerVars
<1>15. CASE \E verdict \in ReadyStates \ {"PENDING"} : CallExceptionController(verdict)
  BY <1>15 DEF CallExceptionController, ReadyStates, emissionVars, controllerVars
<1>16. CASE UNCHANGED vars
  BY <1>16 DEF vars, emissionVars, controllerVars
<1>17. QED
  BY <1>1, <1>2, <1>3, <1>4, <1>5, <1>6, <1>7, <1>8, <1>9, <1>10, <1>11, <1>12, <1>13, <1>14, <1>15, <1>16
     DEF Next, Handler, RequestListeners, ExceptionListeners

\* An emission begins its next listener.
LEMMA EmissionBegins ==
  ASSUME NEW n \in Nat, NEW e \in Emissions(n), e.begun < e.total
  PROVE  [e EXCEPT !.begun = @ + 1, !.running = TRUE] \in Emissions(n)
<1> DEFINE f == [e EXCEPT !.begun = @ + 1, !.running = TRUE]
<1>1. /\ e \in [total: 0..n, begun: 0..n, running: BOOLEAN]
      /\ e.total \in 0..n /\ e.begun \in 0..n
  BY DEF Emissions
<1>2. e.begun + 1 \in 0..n /\ e.begun + 1 > 0 /\ e.begun + 1 <= e.total
  BY <1>1
<1>3. f \in [total: 0..n, begun: 0..n, running: BOOLEAN]
  BY <1>1, <1>2
<1>4. f.begun = e.begun + 1 /\ f.total = e.total /\ f.running = TRUE
  BY <1>1
<1>5. QED
  BY <1>2, <1>3, <1>4 DEF Emissions

\* The emissions stay within the listeners there are.
LEMMA StepsEmissions ==
  ASSUME TypeOK, [Next]_vars
  PROVE  /\ listeners' \in Emissions(MaxListeners)
         /\ exceptionListeners' \in Emissions(MaxExceptionListeners)
<1> USE ListenersAssumption DEF TypeOK, Emissions, emissionVars
<1>1. CASE Begin
  BY <1>1 DEF Begin, DecideWithError
<1>2. CASE RaceSettles
  BY <1>2 DEF RaceSettles, RaceEntrants, Entrant
<1>3. CASE Resume
  BY <1>3 DEF Resume, ResumeAborted, ResumeKnownError, ResumeException, ResumeUndecided,
         DecideWithError, DecideWithResponse, DecideToPerform
<1>4. CASE ExceptionRaised
  BY <1>4 DEF ExceptionRaised, DecideWithResponse
<1>5. CASE HandledResumes
  BY <1>5 DEF HandledResumes
<1>6. CASE Performing
  BY <1>6 DEF Performing, SourcePerforms
<1>7. CASE StartListener
  BY <1>7, EmissionBegins DEF StartListener
<1>8. CASE ListenerReturns
  BY <1>8 DEF ListenerReturns
<1>9. CASE \E value \in Thrown : ListenerThrows(value)
  BY <1>9 DEF ListenerThrows, Thrown
<1>10. CASE StartExceptionListener
  BY <1>10, EmissionBegins DEF StartExceptionListener
<1>11. CASE ExceptionListenerReturns
  BY <1>11 DEF ExceptionListenerReturns
<1>12. CASE ExceptionListenerThrows
  BY <1>12 DEF ExceptionListenerThrows
<1>13. CASE Abort
  BY <1>13 DEF Abort
<1>14. CASE CallController
  BY <1>14 DEF CallController
<1>15. CASE \E verdict \in ReadyStates \ {"PENDING"} : CallExceptionController(verdict)
  BY <1>15 DEF CallExceptionController, ReadyStates
<1>16. CASE UNCHANGED vars
  BY <1>16 DEF vars
<1>17. QED
  BY <1>1, <1>2, <1>3, <1>4, <1>5, <1>6, <1>7, <1>8, <1>9, <1>10, <1>11, <1>12, <1>13, <1>14, <1>15, <1>16
     DEF Next, Handler, RequestListeners, ExceptionListeners

-----------------------------------------------------------------------------
\* The control variables keep their types.
LEMMA StepsControl ==
  ASSUME TypeOK, [Next]_vars
  PROVE  /\ pc' \in {"start", "racing", "raising", "passing", "waiting"} \cup Settled
         /\ signal' \in {"none", "open", "aborted"}
         /\ aborted' \in BOOLEAN
         /\ raced' \in {"idle", "open", "aborted", "listeners", "thrown", "handled"}
         /\ thrown' \in {"nothing"} \cup Thrown
         /\ exceptionState' \in {"none"} \cup ReadyStates
         /\ decidedBy' \in {"nobody", "listener", "handler", "exception"}
<1> USE DEF TypeOK, ReadyStates, Settled, emissionVars
<1>1. CASE Begin
  BY <1>1 DEF Begin, DecideWithError
<1>2. CASE RaceSettles
  BY <1>2 DEF RaceSettles, RaceEntrants, Entrant
<1>3. CASE Resume
  <2>1. CASE ResumeAborted
    BY <1>3, <2>1 DEF Resume, ResumeAborted, DecideWithError
  <2>2. CASE ResumeKnownError
    BY <1>3, <2>2 DEF Resume, ResumeKnownError, DecideWithError, DecideWithResponse
  <2>3. CASE ResumeException
    BY <1>3, <2>3 DEF Resume, ResumeException, DecideWithResponse
  <2>4. CASE ResumeUndecided
    BY <1>3, <2>4 DEF Resume, ResumeUndecided, DecideToPerform
  <2>5. QED
    BY <1>3, <2>1, <2>2, <2>3, <2>4 DEF Resume
<1>4. CASE ExceptionRaised
  BY <1>4 DEF ExceptionRaised, DecideWithResponse
<1>5. CASE HandledResumes
  BY <1>5 DEF HandledResumes
<1>6. CASE Performing
  BY <1>6 DEF Performing, SourcePerforms
<1>7. CASE StartListener
  BY <1>7 DEF StartListener
<1>8. CASE ListenerReturns
  BY <1>8 DEF ListenerReturns
<1>9. CASE \E value \in Thrown : ListenerThrows(value)
  BY <1>9 DEF ListenerThrows, Thrown
<1>10. CASE StartExceptionListener
  BY <1>10 DEF StartExceptionListener
<1>11. CASE ExceptionListenerReturns
  BY <1>11 DEF ExceptionListenerReturns
<1>12. CASE ExceptionListenerThrows
  BY <1>12 DEF ExceptionListenerThrows
<1>13. CASE Abort
  BY <1>13 DEF Abort
<1>14. CASE CallController
  BY <1>14 DEF CallController
<1>15. CASE \E verdict \in ReadyStates \ {"PENDING"} : CallExceptionController(verdict)
  BY <1>15 DEF CallExceptionController, ReadyStates
<1>16. CASE UNCHANGED vars
  BY <1>16 DEF vars
<1>17. QED
  BY <1>1, <1>2, <1>3, <1>4, <1>5, <1>6, <1>7, <1>8, <1>9, <1>10, <1>11, <1>12, <1>13, <1>14, <1>15, <1>16
     DEF Next, Handler, RequestListeners, ExceptionListeners

\* Progress and the properties of handleRequest() that rest on it alone.
LEMMA StepsProgress ==
  ASSUME IInv, [Next]_vars
  PROVE  Progress' /\ ErrorsNeverPassThrough'
<1> USE DEF IInv, TypeOK, Emissions, OneVerdict, Progress, Decision, Exception, ErrorsNeverPassThrough, Pending,
           Settled, emissionVars, passthrough, respondWith, errorWith, PassthroughSettled, controllerVars
<1>1. CASE Begin
  BY <1>1 DEF Begin, DecideWithError
<1>2. CASE RaceSettles
  BY <1>2 DEF RaceSettles, RaceEntrants, Entrant
<1>3. CASE Resume
  <2>1. CASE ResumeAborted
    BY <1>3, <2>1 DEF Resume, ResumeAborted, DecideWithError
  <2>2. CASE ResumeKnownError
    BY <1>3, <2>2 DEF Resume, ResumeKnownError, DecideWithError, DecideWithResponse
  <2>3. CASE ResumeException
    BY <1>3, <2>3 DEF Resume, ResumeException, DecideWithResponse
  <2>4. CASE ResumeUndecided
    BY <1>3, <2>4 DEF Resume, ResumeUndecided, DecideToPerform
  <2>5. QED
    BY <1>3, <2>1, <2>2, <2>3, <2>4 DEF Resume
<1>4. CASE ExceptionRaised
  BY <1>4 DEF ExceptionRaised, DecideWithResponse
<1>5. CASE HandledResumes
  BY <1>5 DEF HandledResumes
<1>6. CASE Performing
  BY <1>6 DEF Performing, SourcePerforms
<1>7. CASE StartListener
  BY <1>7 DEF StartListener
<1>8. CASE ListenerReturns
  BY <1>8 DEF ListenerReturns
<1>9. CASE \E value \in Thrown : ListenerThrows(value)
  BY <1>9 DEF ListenerThrows, Thrown
<1>10. CASE StartExceptionListener
  BY <1>10 DEF StartExceptionListener
<1>11. CASE ExceptionListenerReturns
  BY <1>11 DEF ExceptionListenerReturns
<1>12. CASE ExceptionListenerThrows
  BY <1>12 DEF ExceptionListenerThrows
<1>13. CASE Abort
  BY <1>13 DEF Abort
<1>14. CASE CallController
  BY <1>14 DEF CallController
<1>15. CASE \E verdict \in ReadyStates \ {"PENDING"} : CallExceptionController(verdict)
  BY <1>15 DEF CallExceptionController, ReadyStates
<1>16. CASE UNCHANGED vars
  BY <1>16 DEF vars
<1>17. QED
  BY <1>1, <1>2, <1>3, <1>4, <1>5, <1>6, <1>7, <1>8, <1>9, <1>10, <1>11, <1>12, <1>13, <1>14, <1>15, <1>16
     DEF Next, Handler, RequestListeners, ExceptionListeners

\* Who decides, and what that leaves to be decided.
LEMMA StepsDecision ==
  ASSUME IInv, [Next]_vars
  PROVE  /\ Pending' <=> decidedBy' = "nobody"
         /\ decidedBy' = "handler" => pc' \in Settled \cup {"passing"}
         /\ aborted' /\ pc' \in Settled => ~Pending'
         /\ ReturnedMeansDecided'
<1> USE DEF IInv, TypeOK, Emissions, OneVerdict, Progress, Decision, Exception, ReturnedMeansDecided,
           ExceptionVerdictStands, Pending, ReadyStates, Settled, emissionVars, passthrough, respondWith, errorWith, PassthroughSettled, controllerVars
<1>1. CASE Begin
  BY <1>1 DEF Begin, DecideWithError
<1>2. CASE RaceSettles
  BY <1>2 DEF RaceSettles, RaceEntrants, Entrant
<1>3. CASE Resume
  <2>1. CASE ResumeAborted
    BY <1>3, <2>1 DEF Resume, ResumeAborted, DecideWithError
  <2>2. CASE ResumeKnownError
    BY <1>3, <2>2 DEF Resume, ResumeKnownError, DecideWithError, DecideWithResponse
  <2>3. CASE ResumeException
    BY <1>3, <2>3 DEF Resume, ResumeException, DecideWithResponse
  <2>4. CASE ResumeUndecided
    BY <1>3, <2>4 DEF Resume, ResumeUndecided, DecideToPerform
  <2>5. QED
    BY <1>3, <2>1, <2>2, <2>3, <2>4 DEF Resume
<1>4. CASE ExceptionRaised
  BY <1>4 DEF ExceptionRaised, DecideWithResponse
<1>5. CASE HandledResumes
  BY <1>5 DEF HandledResumes
<1>6. CASE Performing
  BY <1>6 DEF Performing, SourcePerforms
<1>7. CASE StartListener
  BY <1>7 DEF StartListener
<1>8. CASE ListenerReturns
  BY <1>8 DEF ListenerReturns
<1>9. CASE \E value \in Thrown : ListenerThrows(value)
  BY <1>9 DEF ListenerThrows, Thrown
<1>10. CASE StartExceptionListener
  BY <1>10 DEF StartExceptionListener
<1>11. CASE ExceptionListenerReturns
  BY <1>11 DEF ExceptionListenerReturns
<1>12. CASE ExceptionListenerThrows
  BY <1>12 DEF ExceptionListenerThrows
<1>13. CASE Abort
  BY <1>13 DEF Abort
<1>14. CASE CallController
  BY <1>14 DEF CallController
<1>15. CASE \E verdict \in ReadyStates \ {"PENDING"} : CallExceptionController(verdict)
  BY <1>15 DEF CallExceptionController, ReadyStates
<1>16. CASE UNCHANGED vars
  BY <1>16 DEF vars
<1>17. QED
  BY <1>1, <1>2, <1>3, <1>4, <1>5, <1>6, <1>7, <1>8, <1>9, <1>10, <1>11, <1>12, <1>13, <1>14, <1>15, <1>16
     DEF Next, Handler, RequestListeners, ExceptionListeners

\* The exception controller.
LEMMA StepsException ==
  ASSUME IInv, [Next]_vars
  PROVE  Exception' /\ ExceptionVerdictStands'
<1> USE DEF IInv, TypeOK, ControllerTypeOK, Emissions, OneVerdict, Progress, Decision, Exception, ExceptionVerdictStands,
           Pending, ReadyStates, Settled, emissionVars, passthrough, respondWith, errorWith, PassthroughSettled, controllerVars
<1>1. CASE Begin
  BY <1>1 DEF Begin, DecideWithError
<1>2. CASE RaceSettles
  BY <1>2 DEF RaceSettles, RaceEntrants, Entrant
<1>3. CASE Resume
  <2>1. CASE ResumeAborted
    BY <1>3, <2>1 DEF Resume, ResumeAborted, DecideWithError
  <2>2. CASE ResumeKnownError
    BY <1>3, <2>2 DEF Resume, ResumeKnownError, DecideWithError, DecideWithResponse
  <2>3. CASE ResumeException
    BY <1>3, <2>3 DEF Resume, ResumeException, DecideWithResponse
  <2>4. CASE ResumeUndecided
    BY <1>3, <2>4 DEF Resume, ResumeUndecided, DecideToPerform
  <2>5. QED
    BY <1>3, <2>1, <2>2, <2>3, <2>4 DEF Resume
<1>4. CASE ExceptionRaised
  BY <1>4 DEF ExceptionRaised, DecideWithResponse
<1>5. CASE HandledResumes
  BY <1>5 DEF HandledResumes
<1>6. CASE Performing
  BY <1>6 DEF Performing, SourcePerforms
<1>7. CASE StartListener
  BY <1>7 DEF StartListener
<1>8. CASE ListenerReturns
  BY <1>8 DEF ListenerReturns
<1>9. CASE \E value \in Thrown : ListenerThrows(value)
  BY <1>9 DEF ListenerThrows, Thrown
<1>10. CASE StartExceptionListener
  BY <1>10 DEF StartExceptionListener
<1>11. CASE ExceptionListenerReturns
  BY <1>11 DEF ExceptionListenerReturns
<1>12. CASE ExceptionListenerThrows
  BY <1>12 DEF ExceptionListenerThrows
<1>13. CASE Abort
  BY <1>13 DEF Abort
<1>14. CASE CallController
  BY <1>14 DEF CallController
<1>15. CASE \E verdict \in ReadyStates \ {"PENDING"} : CallExceptionController(verdict)
  BY <1>15 DEF CallExceptionController, ReadyStates
<1>16. CASE UNCHANGED vars
  BY <1>16 DEF vars
<1>17. QED
  BY <1>1, <1>2, <1>3, <1>4, <1>5, <1>6, <1>7, <1>8, <1>9, <1>10, <1>11, <1>12, <1>13, <1>14, <1>15, <1>16
     DEF Next, Handler, RequestListeners, ExceptionListeners

-----------------------------------------------------------------------------
\* IInv is an inductive invariant.
LEMMA StepInv == IInv /\ [Next]_vars => IInv'
<1> SUFFICES ASSUME IInv, [Next]_vars PROVE IInv'
  OBVIOUS
<1>1. ControllerTypeOK' /\ OneCall'
  BY StepsController, ControllerTypes, ControllerOneCall
     DEF IInv, TypeOK, OneCall, OneVerdict, Decision
<1>2. TypeOK'
  BY <1>1, StepsControl, StepsEmissions DEF IInv, TypeOK
<1>3. OneVerdict' /\ Decision' /\ ReturnedMeansDecided'
  BY <1>1, StepsDecision DEF OneVerdict, OneCall, Decision
<1>4. QED
  BY <1>2, <1>3, StepsProgress, StepsException DEF IInv

\* What TypeOK and the safety properties rest on.
THEOREM Invariance == Spec => []IInv
  BY InitInv, StepInv, PTL DEF Spec

\* Every variable of a handled request keeps its type, for any number of
\* listeners.
THEOREM TypeCorrectness == Spec => []TypeOK
<1>1. IInv => TypeOK
  BY DEF IInv
<1>2. QED
  BY <1>1, Invariance, PTL

\* The interceptor hears one verdict, the one readyState reports, and `handled`
\* resolves only after it.
THEOREM Verdict == Spec => []OneVerdict
<1>1. IInv => OneVerdict
  BY DEF IInv
<1>2. QED
  BY <1>1, Invariance, PTL

\* handleRequest() never returns on an undecided request, except after a
\* passthrough() of the exception controller.
THEOREM Answered == Spec => []ReturnedMeansDecided
<1>1. IInv => ReturnedMeansDecided
  BY DEF IInv
<1>2. QED
  BY <1>1, Invariance, PTL

\* An aborted request, or one whose listener threw an error, is never
\* performed by handleRequest().
THEOREM NoStrayPassthrough == Spec => []ErrorsNeverPassThrough
<1>1. IInv => ErrorsNeverPassThrough
  BY DEF IInv
<1>2. QED
  BY <1>1, Invariance, PTL

\* The verdict of an exception listener is the request's, or came too late.
THEOREM ExceptionVerdict == Spec => []ExceptionVerdictStands
<1>1. IInv => ExceptionVerdictStands
  BY DEF IInv
<1>2. QED
  BY <1>1, Invariance, PTL

-----------------------------------------------------------------------------
\* What CollisionsComeFromListeners says of one step.
LEMMA StepsCollide ==
  ASSUME IInv, [Next]_vars
  PROVE  pc' = "rejected" /\ pc # "rejected" /\ ~SourceFailed' /\ UNCHANGED exceptionListeners
           => decidedBy = "listener"
<1> USE DEF IInv, TypeOK, ControllerTypeOK, Emissions, OneVerdict, Progress, Decision, Exception, Pending,
           ReadyStates, Settled, SourceFailed, emissionVars, passthrough, respondWith, errorWith, PassthroughSettled, controllerVars
<1>1. CASE Begin
  BY <1>1 DEF Begin, DecideWithError
<1>2. CASE RaceSettles
  BY <1>2 DEF RaceSettles, RaceEntrants, Entrant
<1>3. CASE Resume
  <2>1. CASE ResumeAborted
    BY <1>3, <2>1 DEF Resume, ResumeAborted, DecideWithError
  <2>2. CASE ResumeKnownError
    BY <1>3, <2>2 DEF Resume, ResumeKnownError, DecideWithError, DecideWithResponse
  <2>3. CASE ResumeException
    BY <1>3, <2>3 DEF Resume, ResumeException, DecideWithResponse
  <2>4. CASE ResumeUndecided
    BY <1>3, <2>4 DEF Resume, ResumeUndecided, DecideToPerform
  <2>5. QED
    BY <1>3, <2>1, <2>2, <2>3, <2>4 DEF Resume
<1>4. CASE ExceptionRaised
  BY <1>4 DEF ExceptionRaised, DecideWithResponse
<1>5. CASE HandledResumes
  BY <1>5 DEF HandledResumes
<1>6. CASE Performing
  BY <1>6 DEF Performing, SourcePerforms
<1>7. CASE StartListener
  BY <1>7 DEF StartListener
<1>8. CASE ListenerReturns
  BY <1>8 DEF ListenerReturns
<1>9. CASE \E value \in Thrown : ListenerThrows(value)
  BY <1>9 DEF ListenerThrows, Thrown
<1>10. CASE StartExceptionListener
  BY <1>10 DEF StartExceptionListener
<1>11. CASE ExceptionListenerReturns
  BY <1>11 DEF ExceptionListenerReturns
<1>12. CASE ExceptionListenerThrows
  BY <1>12 DEF ExceptionListenerThrows
<1>13. CASE Abort
  BY <1>13 DEF Abort
<1>14. CASE CallController
  BY <1>14 DEF CallController
<1>15. CASE \E verdict \in ReadyStates \ {"PENDING"} : CallExceptionController(verdict)
  BY <1>15 DEF CallExceptionController, ReadyStates
<1>16. CASE UNCHANGED vars
  BY <1>16 DEF vars
<1>17. QED
  BY <1>1, <1>2, <1>3, <1>4, <1>5, <1>6, <1>7, <1>8, <1>9, <1>10, <1>11, <1>12, <1>13, <1>14, <1>15, <1>16
     DEF Next, Handler, RequestListeners, ExceptionListeners

\* handleRequest() collides only with decisions of the "request" listeners.
THEOREM Collisions == Spec => CollisionsComeFromListeners
<1>1. IInv /\ [Next]_vars =>
        [ pc' = "rejected" /\ pc # "rejected" /\ ~SourceFailed' /\ UNCHANGED exceptionListeners
            => decidedBy = "listener" ]_vars
  BY StepsCollide
<1>2. QED
  BY <1>1, Invariance, PTL DEF Spec, CollisionsComeFromListeners

-----------------------------------------------------------------------------
\* The kinds of step the promise knows, in terms of this machine.
Deciding ==
  /\ Pending /\ ~Pending' /\ UNCHANGED aborted
  /\ pc \in Settled => pc' \in Settled
  /\ readyState' = "PASSTHROUGH" => ~handled'

Announcing ==
  /\ ~Pending /\ ~handled /\ handled' /\ UNCHANGED <<readyState, aborted>>
  /\ pc \in Settled => pc' \in Settled

Withdrawing ==
  /\ ~aborted /\ aborted' /\ pc \notin Settled
  /\ UNCHANGED <<readyState, handled, pc>>

Ending ==
  /\ pc \notin Settled /\ pc' \in Settled
  /\ aborted => ~Pending
  /\ UNCHANGED <<readyState, handled, aborted>>

Idling ==
  /\ UNCHANGED <<readyState, handled, aborted>>
  /\ pc \in Settled <=> pc' \in Settled

\* Every step of the machine is one of these kinds.
LEMMA StepsKinds ==
  ASSUME IInv, [Next]_vars
  PROVE  Deciding \/ Announcing \/ Withdrawing \/ Ending \/ Idling
<1> USE DEF IInv, TypeOK, ControllerTypeOK, Emissions, OneVerdict, Progress, Decision, Exception, Pending, Settled, emissionVars,
           Deciding, Announcing, Withdrawing, Ending, Idling, passthrough, respondWith, errorWith, PassthroughSettled, controllerVars
<1>1. CASE Begin
  BY <1>1 DEF Begin, DecideWithError
<1>2. CASE RaceSettles
  BY <1>2 DEF RaceSettles, RaceEntrants, Entrant
<1>3. CASE Resume
  <2>1. CASE ResumeAborted
    BY <1>3, <2>1 DEF Resume, ResumeAborted, DecideWithError
  <2>2. CASE ResumeKnownError
    BY <1>3, <2>2 DEF Resume, ResumeKnownError, DecideWithError, DecideWithResponse
  <2>3. CASE ResumeException
    BY <1>3, <2>3 DEF Resume, ResumeException, DecideWithResponse
  <2>4. CASE ResumeUndecided
    BY <1>3, <2>4 DEF Resume, ResumeUndecided, DecideToPerform
  <2>5. QED
    BY <1>3, <2>1, <2>2, <2>3, <2>4 DEF Resume
<1>4. CASE ExceptionRaised
  BY <1>4 DEF ExceptionRaised, DecideWithResponse
<1>5. CASE HandledResumes
  BY <1>5 DEF HandledResumes
<1>6. CASE Performing
  BY <1>6 DEF Performing, SourcePerforms
<1>7. CASE StartListener
  BY <1>7 DEF StartListener
<1>8. CASE ListenerReturns
  BY <1>8 DEF ListenerReturns
<1>9. CASE \E value \in Thrown : ListenerThrows(value)
  BY <1>9 DEF ListenerThrows, Thrown
<1>10. CASE StartExceptionListener
  BY <1>10 DEF StartExceptionListener
<1>11. CASE ExceptionListenerReturns
  BY <1>11 DEF ExceptionListenerReturns
<1>12. CASE ExceptionListenerThrows
  BY <1>12 DEF ExceptionListenerThrows
<1>13. CASE Abort
  BY <1>13 DEF Abort
<1>14. CASE CallController
  BY <1>14 DEF CallController
<1>15. CASE \E verdict \in ReadyStates \ {"PENDING"} : CallExceptionController(verdict)
  BY <1>15 DEF CallExceptionController, ReadyStates
<1>16. CASE UNCHANGED vars
  BY <1>16 DEF vars
<1>17. QED
  BY <1>1, <1>2, <1>3, <1>4, <1>5, <1>6, <1>7, <1>8, <1>9, <1>10, <1>11, <1>12, <1>13, <1>14, <1>15, <1>16
     DEF Next, Handler, RequestListeners, ExceptionListeners

\* Each kind is a step of the promise, or stutters.
LEMMA StepsOutcome ==
  ASSUME TypeOK, TypeOK', Deciding \/ Announcing \/ Withdrawing \/ Ending \/ Idling
  PROVE  [Outcome!Next]_Outcome!vars
<1>1. /\ handled \in BOOLEAN /\ handled' \in BOOLEAN
      /\ aborted \in BOOLEAN /\ aborted' \in BOOLEAN
      /\ readyState \in ReadyStates /\ readyState' \in ReadyStates
  BY DEF TypeOK, ControllerTypeOK
<1>2. CASE Deciding
  <2>1. pc \in Settled => (pc \in Settled)'
    BY <1>2 DEF Deciding, Settled
  <2>2. readyState' \in Outcome!Outcomes
    BY <1>1, <1>2 DEF Deciding, Pending, ReadyStates, Outcome!Outcomes
  <2>3. Outcome!Decide
    BY <1>1, <1>2, <2>1, <2>2 DEF Deciding, Pending, Outcome!Decide
  <2>4. QED
    BY <2>3 DEF Outcome!Next
<1>3. CASE Announcing
  <2>1. pc \in Settled => (pc \in Settled)'
    BY <1>3 DEF Announcing, Settled
  <2>2. readyState # "PENDING" /\ readyState' = readyState /\ aborted' = aborted
    BY <1>3 DEF Announcing, Pending
  <2>3. ~handled /\ handled'
    BY <1>3 DEF Announcing
  <2>4. Outcome!Announce
    BY <1>1, <2>1, <2>2, <2>3 DEF Pending, ReadyStates, Outcome!Announce
  <2>5. QED
    BY <2>4 DEF Outcome!Next
<1>4. CASE Withdrawing
  <2>1. Outcome!Withdraw
    BY <1>1, <1>4 DEF Withdrawing, Pending, Outcome!Withdraw
  <2>2. QED
    BY <2>1 DEF Outcome!Next
<1>5. CASE Ending
  <2>1. pc \notin Settled /\ (pc \in Settled)'
    BY <1>5 DEF Ending, Settled
  <2>2. readyState' = readyState /\ handled' = handled /\ aborted' = aborted
    BY <1>5 DEF Ending
  <2>3. aborted => readyState # "PENDING"
    BY <1>5 DEF Ending, Pending
  <2>4. Outcome!Finish
    BY <1>1, <2>1, <2>2, <2>3 DEF Pending, ReadyStates, Outcome!Finish
  <2>5. QED
    BY <2>4 DEF Outcome!Next
<1>6. CASE Idling
  <2>1. (pc \in Settled)' = (pc \in Settled)
    BY <1>6 DEF Idling
  <2>2. QED
    BY <1>6, <2>1 DEF Idling, Pending, Outcome!vars
<1>7. QED
  BY <1>2, <1>3, <1>4, <1>5, <1>6

\* The machine implements the promise made for a request.
THEOREM Refinement == Spec => ImplementsOutcome
<1>1. Init => Outcome!Init
  BY DEF Init, ControllerInit, Outcome!Init, Pending, Settled
<1>2. IInv /\ IInv' /\ [Next]_vars => [Outcome!Next]_Outcome!vars
  BY StepsKinds, StepsOutcome DEF IInv
<1>3. QED
  BY <1>1, <1>2, Invariance, PTL DEF Spec, ImplementsOutcome, Outcome!Spec

-----------------------------------------------------------------------------
(* The handling of an intercepted fetch().                                   *)

\* A handling that returned after an abort has errored the request.
AbortedErred == aborted /\ pc = "returned" => readyState = "ERROR"

\* The source is at work, or has a response, only for a request it was told to
\* perform or to answer.
SourceWorks ==
  response \in Responses \/ source \in {"fetching", "listening", "following"}
    => readyState \in {"PASSTHROUGH", "RESPONSE"}

FetchInv == IInv /\ FetchTypeOK /\ AbortedErred /\ SourceWorks

-----------------------------------------------------------------------------
\* A step of the composition is one of the handling, or leaves it alone.
LEMMA StepsHandle == [FetchNext]_allVars => [Next]_vars
  BY DEF FetchNext, Composed, Performed, SourceProceeds, RealFetchFails,
         RealFetchResponds, ResponseListenersEnd, ResponseListenersThrow,
         RedirectEnds, SourceGoesOn, allVars, Next, Performing

\* fetch() refines the handling of a request by any source.
THEOREM FetchImplementsHandling == FetchSpec => Spec
<1>1. FetchInit => Init
  BY DEF FetchInit
<1>2. QED
  BY <1>1, StepsHandle, PTL DEF FetchSpec, Spec

-----------------------------------------------------------------------------
\* A verdict stands.
LEMMA VerdictStands ==
  ASSUME [Next]_vars, ~Pending
  PROVE  readyState' = readyState
  BY StepsController DEF ControllerStep, Pending, passthrough, respondWith, errorWith,
                         PassthroughSettled, controllerVars

\* What a step calls on the source is the verdict.
LEMMA CallIsVerdict ==
  ASSUME IInv, IInv', NEW method \in SourceMethods, Calls(method)
  PROVE  Pending /\ ~Pending' /\ method = SourceCall[readyState']
<1>1. Len(calls') = Len(calls) + 1 /\ calls'[Len(calls) + 1] = method
  BY DEF Calls, IInv, TypeOK, ControllerTypeOK
<1>2. calls = IF Pending THEN <<>> ELSE <<SourceCall[readyState]>>
  BY DEF IInv, OneVerdict
<1>3. calls' = IF Pending' THEN <<>> ELSE <<SourceCall[readyState']>>
  BY DEF IInv, OneVerdict
<1>4. QED
  BY <1>1, <1>2, <1>3

\* Only errorWith() settles a request whose abort was seen.
LEMMA StepsErr ==
  ASSUME IInv, AbortedErred, [Next]_vars
  PROVE  AbortedErred'
<1> USE DEF IInv, AbortedErred, Progress, Pending, emissionVars, controllerVars
<1>1. CASE aborted /\ pc = "returned"
  BY <1>1, VerdictStands
<1>2. CASE ~(aborted /\ pc = "returned")
  <2>1. CASE Begin
    BY <1>2, <2>1 DEF Begin, DecideWithError
  <2>2. CASE RaceSettles \/ HandledResumes
    BY <1>2, <2>2 DEF RaceSettles, HandledResumes
  <2>3. CASE Resume
    BY <1>2, <2>3 DEF Resume, ResumeAborted, ResumeKnownError, ResumeException,
                      ResumeUndecided, DecideWithError, errorWith
  <2>4. CASE ExceptionRaised
    BY <1>2, <2>4 DEF ExceptionRaised
  <2>5. CASE Performing
    BY <1>2, <2>5 DEF Performing, SourcePerforms
  <2>6. CASE RequestListeners
    BY <1>2, <2>6 DEF RequestListeners, StartListener, ListenerReturns, ListenerThrows
  <2>7. CASE ExceptionListeners
    BY <1>2, <2>7 DEF ExceptionListeners, StartExceptionListener,
                      ExceptionListenerReturns, ExceptionListenerThrows
  <2>8. CASE Abort
    BY <1>2, <2>8 DEF Abort
  <2>9. CASE CallController
    BY <1>2, <2>9 DEF CallController
  <2>10. CASE \E verdict \in ReadyStates \ {"PENDING"} : CallExceptionController(verdict)
    BY <1>2, <2>10 DEF CallExceptionController
  <2>11. CASE UNCHANGED vars
    BY <1>2, <2>11 DEF vars
  <2>12. QED
    BY <2>1, <2>2, <2>3, <2>4, <2>5, <2>6, <2>7, <2>8, <2>9, <2>10, <2>11
       DEF Next, Handler
<1>3. QED
  BY <1>1, <1>2

-----------------------------------------------------------------------------
\* A step of the handling, as the source takes part in it.
SourceTakesPart ==
  \/ UNCHANGED <<source, response>>
  \/ SourcePassthrough \/ SourceRespondWith \/ SourceErrorWith

\* Either the handling moves, with or without the source, or the source alone.
LEMMA StepsOfSource ==
  ASSUME FetchNext
  PROVE  /\ byFetch' = byFetch
         /\ SourceTakesPart \/ (SourceProceeds /\ UNCHANGED vars)
  BY DEF FetchNext, Composed, Performed, SourceTakesPart, SourceProceeds,
         RealFetchFails, RealFetchResponds, ResponseListenersEnd,
         ResponseListenersThrow, RedirectEnds, SourceGoesOn

\* The source's variables keep their types, and it works only when told to.
LEMMA StepsSource ==
  ASSUME FetchInv, IInv', [FetchNext]_allVars
  PROVE  FetchTypeOK' /\ SourceWorks'
<1> USE DEF FetchInv, FetchTypeOK, SourceWorks, Settles, Awaits, Responses
<1>1. TypeOK' /\ readyState \in ReadyStates
  BY DEF IInv, TypeOK, ControllerTypeOK
<1>2. CASE UNCHANGED allVars
  BY <1>1, <1>2 DEF allVars, vars, fetchVars, controllerVars
<1>3. CASE FetchNext /\ SourceTakesPart
  <2>1. [Next]_vars /\ byFetch' = byFetch
    BY <1>3, StepsHandle, StepsOfSource
  <2>2. CASE UNCHANGED <<source, response>>
    BY <1>1, <2>1, <2>2, VerdictStands DEF Pending
  <2>3. CASE SourcePassthrough
    <3>1. ~Pending' /\ SourceCall[readyState'] = "passthrough"
      BY <2>3, CallIsVerdict DEF SourcePassthrough, SourceMethods
    <3>2. readyState' = "PASSTHROUGH"
      BY <3>1, FirstCall DEF IInv, TypeOK, ControllerTypeOK, ReadyStates, Pending
    <3>3. QED
      BY <1>1, <2>1, <2>3, <3>2 DEF SourcePassthrough
  <2>4. CASE SourceRespondWith
    <3>1. ~Pending' /\ SourceCall[readyState'] = "respondWith"
      BY <2>4, CallIsVerdict DEF SourceRespondWith, SourceMethods
    <3>2. readyState' = "RESPONSE"
      BY <3>1, FirstCall DEF IInv, TypeOK, ControllerTypeOK, ReadyStates, Pending
    <3>3. QED
      BY <1>1, <2>1, <2>4, <3>2 DEF SourceRespondWith, RespondsOrListens
  <2>5. CASE SourceErrorWith
    BY <1>1, <2>1, <2>5 DEF SourceErrorWith
  <2>6. QED
    BY <1>3, <2>2, <2>3, <2>4, <2>5 DEF SourceTakesPart
<1>4. CASE FetchNext /\ SourceProceeds /\ UNCHANGED vars
  <2>1. readyState' = readyState /\ byFetch' = byFetch
    BY <1>4, StepsOfSource DEF vars, controllerVars
  <2>2. QED
    BY <1>1, <1>4, <2>1
       DEF SourceProceeds, RealFetchFails, RealFetchResponds, ResponseListenersEnd,
           ResponseListenersThrow, RedirectEnds, Fails
<1>5. QED
  BY <1>2, <1>3, <1>4, StepsOfSource

-----------------------------------------------------------------------------
\* The invariant holds at the start and is kept by every step.
LEMMA FetchInitInv == FetchInit => FetchInv
<1> SUFFICES ASSUME FetchInit PROVE FetchInv
  OBVIOUS
<1>1. IInv
  BY InitInv DEF FetchInit
<1>2. QED
  BY <1>1 DEF FetchInit, Init, FetchInv, FetchTypeOK, IInv, AbortedErred, SourceWorks,
              Responses

\* One part by the proofs of RequestHandling, the other by the lemmas above.
LEMMA FetchStepInv == FetchInv /\ [FetchNext]_allVars => FetchInv'
<1> SUFFICES ASSUME FetchInv, [FetchNext]_allVars PROVE FetchInv'
  OBVIOUS
<1>1. IInv' /\ AbortedErred'
  BY StepsHandle, StepInv, StepsErr DEF FetchInv
<1>2. QED
  BY <1>1, StepsSource DEF FetchInv

\* The inductive invariant, which what is stated of an intercepted fetch() rests on.
THEOREM FetchInvariance == FetchSpec => []FetchInv
  BY FetchInitInv, FetchStepInv, PTL DEF FetchSpec

\* Every variable of a fetch() keeps its type.
THEOREM FetchTypeCorrectness == FetchSpec => []FetchTypeOK
<1>1. FetchInv => FetchTypeOK
  BY DEF FetchInv
<1>2. QED
  BY <1>1, FetchInvariance, PTL

\* A fetch() aborted while its "request" listeners run never resolves.
THEOREM AbortWins == FetchSpec => []AbortedNeverResolves
<1>1. FetchInv => AbortedNeverResolves
  BY DEF FetchInv, AbortedErred, SourceWorks, AbortedNeverResolves, Fetched, Responses
<1>2. QED
  BY <1>1, FetchInvariance, PTL

=============================================================================
