------------------------- MODULE RequestController -------------------------
(***************************************************************************)
(* The request controller (request-controller.ts): the object the listeners *)
(* of the "request" event decide a request with.  It turns the first call   *)
(* of passthrough, respondWith or errorWith into one call on its source     *)
(* (the interceptor that created it) and answers any later call with an     *)
(* InterceptorError, which leaves the state unchanged.                      *)
(*                                                                          *)
(* A source may fail: its passthrough() may reject after the request was    *)
(* performed and its errorWith() may throw.  FailingCalls names the methods *)
(* that do.  respondWith() of the source is not awaited by the controller,  *)
(* so its failure changes nothing here.                                     *)
(***************************************************************************)
EXTENDS Sequences

CONSTANT FailingCalls

ASSUME FailingCallsAssumption == FailingCalls \subseteq {"passthrough", "errorWith"}

VARIABLES
  readyState,   \* RequestController.readyState
  handled,      \* whether the `handled` promise has resolved
  calls,        \* the source methods the controller has called, in order
  performing    \* the promise of source.passthrough()

controllerVars == <<readyState, handled, calls, performing>>

ReadyStates == {"PENDING", "PASSTHROUGH", "RESPONSE", "ERROR"}
SourceMethods == {"passthrough", "respondWith", "errorWith"}

ControllerTypeOK ==
  /\ readyState \in ReadyStates
  /\ handled \in BOOLEAN
  /\ calls \in Seq(SourceMethods)
  /\ performing \in {"idle", "busy", "done", "failed"}

ControllerInit ==
  /\ readyState = "PENDING"
  /\ handled = FALSE
  /\ calls = <<>>
  /\ performing = "idle"

-----------------------------------------------------------------------------
\* Faulty variants, each a mistake this code could make.

PendingForgotten == TRUE

ResolveBeforePerforming ==
  /\ readyState = "PENDING"
  /\ readyState' = "PASSTHROUGH"
  /\ calls' = Append(calls, "passthrough")
  /\ performing' = "busy"
  /\ handled' = TRUE

SettleWithoutResolving(outcome) ==
  /\ performing = "busy"
  /\ outcome = "failed" => "passthrough" \in FailingCalls
  /\ performing' = outcome
  /\ UNCHANGED <<readyState, handled, calls>>

-----------------------------------------------------------------------------
\* The invariant every decision starts with; where it does not hold the call
\* throws an InterceptorError instead.
Pending == readyState = "PENDING"

passthrough ==
  /\ Pending
  /\ readyState' = "PASSTHROUGH"
  /\ calls' = Append(calls, "passthrough")
  /\ performing' = "busy"
  /\ UNCHANGED handled

\* `await this.source.passthrough()` continues: `handled` resolves only if the
\* source did not reject.
PassthroughSettled(outcome) ==
  /\ performing = "busy"
  /\ outcome = "failed" => "passthrough" \in FailingCalls
  /\ performing' = outcome
  /\ handled' = (outcome = "done")
  /\ UNCHANGED <<readyState, calls>>

respondWith ==
  /\ Pending
  /\ readyState' = "RESPONSE"
  /\ handled' = TRUE
  /\ calls' = Append(calls, "respondWith")
  /\ UNCHANGED performing

\* source.errorWith() is called before `handled` resolves: if it throws, the
\* promise never does.
errorWith(throws) ==
  /\ Pending
  /\ throws => "errorWith" \in FailingCalls
  /\ readyState' = "ERROR"
  /\ calls' = Append(calls, "errorWith")
  /\ handled' = ~throws
  /\ UNCHANGED performing

=============================================================================
