--------------------------- MODULE FetchRequests ----------------------------
(***************************************************************************)
(* The patched fetch() of browsers (interceptors/fetch/web.ts): the source   *)
(* that RequestHandling leaves abstract, composed with the handling itself.  *)
(*                                                                           *)
(* fetch() awaits handleRequest() and then answers with a promise of its     *)
(* own, responsePromise, which the source settles: with the response of the  *)
(* real fetch() or the mocked one, both once their "response" listeners have *)
(* ended; with that of another fetch() that follows a mocked redirect; or    *)
(* with an error.  The source goes on when handleRequest() has returned, and *)
(* what fails in it after that nobody hears of.                              *)
(*                                                                           *)
(* Where byFetch does not hold the source is any other one, as abstract as   *)
(* in RequestHandling.  The fetch() that follows a redirect is one of its    *)
(* own, intercepted like this one: it resolves or rejects.                   *)
(***************************************************************************)
EXTENDS RequestHandling

VARIABLES
  byFetch,   \* whether the source of the request is that of fetch()
  source,    \* the source method under way, by what it awaits
  response   \* responsePromise

fetchVars == <<byFetch, source, response>>
allVars == <<vars, fetchVars>>

Responses == {"original", "mock", "followed"}

FetchTypeOK ==
  /\ TypeOK
  /\ byFetch \in BOOLEAN
  /\ source \in {"idle", "fetching", "listening", "following", "settled", "failed"}
  /\ response \in {"pending", "rejected"} \cup Responses

FetchInit ==
  /\ Init
  /\ byFetch \in BOOLEAN
  /\ source = "idle"
  /\ response = "pending"

-----------------------------------------------------------------------------
(* The methods of the source, which the controller calls in the step that    *)
(* decides the request.  "response" may have listeners or not.               *)

Calls(method) == calls' = Append(calls, method)

Settles(with) == source' = "settled" /\ response' = with
Awaits(what) == source' = what /\ UNCHANGED response

\* A request whose body a listener has read cannot be cloned.
SourcePassthrough ==
  /\ Calls("passthrough")
  /\ Awaits("fetching") \/ Awaits("failed")

RespondsOrListens == Settles("mock") \/ Awaits("listening")

\* Response.error() and redirects that are not allowed reject, other redirects
\* are followed and report no "response".  The 500 response is none of these.
SourceRespondWith ==
  /\ Calls("respondWith")
  /\ \/ RespondsOrListens
     \/ /\ decidedBy' = "handler" => thrown = "response"
        /\ Settles("rejected") \/ Awaits("following")

\* reject() does not throw.
SourceErrorWith ==
  /\ Calls("errorWith") /\ handled'
  /\ Settles("rejected")

\* A step of handleRequest(), its listeners or the client, with the call on the
\* source it makes, if any.
Composed(step) ==
  /\ step
  /\ UNCHANGED byFetch
  /\ \/ (calls' = calls \/ ~byFetch) /\ UNCHANGED <<source, response>>
     \/ byFetch /\ (SourcePassthrough \/ SourceRespondWith \/ SourceErrorWith)

\* The promise of passthrough() is that of the source's method.
Performed ==
  \E outcome \in {"done", "failed"} :
    /\ Composed(SourcePerforms(outcome))
    /\ byFetch => source = IF outcome = "done" THEN "settled" ELSE "failed"

-----------------------------------------------------------------------------
(* What the source awaits.                                                   *)

SourceGoesOn == UNCHANGED <<vars, byFetch>>

FailsSilently == source' = "settled" /\ UNCHANGED response
Fails == Settles("rejected")

\* The real fetch() fails, by itself or because its signal is aborted.
RealFetchFails ==
  /\ source = "fetching"
  /\ Fails
  /\ SourceGoesOn

RealFetchResponds ==
  /\ source = "fetching" /\ signal # "aborted"
  /\ Settles("original") \/ Awaits("listening")
  /\ SourceGoesOn

ResponseListenersEnd ==
  /\ source = "listening"
  /\ Settles(IF readyState = "RESPONSE" THEN "mock" ELSE "original")
  /\ SourceGoesOn

\* A listener that throws takes the response with it.
ResponseListenersThrow ==
  /\ source = "listening"
  /\ Awaits("failed")
  /\ SourceGoesOn

\* followFetchRedirect()
RedirectEnds ==
  /\ source = "following"
  /\ Settles("followed") \/ Settles("rejected")
  /\ SourceGoesOn

SourceProceeds ==
  RealFetchFails \/ RealFetchResponds \/ ResponseListenersEnd \/ ResponseListenersThrow
  \/ RedirectEnds

\* What fetch() returned: handleRequest() first, then responsePromise.
FetchedAtOnce == response
Fetched ==
  CASE pc = "rejected" -> "rejected"
    [] pc = "returned" -> response
    [] OTHER -> "pending"

FetchNext ==
  \/ Composed(Handler)
  \/ Performed
  \/ Composed(RequestListeners)
  \/ Composed(ExceptionListeners)
  \/ Composed(Abort)
  \/ Composed(CallController)
  \/ \E verdict \in ReadyStates \ {"PENDING"} : Composed(CallExceptionController(verdict))
  \/ SourceProceeds

\* As in RequestHandling; "response" listeners end, and so does a real or a
\* further fetch().
FetchFairness ==
  /\ WF_allVars(Composed(Handler)) /\ WF_allVars(Performed)
  /\ WF_allVars(SourceProceeds)

FetchSpec == FetchInit /\ [][FetchNext]_allVars /\ FetchFairness

-----------------------------------------------------------------------------
(* Properties.                                                               *)

\* A fetch() aborted while its "request" listeners run never resolves with a
\* response, even if a listener has decided it by then and the source has the
\* response at hand.
AbortedNeverResolves == aborted => Fetched \notin Responses

\* handleRequest() settles as promised (EventuallySettles), and so does fetch():
\* if the "request" and "unhandledException" listeners finish it is answered,
\* unless a "response" listener threw, a request that a listener let through could
\* not be cloned, or an "unhandledException" listener asked to let it through.
AnswerLost == source = "failed" /\ pc # "rejected"
LeftUndecided == exceptionState = "PASSTHROUGH" /\ Pending
FetchSettles ==
  /\ EventuallySettles
  /\ byFetch /\ ListenersFinish =>
       <>(Fetched # "pending" \/ AnswerLost \/ LeftUndecided)

=============================================================================
