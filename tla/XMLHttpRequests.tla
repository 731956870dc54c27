---------------------------- MODULE XMLHttpRequests ----------------------------
(***************************************************************************)
(* One intercepted XMLHttpRequest instance of the browser                    *)
(* (interceptors/XMLHttpRequest: XMLHttpRequestController and the onRequest   *)
(* and onResponse of createXMLHttpRequestProxy()).                            *)
(*                                                                           *)
(* send() offers the request to the "request" listeners and performs it      *)
(* as-is once they have settled and nobody answered.  A mocked response is    *)
(* played back by respondWith(), which awaits the request's body, a redirect  *)
(* and every chunk of the response's body, firing the events of the XHR       *)
(* standard on the way; a timer may go off meanwhile.  The instance may be    *)
(* opened and sent again when its last request has ended.                     *)
(*                                                                           *)
(* The native XMLHttpRequest is external: it is performed, loads or fails.    *)
(* The request that follows a redirect is an XMLHttpRequest of its own and    *)
(* follows further redirects by itself: it loads or fails as well.            *)
(***************************************************************************)
EXTENDS Integers, SequencesExt

CONSTANTS
  MaxSends,      \* bound on how often the instance is sent
  MaxUploads,    \* bound on the chunks of a request's body
  MaxChunks,     \* bound on the chunks of a mocked response's body
  MaxRedirects,  \* MAX_REDIRECTS
  MaxBreaks      \* bound on how often the read of a broken body is tried again

ASSUME BoundsAssumption ==
  /\ MaxSends \in Nat \ {0} /\ MaxUploads \in Nat /\ MaxChunks \in Nat
  /\ MaxRedirects \in Nat /\ MaxBreaks \in Nat \ {0}

VARIABLES
  xhr,           \* the instance, its controller, and what was heard of it
  timeout,       \* whether the consumer sets a timeout
  sends,         \* how often it was sent
  asking,        \* onRequest(): whether the "request" listeners have decided
  verdict,       \* what they decided
  phase,         \* how far respondWith() is
  kind,          \* the response it plays back
  uploaded,      \* the chunks of the request's body it has read
  arrived,       \* the chunks of the response's body it has read
  redirectCount, \* the redirects followed
  timer,         \* the timer of the timeout
  breaks         \* how often reading the response's body has failed

vars == <<xhr, timeout, sends, asking, verdict, phase, kind, uploaded, arrived,
          redirectCount, timer, breaks>>

UNSENT == 0
OPENED == 1
HEADERS_RECEIVED == 2
LOADING == 3
DONE == 4

\* "bodyless": no body; "redirect": a redirect with a location; "error": Response.error().
Kinds == {"plain", "bodyless", "redirect", "error"}
Chunk == (1..MaxSends) \X (1..MaxChunks)
Entry == [event: {"loadstart", "readystatechange", "progress", "load", "error",
                  "timeout", "loadend"},
          at: UNSENT..DONE]

\* native is the readyState of the original request and defined the one that is
\* defined over it, if any.  log is what was fired at the instance since it was
\* opened, upload what was fired at its upload object, and headers is set once the
\* header getters are those of a mocked response.
Instances ==
  [native: UNSENT..DONE, defined: 0..DONE, handled: BOOLEAN, getters: BOOLEAN,
   loadListeners: 0..MaxSends, performed: BOOLEAN, buffer: Seq(Chunk),
   log: Seq(Entry), upload: Seq({"loadstart", "progress", "load", "loadend"}),
   headers: BOOLEAN, responses: Seq([type: {"mock", "original"}, headers: BOOLEAN])]

TypeOK ==
  /\ xhr \in Instances
  /\ timeout \in BOOLEAN
  /\ sends \in 0..MaxSends
  /\ asking \in {"none", "pending", "decided"}
  /\ verdict \in {"none", "mock", "error", "as-is"}
  /\ phase \in {"none", "measuring", "uploading", "following", "redirecting",
                "reading", "done", "thrown", "abandoned"}
  /\ kind \in Kinds \cup {"none"}
  /\ uploaded \in 0..MaxUploads /\ arrived \in 0..MaxChunks
  /\ redirectCount \in 0..(MaxRedirects + 1)
  /\ timer \in {"none", "running", "fired"}
  /\ breaks \in 0..MaxBreaks

Init ==
  /\ xhr = [native |-> UNSENT, defined |-> 0, handled |-> FALSE, getters |-> FALSE,
            loadListeners |-> 0, performed |-> FALSE, buffer |-> <<>>, log |-> <<>>,
            upload |-> <<>>, headers |-> FALSE, responses |-> <<>>]
  /\ timeout \in BOOLEAN
  /\ sends = 0 /\ asking = "none" /\ verdict = "none"
  /\ phase = "none" /\ kind = "none" /\ uploaded = 0 /\ arrived = 0
  /\ redirectCount = 0 /\ timer = "none" /\ breaks = 0

-----------------------------------------------------------------------------
(* Events.                                                                   *)

ReadyState(x) == IF x.defined = 0 THEN x.native ELSE x.defined

\* The "load" listener of every send() reports a response.
ResponseType(x) == IF x.handled THEN "mock" ELSE "original"
OnResponse(x) ==
  [x EXCEPT !.responses =
     @ \o [i \in 1..x.loadListeners |-> [type |-> ResponseType(x), headers |-> x.headers]]]

\* trigger(event) at the instance.
Trigger(x, event) ==
  LET d == [x EXCEPT !.log = Append(@, [event |-> event, at |-> ReadyState(x)])]
  IN IF event = "load" THEN OnResponse(d) ELSE d

TriggerUpload(x, events) == [x EXCEPT !.upload = @ \o events]

DefinedLate(x, next) == [Trigger(x, "readystatechange") EXCEPT !.defined = next]

SetReadyState(x, next) ==
  IF ReadyState(x) = next THEN x
  ELSE Trigger([x EXCEPT !.defined = next], "readystatechange")

EndsSilently(x, event) == Trigger(x, event)
Ends(x, event) == Trigger(Trigger(x, event), "loadend")

\* errorWith() and requestErrorSteps(): the upload is complete by then.
ErrorSteps(x, event) == Ends(SetReadyState(x, DONE), event)

\* The getters of a mocked response, in any responseType.
Response(x) == IF ReadyState(x) = DONE THEN x.buffer ELSE <<>>

-----------------------------------------------------------------------------
(* The consumer.                                                             *)

Ended == \E entry \in ToSet(xhr.log) : entry.event = "loadend"

\* open() resets the original request, and nothing of the controller.
Open ==
  /\ \/ xhr.native = UNSENT
     \/ sends < MaxSends /\ Ended /\ asking = "none" /\ phase \in {"none", "done"}
  /\ xhr' = [xhr EXCEPT !.native = OPENED, !.performed = FALSE, !.log = <<>>,
                        !.upload = <<>>, !.responses = <<>>]
  /\ verdict' = "none" /\ phase' = "none" /\ kind' = "none"
  /\ uploaded' = 0 /\ arrived' = 0 /\ timer' = "none" /\ breaks' = 0
  /\ UNCHANGED <<timeout, sends, asking, redirectCount>>

\* send(): a "load" listener of its own, and the request to the listeners.
Send ==
  /\ xhr.native = OPENED /\ asking = "none" /\ verdict = "none" /\ ~xhr.performed
  /\ sends < MaxSends
  /\ sends' = sends + 1
  /\ xhr' = [xhr EXCEPT !.loadListeners = @ + 1]
  /\ asking' = "pending"
  /\ UNCHANGED <<timeout, verdict, phase, kind, uploaded, arrived, redirectCount,
                 timer, breaks>>

\* send() of a synchronous request is performed as-is.
SendSync ==
  /\ xhr.native = OPENED /\ asking = "none" /\ verdict = "none" /\ ~xhr.performed
  /\ sends < MaxSends
  /\ sends' = sends + 1
  /\ xhr' = [xhr EXCEPT !.performed = TRUE]
  /\ verdict' = "as-is"
  /\ UNCHANGED <<timeout, asking, phase, kind, uploaded, arrived, redirectCount,
                 timer, breaks>>

-----------------------------------------------------------------------------
(* The "request" listeners decide.                                           *)

Decide(v) ==
  /\ asking = "pending"
  /\ asking' = "decided"
  /\ verdict' = v

NotYetHandled(x) == x
Handled(x) == [x EXCEPT !.handled = TRUE]

\* respondWith(), up to its first await.  The response getters of an instance
\* are defined once and for all: a second response cannot define them again.
RespondWith(k) ==
  /\ Decide("mock")
  /\ kind' = k
  /\ IF xhr.getters THEN phase' = "thrown" /\ xhr' = Handled(xhr)
     ELSE /\ phase' = "measuring"
          /\ xhr' = Trigger([Handled(xhr) EXCEPT !.getters = TRUE], "loadstart")
  /\ UNCHANGED <<timeout, sends, uploaded, arrived, redirectCount, timer, breaks>>

\* errorWith() with an Error.
ErrorWith ==
  /\ Decide("error")
  /\ xhr' = ErrorSteps(Handled(xhr), "error")
  /\ phase' = "done"
  /\ UNCHANGED <<timeout, sends, kind, uploaded, arrived, redirectCount, timer, breaks>>

\* passthrough(), and errorWith() with anything else, change nothing.
LeaveAsIs ==
  /\ Decide("as-is")
  /\ UNCHANGED <<xhr, timeout, sends, phase, kind, uploaded, arrived, redirectCount,
                 timer, breaks>>

\* onRequest() has settled: a request that is not marked as handled, now or by an
\* earlier sending, is performed as-is.
RequestSettles ==
  /\ asking = "decided"
  /\ asking' = "none"
  /\ xhr' = [xhr EXCEPT !.performed = ~xhr.handled]
  /\ UNCHANGED <<timeout, sends, verdict, phase, kind, uploaded, arrived,
                 redirectCount, timer, breaks>>

\* The original request loads, or fails.
NativeEnds(event) ==
  /\ xhr.performed /\ ~Ended
  /\ xhr' = Ends([xhr EXCEPT !.native = DONE], event)
  /\ UNCHANGED <<timeout, sends, asking, verdict, phase, kind, uploaded, arrived,
                 redirectCount, timer, breaks>>

-----------------------------------------------------------------------------
(* respondWith().                                                            *)

\* The length of the request's body is known.
UploadStarts ==
  /\ phase = "measuring"
  /\ phase' = "uploading"
  /\ xhr' = TriggerUpload(xhr, <<"loadstart">>)
  /\ UNCHANGED <<timeout, sends, asking, verdict, kind, uploaded, arrived,
                 redirectCount, timer, breaks>>

\* processRequestBodyChunkLength(): the last chunk makes no progress of its own.
UploadProgresses(last) ==
  /\ phase = "uploading" /\ uploaded < MaxUploads
  /\ uploaded' = IF last THEN MaxUploads ELSE uploaded + 1
  /\ xhr' = IF last THEN xhr ELSE TriggerUpload(xhr, <<"progress">>)
  /\ UNCHANGED <<timeout, sends, asking, verdict, phase, kind, arrived,
                 redirectCount, timer, breaks>>

\* processRequestEndOfBody().
UploadEnds ==
  /\ phase = "uploading"
  /\ phase' = "following"
  /\ xhr' = TriggerUpload(xhr, <<"progress", "load", "loadend">>)
  /\ UNCHANGED <<timeout, sends, asking, verdict, kind, uploaded, arrived,
                 redirectCount, timer, breaks>>

\* followRedirects() sends a request of its own, unless there were too many.
FollowRedirect ==
  /\ phase = "following" /\ kind = "redirect"
  /\ redirectCount' = redirectCount + 1
  /\ phase' = IF redirectCount' > MaxRedirects THEN "abandoned" ELSE "redirecting"
  /\ UNCHANGED <<xhr, timeout, sends, asking, verdict, kind, uploaded, arrived,
                 timer, breaks>>

RedirectLoads(k) ==
  /\ phase = "redirecting"
  /\ phase' = "following"
  /\ kind' = k
  /\ UNCHANGED <<xhr, timeout, sends, asking, verdict, uploaded, arrived,
                 redirectCount, timer, breaks>>

\* It fails: errorWith(), and respondWith() returns.
RedirectFails ==
  /\ phase = "redirecting"
  /\ xhr' = ErrorSteps(Handled(xhr), "error")
  /\ phase' = "done"
  /\ kind' = "error"
  /\ UNCHANGED <<timeout, sends, asking, verdict, uploaded, arrived,
                 redirectCount, timer, breaks>>

\* processResponseEndOfBody(), of a body that was read in time.
Loads(x) == Ends(SetReadyState(x, DONE), "load")

\* getResponseHeader() and getAllResponseHeaders() are replaced last.
WithHeaders(x) == [x EXCEPT !.headers = TRUE]

\* processResponse(), up to its first await, and then the timer and the headers.
ProcessResponse ==
  /\ phase = "following" /\ kind # "redirect"
  /\ xhr' = WithHeaders(CASE kind = "error" -> ErrorSteps(xhr, "error")
                          [] kind = "bodyless" -> Loads(SetReadyState(xhr, HEADERS_RECEIVED))
                          [] OTHER -> SetReadyState(xhr, HEADERS_RECEIVED))
  /\ phase' = IF kind = "plain" THEN "reading" ELSE "done"
  /\ timer' = IF timeout THEN "running" ELSE "none"
  /\ UNCHANGED <<timeout, sends, asking, verdict, kind, uploaded, arrived,
                 redirectCount, breaks>>

\* The timer aborts the reading of a response that is not done.
TimerFires ==
  /\ timer = "running"
  /\ timer' = IF ReadyState(xhr) = DONE THEN "none" ELSE "fired"
  /\ UNCHANGED <<xhr, timeout, sends, asking, verdict, phase, kind, uploaded, arrived,
                 redirectCount, breaks>>

TimedOut == timer = "fired"

\* processResponseBodyChunk(): progress, or nothing yet when chunks come fast.
Progress(x) ==
  LET d == IF ReadyState(x) = HEADERS_RECEIVED THEN [x EXCEPT !.defined = LOADING] ELSE x
  IN Trigger(Trigger(d, "readystatechange"), "progress")

BufferedNested(x, chunk) == [x EXCEPT !.buffer = Append(@, <<chunk>>)]
BufferedBefore(x, chunk) == [x EXCEPT !.buffer = <<chunk>> \o @]
Buffered(x, chunk) == [x EXCEPT !.buffer = Append(@, chunk)]

\* A chunk is read.  The timer is looked at before the next one: the loop ends,
\* and nothing is fired.
BodyChunk(fast) ==
  /\ phase = "reading" /\ arrived < MaxChunks /\ breaks = 0
  /\ arrived' = arrived + 1
  /\ xhr' = Buffered(IF fast THEN xhr ELSE Progress(xhr), <<sends, arrived'>>)
  /\ phase' = IF TimedOut THEN "abandoned" ELSE "reading"
  /\ UNCHANGED <<timeout, sends, asking, verdict, kind, uploaded, redirectCount,
                 timer, breaks>>

\* processResponseEndOfBody(): the error steps of a timeout do not return.
BodyEnds ==
  /\ phase = "reading" /\ breaks = 0
  /\ xhr' = Loads(IF TimedOut THEN ErrorSteps(xhr, "timeout") ELSE xhr)
  /\ phase' = "done"
  /\ UNCHANGED <<timeout, sends, asking, verdict, kind, uploaded, arrived,
                 redirectCount, timer, breaks>>

\* A read that fails has its error steps, and is tried again.
BodyBreaks ==
  /\ phase = "reading" /\ breaks < MaxBreaks
  /\ breaks' = breaks + 1
  /\ xhr' = ErrorSteps(xhr, "error")
  /\ phase' = IF TimedOut THEN "abandoned" ELSE "reading"
  /\ UNCHANGED <<timeout, sends, asking, verdict, kind, uploaded, arrived,
                 redirectCount, timer>>

-----------------------------------------------------------------------------
Verdict == (\E k \in Kinds : RespondWith(k)) \/ ErrorWith \/ LeaveAsIs

Uploading == UploadStarts \/ (\E last \in BOOLEAN : UploadProgresses(last)) \/ UploadEnds

Redirecting ==
  FollowRedirect \/ (\E k \in {"plain", "bodyless"} : RedirectLoads(k)) \/ RedirectFails

Reading == (\E fast \in BOOLEAN : BodyChunk(fast)) \/ BodyEnds

Next ==
  \/ Open \/ Send \/ SendSync
  \/ Verdict \/ RequestSettles
  \/ \E event \in {"load", "error"} : NativeEnds(event)
  \/ Uploading \/ Redirecting \/ ProcessResponse \/ Reading
  \/ TimerFires \/ BodyBreaks

\* The "request" listeners settle, bodies end, and the request that follows a
\* redirect ends.  The consumer, the server and the timer do as they like.
Fairness ==
  /\ WF_vars(Verdict) /\ WF_vars(RequestSettles)
  /\ WF_vars(Uploading \/ Redirecting \/ ProcessResponse \/ Reading)

Spec == Init /\ [][Next]_vars /\ Fairness

-----------------------------------------------------------------------------
(* Properties.                                                               *)

Broken == breaks > 0

\* Every event is fired in its readyState, and a sending ends once, with
\* "loadend" behind the event that says how, unless the timer went off or a read
\* of the response's body failed.
FiredIn(event) ==
  CASE event = "progress" -> {LOADING}
    [] event \in {"load", "error", "timeout", "loadend"} -> {DONE}
    [] event = "readystatechange" -> {HEADERS_RECEIVED, LOADING, DONE}
    [] OTHER -> UNSENT..DONE
EventsInOrder ==
  /\ \A i \in DOMAIN xhr.log : xhr.log[i].at \in FiredIn(xhr.log[i].event)
  /\ ~TimedOut /\ ~Broken =>
       \A i \in DOMAIN xhr.log :
         xhr.log[i].event \in {"load", "error", "loadend"} =>
           i >= Len(xhr.log) - 1 /\ (i = Len(xhr.log) => xhr.log[i].event = "loadend")

\* A request that is performed as-is is not answered as well.
NeverBoth == xhr.performed => phase = "none" /\ verdict \notin {"mock", "error"}

\* When the first sending of an instance loads, the whole body can be read, and
\* one "response" event has said whose response it was and, but for one without a
\* body, what its headers were.
AnsweredWhole ==
  (\E entry \in ToSet(xhr.log) : entry.event = "load") /\ sends = 1 /\ ~TimedOut /\ ~Broken =>
    IF verdict = "mock"
    THEN /\ Response(xhr) = [i \in 1..arrived |-> <<sends, i>>]
         /\ xhr.responses = <<[type |-> "mock", headers |-> kind # "bodyless"]>>
    ELSE xhr.responses = [i \in 1..xhr.loadListeners |-> [type |-> "original", headers |-> FALSE]]

\* A request is performed or ends, unless the timer went off, or an instance that
\* was handled before is used again.
EventuallySettles ==
  asking = "pending" ~> xhr.performed \/ Ended \/ TimedOut \/ sends > 1
===============================================================================
