----------------------- MODULE XMLHttpRequests_proofs -----------------------
(***************************************************************************)
(* Proofs about XMLHttpRequests, for any number of sendings, chunks,        *)
(* redirects and failing reads.                                             *)
(***************************************************************************)
EXTENDS XMLHttpRequests, SequenceTheorems, TLAPS

Events == {"loadstart", "readystatechange", "progress", "load", "error", "timeout",
           "loadend"}
EndEvents == {"load", "error", "timeout", "loadend"}

\* What the properties say of a log.
FiredInTime(log) == \A i \in DOMAIN log : log[i].at \in FiredIn(log[i].event)
EndFree(log) == \A i \in DOMAIN log : log[i].event \notin EndEvents
NoLoad(log) == \A i \in DOMAIN log : log[i].event # "load"
EndsOnce(log) ==
  \A i \in DOMAIN log :
    log[i].event \in {"load", "error", "loadend"} =>
      i >= Len(log) - 1 /\ (i = Len(log) => log[i].event = "loadend")

Fired(event, at) == [event |-> event, at |-> at]

-----------------------------------------------------------------------------
\* An event that is fired in its readyState is no exception to the order.
LEMMA LogFired ==
  ASSUME NEW log \in Seq(Entry), NEW event \in Events, NEW at \in FiredIn(event)
  PROVE  LET next == Append(log, Fired(event, at)) IN
         /\ next \in Seq(Entry)
         /\ FiredInTime(log) => FiredInTime(next)
         /\ EndFree(log) /\ event \notin EndEvents => EndFree(next)
         /\ NoLoad(log) /\ event # "load" => NoLoad(next)
<1>1. Fired(event, at) \in Entry
  BY DEF Fired, Entry, Events, FiredIn, UNSENT, DONE, LOADING, HEADERS_RECEIVED
<1>2. QED
  BY <1>1 DEF Fired, Entry, FiredInTime, EndFree, NoLoad

\* A log without an end ends once with the event that says how, and "loadend".
LEMMA LogEnds ==
  ASSUME NEW log \in Seq(Entry), NEW event \in {"load", "error", "timeout"}
  PROVE  LET next == Append(Append(log, Fired(event, DONE)), Fired("loadend", DONE)) IN
         /\ next \in Seq(Entry)
         /\ FiredInTime(log) => FiredInTime(next)
         /\ EndFree(log) => EndsOnce(next)
         /\ NoLoad(log) /\ event # "load" => NoLoad(next)
         /\ \E i \in DOMAIN next : next[i].event = "loadend"
<1> DEFINE first == Append(log, Fired(event, DONE))
           next == Append(first, Fired("loadend", DONE))
<1>1. DONE \in FiredIn(event) /\ DONE \in FiredIn("loadend")
  BY DEF FiredIn
<1>2. /\ first \in Seq(Entry)
      /\ FiredInTime(log) => FiredInTime(first)
      /\ NoLoad(log) /\ event # "load" => NoLoad(first)
  BY <1>1, LogFired DEF Events
<1>3. /\ next \in Seq(Entry)
      /\ FiredInTime(log) => FiredInTime(next)
      /\ NoLoad(log) /\ event # "load" => NoLoad(next)
  <2> HIDE DEF first
  <2>1. QED
    BY <1>1, <1>2, LogFired DEF Events
<1>4. Fired(event, DONE) \in Entry /\ Fired("loadend", DONE) \in Entry
  BY DEF Fired, Entry, UNSENT, DONE
<1>5. /\ Len(next) = Len(log) + 2
      /\ \A i \in 1..Len(log) : next[i] = log[i]
      /\ next[Len(log) + 1] = Fired(event, DONE)
      /\ next[Len(log) + 2] = Fired("loadend", DONE)
  BY <1>4
<1>6. EndFree(log) => EndsOnce(next)
  BY <1>3, <1>5 DEF EndFree, EndsOnce, EndEvents, Fired
<1>7. \E i \in DOMAIN next : next[i].event = "loadend"
  <2>1. Len(log) + 2 \in DOMAIN next
    BY <1>3, <1>5
  <2>2. QED
    BY <1>5, <2>1 DEF Fired
<1>8. QED
  BY <1>3, <1>6, <1>7

\* A log without an end has not ended.
LEMMA LogOpen ==
  ASSUME NEW log \in Seq(Entry), EndFree(log)
  PROVE  /\ EndsOnce(log) /\ NoLoad(log)
         /\ \A i \in DOMAIN log : log[i].event # "loadend"
  BY DEF EndFree, EndsOnce, NoLoad, EndEvents

\* Nothing was fired at an empty log.
LEMMA LogEmpty ==
  <<>> \in Seq(Entry) /\ FiredInTime(<<>>) /\ EndFree(<<>>)
  BY DEF FiredInTime, EndFree

-----------------------------------------------------------------------------
(* What the events change of an instance.                                    *)

\* A function from the first numbers is a sequence.
LEMMA FunctionIsSeq ==
  ASSUME NEW S, NEW n \in Nat, NEW f \in [1..n -> S]
  PROVE  f \in Seq(S) /\ Len(f) = n
<1>1. f \in UNION {[1..m -> S] : m \in Nat}
  OBVIOUS
<1>2. Seq(S) = UNION {[1..m -> S] : m \in Nat}
  BY SeqDef, Zenon
<1>3. f \in Seq(S)
  BY <1>1, <1>2, Zenon
<1>4. QED
  BY <1>3

\* A function from 1 alone is a sequence of one.
LEMMA SingletonSeq ==
  ASSUME NEW e
  PROVE  [i \in 1..1 |-> e] = <<e>>
<1>1. [i \in 1..1 |-> e] \in Seq({e}) /\ Len([i \in 1..1 |-> e]) = 1
  <2>1. [i \in 1..1 |-> e] \in [1..1 -> {e}]
    OBVIOUS
  <2>2. QED
    BY <2>1, FunctionIsSeq
<1>2. <<e>> \in Seq({e}) /\ Len(<<e>>) = 1 /\ <<e>>[1] = e
  OBVIOUS
<1>3. \A i \in 1..1 : [j \in 1..1 |-> e][i] = <<e>>[i]
  OBVIOUS
<1>4. QED
  BY <1>1, <1>2, <1>3, SeqEqual

\* The chunks so far, and the next one.
LEMMA AppendNext ==
  ASSUME NEW n \in Nat, NEW a
  PROVE  Append([i \in 1..n |-> <<a, i>>], <<a, n + 1>>) = [i \in 1..n + 1 |-> <<a, i>>]
<1> DEFINE S == {<<a, i>> : i \in 1..n + 1}
           s == [i \in 1..n |-> <<a, i>>]
           t == [i \in 1..n + 1 |-> <<a, i>>]
<1>1. s \in Seq(S) /\ Len(s) = n
  <2>1. s \in [1..n -> S]
    OBVIOUS
  <2>2. QED
    BY <2>1, FunctionIsSeq
<1>2. t \in Seq(S) /\ Len(t) = n + 1
  <2>1. t \in [1..n + 1 -> S] /\ n + 1 \in Nat
    OBVIOUS
  <2>2. QED
    BY <2>1, FunctionIsSeq
<1>3. <<a, n + 1>> \in S
  OBVIOUS
<1> HIDE DEF S
<1>4. /\ Append(s, <<a, n + 1>>) \in Seq(S) /\ Len(Append(s, <<a, n + 1>>)) = n + 1
      /\ \A i \in 1..n : Append(s, <<a, n + 1>>)[i] = s[i]
      /\ Append(s, <<a, n + 1>>)[n + 1] = <<a, n + 1>>
  <2> HIDE DEF s
  <2>1. QED
    BY <1>1, <1>3, AppendProperties
<1>5. \A i \in 1..n + 1 : Append(s, <<a, n + 1>>)[i] = t[i]
  BY <1>4
<1>6. QED
  <2> HIDE DEF s, t
  <2>1. QED
    BY <1>2, <1>4, <1>5, SeqEqual

\* Events are fired, the readyState is defined, "response" is reported.
SameButEvents(x, y) ==
  /\ y.native = x.native /\ y.handled = x.handled /\ y.getters = x.getters
  /\ y.loadListeners = x.loadListeners /\ y.performed = x.performed
  /\ y.buffer = x.buffer /\ y.upload = x.upload /\ y.headers = x.headers

Reports(x) == [i \in 1..x.loadListeners |-> [type |-> ResponseType(x), headers |-> x.headers]]

\* The readyState is one of those of the standard.
LEMMA ReadyStates ==
  ASSUME NEW x \in Instances
  PROVE  ReadyState(x) \in UNSENT..DONE
  BY DEF Instances, ReadyState, UNSENT, DONE

\* An event that is no "load" is added to the log, and nothing else.
LEMMA Triggers ==
  ASSUME NEW x \in Instances, NEW event \in Events, event # "load"
  PROVE  LET y == Trigger(x, event) IN
         /\ y \in Instances /\ SameButEvents(x, y)
         /\ y.defined = x.defined /\ y.responses = x.responses
         /\ y.log = Append(x.log, Fired(event, ReadyState(x)))
<1>1. Fired(event, ReadyState(x)) \in Entry
  BY ReadyStates DEF Fired, Entry, Events
<1>2. Append(x.log, Fired(event, ReadyState(x))) \in Seq(Entry)
  BY <1>1 DEF Instances
<1>3. QED
  BY <1>2 DEF Trigger, Instances, SameButEvents, Fired

\* A "load" also reports one response for each of its listeners.
LEMMA TriggersLoad ==
  ASSUME NEW x \in Instances
  PROVE  LET y == Trigger(x, "load") IN
         /\ y \in Instances /\ SameButEvents(x, y)
         /\ y.defined = x.defined /\ y.responses = x.responses \o Reports(x)
         /\ y.log = Append(x.log, Fired("load", ReadyState(x)))
<1> DEFINE d == [x EXCEPT !.log = Append(@, [event |-> "load", at |-> ReadyState(x)])]
<1>1. [event |-> "load", at |-> ReadyState(x)] \in Entry
  BY ReadyStates DEF Entry
<1>2. Append(x.log, [event |-> "load", at |-> ReadyState(x)]) \in Seq(Entry)
  BY <1>1 DEF Instances
<1>3. /\ d \in Instances /\ SameButEvents(x, d)
      /\ d.defined = x.defined /\ d.responses = x.responses
      /\ d.log = Append(x.log, Fired("load", ReadyState(x)))
  BY <1>2 DEF Instances, SameButEvents, Fired
<1>4. Reports(d) = Reports(x)
  BY <1>3 DEF Reports, ResponseType, SameButEvents
<1>5. Reports(d) \in Seq([type: {"mock", "original"}, headers: BOOLEAN])
  <2>1. d.loadListeners \in Nat /\ d.headers \in BOOLEAN
    BY <1>3 DEF Instances
  <2> HIDE DEF d
  <2>2. Reports(d) \in [1..d.loadListeners -> [type: {"mock", "original"}, headers: BOOLEAN]]
    BY <2>1 DEF Reports, ResponseType
  <2>3. QED
    BY <2>1, <2>2, FunctionIsSeq
<1>6. Trigger(x, "load") = [d EXCEPT !.responses = @ \o Reports(d)]
  BY DEF Trigger, OnResponse, Reports
<1>7. d.responses \o Reports(d) \in Seq([type: {"mock", "original"}, headers: BOOLEAN])
  BY <1>3, <1>5 DEF Instances
<1> HIDE DEF d
<1>8. QED
  BY <1>3, <1>4, <1>6, <1>7 DEF Instances, SameButEvents

\* The events of a step keep what holds of a log.
InTime(x, y) == FiredInTime(x.log) => FiredInTime(y.log)
StaysOpen(x, y) == EndFree(x.log) => EndFree(y.log)
EndsFor(x, y) == EndFree(x.log) => EndsOnce(y.log)
NoneLoads(x, y) == NoLoad(x.log) => NoLoad(y.log)

\* setReadyState() leaves the instance in that readyState.
LEMMA SetsReadyState ==
  ASSUME NEW x \in Instances, NEW next \in {HEADERS_RECEIVED, DONE}
  PROVE  LET y == SetReadyState(x, next) IN
         /\ y \in Instances /\ SameButEvents(x, y)
         /\ y.defined \in {x.defined, next} /\ y.responses = x.responses
         /\ ReadyState(y) = next
         /\ InTime(x, y) /\ StaysOpen(x, y) /\ NoneLoads(x, y)
<1> USE DEF InTime, StaysOpen, NoneLoads
<1>1. CASE ReadyState(x) = next
  BY <1>1 DEF SetReadyState, SameButEvents
<1>2. CASE ReadyState(x) # next
  <2> DEFINE d == [x EXCEPT !.defined = next]
  <2>1. /\ d \in Instances /\ SameButEvents(x, d) /\ d.defined = next
        /\ d.responses = x.responses /\ d.log = x.log /\ ReadyState(d) = next
    <3>1. next \in 0..DONE /\ next # 0
      BY DEF HEADERS_RECEIVED, DONE
    <3>2. d \in Instances /\ d.defined = next
      BY <3>1 DEF Instances
    <3>3. SameButEvents(x, d) /\ d.responses = x.responses /\ d.log = x.log
      BY DEF Instances, SameButEvents
    <3>4. ReadyState(d) = next
      BY <3>1, <3>2 DEF ReadyState
    <3>5. QED
      BY <3>2, <3>3, <3>4
  <2>2. SetReadyState(x, next) = Trigger(d, "readystatechange")
    BY <1>2 DEF SetReadyState
  <2>3. next \in FiredIn("readystatechange")
    BY DEF FiredIn
  <2> DEFINE y == Trigger(d, "readystatechange")
  <2> HIDE DEF d
  <2>4. /\ y \in Instances /\ SameButEvents(d, y) /\ y.defined = d.defined
        /\ y.responses = d.responses /\ y.log = Append(d.log, Fired("readystatechange", next))
    BY <2>1, Triggers DEF Events
  <2>5. d.log \in Seq(Entry)
    BY <2>1 DEF Instances
  <2>6. InTime(d, y) /\ StaysOpen(d, y) /\ NoneLoads(d, y)
    BY <2>3, <2>4, <2>5, LogFired DEF Events, EndEvents
  <2> HIDE DEF y
  <2>7. /\ SameButEvents(x, y) /\ y.defined = next /\ y.responses = x.responses
        /\ ReadyState(y) = next
    BY <2>1, <2>4 DEF SameButEvents, ReadyState
  <2>8. QED
    BY <2>1, <2>2, <2>4, <2>6, <2>7 DEF y
<1>3. QED
  BY <1>1, <1>2

\* The event that says how a sending ends, and "loadend".
LEMMA EndsWith ==
  ASSUME NEW x \in Instances, NEW event \in {"load", "error", "timeout"}, ReadyState(x) = DONE
  PROVE  LET y == Ends(x, event) IN
         /\ y \in Instances /\ SameButEvents(x, y) /\ y.defined = x.defined
         /\ y.responses = IF event = "load" THEN x.responses \o Reports(x) ELSE x.responses
         /\ InTime(x, y) /\ EndsFor(x, y) /\ (event # "load" => NoneLoads(x, y))
         /\ \E i \in DOMAIN y.log : y.log[i].event = "loadend"
<1> DEFINE d == Trigger(x, event)
           y == Trigger(d, "loadend")
<1>1. /\ d \in Instances /\ SameButEvents(x, d) /\ d.defined = x.defined
      /\ d.responses = IF event = "load" THEN x.responses \o Reports(x) ELSE x.responses
      /\ d.log = Append(x.log, Fired(event, DONE))
  BY ZenonT(60), Triggers, TriggersLoad DEF Events
<1>2. ReadyState(d) = DONE
  BY <1>1 DEF SameButEvents, ReadyState
<1>3. /\ y \in Instances /\ SameButEvents(d, y) /\ y.defined = d.defined
      /\ y.responses = d.responses /\ y.log = Append(d.log, Fired("loadend", DONE))
  <2> HIDE DEF d
  <2>1. QED
    BY <1>1, <1>2, Triggers DEF Events
<1>4. Ends(x, event) = y
  BY DEF Ends
<1>5. x.log \in Seq(Entry)
  BY DEF Instances
<1> HIDE DEF d, y
<1>6. /\ InTime(x, y) /\ EndsFor(x, y) /\ (event # "load" => NoneLoads(x, y))
      /\ \E i \in DOMAIN y.log : y.log[i].event = "loadend"
  <2>1. y.log = Append(Append(x.log, Fired(event, DONE)), Fired("loadend", DONE))
    BY <1>1, <1>3
  <2>2. /\ FiredInTime(x.log) => FiredInTime(y.log)
        /\ EndFree(x.log) => EndsOnce(y.log)
        /\ NoLoad(x.log) /\ event # "load" => NoLoad(y.log)
        /\ \E i \in DOMAIN y.log : y.log[i].event = "loadend"
    BY SMTT(30), <1>5, <2>1, LogEnds
  <2>3. QED
    BY <2>2 DEF InTime, EndsFor, NoneLoads
<1>7. SameButEvents(x, y)
  BY <1>1, <1>3 DEF SameButEvents
<1>8. QED
  BY <1>1, <1>3, <1>4, <1>6, <1>7

\* Error steps end a sending that has not ended, and report no response.
LEMMA ErrorStepsEnd ==
  ASSUME NEW x \in Instances, NEW event \in {"error", "timeout"}
  PROVE  LET y == ErrorSteps(x, event) IN
         /\ y \in Instances /\ SameButEvents(x, y)
         /\ y.defined \in {x.defined, DONE} /\ y.responses = x.responses
         /\ ReadyState(y) = DONE
         /\ InTime(x, y) /\ EndsFor(x, y) /\ NoneLoads(x, y)
         /\ \E i \in DOMAIN y.log : y.log[i].event = "loadend"
<1> DEFINE d == SetReadyState(x, DONE)
           y == Ends(d, event)
<1>1. /\ d \in Instances /\ SameButEvents(x, d)
      /\ d.defined \in {x.defined, DONE} /\ d.responses = x.responses
      /\ ReadyState(d) = DONE
      /\ InTime(x, d) /\ StaysOpen(x, d) /\ NoneLoads(x, d)
  BY SetsReadyState
<1> HIDE DEF d
<1>2. /\ y \in Instances /\ SameButEvents(d, y) /\ y.defined = d.defined
      /\ y.responses = d.responses
      /\ InTime(d, y) /\ EndsFor(d, y) /\ NoneLoads(d, y)
      /\ \E i \in DOMAIN y.log : y.log[i].event = "loadend"
  BY <1>1, EndsWith
<1>3. ErrorSteps(x, event) = y
  BY DEF ErrorSteps, d
<1> HIDE DEF y
<1>4. SameButEvents(x, y) /\ ReadyState(y) = DONE
  BY <1>1, <1>2 DEF SameButEvents, ReadyState
<1>5. InTime(x, y) /\ EndsFor(x, y) /\ NoneLoads(x, y)
  BY <1>1, <1>2 DEF InTime, EndsFor, NoneLoads, StaysOpen
<1>6. QED
  BY <1>1, <1>2, <1>3, <1>4, <1>5

\* A response that loads ends a sending, and is reported.
LEMMA LoadsEnd ==
  ASSUME NEW x \in Instances
  PROVE  LET y == Loads(x) IN
         /\ y \in Instances /\ SameButEvents(x, y)
         /\ y.defined \in {x.defined, DONE} /\ y.responses = x.responses \o Reports(x)
         /\ ReadyState(y) = DONE
         /\ InTime(x, y) /\ EndsFor(x, y)
         /\ \E i \in DOMAIN y.log : y.log[i].event = "loadend"
<1> DEFINE d == SetReadyState(x, DONE)
           y == Ends(d, "load")
<1>1. /\ d \in Instances /\ SameButEvents(x, d)
      /\ d.defined \in {x.defined, DONE} /\ d.responses = x.responses
      /\ ReadyState(d) = DONE
      /\ InTime(x, d) /\ StaysOpen(x, d)
  BY SetsReadyState
<1> HIDE DEF d
<1>2. /\ y \in Instances /\ SameButEvents(d, y) /\ y.defined = d.defined
      /\ y.responses = d.responses \o Reports(d)
      /\ InTime(d, y) /\ EndsFor(d, y)
      /\ \E i \in DOMAIN y.log : y.log[i].event = "loadend"
  BY <1>1, EndsWith
<1>3. Loads(x) = y
  BY DEF Loads, d
<1>4. Reports(d) = Reports(x)
  BY <1>1 DEF Reports, ResponseType, SameButEvents
<1> HIDE DEF y
<1>5. SameButEvents(x, y) /\ ReadyState(y) = DONE
  BY <1>1, <1>2 DEF SameButEvents, ReadyState
<1>6. InTime(x, y) /\ EndsFor(x, y)
  BY <1>1, <1>2 DEF InTime, EndsFor, StaysOpen
<1>7. QED
  BY <1>1, <1>2, <1>3, <1>4, <1>5, <1>6

\* A chunk makes progress in LOADING.
LEMMA Progresses ==
  ASSUME NEW x \in Instances, ReadyState(x) \in {HEADERS_RECEIVED, LOADING}
  PROVE  LET y == Progress(x) IN
         /\ y \in Instances /\ SameButEvents(x, y)
         /\ y.responses = x.responses /\ ReadyState(y) = LOADING
         /\ InTime(x, y) /\ StaysOpen(x, y)
<1> DEFINE d == IF ReadyState(x) = HEADERS_RECEIVED THEN [x EXCEPT !.defined = LOADING] ELSE x
           e == Trigger(d, "readystatechange")
           y == Trigger(e, "progress")
<1>1. /\ d \in Instances /\ SameButEvents(x, d)
      /\ d.responses = x.responses /\ d.log = x.log /\ ReadyState(d) = LOADING
  BY SMTT(30) DEF Instances, SameButEvents, ReadyState, HEADERS_RECEIVED, DONE, UNSENT, LOADING
<1>2. Progress(x) = y
  BY DEF Progress
<1> HIDE DEF d
<1>3. /\ e \in Instances /\ SameButEvents(d, e) /\ e.defined = d.defined
      /\ e.responses = d.responses /\ e.log = Append(d.log, Fired("readystatechange", LOADING))
  BY <1>1, Triggers DEF Events
<1>4. ReadyState(e) = LOADING
  BY <1>1, <1>3 DEF SameButEvents, ReadyState
<1> HIDE DEF e
<1>5. /\ y \in Instances /\ SameButEvents(e, y) /\ y.defined = e.defined
      /\ y.responses = e.responses /\ y.log = Append(e.log, Fired("progress", LOADING))
  BY <1>3, <1>4, Triggers DEF Events
<1>6. d.log \in Seq(Entry) /\ e.log \in Seq(Entry)
  BY <1>1, <1>3 DEF Instances
<1>7. LOADING \in FiredIn("readystatechange") /\ LOADING \in FiredIn("progress")
  BY DEF FiredIn
<1> HIDE DEF y
<1>8. InTime(d, e) /\ StaysOpen(d, e)
  BY <1>3, <1>6, <1>7, LogFired DEF Events, EndEvents, InTime, StaysOpen
<1>9. InTime(e, y) /\ StaysOpen(e, y)
  BY <1>5, <1>6, <1>7, LogFired DEF Events, EndEvents, InTime, StaysOpen
<1>10. InTime(x, y) /\ StaysOpen(x, y)
  BY <1>1, <1>8, <1>9 DEF InTime, StaysOpen
<1>11. SameButEvents(x, y) /\ ReadyState(y) = LOADING
  BY <1>1, <1>3, <1>4, <1>5 DEF SameButEvents, ReadyState
<1>12. QED
  BY <1>1, <1>2, <1>3, <1>5, <1>10, <1>11

UploadEvents == {"loadstart", "progress", "load", "loadend"}

\* Events of the upload concern the upload alone.
LEMMA TriggersUpload ==
  ASSUME NEW x \in Instances, NEW events \in Seq(UploadEvents)
  PROVE  TriggerUpload(x, events) \in Instances
<1>1. x.upload \o events \in Seq(UploadEvents)
  BY DEF Instances, UploadEvents
<1>2. QED
  BY <1>1 DEF TriggerUpload, Instances, UploadEvents

-----------------------------------------------------------------------------
(* The inductive invariant.                                                  *)

\* Nothing has happened since the instance was opened until a request is decided.
Opening ==
  /\ xhr.native = UNSENT => sends = 0
  /\ sends = 0 => verdict = "none" /\ asking = "none"
  /\ asking = "pending" => verdict = "none"
  /\ asking = "decided" => verdict # "none"
  /\ verdict = "none" =>
       /\ phase = "none" /\ kind = "none" /\ arrived = 0
       /\ timer = "none" /\ ~Broken
       /\ ~xhr.performed /\ xhr.log = <<>> /\ xhr.responses = <<>>
  /\ xhr.loadListeners <= sends

\* Where a decided request is.
Deciding ==
  /\ verdict \in {"mock", "error"} => xhr.handled /\ phase # "none"
  /\ verdict = "mock" => kind # "none"
  /\ verdict = "error" => phase = "done" /\ NoLoad(xhr.log)
  /\ verdict = "as-is" => phase = "none" /\ (Ended \/ (xhr.log = <<>> /\ xhr.responses = <<>>))
  /\ xhr.performed => verdict = "as-is" /\ asking = "none"

Unread == {"measuring", "uploading", "following", "redirecting"}

\* A response that is played back has not ended before it is "done", but for a
\* read that failed.
Playing ==
  /\ redirectCount > MaxRedirects => phase = "abandoned"
  /\ phase \in Unread \cup {"none", "done"} => xhr.defined \in {0, DONE}
  /\ phase \in Unread => timer = "none" /\ ~Broken /\ EndFree(xhr.log)
  /\ phase = "reading" =>
       /\ kind = "plain"
       /\ ~Broken => ReadyState(xhr) \in {HEADERS_RECEIVED, LOADING} /\ EndFree(xhr.log)
       /\ Broken => ReadyState(xhr) = DONE

\* An instance keeps what a mocked response left; its first sending finds nothing.
Fresh == ~xhr.headers /\ xhr.buffer = <<>>

FirstSending ==
  /\ sends = 0 => xhr.loadListeners = 0 /\ Fresh /\ ~xhr.handled
  /\ sends = 1 =>
       /\ asking = "pending" => xhr.loadListeners = 1 /\ Fresh /\ ~xhr.handled
       /\ verdict = "as-is" => ~xhr.headers /\ ~xhr.handled
       /\ verdict = "mock" => xhr.loadListeners = 1
       /\ phase \in Unread => Fresh /\ arrived = 0 /\ xhr.responses = <<>>
       /\ phase = "reading" /\ ~Broken =>
            /\ xhr.headers /\ xhr.responses = <<>>
            /\ xhr.buffer = [i \in 1..arrived |-> <<sends, i>>]

IInv ==
  /\ TypeOK
  /\ Opening
  /\ Deciding
  /\ Playing
  /\ FirstSending
  /\ EventsInOrder
  /\ NeverBoth
  /\ AnsweredWhole

-----------------------------------------------------------------------------
(* Every step keeps the invariant.                                           *)

\* A request whose log has no "load" need not be answered.
LEMMA NotAnsweredYet ==
  /\ NoLoad(xhr.log) => AnsweredWhole
  /\ NoLoad(xhr.log)' => AnsweredWhole'
  BY DEF NoLoad, AnsweredWhole, ToSet

\* Steps that leave the instance alone.
LEMMA StepsAside ==
  ASSUME IInv, LeaveAsIs \/ RequestSettles \/ TimerFires \/ FollowRedirect
               \/ (\E k \in {"plain", "bodyless"} : RedirectLoads(k))
               \/ UNCHANGED vars
  PROVE  IInv'
<1> USE DEF IInv
<1>1. CASE UNCHANGED vars
  BY <1>1 DEF vars, TypeOK, Opening, Deciding, Playing, FirstSending, EventsInOrder,
              NeverBoth, AnsweredWhole, Ended, TimedOut, Broken, Fresh
<1>2. CASE LeaveAsIs
  <2>1. TypeOK'
    BY <1>2 DEF LeaveAsIs, Decide, TypeOK
  <2>2. Opening' /\ Deciding' /\ NeverBoth'
    BY <1>2 DEF LeaveAsIs, Decide, TypeOK, Opening, Deciding, NeverBoth, Ended, Broken
  <2>3. Playing'
    BY <1>2
       DEF LeaveAsIs, Decide, TypeOK, Opening, Deciding, Playing, TimedOut, Broken,
           Unread
  <2>4. FirstSending'
    BY <1>2
       DEF LeaveAsIs, Decide, TypeOK, Opening, Deciding, FirstSending, Fresh, Broken,
           Unread
  <2>5. EventsInOrder'
    BY <1>2 DEF LeaveAsIs, Decide, TypeOK, EventsInOrder, TimedOut, Broken
  <2>6. AnsweredWhole'
    BY <1>2
       DEF LeaveAsIs, Decide, TypeOK, Opening, Deciding, AnsweredWhole, TimedOut, Broken
  <2>7. QED
    BY <2>1, <2>2, <2>3, <2>4, <2>5, <2>6
<1>3. CASE RequestSettles
  <2>1. TypeOK'
    BY ZenonT(60), <1>3 DEF RequestSettles, Instances, TypeOK
  <2>2. Opening' /\ Deciding' /\ NeverBoth'
    BY <1>3
       DEF RequestSettles, Instances, TypeOK, Opening, Deciding, NeverBoth, Ended,
           Broken
  <2>3. Playing'
    BY <1>3
       DEF RequestSettles, Instances, TypeOK, Opening, Deciding, Playing, TimedOut,
           Broken, Unread
  <2>4. FirstSending'
    BY <1>3
       DEF RequestSettles, Instances, TypeOK, Opening, Deciding, FirstSending, Fresh,
           Broken, Unread
  <2>5. EventsInOrder'
    BY <1>3 DEF RequestSettles, Instances, TypeOK, EventsInOrder, TimedOut, Broken
  <2>6. AnsweredWhole'
    BY <1>3 DEF RequestSettles, Instances, TypeOK, AnsweredWhole, TimedOut, Broken,
                Response, ReadyState
  <2>7. QED
    BY <2>1, <2>2, <2>3, <2>4, <2>5, <2>6
<1>4. CASE TimerFires
  <2>1. TypeOK'
    BY <1>4 DEF TimerFires, TypeOK
  <2>2. Opening' /\ Deciding' /\ NeverBoth'
    BY <1>4 DEF TimerFires, TypeOK, Opening, Deciding, NeverBoth, Ended, Broken
  <2>3. Playing'
    BY <1>4 DEF TimerFires, TypeOK, Opening, Deciding, Playing, TimedOut, Broken, Unread
  <2>4. FirstSending'
    BY <1>4
       DEF TimerFires, TypeOK, Opening, Deciding, FirstSending, Fresh, Broken, Unread
  <2>5. EventsInOrder'
    BY <1>4 DEF TimerFires, TypeOK, EventsInOrder, TimedOut, Broken
  <2>6. AnsweredWhole'
    BY <1>4 DEF TimerFires, TypeOK, Opening, Deciding, AnsweredWhole, TimedOut, Broken
  <2>7. QED
    BY <2>1, <2>2, <2>3, <2>4, <2>5, <2>6
<1>5. CASE FollowRedirect
  <2>1. TypeOK'
    BY <1>5, BoundsAssumption DEF FollowRedirect, TypeOK, Playing
  <2>2. Opening' /\ Deciding' /\ NeverBoth'
    BY <1>5 DEF FollowRedirect, TypeOK, Opening, Deciding, NeverBoth, Ended, Broken
  <2>3. Playing'
    BY <1>5
       DEF FollowRedirect, TypeOK, Opening, Deciding, Playing, TimedOut, Broken, Unread
  <2>4. FirstSending'
    BY <1>5
       DEF FollowRedirect, TypeOK, Opening, Deciding, FirstSending, Fresh, Broken,
           Unread
  <2>5. EventsInOrder'
    BY <1>5 DEF FollowRedirect, TypeOK, EventsInOrder, TimedOut, Broken
  <2>6. AnsweredWhole'
    BY <1>5
       DEF FollowRedirect, TypeOK, Opening, Deciding, AnsweredWhole, TimedOut, Broken
  <2>7. QED
    BY <2>1, <2>2, <2>3, <2>4, <2>5, <2>6
<1>6. ASSUME NEW k \in {"plain", "bodyless"}, RedirectLoads(k) PROVE IInv'
  <2>1. TypeOK'
    BY <1>6 DEF RedirectLoads, TypeOK, Kinds
  <2>2. Opening' /\ Deciding' /\ NeverBoth'
    BY <1>6 DEF RedirectLoads, TypeOK, Opening, Deciding, NeverBoth, Ended, Broken
  <2>3. Playing'
    BY <1>6
       DEF RedirectLoads, TypeOK, Opening, Deciding, Playing, TimedOut, Broken, Unread
  <2>4. FirstSending'
    BY <1>6
       DEF RedirectLoads, TypeOK, Opening, Deciding, FirstSending, Fresh, Broken, Unread
  <2>5. EventsInOrder'
    BY <1>6 DEF RedirectLoads, TypeOK, EventsInOrder, TimedOut, Broken
  <2>6. AnsweredWhole'
    <3>1. xhr' = xhr /\ EndFree(xhr.log) /\ xhr.log \in Seq(Entry)
      BY <1>6 DEF RedirectLoads, Playing, Unread, TypeOK, Instances
    <3>2. NoLoad(xhr.log)
      BY <3>1, LogOpen
    <3>3. QED
      BY <3>1, <3>2, NotAnsweredYet
  <2>7. QED
    BY <2>1, <2>2, <2>3, <2>4, <2>5, <2>6
<1>7. QED
  BY <1>1, <1>2, <1>3, <1>4, <1>5, <1>6

\* The consumer opens and sends.
LEMMA StepsOfConsumer ==
  ASSUME IInv, Open \/ Send \/ SendSync
  PROVE  IInv'
<1> USE DEF IInv
<1>1. CASE Open
  <2>0. /\ xhr'.log = <<>> /\ xhr'.responses = <<>> /\ xhr'.buffer = xhr.buffer
        /\ xhr'.handled = xhr.handled /\ xhr'.headers = xhr.headers
        /\ xhr'.native = OPENED /\ xhr'.defined = xhr.defined
        /\ xhr'.loadListeners = xhr.loadListeners /\ ~xhr'.performed
    BY <1>1 DEF Open, TypeOK, Instances
  <2>1. TypeOK'
    <3>1. xhr' \in Instances
      <4>1. /\ <<>> \in Seq(Entry) /\ <<>> \in Seq(UploadEvents) /\ OPENED \in UNSENT..DONE
            /\ <<>> \in Seq([type: {"mock", "original"}, headers: BOOLEAN])
        BY DEF UNSENT, OPENED, DONE
      <4>2. QED
        BY <1>1, <4>1 DEF Open, TypeOK, Instances, UploadEvents
    <3>2. QED
      BY <1>1, <3>1, BoundsAssumption DEF Open, TypeOK
  <2>2. Opening' /\ Deciding' /\ NeverBoth'
    <3>1. xhr.loadListeners \in Nat /\ sends \in Nat
      BY BoundsAssumption DEF TypeOK, Instances
    <3>2. QED
      BY <1>1, <2>0, <3>1
         DEF Open, Opening, Deciding, Playing, NeverBoth, Ended, Broken, ToSet, Unread,
             UNSENT, OPENED
  <2>3. Playing'
    BY <1>1, <2>0
       DEF Open, TypeOK, Opening, Deciding, Playing, TimedOut, Broken, Unread,
           ReadyState
  <2>4. FirstSending'
    BY <1>1, <2>0
       DEF Open, TypeOK, Opening, Deciding, FirstSending, Fresh, Broken, Unread
  <2>5. EventsInOrder'
    BY <1>1, <2>0 DEF Open, TypeOK, EventsInOrder, TimedOut, Broken
  <2>6. AnsweredWhole'
    BY <1>1, <2>0
       DEF Open, TypeOK, Opening, Deciding, AnsweredWhole, TimedOut, Broken, ToSet
  <2>7. QED
    BY <2>1, <2>2, <2>3, <2>4, <2>5, <2>6
<1>2. CASE Send
  <2>0. /\ xhr'.log = xhr.log /\ xhr'.responses = xhr.responses
        /\ xhr'.buffer = xhr.buffer /\ xhr'.handled = xhr.handled
        /\ xhr'.headers = xhr.headers /\ xhr'.native = OPENED
        /\ xhr'.defined = xhr.defined /\ xhr'.loadListeners = xhr.loadListeners + 1
        /\ xhr'.performed = xhr.performed
    BY <1>2 DEF Send, TypeOK, Instances
  <2>1. TypeOK'
    <3>1. xhr' \in Instances
      <4>1. xhr.loadListeners + 1 \in 0..MaxSends
        BY <1>2, BoundsAssumption DEF Send, TypeOK, Opening, Instances
      <4>2. QED
        BY <1>2, <4>1 DEF Send, TypeOK, Instances
    <3>2. QED
      BY <1>2, <3>1, BoundsAssumption DEF Send, TypeOK
  <2>2. Opening' /\ Deciding' /\ NeverBoth'
    <3>1. xhr.loadListeners \in Nat /\ sends \in Nat
      BY BoundsAssumption DEF TypeOK, Instances
    <3>2. QED
      BY <1>2, <2>0, <3>1
         DEF Send, Opening, Deciding, Playing, NeverBoth, Ended, Broken, ToSet, Unread,
             UNSENT, OPENED
  <2>3. Playing'
    BY <1>2, <2>0
       DEF Send, TypeOK, Opening, Deciding, Playing, TimedOut, Broken, Unread,
           ReadyState
  <2>4. FirstSending'
    BY <1>2, <2>0
       DEF Send, TypeOK, Opening, Deciding, FirstSending, Fresh, Broken, Unread
  <2>5. EventsInOrder'
    BY <1>2, <2>0 DEF Send, TypeOK, EventsInOrder, TimedOut, Broken
  <2>6. AnsweredWhole'
    BY <1>2, <2>0
       DEF Send, TypeOK, Opening, Deciding, AnsweredWhole, TimedOut, Broken, ToSet
  <2>7. QED
    BY <2>1, <2>2, <2>3, <2>4, <2>5, <2>6
<1>3. CASE SendSync
  <2>0. /\ xhr'.log = xhr.log /\ xhr'.responses = xhr.responses
        /\ xhr'.buffer = xhr.buffer /\ xhr'.handled = xhr.handled
        /\ xhr'.headers = xhr.headers /\ xhr'.native = OPENED
        /\ xhr'.defined = xhr.defined /\ xhr'.loadListeners = xhr.loadListeners
        /\ xhr'.performed
    BY <1>3 DEF SendSync, TypeOK, Instances
  <2>1. TypeOK'
    <3>1. xhr' \in Instances
      BY <1>3, BoundsAssumption
         DEF SendSync, TypeOK, Opening, Instances, UNSENT, OPENED, DONE
    <3>2. QED
      BY <1>3, <3>1, BoundsAssumption DEF SendSync, TypeOK
  <2>2. Opening' /\ Deciding' /\ NeverBoth'
    <3>1. xhr.loadListeners \in Nat /\ sends \in Nat
      BY BoundsAssumption DEF TypeOK, Instances
    <3>2. QED
      BY <1>3, <2>0, <3>1
         DEF SendSync, Opening, Deciding, Playing, NeverBoth, Ended, Broken, ToSet,
             Unread, UNSENT, OPENED
  <2>3. Playing'
    BY <1>3, <2>0
       DEF SendSync, TypeOK, Opening, Deciding, Playing, TimedOut, Broken, Unread,
           ReadyState
  <2>4. FirstSending'
    BY <1>3, <2>0
       DEF SendSync, TypeOK, Opening, Deciding, FirstSending, Fresh, Broken, Unread
  <2>5. EventsInOrder'
    BY <1>3, <2>0 DEF SendSync, TypeOK, EventsInOrder, TimedOut, Broken
  <2>6. AnsweredWhole'
    BY <1>3, <2>0
       DEF SendSync, TypeOK, Opening, Deciding, AnsweredWhole, TimedOut, Broken, ToSet
  <2>7. QED
    BY <2>1, <2>2, <2>3, <2>4, <2>5, <2>6
<1>4. QED
  BY <1>1, <1>2, <1>3

\* The upload of the request fires nothing at the instance.
LEMMA StepsOfUpload ==
  ASSUME IInv, Uploading
  PROVE  IInv'
<1> USE DEF IInv
<1>1. CASE UploadStarts
  <2>0. /\ xhr'.log = xhr.log /\ xhr'.responses = xhr.responses
        /\ xhr'.buffer = xhr.buffer /\ xhr'.handled = xhr.handled
        /\ xhr'.headers = xhr.headers /\ xhr'.native = xhr.native
        /\ xhr'.defined = xhr.defined /\ xhr'.loadListeners = xhr.loadListeners
        /\ xhr'.performed = xhr.performed
    BY <1>1 DEF UploadStarts, TypeOK, Instances, TriggerUpload
  <2>1. TypeOK'
    <3>1. xhr' \in Instances
      <4>1. <<"loadstart">> \in Seq(UploadEvents) /\ xhr \in Instances
        BY DEF TypeOK, UploadEvents
      <4>2. TriggerUpload(xhr, <<"loadstart">>) \in Instances
        BY <4>1, TriggersUpload
      <4>3. QED
        BY <1>1, <4>1, <4>2 DEF UploadStarts
    <3>2. QED
      BY <1>1, <3>1, BoundsAssumption DEF UploadStarts, TypeOK
  <2>2. Opening' /\ Deciding' /\ NeverBoth'
    <3>1. xhr.loadListeners \in Nat /\ sends \in Nat
      BY BoundsAssumption DEF TypeOK, Instances
    <3>2. QED
      BY <1>1, <2>0, <3>1
         DEF UploadStarts, Opening, Deciding, Playing, NeverBoth, Ended, Broken, ToSet,
             Unread, UNSENT, OPENED
  <2>3. Playing'
    BY <1>1, <2>0
       DEF UploadStarts, TypeOK, Opening, Deciding, Playing, TimedOut, Broken, Unread,
           ReadyState
  <2>4. FirstSending'
    BY <1>1, <2>0
       DEF UploadStarts, TypeOK, Opening, Deciding, FirstSending, Fresh, Broken, Unread
  <2>5. EventsInOrder'
    BY <1>1, <2>0 DEF UploadStarts, TypeOK, EventsInOrder, TimedOut, Broken
  <2>6. AnsweredWhole'
    <3>1. EndFree(xhr.log) /\ xhr.log \in Seq(Entry)
      BY <1>1 DEF UploadStarts, Playing, Unread, TypeOK, Instances
    <3>2. NoLoad(xhr.log)'
      BY <2>0, <3>1, LogOpen DEF NoLoad
    <3>3. QED
      BY <3>2, NotAnsweredYet
  <2>7. QED
    BY <2>1, <2>2, <2>3, <2>4, <2>5, <2>6
<1>2. ASSUME NEW last \in BOOLEAN, UploadProgresses(last) PROVE IInv'
  <2>0. /\ xhr'.log = xhr.log /\ xhr'.responses = xhr.responses
        /\ xhr'.buffer = xhr.buffer /\ xhr'.handled = xhr.handled
        /\ xhr'.headers = xhr.headers /\ xhr'.native = xhr.native
        /\ xhr'.defined = xhr.defined /\ xhr'.loadListeners = xhr.loadListeners
        /\ xhr'.performed = xhr.performed
    BY <1>2 DEF UploadProgresses, TypeOK, Instances, TriggerUpload
  <2>1. TypeOK'
    <3>1. xhr' \in Instances
      <4>1. <<"progress">> \in Seq(UploadEvents) /\ xhr \in Instances
        BY DEF TypeOK, UploadEvents
      <4>2. TriggerUpload(xhr, <<"progress">>) \in Instances
        BY <4>1, TriggersUpload
      <4>3. QED
        BY <1>2, <4>1, <4>2 DEF UploadProgresses
    <3>2. QED
      BY <1>2, <3>1, BoundsAssumption DEF UploadProgresses, TypeOK
  <2>2. Opening' /\ Deciding' /\ NeverBoth'
    <3>1. xhr.loadListeners \in Nat /\ sends \in Nat
      BY BoundsAssumption DEF TypeOK, Instances
    <3>2. QED
      BY <1>2, <2>0, <3>1
         DEF UploadProgresses, Opening, Deciding, Playing, NeverBoth, Ended, Broken,
             ToSet, Unread, UNSENT, OPENED
  <2>3. Playing'
    BY <1>2, <2>0
       DEF UploadProgresses, TypeOK, Opening, Deciding, Playing, TimedOut, Broken,
           Unread, ReadyState
  <2>4. FirstSending'
    BY <1>2, <2>0
       DEF UploadProgresses, TypeOK, Opening, Deciding, FirstSending, Fresh, Broken,
           Unread
  <2>5. EventsInOrder'
    BY <1>2, <2>0 DEF UploadProgresses, TypeOK, EventsInOrder, TimedOut, Broken
  <2>6. AnsweredWhole'
    <3>1. EndFree(xhr.log) /\ xhr.log \in Seq(Entry)
      BY <1>2 DEF UploadProgresses, Playing, Unread, TypeOK, Instances
    <3>2. NoLoad(xhr.log)'
      BY <2>0, <3>1, LogOpen DEF NoLoad
    <3>3. QED
      BY <3>2, NotAnsweredYet
  <2>7. QED
    BY <2>1, <2>2, <2>3, <2>4, <2>5, <2>6
<1>3. CASE UploadEnds
  <2>0. /\ xhr'.log = xhr.log /\ xhr'.responses = xhr.responses
        /\ xhr'.buffer = xhr.buffer /\ xhr'.handled = xhr.handled
        /\ xhr'.headers = xhr.headers /\ xhr'.native = xhr.native
        /\ xhr'.defined = xhr.defined /\ xhr'.loadListeners = xhr.loadListeners
        /\ xhr'.performed = xhr.performed
    BY <1>3 DEF UploadEnds, TypeOK, Instances, TriggerUpload
  <2>1. TypeOK'
    <3>1. xhr' \in Instances
      <4>1. <<"progress", "load", "loadend">> \in Seq(UploadEvents) /\ xhr \in Instances
        BY DEF TypeOK, UploadEvents
      <4>2. TriggerUpload(xhr, <<"progress", "load", "loadend">>) \in Instances
        BY <4>1, TriggersUpload
      <4>3. QED
        BY <1>3, <4>1, <4>2 DEF UploadEnds
    <3>2. QED
      BY <1>3, <3>1, BoundsAssumption DEF UploadEnds, TypeOK
  <2>2. Opening' /\ Deciding' /\ NeverBoth'
    <3>1. xhr.loadListeners \in Nat /\ sends \in Nat
      BY BoundsAssumption DEF TypeOK, Instances
    <3>2. QED
      BY <1>3, <2>0, <3>1
         DEF UploadEnds, Opening, Deciding, Playing, NeverBoth, Ended, Broken, ToSet,
             Unread, UNSENT, OPENED
  <2>3. Playing'
    BY <1>3, <2>0
       DEF UploadEnds, TypeOK, Opening, Deciding, Playing, TimedOut, Broken, Unread,
           ReadyState
  <2>4. FirstSending'
    BY <1>3, <2>0
       DEF UploadEnds, TypeOK, Opening, Deciding, FirstSending, Fresh, Broken, Unread
  <2>5. EventsInOrder'
    BY <1>3, <2>0 DEF UploadEnds, TypeOK, EventsInOrder, TimedOut, Broken
  <2>6. AnsweredWhole'
    <3>1. EndFree(xhr.log) /\ xhr.log \in Seq(Entry)
      BY <1>3 DEF UploadEnds, Playing, Unread, TypeOK, Instances
    <3>2. NoLoad(xhr.log)'
      BY <2>0, <3>1, LogOpen DEF NoLoad
    <3>3. QED
      BY <3>2, NotAnsweredYet
  <2>7. QED
    BY <2>1, <2>2, <2>3, <2>4, <2>5, <2>6
<1>4. QED
  BY <1>1, <1>2, <1>3 DEF Uploading

-----------------------------------------------------------------------------
\* A request that is answered is marked as handled.
LEMMA HandledInstance ==
  ASSUME NEW x \in Instances
  PROVE  LET y == Handled(x) IN
         /\ y \in Instances /\ y.handled /\ y.native = x.native /\ y.defined = x.defined
         /\ y.getters = x.getters /\ y.loadListeners = x.loadListeners
         /\ y.performed = x.performed /\ y.buffer = x.buffer /\ y.headers = x.headers
         /\ y.log = x.log /\ y.responses = x.responses
  BY DEF Handled, Instances

\* The listeners answer with a response.
LEMMA StepsRespondWith ==
  ASSUME IInv, NEW k \in Kinds, RespondWith(k)
  PROVE  IInv'
<1> USE DEF IInv
<1> DEFINE h == Handled(xhr)
<1>1. xhr \in Instances /\ xhr.log \in Seq(Entry)
  BY DEF TypeOK, Instances
<1>2. /\ h \in Instances /\ h.handled /\ h.native = xhr.native /\ h.defined = xhr.defined
      /\ h.loadListeners = xhr.loadListeners
      /\ h.performed = xhr.performed /\ h.buffer = xhr.buffer /\ h.headers = xhr.headers
      /\ h.log = xhr.log /\ h.responses = xhr.responses
  BY <1>1, HandledInstance
<1> HIDE DEF h
<1>3. xhr.log = <<>> /\ phase = "none" /\ verdict = "none" /\ kind = "none"
      /\ ~xhr.performed /\ arrived = 0 /\ timer = "none" /\ ~Broken
  BY DEF RespondWith, Decide, Opening
<1>4. CASE xhr.getters
  <2>1. xhr' = h /\ phase' = "thrown"
    BY <1>4 DEF RespondWith, h
  <2>2. NoLoad(xhr.log)' /\ EndsOnce(xhr.log)' /\ FiredInTime(xhr.log)'
    BY <1>2, <1>3, <2>1, LogEmpty, LogOpen
  <2>11. TypeOK'
    BY <1>1, <1>2, <1>3, <2>1, <2>2 DEF RespondWith, Decide, TypeOK, Kinds
  <2>12. Opening' /\ Deciding' /\ NeverBoth'
    BY <1>1, <1>2, <1>3, <2>1, <2>2
       DEF RespondWith, Decide, Opening, Deciding, Playing, NeverBoth, SameButEvents,
           Ended, Broken, Unread, ToSet, Kinds
  <2>13. Playing'
    BY <1>1, <1>2, <1>3, <2>1, <2>2
       DEF RespondWith, Decide, TypeOK, Opening, Deciding, Playing, SameButEvents,
           TimedOut, Broken, Unread
  <2>14. FirstSending'
    BY <1>1, <1>2, <1>3, <2>1, <2>2
       DEF RespondWith, Decide, TypeOK, Opening, Deciding, Playing, FirstSending,
           SameButEvents, Fresh, Broken, Unread
  <2>15. EventsInOrder'
    BY <1>1, <1>2, <1>3, <2>1, <2>2
       DEF RespondWith, Decide, TypeOK, EventsInOrder, FiredInTime, EndsOnce, TimedOut,
           Broken
  <2>16. AnsweredWhole'
    BY <2>2, NotAnsweredYet
  <2>17. QED
    BY <2>11, <2>12, <2>13, <2>14, <2>15, <2>16
<1>5. CASE ~xhr.getters
  <2> DEFINE d == [h EXCEPT !.getters = TRUE]
  <2>1. xhr' = Trigger(d, "loadstart") /\ phase' = "measuring"
    BY <1>5 DEF RespondWith, h
  <2>2. /\ d \in Instances /\ d.handled /\ d.native = xhr.native /\ d.defined = xhr.defined
        /\ d.loadListeners = xhr.loadListeners
        /\ d.performed = xhr.performed /\ d.buffer = xhr.buffer /\ d.headers = xhr.headers
        /\ d.log = xhr.log /\ d.responses = xhr.responses
    BY <1>2 DEF Instances
  <2> HIDE DEF d
  <2>3. /\ xhr' \in Instances /\ SameButEvents(d, xhr')
        /\ xhr'.defined = d.defined /\ xhr'.responses = d.responses
        /\ xhr'.log = Append(d.log, Fired("loadstart", ReadyState(d)))
    BY <2>1, <2>2, Triggers DEF Events
  <2>4. ReadyState(d) \in FiredIn("loadstart")
    BY <2>2, ReadyStates DEF FiredIn
  <2>5. FiredInTime(xhr.log)' /\ EndFree(xhr.log)' /\ xhr'.log \in Seq(Entry)
    BY <1>1, <1>3, <2>2, <2>3, <2>4, LogFired, LogEmpty DEF Events, EndEvents
  <2>6. NoLoad(xhr.log)' /\ EndsOnce(xhr.log)'
    BY <2>5, LogOpen
  <2>11. TypeOK'
    BY <1>1, <1>3, <2>1, <2>2, <2>3, <2>5, <2>6 DEF RespondWith, Decide, TypeOK, Kinds
  <2>12. Opening' /\ Deciding' /\ NeverBoth'
    BY <1>1, <1>3, <2>1, <2>2, <2>3, <2>5, <2>6
       DEF RespondWith, Decide, Opening, Deciding, Playing, NeverBoth, SameButEvents,
           Ended, Broken, Unread, ToSet, Kinds
  <2>13. Playing'
    BY <1>1, <1>3, <2>1, <2>2, <2>3, <2>5, <2>6
       DEF RespondWith, Decide, TypeOK, Opening, Deciding, Playing, SameButEvents,
           TimedOut, Broken, Unread
  <2>14. FirstSending'
    BY <1>1, <1>3, <2>1, <2>2, <2>3, <2>5, <2>6
       DEF RespondWith, Decide, TypeOK, Opening, Deciding, Playing, FirstSending,
           SameButEvents, Fresh, Broken, Unread
  <2>15. EventsInOrder'
    BY <1>1, <1>3, <2>1, <2>2, <2>3, <2>5, <2>6
       DEF RespondWith, Decide, TypeOK, EventsInOrder, FiredInTime, EndsOnce, TimedOut,
           Broken
  <2>16. AnsweredWhole'
    BY <2>6, NotAnsweredYet
  <2>17. QED
    BY <2>11, <2>12, <2>13, <2>14, <2>15, <2>16
<1>6. QED
  BY <1>4, <1>5

\* Error steps: the listeners' error, or that of the request that follows a redirect.
LEMMA StepsErr ==
  ASSUME IInv, ErrorWith \/ RedirectFails
  PROVE  IInv'
<1> USE DEF IInv
<1> DEFINE h == Handled(xhr)
<1>1. xhr \in Instances /\ xhr.log \in Seq(Entry)
  BY DEF TypeOK, Instances
<1>2. /\ h \in Instances /\ h.handled /\ h.native = xhr.native /\ h.defined = xhr.defined
      /\ h.loadListeners = xhr.loadListeners
      /\ h.performed = xhr.performed /\ h.buffer = xhr.buffer /\ h.headers = xhr.headers
      /\ h.log = xhr.log /\ h.responses = xhr.responses
  BY <1>1, HandledInstance
<1>3. xhr' = ErrorSteps(h, "error") /\ phase' = "done"
  BY DEF ErrorWith, RedirectFails
<1> HIDE DEF h
<1>4. /\ xhr' \in Instances /\ SameButEvents(h, xhr')
      /\ xhr'.defined \in {h.defined, DONE} /\ xhr'.responses = h.responses
      /\ ReadyState(xhr') = DONE
      /\ InTime(h, xhr') /\ EndsFor(h, xhr') /\ NoneLoads(h, xhr')
      /\ \E i \in DOMAIN xhr'.log : xhr'.log[i].event = "loadend"
  BY <1>2, <1>3, ErrorStepsEnd
<1>5. EndFree(xhr.log) /\ FiredInTime(xhr.log) /\ ~xhr.performed
  BY LogEmpty DEF ErrorWith, RedirectFails, Decide, Opening, Playing, Unread,
                  EventsInOrder, FiredInTime, Deciding, NeverBoth
<1>6. NoLoad(xhr.log)' /\ EndsOnce(xhr.log)' /\ FiredInTime(xhr.log)'
  BY <1>1, <1>2, <1>4, <1>5, LogOpen DEF InTime, EndsFor, NoneLoads
<1>7. CASE ErrorWith
  <2>11. TypeOK'
    BY <1>1, <1>2, <1>3, <1>4, <1>5, <1>6, <1>7 DEF ErrorWith, Decide, TypeOK, Kinds
  <2>12. Opening' /\ Deciding' /\ NeverBoth'
    BY <1>1, <1>2, <1>3, <1>4, <1>5, <1>6, <1>7
       DEF ErrorWith, Decide, Opening, Deciding, Playing, NeverBoth, SameButEvents,
           Ended, Broken, Unread, ToSet, Kinds
  <2>13. Playing'
    BY <1>1, <1>2, <1>3, <1>4, <1>5, <1>6, <1>7
       DEF ErrorWith, Decide, TypeOK, Opening, Deciding, Playing, SameButEvents,
           TimedOut, Broken, Unread
  <2>14. FirstSending'
    BY <1>1, <1>2, <1>3, <1>4, <1>5, <1>6, <1>7
       DEF ErrorWith, Decide, TypeOK, Opening, Deciding, Playing, FirstSending,
           SameButEvents, Fresh, Broken, Unread
  <2>15. EventsInOrder'
    BY <1>1, <1>2, <1>3, <1>4, <1>5, <1>6, <1>7
       DEF ErrorWith, Decide, TypeOK, EventsInOrder, FiredInTime, EndsOnce, TimedOut,
           Broken
  <2>16. AnsweredWhole'
    BY <1>6, NotAnsweredYet
  <2>17. QED
    BY <2>11, <2>12, <2>13, <2>14, <2>15, <2>16
<1>8. CASE RedirectFails
  <2>11. TypeOK'
    BY <1>1, <1>2, <1>3, <1>4, <1>5, <1>6, <1>8 DEF RedirectFails, TypeOK, Kinds
  <2>12. Opening' /\ Deciding' /\ NeverBoth'
    BY <1>1, <1>2, <1>3, <1>4, <1>5, <1>6, <1>8
       DEF RedirectFails, Opening, Deciding, Playing, NeverBoth, SameButEvents, Ended,
           Broken, Unread, ToSet, Kinds
  <2>13. Playing'
    BY <1>1, <1>2, <1>3, <1>4, <1>5, <1>6, <1>8
       DEF RedirectFails, TypeOK, Opening, Deciding, Playing, SameButEvents, TimedOut,
           Broken, Unread
  <2>14. FirstSending'
    BY <1>1, <1>2, <1>3, <1>4, <1>5, <1>6, <1>8
       DEF RedirectFails, TypeOK, Opening, Deciding, Playing, FirstSending,
           SameButEvents, Fresh, Broken, Unread
  <2>15. EventsInOrder'
    BY <1>1, <1>2, <1>3, <1>4, <1>5, <1>6, <1>8
       DEF RedirectFails, TypeOK, EventsInOrder, FiredInTime, EndsOnce, TimedOut, Broken
  <2>16. AnsweredWhole'
    BY <1>6, NotAnsweredYet
  <2>17. QED
    BY <2>11, <2>12, <2>13, <2>14, <2>15, <2>16
<1>9. QED
  BY <1>7, <1>8

\* The request that is performed as-is ends.
LEMMA StepsNative ==
  ASSUME IInv, NEW event \in {"load", "error"}, NativeEnds(event)
  PROVE  IInv'
<1> USE DEF IInv
<1> DEFINE d == [xhr EXCEPT !.native = DONE]
<1>1. xhr \in Instances /\ xhr.log \in Seq(Entry) /\ xhr.loadListeners \in Nat
  BY BoundsAssumption DEF TypeOK, Instances
<1>2. /\ d \in Instances /\ d.native = DONE /\ d.defined = xhr.defined
      /\ d.handled = xhr.handled /\ d.headers = xhr.headers
      /\ d.loadListeners = xhr.loadListeners /\ d.performed = xhr.performed
      /\ d.log = xhr.log /\ d.responses = xhr.responses
  <2>1. DONE \in UNSENT..DONE
    BY DEF UNSENT, DONE
  <2>2. QED
    BY <1>1, <2>1 DEF Instances
<1>3. xhr' = Ends(d, event)
  BY DEF NativeEnds
<1>4. /\ xhr.performed /\ verdict = "as-is" /\ phase = "none" /\ asking = "none"
      /\ xhr.log = <<>> /\ xhr.responses = <<>> /\ xhr.defined \in {0, DONE} /\ sends # 0
  BY DEF NativeEnds, Deciding, Playing, Opening
<1> HIDE DEF d
<1>5. ReadyState(d) = DONE
  BY <1>2, <1>4 DEF ReadyState
<1>6. /\ xhr' \in Instances /\ SameButEvents(d, xhr') /\ xhr'.defined = d.defined
      /\ xhr'.responses = IF event = "load" THEN d.responses \o Reports(d) ELSE d.responses
      /\ InTime(d, xhr') /\ EndsFor(d, xhr') /\ (event # "load" => NoneLoads(d, xhr'))
      /\ \E i \in DOMAIN xhr'.log : xhr'.log[i].event = "loadend"
  <2>1. event \in {"load", "error", "timeout"}
    OBVIOUS
  <2>2. QED
    BY <1>2, <1>3, <1>5, <2>1, EndsWith
<1>7. EndsOnce(xhr.log)' /\ FiredInTime(xhr.log)' /\ (event # "load" => NoLoad(xhr.log)')
  BY <1>2, <1>4, <1>6, LogEmpty, LogOpen DEF InTime, EndsFor, NoneLoads
<1>8. AnsweredWhole'
  <2>1. CASE event # "load"
    BY <1>7, <2>1, NotAnsweredYet
  <2>2. CASE event = "load" /\ sends # 1
    BY <2>2 DEF NativeEnds, AnsweredWhole
  <2>3. CASE event = "load" /\ sends = 1
    <3>1. ~xhr.handled /\ ~xhr.headers /\ xhr.headers \in BOOLEAN
      BY <1>1, <1>4, <2>3 DEF FirstSending, Instances
    <3>2. Reports(d) = [i \in 1..xhr.loadListeners |-> [type |-> "original", headers |-> FALSE]]
      BY <1>2, <3>1 DEF Reports, ResponseType
    <3>3. Reports(d) \in Seq([type: {"original"}, headers: {FALSE}])
      <4>1. Reports(d) \in [1..xhr.loadListeners -> [type: {"original"}, headers: {FALSE}]]
        BY <3>2
      <4>2. QED
        BY <1>1, <4>1, FunctionIsSeq
    <3>4. xhr'.responses = Reports(d)
      BY <1>2, <1>4, <1>6, <2>3, <3>3
    <3>5. verdict' = "as-is" /\ xhr'.loadListeners = xhr.loadListeners
      BY <1>2, <1>4, <1>6 DEF NativeEnds, SameButEvents
    <3>6. QED
      BY <3>2, <3>4, <3>5 DEF AnsweredWhole
  <2>4. QED
    BY <2>1, <2>2, <2>3
<1>11. TypeOK'
  BY <1>1, <1>2, <1>4, <1>6, <1>7 DEF NativeEnds, TypeOK, Kinds
<1>12. Opening' /\ Deciding' /\ NeverBoth'
  BY <1>1, <1>2, <1>4, <1>6, <1>7
     DEF NativeEnds, Opening, Deciding, UNSENT, DONE, Playing, NeverBoth, SameButEvents,
         Ended, Broken, Unread, ToSet, Kinds
<1>13. Playing'
  BY <1>1, <1>2, <1>4, <1>6, <1>7
     DEF NativeEnds, TypeOK, Opening, Deciding, Playing, SameButEvents, TimedOut,
         Broken, Unread
<1>14. FirstSending'
  BY <1>1, <1>2, <1>4, <1>6, <1>7
     DEF NativeEnds, TypeOK, Opening, Deciding, Playing, FirstSending, SameButEvents,
         Fresh, Broken, Unread
<1>15. EventsInOrder'
  BY <1>1, <1>2, <1>4, <1>6, <1>7
     DEF NativeEnds, TypeOK, EventsInOrder, FiredInTime, EndsOnce, TimedOut, Broken
<1>16. AnsweredWhole'
  BY <1>8
<1>17. QED
  BY <1>11, <1>12, <1>13, <1>14, <1>15, <1>16

\* processResponse() plays back what has a body, and ends what has none.
LEMMA StepsProcess ==
  ASSUME IInv, ProcessResponse
  PROVE  IInv'
<1> USE DEF IInv
<1>1. /\ xhr \in Instances /\ xhr.log \in Seq(Entry) /\ EndFree(xhr.log)
      /\ FiredInTime(xhr.log)
  BY DEF ProcessResponse, TypeOK, Instances, Playing, Unread, EventsInOrder, FiredInTime
<1>2. /\ verdict = "mock" /\ kind \in {"error", "bodyless", "plain"}
      /\ phase = "following" /\ xhr.handled /\ ~xhr.performed
      /\ xhr.defined \in {0, DONE} /\ ~Broken /\ sends # 0
  BY DEF ProcessResponse, Deciding, Opening, NeverBoth, Playing, Unread, TypeOK, Kinds
<1>3. sends = 1 => /\ Fresh /\ arrived = 0 /\ xhr.responses = <<>> /\ xhr.loadListeners = 1
  BY <1>2 DEF FirstSending, Unread
<1>4. CASE kind = "error"
  <2> DEFINE d == ErrorSteps(xhr, "error")
  <2>1. /\ d \in Instances /\ SameButEvents(xhr, d)
        /\ d.defined \in {xhr.defined, DONE} /\ d.responses = xhr.responses
        /\ InTime(xhr, d) /\ EndsFor(xhr, d) /\ NoneLoads(xhr, d)
        /\ \E i \in DOMAIN d.log : d.log[i].event = "loadend"
    BY <1>1, ErrorStepsEnd
  <2>2. xhr' = WithHeaders(d) /\ phase' = "done"
    BY <1>4 DEF ProcessResponse
  <2> HIDE DEF d
  <2>3. /\ xhr' \in Instances /\ xhr'.log = d.log /\ xhr'.defined = d.defined
        /\ xhr'.native = xhr.native /\ xhr'.handled /\ ~xhr'.performed
        /\ xhr'.loadListeners = xhr.loadListeners
    BY <1>2, <2>1, <2>2 DEF WithHeaders, Instances, SameButEvents
  <2>4. NoLoad(xhr.log)' /\ EndsOnce(xhr.log)' /\ FiredInTime(xhr.log)'
    BY <1>1, <2>1, <2>3, LogOpen DEF InTime, EndsFor, NoneLoads
  <2>11. TypeOK'
    BY <1>1, <1>2, <1>4, <2>1, <2>2, <2>3, <2>4 DEF ProcessResponse, TypeOK, Kinds
  <2>12. Opening' /\ Deciding' /\ NeverBoth'
    BY <1>1, <1>2, <1>4, <2>1, <2>2, <2>3, <2>4
       DEF ProcessResponse, Opening, Deciding, Playing, NeverBoth, SameButEvents, Ended,
           Broken, Unread, ToSet, Kinds
  <2>13. Playing'
    BY <1>1, <1>2, <1>4, <2>1, <2>2, <2>3, <2>4
       DEF ProcessResponse, TypeOK, Opening, Deciding, Playing, SameButEvents, TimedOut,
           Broken, Unread
  <2>14. FirstSending'
    BY <1>1, <1>2, <1>4, <2>1, <2>2, <2>3, <2>4
       DEF ProcessResponse, TypeOK, Opening, Deciding, Playing, FirstSending,
           SameButEvents, Fresh, Broken, Unread
  <2>15. EventsInOrder'
    BY <1>1, <1>2, <1>4, <2>1, <2>2, <2>3, <2>4
       DEF ProcessResponse, TypeOK, EventsInOrder, FiredInTime, EndsOnce, TimedOut,
           Broken
  <2>16. AnsweredWhole'
    BY <2>4, NotAnsweredYet
  <2>17. QED
    BY <2>11, <2>12, <2>13, <2>14, <2>15, <2>16
<1>5. CASE kind = "bodyless"
  <2> DEFINE c == SetReadyState(xhr, HEADERS_RECEIVED)
             d == Loads(c)
  <2>1. /\ c \in Instances /\ SameButEvents(xhr, c)
        /\ c.responses = xhr.responses
        /\ InTime(xhr, c) /\ StaysOpen(xhr, c)
    BY <1>1, SetsReadyState
  <2>2. /\ ReadyState(c) = HEADERS_RECEIVED
        /\ c.defined \in {xhr.defined, HEADERS_RECEIVED}
    BY <1>1, SetsReadyState
  <2>3. xhr' = WithHeaders(d) /\ phase' = "done"
    BY <1>5 DEF ProcessResponse
  <2> HIDE DEF c
  <2>4. /\ d \in Instances /\ SameButEvents(c, d)
        /\ d.defined \in {c.defined, DONE} /\ d.responses = c.responses \o Reports(c)
        /\ ReadyState(d) = DONE
        /\ InTime(c, d) /\ EndsFor(c, d)
        /\ \E i \in DOMAIN d.log : d.log[i].event = "loadend"
    BY <2>1, LoadsEnd
  <2> HIDE DEF d
  <2>5. d.defined \in {0, DONE}
    BY <1>2, <2>2, <2>4 DEF ReadyState, HEADERS_RECEIVED, DONE
  <2>6. /\ xhr' \in Instances /\ xhr'.log = d.log /\ xhr'.defined = d.defined
        /\ xhr'.native = xhr.native /\ xhr'.handled /\ ~xhr'.performed
        /\ xhr'.loadListeners = xhr.loadListeners /\ xhr'.responses = d.responses
        /\ xhr'.buffer = xhr.buffer /\ ReadyState(xhr') = DONE
    BY <1>2, <2>1, <2>3, <2>4 DEF WithHeaders, Instances, SameButEvents, ReadyState
  <2>7. EndsOnce(xhr.log)' /\ FiredInTime(xhr.log)'
    BY <1>1, <2>1, <2>4, <2>6 DEF InTime, EndsFor, StaysOpen
  <2>8. AnsweredWhole'
    <3>1. CASE sends # 1
      BY <3>1 DEF ProcessResponse, AnsweredWhole
    <3>2. CASE sends = 1
      <4>1. c.handled /\ c.headers = FALSE /\ c.loadListeners = 1 /\ c.responses = <<>>
        BY <1>2, <1>3, <2>1, <3>2 DEF SameButEvents, Fresh, Instances
      <4>2. Reports(c) = <<[type |-> "mock", headers |-> FALSE]>>
        <5>1. Reports(c) = [i \in 1..1 |-> [type |-> "mock", headers |-> FALSE]]
          BY <4>1 DEF Reports, ResponseType
        <5>2. QED
          BY <5>1, SingletonSeq
      <4>3. xhr'.responses = <<[type |-> "mock", headers |-> FALSE]>>
        BY <2>4, <2>6, <4>1, <4>2
      <4>4. /\ Response(xhr') = <<>> /\ arrived' = 0 /\ verdict' = "mock"
            /\ kind' = "bodyless"
        BY <1>2, <1>3, <1>5, <2>6, <3>2 DEF Response, ProcessResponse, Fresh
      <4>5. [i \in 1..arrived' |-> <<sends', i>>] = <<>>
        BY <4>4
      <4>6. QED
        BY <4>3, <4>4, <4>5 DEF AnsweredWhole
    <3>3. QED
      BY <3>1, <3>2
  <2>11. TypeOK'
    BY <1>1, <1>2, <1>5, <2>3, <2>4, <2>5, <2>6, <2>7 DEF ProcessResponse, TypeOK, Kinds
  <2>12. Opening' /\ Deciding' /\ NeverBoth'
    BY <1>1, <1>2, <1>5, <2>3, <2>4, <2>5, <2>6, <2>7
       DEF ProcessResponse, Opening, Deciding, Playing, NeverBoth, SameButEvents, Ended,
           Broken, Unread, ToSet, Kinds
  <2>13. Playing'
    BY <1>1, <1>2, <1>5, <2>3, <2>4, <2>5, <2>6, <2>7
       DEF ProcessResponse, TypeOK, Opening, Deciding, Playing, SameButEvents, TimedOut,
           Broken, Unread
  <2>14. FirstSending'
    BY <1>1, <1>2, <1>5, <2>3, <2>4, <2>5, <2>6, <2>7
       DEF ProcessResponse, TypeOK, Opening, Deciding, Playing, FirstSending,
           SameButEvents, Fresh, Broken, Unread
  <2>15. EventsInOrder'
    BY <1>1, <1>2, <1>5, <2>3, <2>4, <2>5, <2>6, <2>7
       DEF ProcessResponse, TypeOK, EventsInOrder, FiredInTime, EndsOnce, TimedOut,
           Broken
  <2>16. AnsweredWhole'
    BY <2>8
  <2>17. QED
    BY <2>11, <2>12, <2>13, <2>14, <2>15, <2>16
<1>6. CASE kind = "plain"
  <2> DEFINE d == SetReadyState(xhr, HEADERS_RECEIVED)
  <2>1. /\ d \in Instances /\ SameButEvents(xhr, d)
        /\ d.responses = xhr.responses /\ ReadyState(d) = HEADERS_RECEIVED
        /\ InTime(xhr, d) /\ StaysOpen(xhr, d)
    BY <1>1, SetsReadyState
  <2>2. xhr' = WithHeaders(d) /\ phase' = "reading"
    BY <1>6 DEF ProcessResponse
  <2> HIDE DEF d
  <2>3. /\ xhr' \in Instances /\ xhr'.log = d.log /\ xhr'.headers
        /\ xhr'.native = xhr.native /\ xhr'.handled /\ ~xhr'.performed
        /\ xhr'.loadListeners = xhr.loadListeners /\ xhr'.responses = xhr.responses
        /\ xhr'.buffer = xhr.buffer /\ ReadyState(xhr') = HEADERS_RECEIVED
    BY <1>2, <2>1, <2>2 DEF WithHeaders, Instances, SameButEvents, ReadyState
  <2>4. EndFree(xhr.log)' /\ FiredInTime(xhr.log)' /\ xhr'.log \in Seq(Entry)
    BY <1>1, <2>1, <2>3 DEF InTime, StaysOpen, Instances
  <2>5. NoLoad(xhr.log)' /\ EndsOnce(xhr.log)'
    BY <2>4, LogOpen
  <2>11. TypeOK'
    BY <1>1, <1>2, <1>3, <1>6, <2>2, <2>3, <2>4, <2>5 DEF ProcessResponse, TypeOK, Kinds
  <2>12. Opening' /\ Deciding' /\ NeverBoth'
    BY <1>1, <1>2, <1>3, <1>6, <2>2, <2>3, <2>4, <2>5
       DEF ProcessResponse, Opening, Deciding, Playing, NeverBoth, SameButEvents, Ended,
           Broken, Unread, ToSet, Kinds
  <2>13. Playing'
    BY <1>1, <1>2, <1>3, <1>6, <2>2, <2>3, <2>4, <2>5
       DEF ProcessResponse, TypeOK, Opening, Deciding, Playing, SameButEvents, TimedOut,
           Broken, Unread
  <2>14. FirstSending'
    BY <1>1, <1>2, <1>3, <1>6, <2>2, <2>3, <2>4, <2>5
       DEF ProcessResponse, TypeOK, Opening, Deciding, Playing, FirstSending,
           SameButEvents, Fresh, Broken, Unread
  <2>15. EventsInOrder'
    BY <1>1, <1>2, <1>3, <1>6, <2>2, <2>3, <2>4, <2>5
       DEF ProcessResponse, TypeOK, EventsInOrder, FiredInTime, EndsOnce, TimedOut,
           Broken
  <2>16. AnsweredWhole'
    BY <2>5, NotAnsweredYet
  <2>17. QED
    BY <2>11, <2>12, <2>13, <2>14, <2>15, <2>16
<1>7. QED
  BY <1>2, <1>4, <1>5, <1>6

\* A chunk of the body is read.
LEMMA StepsChunk ==
  ASSUME IInv, NEW fast \in BOOLEAN, BodyChunk(fast)
  PROVE  IInv'
<1> USE DEF IInv
<1> DEFINE d == IF fast THEN xhr ELSE Progress(xhr)
<1>1. /\ xhr \in Instances /\ xhr.log \in Seq(Entry) /\ xhr.buffer \in Seq(Chunk)
      /\ arrived \in Nat
  BY BoundsAssumption DEF TypeOK, Instances
<1>2. /\ phase = "reading" /\ kind = "plain" /\ ~Broken /\ ~xhr.performed
      /\ ReadyState(xhr) \in {HEADERS_RECEIVED, LOADING}
      /\ EndFree(xhr.log) /\ FiredInTime(xhr.log)
  BY DEF BodyChunk, Broken, Playing, EventsInOrder, FiredInTime, TypeOK, NeverBoth
<1>3. verdict = "mock" /\ xhr.handled /\ sends # 0
  BY <1>2 DEF Deciding, Opening, TypeOK
<1>4. /\ d \in Instances /\ SameButEvents(xhr, d) /\ d.responses = xhr.responses
      /\ ReadyState(d) \in {HEADERS_RECEIVED, LOADING}
      /\ EndFree(d.log) /\ FiredInTime(d.log)
  <2>1. CASE fast
    BY <1>1, <1>2, <2>1 DEF SameButEvents
  <2>2. CASE ~fast
    BY <1>1, <1>2, <2>2, Progresses DEF InTime, StaysOpen
  <2>3. QED
    BY <2>1, <2>2
<1>5. xhr' = [d EXCEPT !.buffer = Append(@, <<sends, arrived + 1>>)]
  BY DEF BodyChunk, Buffered
<1> HIDE DEF d
<1>6. <<sends, arrived + 1>> \in Chunk
  BY <1>1, <1>3, BoundsAssumption DEF BodyChunk, TypeOK, Chunk
<1>7. d.buffer = xhr.buffer /\ Append(xhr.buffer, <<sends, arrived + 1>>) \in Seq(Chunk)
  BY <1>1, <1>4, <1>6 DEF SameButEvents
<1>8. /\ xhr' \in Instances /\ xhr'.log = d.log /\ xhr'.responses = xhr.responses
      /\ xhr'.buffer = Append(xhr.buffer, <<sends, arrived + 1>>)
      /\ xhr'.native = xhr.native /\ xhr'.defined = d.defined
      /\ xhr'.handled = xhr.handled /\ xhr'.headers = xhr.headers
      /\ xhr'.performed = xhr.performed /\ xhr'.loadListeners = xhr.loadListeners
  BY <1>4, <1>5, <1>7 DEF Instances, SameButEvents
<1>9. ReadyState(xhr') \in {HEADERS_RECEIVED, LOADING}
  BY <1>4, <1>8 DEF ReadyState, SameButEvents
<1>10. /\ EndFree(xhr.log)' /\ FiredInTime(xhr.log)' /\ EndsOnce(xhr.log)' /\ NoLoad(xhr.log)'
  BY <1>4, <1>8, LogOpen DEF Instances
<1>18. sends = 1 =>
         /\ xhr'.headers /\ xhr'.responses = <<>>
         /\ xhr'.buffer = [i \in 1..arrived + 1 |-> <<sends, i>>]
  <2> SUFFICES ASSUME sends = 1
               PROVE  /\ xhr'.headers /\ xhr'.responses = <<>>
                      /\ xhr'.buffer = [i \in 1..arrived + 1 |-> <<sends, i>>]
    OBVIOUS
  <2>1. /\ xhr.headers /\ xhr.responses = <<>>
        /\ xhr.buffer = [i \in 1..arrived |-> <<sends, i>>]
    BY <1>2 DEF FirstSending
  <2>2. Append(xhr.buffer, <<sends, arrived + 1>>) = [i \in 1..arrived + 1 |-> <<sends, i>>]
    BY <1>1, <2>1, AppendNext
  <2>3. QED
    BY <1>8, <2>1, <2>2
<1>11. TypeOK'
  <2>1. arrived' \in 0..MaxChunks /\ phase' \in {"abandoned", "reading"}
    BY <1>1, BoundsAssumption DEF BodyChunk
  <2>2. QED
    BY <1>8, <2>1 DEF BodyChunk, TypeOK
<1>12. Opening' /\ Deciding' /\ NeverBoth'
  BY <1>1, <1>2, <1>3, <1>8, <1>9, <1>10, <1>18
     DEF BodyChunk, Opening, Deciding, Playing, NeverBoth, SameButEvents, Ended, Broken,
         Unread, ToSet, Kinds
<1>13. Playing'
  BY <1>1, <1>2, <1>3, <1>8, <1>9, <1>10, <1>18
     DEF BodyChunk, TypeOK, Opening, Deciding, Playing, SameButEvents, TimedOut, Broken,
         Unread
<1>14. FirstSending'
  BY <1>1, <1>2, <1>3, <1>8, <1>9, <1>10, <1>18
     DEF BodyChunk, TypeOK, Opening, Deciding, Playing, FirstSending, SameButEvents,
         Fresh, Broken, Unread
<1>15. EventsInOrder'
  BY <1>1, <1>2, <1>3, <1>8, <1>9, <1>10, <1>18
     DEF BodyChunk, TypeOK, EventsInOrder, FiredInTime, EndsOnce, TimedOut, Broken
<1>16. AnsweredWhole'
  BY <1>10, NotAnsweredYet
<1>17. QED
  BY <1>11, <1>12, <1>13, <1>14, <1>15, <1>16

\* The body ends.
LEMMA StepsBodyEnds ==
  ASSUME IInv, BodyEnds
  PROVE  IInv'
<1> USE DEF IInv
<1> DEFINE d == IF TimedOut THEN ErrorSteps(xhr, "timeout") ELSE xhr
<1>1. xhr \in Instances /\ xhr.log \in Seq(Entry) /\ arrived \in Nat
  BY BoundsAssumption DEF TypeOK, Instances
<1>2. /\ phase = "reading" /\ kind = "plain" /\ ~Broken /\ ~xhr.performed
      /\ ReadyState(xhr) \in {HEADERS_RECEIVED, LOADING}
      /\ EndFree(xhr.log) /\ FiredInTime(xhr.log)
  BY DEF BodyEnds, Broken, Playing, EventsInOrder, FiredInTime, TypeOK, NeverBoth
<1>3. verdict = "mock" /\ xhr.handled /\ sends # 0
  BY <1>2 DEF Deciding, Opening, TypeOK
<1>4. /\ d \in Instances /\ SameButEvents(xhr, d) /\ d.responses = xhr.responses
      /\ FiredInTime(d.log) /\ (~TimedOut => EndFree(d.log))
      /\ ReadyState(d) \in {HEADERS_RECEIVED, LOADING, DONE}
  <2>1. CASE ~TimedOut
    BY <1>1, <1>2, <2>1 DEF SameButEvents
  <2>2. CASE TimedOut
    BY <1>1, <1>2, <2>2, ErrorStepsEnd DEF InTime
  <2>3. QED
    BY <2>1, <2>2
<1>5. xhr' = Loads(d)
  BY DEF BodyEnds
<1> HIDE DEF d
<1>6. /\ xhr' \in Instances /\ SameButEvents(d, xhr')
      /\ xhr'.defined \in {d.defined, DONE} /\ xhr'.responses = d.responses \o Reports(d)
      /\ ReadyState(xhr') = DONE
      /\ InTime(d, xhr') /\ EndsFor(d, xhr')
      /\ \E i \in DOMAIN xhr'.log : xhr'.log[i].event = "loadend"
  BY <1>4, <1>5, LoadsEnd
<1>7. /\ xhr'.native = xhr.native /\ xhr'.handled = xhr.handled
      /\ xhr'.headers = xhr.headers /\ xhr'.performed = xhr.performed
      /\ xhr'.loadListeners = xhr.loadListeners /\ xhr'.buffer = xhr.buffer
  BY <1>4, <1>6 DEF SameButEvents
<1>8. FiredInTime(xhr.log)' /\ (~TimedOut => EndsOnce(xhr.log)')
  BY <1>4, <1>6 DEF InTime, EndsFor
<1>9. xhr'.defined \in {0, DONE}
  BY <1>6 DEF ReadyState, DONE
<1>10. AnsweredWhole'
  <2>1. CASE sends # 1 \/ TimedOut
    BY <2>1 DEF BodyEnds, AnsweredWhole, TimedOut
  <2>2. CASE sends = 1 /\ ~TimedOut
    <3>1. /\ xhr.headers /\ xhr.responses = <<>> /\ xhr.loadListeners = 1
          /\ xhr.buffer = [i \in 1..arrived |-> <<sends, i>>]
      BY <1>2, <1>3, <2>2 DEF FirstSending
    <3>2. xhr.headers = TRUE
      BY <1>1, <3>1 DEF Instances
    <3>3. Reports(d) = [i \in 1..1 |-> [type |-> "mock", headers |-> TRUE]]
      BY <1>3, <1>4, <3>1, <3>2 DEF Reports, ResponseType, SameButEvents
    <3>4. Reports(d) = <<[type |-> "mock", headers |-> TRUE]>>
      BY <3>3, SingletonSeq
    <3>5. xhr'.responses = <<[type |-> "mock", headers |-> TRUE]>>
      BY <1>4, <1>6, <3>1, <3>4
    <3>6. Response(xhr') = [i \in 1..arrived |-> <<sends, i>>]
      BY <1>6, <1>7, <3>1 DEF Response
    <3>7. /\ arrived' = arrived /\ sends' = sends /\ verdict' = "mock"
          /\ (kind' # "bodyless") = TRUE
      BY <1>2, <1>3 DEF BodyEnds
    <3>8. QED
      BY <3>5, <3>6, <3>7 DEF AnsweredWhole
  <2>3. QED
    BY <2>1, <2>2
<1>11. TypeOK'
  BY <1>1, <1>2, <1>3, <1>6, <1>7, <1>8, <1>9 DEF BodyEnds, TypeOK, Kinds
<1>12. Opening' /\ Deciding' /\ NeverBoth'
  BY <1>1, <1>2, <1>3, <1>6, <1>7, <1>8, <1>9
     DEF BodyEnds, Opening, Deciding, Playing, NeverBoth, SameButEvents, Ended, Broken,
         Unread, ToSet, Kinds
<1>13. Playing'
  BY <1>1, <1>2, <1>3, <1>6, <1>7, <1>8, <1>9
     DEF BodyEnds, TypeOK, Opening, Deciding, Playing, SameButEvents, TimedOut, Broken,
         Unread
<1>14. FirstSending'
  BY <1>1, <1>2, <1>3, <1>6, <1>7, <1>8, <1>9
     DEF BodyEnds, TypeOK, Opening, Deciding, Playing, FirstSending, SameButEvents,
         Fresh, Broken, Unread
<1>15. EventsInOrder'
  BY <1>1, <1>2, <1>3, <1>6, <1>7, <1>8, <1>9
     DEF BodyEnds, TypeOK, EventsInOrder, FiredInTime, EndsOnce, TimedOut, Broken
<1>16. AnsweredWhole'
  BY <1>10
<1>17. QED
  BY <1>11, <1>12, <1>13, <1>14, <1>15, <1>16

\* A read of the body fails.
LEMMA StepsBreak ==
  ASSUME IInv, BodyBreaks
  PROVE  IInv'
<1> USE DEF IInv
<1>1. xhr \in Instances /\ breaks \in Nat
  BY BoundsAssumption DEF TypeOK
<1>2. /\ phase = "reading" /\ kind = "plain" /\ ~xhr.performed /\ FiredInTime(xhr.log)
      /\ xhr' = ErrorSteps(xhr, "error") /\ breaks' = breaks + 1
  BY DEF BodyBreaks, Playing, EventsInOrder, FiredInTime, NeverBoth
<1>3. verdict = "mock" /\ xhr.handled /\ sends # 0
  BY <1>2 DEF Deciding, Opening, TypeOK
<1>4. Broken'
  BY <1>1, <1>2 DEF Broken
<1>5. /\ xhr' \in Instances /\ SameButEvents(xhr, xhr') /\ xhr'.responses = xhr.responses
      /\ ReadyState(xhr') = DONE /\ FiredInTime(xhr.log)'
  BY <1>1, <1>2, ErrorStepsEnd DEF InTime
<1>6. /\ xhr'.native = xhr.native /\ xhr'.handled = xhr.handled
      /\ xhr'.headers = xhr.headers /\ xhr'.performed = xhr.performed
      /\ xhr'.loadListeners = xhr.loadListeners /\ xhr'.buffer = xhr.buffer
  BY <1>5 DEF SameButEvents
<1>11. TypeOK'
  BY <1>1, <1>5, BoundsAssumption DEF BodyBreaks, TypeOK
<1>12. Opening' /\ Deciding' /\ NeverBoth'
  BY <1>2, <1>3, <1>6 DEF BodyBreaks, Opening, Deciding, NeverBoth, Unread
<1>13. Playing'
  BY <1>2, <1>4, <1>5 DEF BodyBreaks, Playing, Unread
<1>14. FirstSending'
  BY <1>2, <1>3, <1>4, <1>6 DEF BodyBreaks, FirstSending, Opening, Unread
<1>15. EventsInOrder' /\ AnsweredWhole'
  BY <1>4, <1>5 DEF EventsInOrder, AnsweredWhole, FiredInTime
<1>16. QED
  BY <1>11, <1>12, <1>13, <1>14, <1>15

-----------------------------------------------------------------------------
\* The invariant holds of an instance nobody has opened.
LEMMA InitInv == Init => IInv
<1> SUFFICES ASSUME Init PROVE IInv
  OBVIOUS
<1>1. xhr \in Instances
  <2>1. /\ <<>> \in Seq(Entry) /\ <<>> \in Seq(Chunk)
        /\ <<>> \in Seq({"loadstart", "progress", "load", "loadend"})
        /\ <<>> \in Seq([type: {"mock", "original"}, headers: BOOLEAN])
        /\ UNSENT \in UNSENT..DONE /\ 0 \in 0..DONE /\ 0 \in 0..MaxSends
    BY BoundsAssumption DEF UNSENT, DONE
  <2>2. QED
    BY <2>1 DEF Init, Instances
<1>2. TypeOK
  BY <1>1, BoundsAssumption DEF Init, TypeOK
<1>3. xhr.log = <<>> /\ xhr.responses = <<>> /\ xhr.buffer = <<>> /\ sends = 0
  BY DEF Init
<1>4. Opening /\ Deciding /\ NeverBoth
  BY <1>3 DEF Init, Opening, Deciding, NeverBoth, Broken
<1>5. Playing /\ FirstSending
  BY <1>3, BoundsAssumption DEF Init, Playing, FirstSending, Fresh, Unread, Broken
<1>6. EventsInOrder /\ AnsweredWhole
  BY <1>3 DEF EventsInOrder, AnsweredWhole
<1>7. QED
  BY <1>2, <1>4, <1>5, <1>6 DEF IInv

\* Every step keeps it.
LEMMA StepInv == IInv /\ [Next]_vars => IInv'
  BY StepsAside, StepsOfConsumer, StepsOfUpload, StepsRespondWith, StepsErr,
     StepsNative,
     StepsProcess, StepsChunk, StepsBodyEnds, StepsBreak
     DEF Next, Verdict, Uploading, Redirecting, Reading

\* The inductive invariant, from which the properties follow.
THEOREM Invariance == Spec => []IInv
  BY InitInv, StepInv, PTL DEF Spec

\* Every variable of an XMLHttpRequest keeps its type.
THEOREM TypeCorrectness == Spec => []TypeOK
<1>1. IInv => TypeOK
  BY DEF IInv
<1>2. QED
  BY <1>1, Invariance, PTL

\* Events come in their readyState, and a sending ends once (trigger(),
\* setReadyState() and the error steps of XMLHttpRequestController).
THEOREM EventOrder == Spec => []EventsInOrder
<1>1. IInv => EventsInOrder
  BY DEF IInv
<1>2. QED
  BY <1>1, Invariance, PTL

\* A request is not both performed and answered (kIsRequestHandled).
THEOREM OneAnswer == Spec => []NeverBoth
<1>1. IInv => NeverBoth
  BY DEF IInv
<1>2. QED
  BY <1>1, Invariance, PTL

\* A response is complete, and reported once, when the first sending loads.
THEOREM WholeAnswer == Spec => []AnsweredWhole
<1>1. IInv => AnsweredWhole
  BY DEF IInv
<1>2. QED
  BY <1>1, Invariance, PTL

=============================================================================
