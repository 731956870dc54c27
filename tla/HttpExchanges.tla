---------------------------- MODULE HttpExchanges -----------------------------
(***************************************************************************)
(* The HTTP exchanges of one intercepted connection (interceptors/http/     *)
(* source.ts, NodeHttpRequestSource) over its reading side (ClientReads).   *)
(*                                                                           *)
(* The source parses what the client writes.  Each request is offered to the *)
(* "request" listeners, whose verdict is a mocked response, pushed to the    *)
(* client; an error; or passthrough, to a real connection that serves the    *)
(* exchanges of a kept-alive socket one after another.  With "response"      *)
(* listeners the reads of a real connection are corked until they settle.    *)
(* The first request may be a "CONNECT", whose mocked success turns the      *)
(* connection into a tunnel to another target.                               *)
(*                                                                           *)
(* A connection of another protocol is declined by the source: another       *)
(* subscriber claims it and answers through the server socket, or it passes  *)
(* through.                                                                   *)
(*                                                                           *)
(* Every request is written at once, and the next only when the response is  *)
(* complete; the writes themselves, the verdict and its resets over several  *)
(* writes are the subject of SocketWrites, and how a request gets its        *)
(* verdict that of RequestHandling.                                          *)
(***************************************************************************)
EXTENDS ClientReads, FiniteSets

CONSTANTS
  MaxRequests, \* bound on the requests of an HTTP connection
  MaxChunks,   \* bound on the data of a connection of another protocol
  MaxPauses    \* bound on how often the consumer pauses the socket

ASSUME BoundsAssumption ==
  MaxRequests \in Nat \ {0} /\ MaxChunks \in Nat /\ MaxPauses \in Nat

VARIABLES
  protocol,      \* what the client speaks
  connectFirst,  \* whether the first request is a "CONNECT"
  listening,     \* whether "response" has listeners
  hurried,       \* whether a final response may overtake those of an informational one
  conn,          \* the client socket and its real connection
  pauses,        \* how often the consumer has paused it
  readyState,    \* SocketController.readyState
  completionDue, \* claim() awaits the dial to complete the connection
  current,       \* the request the client has sent last, 0 for none
  verdict,       \* of each request
  hook,          \* the request abortPendingRequest is about, 0 for undefined
  stage,         \* how far the mocked response to each request is
  tunnelUrl,     \* whether tunnelUrl is set
  retargeted,    \* whether the controller was reset to the tunnel's target
  dialled,       \* the target of the real connection
  reached,       \* the requests the real connection has yet to answer
  answering,     \* the part of the answer to the first of them it sent last
  parsers,       \* the requests whose response parser reads the real connection
  events,        \* the "response" events whose listeners have not settled
  settled,       \* history: those whose listeners have
  served,        \* history: the requests a real connection received, and which
  cutOff         \* history: the requests pending when the client was destroyed

inputVars == <<protocol, connectFirst, listening, hurried>>
exchangeVars == <<readyState, completionDue, current, stage>>
tunnelVars == <<tunnelUrl, retargeted, dialled>>
realVars == <<reached, answering, parsers, served>>
eventVars == <<events, settled>>
vars == <<inputVars, conn, pauses, verdict, hook, cutOff, exchangeVars, tunnelVars,
          realVars, eventVars>>

Request == 1..MaxRequests
Index == 1..(MaxRequests + MaxChunks)
Chunk == [request: Index, part: {"informational", "head", "fin", "data"}]
Event == [parser: Request, request: Request, part: {"informational", "head"}]
Tick == {"close", "closeUnlessClosed", "eof", "destroy", "passthrough"}
Targets == {"original", "tunnel"}

TypeOK ==
  /\ protocol \in {"http", "other"}
  /\ connectFirst \in BOOLEAN /\ listening \in BOOLEAN /\ hurried \in BOOLEAN
  /\ conn \in Connections(Chunk, Tick)
  /\ pauses \in 0..MaxPauses
  /\ readyState \in {"PENDING", "CLAIMED", "PASSTHROUGH"}
  /\ completionDue \in BOOLEAN
  /\ current \in 0..MaxRequests
  /\ verdict \in [Request ->
                   {"none", "pending", "mock", "error", "passthrough", "aborted"}]
  /\ hook \in 0..MaxRequests
  /\ stage \in [Request -> {"none", "listening", "connecting", "refused", "streaming",
                         "thrown", "done"}]
  /\ tunnelUrl \in BOOLEAN /\ retargeted \in BOOLEAN /\ dialled \in Targets
  /\ reached \in Seq(Request)
  /\ answering \in {"nothing", "informational", "head"}
  /\ parsers \subseteq Request
  /\ events \subseteq Event /\ settled \subseteq Event
  /\ served \subseteq Request \X Targets
  /\ cutOff \subseteq Request

Init ==
  /\ protocol \in {"http", "other"}
  /\ connectFirst \in IF protocol = "http" THEN BOOLEAN ELSE {FALSE}
  /\ listening \in IF protocol = "http" THEN BOOLEAN ELSE {FALSE}
  /\ hurried \in IF listening THEN BOOLEAN ELSE {FALSE}
  /\ conn = NewConnection
  /\ pauses = 0
  /\ readyState = "PENDING" /\ completionDue = FALSE
  /\ current = 0 /\ hook = 0
  /\ verdict = [r \in Request |-> "none"]
  /\ stage = [r \in Request |-> "none"]
  /\ tunnelUrl = FALSE /\ retargeted = FALSE /\ dialled = "original"
  /\ reached = <<>> /\ answering = "nothing" /\ parsers = {} /\ served = {}
  /\ events = {} /\ settled = {} /\ cutOff = {}

-----------------------------------------------------------------------------
(* The connection changes, and with it what the source hooks into it: its    *)
(* own override of _destroy() aborts the request that abortPendingRequest is *)
(* about, if that is still pending.  Once a request has its verdict          *)
(* handleRequest() returns, and the hook is cleared, before anything else     *)
(* reaches the connection.                                                    *)

HookRunsOnClose(c) == c.closes > conn.closes /\ hook # 0
HookRuns(c) == c.destroyed /\ ~conn.destroyed /\ "abort" \in conn.layers /\ hook # 0

AfterHook(c, verdicts) ==
  IF HookRuns(c) /\ verdicts[hook] = "pending"
  THEN [verdicts EXCEPT ![hook] = "aborted"] ELSE verdicts

Turns(c, verdicts) ==
  /\ conn' = c
  /\ verdict' = AfterHook(c, verdicts)
  /\ hook' = IF hook # 0 /\ verdict'[hook] # "pending" THEN 0 ELSE hook
  /\ cutOff' = IF c.destroyed /\ ~conn.destroyed
               THEN {r \in Request : verdicts[r] = "pending"} ELSE cutOff

Becomes(c) == Turns(c, verdict)

\* The connection is all that changes.
OnlyConn(c) ==
  /\ Becomes(c)
  /\ UNCHANGED <<inputVars, pauses, exchangeVars, tunnelVars, realVars, eventVars>>

\* A flowing stream hands over what it buffers, and an ended socket whose real
\* connection is closed is destroyed, in ticks of their own.
Settling ==
  /\ ~conn.destroyed
  /\ \/ conn.flowing /\ (conn.buffer # <<>> \/ (conn.eof /\ ~conn.ended))
     \/ conn.ended /\ conn.closes > 0

\* I/O is handled once the ticks are drained.
Idle == conn.ticks = <<>> /\ ~Settling

IsConnect(r) == connectFirst /\ r = 1
Complete(r) == Part(r, "fin") \in ToSet(conn.heard)
MidResponse ==
  current > 0 /\ Part(current, "head") \in ToSet(conn.heard) /\ ~Complete(current)

-----------------------------------------------------------------------------
(* Requests.                                                                 *)

\* reset(target): the real connection to the other target is detached and
\* destroyed, and the client's handle is not that connection's any longer.
Detach(c) == [c EXCEPT !.real = "none", !.swapped = FALSE, !.paused = FALSE]

RetargetNothing == retargeted
RetargetTunnel == TRUE

\* The first data past the boundary of a mocked tunnel retargets the controller.
EnterTunnel ==
  IF tunnelUrl
  THEN /\ conn' = Detach(conn)
       /\ reached' = <<>> /\ answering' = "nothing" /\ parsers' = {}
       /\ retargeted' = RetargetTunnel
  ELSE UNCHANGED <<conn, reached, answering, parsers, retargeted>>

ClientWrites ==
  /\ protocol = "http" /\ current < MaxRequests /\ ~Settling
  /\ ~conn.destroyed /\ ~conn.ended /\ conn.closes = 0
  /\ current > 0 => Complete(current)
  /\ current' = current + 1

\* A "CONNECT" that passed through: the parser stopped at its end, and what
\* follows is relayed with that exchange.
Tunnelled == connectFirst /\ verdict[1] = "passthrough"

\* "data" of the server socket, through the parser to onRequest(): the
\* controller is reset for the exchange, and its handling begins.
ClientRequests ==
  LET r == current + 1 IN
  /\ ClientWrites /\ ~Tunnelled
  /\ EnterTunnel
  /\ readyState' = "PENDING"
  /\ verdict' = [verdict EXCEPT ![r] = "pending"]
  /\ hook' = r
  /\ UNCHANGED <<inputVars, pauses, completionDue, stage, tunnelUrl, dialled,
                 served, eventVars, cutOff>>

ClientRequestsThroughTunnel ==
  LET r == current + 1 IN
  /\ ClientWrites /\ Tunnelled
  /\ conn.real = "open"
  /\ reached' = Append(reached, r)
  /\ UNCHANGED <<inputVars, conn, pauses, verdict, hook, readyState, completionDue,
                 stage, tunnelVars, answering, parsers, served, eventVars, cutOff>>

-----------------------------------------------------------------------------
(* Verdicts.                                                                 *)

Undecided(r) == verdict[r] = "pending" /\ ~Settling
Decides(r, v) == [verdict EXCEPT ![r] = v]

\* respondWith(): a destroyed socket has no one reading it.
RespondInVain(r) ==
  /\ Undecided(r) /\ conn.destroyed
  /\ Turns(conn, Decides(r, "mock"))
  /\ stage' = [stage EXCEPT ![r] = "done"]
  /\ UNCHANGED <<inputVars, pauses, readyState, completionDue, current,
                 tunnelVars, realVars, eventVars>>

\* respondWith(): the socket is claimed, which completes its connection, a
\* successful "CONNECT" opens the tunnel, and the "response" listeners are
\* awaited before anything is written.
RespondWith(r, ok) ==
  /\ Undecided(r) /\ ~conn.destroyed
  /\ Turns(conn, Decides(r, "mock"))
  /\ readyState' = "CLAIMED"
  /\ completionDue' = conn.connecting
  /\ tunnelUrl' = (tunnelUrl \/ (IsConnect(r) /\ ok))
  /\ stage' = [stage EXCEPT ![r] = "listening"]
  /\ UNCHANGED <<inputVars, pauses, current, retargeted, dialled, realVars,
                 eventVars>>

\* respondWith(Response.error()) destroys the socket, once it is connected.
RespondWithNetworkError(r) ==
  /\ Undecided(r) /\ ~conn.destroyed
  /\ readyState' = "CLAIMED"
  /\ completionDue' = conn.connecting
  /\ Turns(IF conn.connecting THEN conn ELSE Destroy(conn), Decides(r, "mock"))
  /\ stage' = [stage EXCEPT ![r] = IF conn.connecting THEN "refused" ELSE "done"]
  /\ UNCHANGED <<inputVars, pauses, current, tunnelVars, realVars,
                 eventVars>>

\* errorWith(): only an Error destroys the socket.
ErrorWith(r, isError) ==
  /\ Undecided(r)
  /\ Turns(IF isError THEN Destroy(conn) ELSE conn, Decides(r, "error"))
  /\ UNCHANGED <<inputVars, pauses, exchangeVars, tunnelVars, realVars, eventVars>>

Live == conn.real \in {"connecting", "open", "finished", "severed"}
Target == IF retargeted THEN "tunnel" ELSE "original"

Dialled(c) == [c EXCEPT !.real = "connecting", !.paused = FALSE]
CorkForListeners(c) == IF listening THEN Cork(c) ELSE c

\* passthrough(): the real connection, a live one or a new one, gets the request.
\* With "response" listeners its answer is held back, and parsed for them.  One
\* that ended, or lost its handle, takes no more writes.
Passthrough(r) ==
  /\ Undecided(r)
  /\ conn.real # "closing"
  /\ readyState' = "PASSTHROUGH"
  /\ Turns(CorkForListeners(IF Live THEN conn ELSE Dialled(conn)),
           Decides(r, "passthrough"))
  /\ dialled' = IF Live THEN dialled ELSE Target
  /\ IF conn.real \in {"finished", "severed"} THEN UNCHANGED <<reached, answering, served>>
     ELSE /\ reached' = IF Live THEN Append(reached, r) ELSE <<r>>
          /\ answering' = IF Live THEN answering ELSE "nothing"
          /\ served' = served \cup {<<r, dialled'>>}
  /\ parsers' = IF listening THEN (IF Live THEN parsers ELSE {}) \cup {r} ELSE parsers
  /\ UNCHANGED <<inputVars, pauses, completionDue, current, stage, tunnelUrl,
                 retargeted, eventVars>>

-----------------------------------------------------------------------------
(* Mocked responses.                                                         *)

Stage(r, s) == [stage EXCEPT ![r] = s]

\* The source's respondWith(), up to the body: the override of _destroy().
Override(c) == IF c.destroyed THEN c ELSE [c EXCEPT !.layers = {"mock"}]
StageOfResponse(c) == IF c.destroyed THEN "done" ELSE "streaming"

\* The "response" listeners have seen the mocked response.
MockedListenersSettle(r) ==
  /\ stage[r] = "listening"
  /\ IF conn.connecting THEN Becomes(conn) /\ stage' = Stage(r, "connecting")
     ELSE Becomes(Override(conn)) /\ stage' = Stage(r, StageOfResponse(conn))
  /\ UNCHANGED <<inputVars, pauses, readyState, completionDue, current,
                 tunnelVars, realVars, eventVars>>

\* A listener that throws takes the response with it.
MockedListenersThrow(r) ==
  /\ stage[r] = "listening" /\ listening
  /\ stage' = Stage(r, "thrown")
  /\ UNCHANGED <<inputVars, conn, pauses, verdict, hook, cutOff, readyState, completionDue,
                 current, tunnelVars, realVars, eventVars>>

\* The claimed connection completes: whoever waits for "connect" goes on.
ClaimCompletes ==
  /\ completionDue
  /\ completionDue' = FALSE
  /\ LET waiting == {r \in Request : stage[r] = "connecting"}
         refused == {r \in Request : stage[r] = "refused"}
         c == IF conn.destroyed THEN conn ELSE Connect(conn)
     IN IF conn.destroyed THEN Becomes(conn) /\ UNCHANGED stage
        ELSE /\ Becomes(IF refused # {} THEN Destroy(c)
                        ELSE IF waiting # {} THEN Override(c) ELSE c)
             /\ stage' = [r \in Request |->
                            CASE r \in waiting -> "streaming"
                              [] r \in refused -> "done"
                              [] OTHER -> stage[r]]
  /\ UNCHANGED <<inputVars, pauses, readyState, current, tunnelVars,
                 realVars, eventVars>>

PushPart(c, r, part) == Push(Emitted(c, Part(r, part)), Part(r, part))
HeadWritten(r) == Part(r, "head") \in ToSet(conn.sent)
WithHead(r) == IF HeadWritten(r) THEN conn ELSE PushPart(conn, r, "head")

\* A chunk of the body: the first one takes the head with it.
MockedBodyWrites(r) ==
  /\ stage[r] = "streaming" /\ ~HeadWritten(r)
  /\ OnlyConn(PushPart(conn, r, "head"))

\* The client knows the end of the response by its framing; a "CONNECT" that
\* succeeds has no body to frame, and after one that is refused the connection
\* is of no more use.
Delimited(r, framed) == IF IsConnect(r) THEN tunnelUrl ELSE framed

\* isSelfDelimitingResponse: other responses end the stream, as does the refusal
\* of a tunnel.
EndsStream(r, framed) == IF IsConnect(r) THEN ~tunnelUrl ELSE ~framed

MockedBodyEnds(r, framed) ==
  /\ stage[r] = "streaming"
  /\ LET c == IF Delimited(r, framed) THEN PushPart(WithHead(r), r, "fin") ELSE WithHead(r)
     IN Becomes(IF EndsStream(r, framed) THEN Later(c, "eof") ELSE c)
  /\ stage' = Stage(r, "done")
  /\ UNCHANGED <<inputVars, pauses, readyState, completionDue, current,
                 tunnelVars, realVars, eventVars>>

MockedBodyBreaks(r) ==
  /\ stage[r] = "streaming"
  /\ Becomes(Later(conn, "destroy"))
  /\ stage' = Stage(r, "done")
  /\ UNCHANGED <<inputVars, pauses, readyState, completionDue, current,
                 tunnelVars, realVars, eventVars>>

-----------------------------------------------------------------------------
(* The real connection.                                                      *)

RealUnchanged == UNCHANGED <<inputVars, pauses, exchangeVars, tunnelVars, eventVars>>

RealConnects ==
  /\ conn.real = "connecting" /\ Idle
  /\ OnlyConn(OnRealConnect(conn))

\* The response parsers of every exchange on this connection read its data.
ParsedToItsEnd(r, part) == {[parser |-> p, request |-> r, part |-> part] : p \in parsers}

Parsed(r, part) ==
  IF part = "fin" THEN {}
  ELSE {[parser |-> p, request |-> r, part |-> part] : p \in parsers}

\* A real server answers its requests in order, perhaps with an informational
\* response before the final one.
Answers(part) ==
  LET r == Head(reached) IN
  /\ conn.real = "open" /\ ~conn.paused /\ Idle
  /\ reached # <<>>
  /\ Becomes(OnRealData(conn, Part(r, part)))
  /\ events' = events \cup Parsed(r, part)
  /\ UNCHANGED <<inputVars, pauses, exchangeVars, tunnelVars, parsers, served, settled>>

RealInforms ==
  /\ answering = "nothing"
  /\ Answers("informational")
  /\ answering' = "informational"
  /\ UNCHANGED reached

\* A final response that comes while the listeners of an informational one run
\* is released with it, or never: what is checked is judged without that.
Overtakes == \E e \in events : e.part = "informational"

RealResponds ==
  /\ answering # "head"
  /\ Overtakes => hurried
  /\ Answers("head")
  /\ answering' = "head"
  /\ UNCHANGED reached

RealCompletes ==
  /\ answering = "head"
  /\ Answers("fin")
  /\ answering' = "nothing"
  /\ reached' = Tail(reached)

RealEnds ==
  /\ conn.real = "open" /\ ~conn.paused /\ Idle
  /\ OnlyConn(OnRealEnd(conn))

\* It ends its own side too and closes its handle, which the client may share.
RealFinishes ==
  /\ conn.real = "finished"
  /\ OnlyConn([conn EXCEPT !.real = "closing"])

RealFails ==
  /\ conn.real \in {"connecting", "open", "finished"} /\ Idle
  /\ OnlyConn(OnRealError(conn))

\* "close", which also frees the response parsers.
RealCloses ==
  /\ conn.real = "closing" /\ Idle
  /\ Becomes(OnRealClose(conn))
  /\ parsers' = {}
  /\ RealUnchanged
  /\ UNCHANGED <<reached, answering, served>>

\* The listeners of a "response" event settle, or throw: the reads are uncorked,
\* and corked again for the response that follows an informational one.
UncorkForGood(e) == Uncork(conn)

UncorkFor(e) ==
  LET c == Uncork(conn) IN IF e.part = "informational" THEN Cork(c) ELSE c

ResponseListenersSettle(e) ==
  /\ e \in events
  /\ Becomes(UncorkFor(e))
  /\ events' = events \ {e} /\ settled' = settled \cup {e}
  /\ UNCHANGED <<inputVars, pauses, exchangeVars, tunnelVars, realVars>>

-----------------------------------------------------------------------------
(* Connections of another protocol: the source declines.                     *)

OtherSubscriberClaims ==
  /\ protocol = "other" /\ readyState = "PENDING" /\ ~conn.destroyed
  /\ readyState' = "CLAIMED"
  /\ completionDue' = TRUE
  /\ UNCHANGED <<inputVars, conn, pauses, verdict, hook, cutOff, current, stage,
                 tunnelVars, realVars, eventVars>>

SourceDeclines ==
  /\ protocol = "other" /\ readyState = "PENDING" /\ ~conn.destroyed
  /\ "passthrough" \notin ToSet(conn.ticks)
  /\ OnlyConn(Later(conn, "passthrough"))

NextChunk == Part(Len(conn.sent) + 1, "data")

ServerSends ==
  /\ protocol = "other" /\ readyState = "CLAIMED"
  /\ Len(conn.sent) < MaxChunks /\ ~conn.pendingEnd /\ ~conn.eof
  /\ OnlyConn(ServerWrite(conn, NextChunk))

ServerEnds ==
  /\ protocol = "other" /\ readyState = "CLAIMED"
  /\ ~conn.pendingEnd /\ ~conn.eof
  /\ OnlyConn(ServerEnd(conn))

RealSends ==
  /\ protocol = "other" /\ conn.real = "open" /\ ~conn.paused /\ Idle
  /\ Len(conn.sent) < MaxChunks
  /\ OnlyConn(OnRealData(conn, NextChunk))

-----------------------------------------------------------------------------
(* The client, its consumer, and the callbacks of process.nextTick().        *)

\* An HTTP client pauses the socket in the middle of a response nobody reads.
ConsumerPauses ==
  /\ conn.flowing /\ ~conn.destroyed /\ pauses < MaxPauses
  /\ protocol = "http" => MidResponse
  /\ pauses' = pauses + 1
  /\ Becomes([conn EXCEPT !.flowing = FALSE])
  /\ UNCHANGED <<inputVars, exchangeVars, tunnelVars, realVars, eventVars>>

ConsumerResumes ==
  /\ ~conn.flowing /\ ~conn.destroyed
  /\ OnlyConn([conn EXCEPT !.flowing = TRUE])

\* A paused consumer may read by hand, though no HTTP client does.
ConsumerReads ==
  /\ conn.buffer # <<>> /\ ~conn.destroyed
  /\ conn.flowing \/ protocol = "other"
  /\ OnlyConn(ReadChunk(conn))

ConsumerHearsEnd ==
  /\ conn.eof /\ conn.buffer = <<>> /\ ~conn.ended /\ ~conn.destroyed
  /\ conn.flowing \/ protocol = "other"
  /\ OnlyConn(EmitEnd(conn))

\* Past the end a client that is not half-open ends its side and is destroyed.
ClientTearsDown ==
  /\ conn.ended /\ ~conn.destroyed
  /\ OnlyConn(Destroy(conn))

\* The client destroys the socket whenever it likes, e.g. to abort a request.
ClientDestroys ==
  /\ ~conn.destroyed
  /\ OnlyConn(Destroy(conn))

NativeClose ==
  /\ conn.nativeClose /\ Idle
  /\ OnlyConn(EmitClose([conn EXCEPT !.nativeClose = FALSE]))

Ticked == [conn EXCEPT !.ticks = Tail(@)]
NextTick(kind) == conn.ticks # <<>> /\ Head(conn.ticks) = kind

TickClose == NextTick("close") /\ OnlyConn(EmitClose(Ticked))

CloseOnce(c) == IF c.closes = 0 THEN EmitClose(c) ELSE c
TickDeliverClose == NextTick("closeUnlessClosed") /\ OnlyConn(CloseOnce(Ticked))

TickEnd == NextTick("eof") /\ OnlyConn(PushEnd(Ticked))

TickDestroy == NextTick("destroy") /\ OnlyConn(Destroy(Ticked))

\* Everyone has declined: unless somebody decided meanwhile, it passes through.
TickPassthrough ==
  /\ NextTick("passthrough")
  /\ LET passes == readyState = "PENDING" /\ ~conn.destroyed IN
     /\ Becomes(IF passes THEN Dialled(Ticked) ELSE Ticked)
     /\ readyState' = IF passes THEN "PASSTHROUGH" ELSE readyState
  /\ UNCHANGED <<inputVars, pauses, completionDue, current, stage,
                 tunnelVars, realVars, eventVars>>

-----------------------------------------------------------------------------
Listeners ==
  \E r \in Request :
    \/ RespondInVain(r)
    \/ \E ok \in BOOLEAN : RespondWith(r, ok)
    \/ RespondWithNetworkError(r)
    \/ \E isError \in BOOLEAN : ErrorWith(r, isError)
    \/ Passthrough(r)

MockProceeds ==
  \E r \in Request :
    \/ MockedListenersSettle(r)
    \/ \E framed \in BOOLEAN : MockedBodyEnds(r, framed)

SettleEvent == \E e \in events : ResponseListenersSettle(e)

Ticks == TickClose \/ TickDeliverClose \/ TickEnd \/ TickDestroy \/ TickPassthrough

Consumer == ConsumerResumes \/ ConsumerReads \/ ConsumerHearsEnd \/ ClientTearsDown

Server == RealInforms \/ RealResponds \/ RealCompletes \/ RealSends \/ RealEnds \/ RealFails

EventLoop ==
  ClaimCompletes \/ RealConnects \/ RealFinishes \/ RealCloses \/ NativeClose \/ Ticks

Next ==
  \/ ClientRequests \/ ClientRequestsThroughTunnel
  \/ Listeners
  \/ \E r \in Request :
       MockedListenersThrow(r) \/ MockedBodyWrites(r) \/ MockedBodyBreaks(r)
  \/ MockProceeds \/ SettleEvent
  \/ Server \/ EventLoop
  \/ OtherSubscriberClaims \/ SourceDeclines \/ ServerSends \/ ServerEnds
  \/ ConsumerPauses \/ Consumer \/ ClientDestroys

\* The event loop runs what is queued, listeners and mocked bodies end, and the
\* consumer reads on.  Nobody has to send, to fail, to pause or to destroy.
Fairness ==
  /\ WF_vars(EventLoop)
  /\ WF_vars(MockProceeds \/ SettleEvent)
  /\ WF_vars(Consumer)

Spec == Init /\ [][Next]_vars /\ Fairness

-----------------------------------------------------------------------------
(* Properties.                                                               *)

\* What is written for a client is heard in its order, "end" only after all of
\* it, "close" only after "end" or once the socket is destroyed.
Judged(value, otherwise) == IF hurried THEN otherwise ELSE value
Reads == INSTANCE ReadStream WITH
  sent <- Judged(conn.sent, <<>>), heard <- Judged(conn.heard, <<>>),
  ended <- Judged(conn.ended, FALSE), cut <- Judged(conn.destroyed, FALSE),
  closed <- Judged(conn.closes > 0, FALSE)
ReadsAsPromised == Reads!Spec

\* "close" is emitted once, unless a mocked response replaced _destroy().
ClosedOnce == "mock" \notin conn.layers /\ ~hurried => conn.closes <= 1

\* With "response" listeners, the client hears of an original response only
\* after they have settled on it, unless a parser that an earlier exchange left
\* on this connection reported the response once more and let the reads go.
Stale == \E e \in settled : e.parser # e.request
HeadGated ==
  listening /\ ~hurried /\ ~Stale =>
    \A r \in Request, target \in Targets :
      <<r, target>> \in served /\ Part(r, "head") \in ToSet(conn.heard) =>
        \E e \in settled : e.request = r /\ e.part = "head"

\* A client that destroys its socket aborts the request that is pending, unless
\* the mocked response to an earlier one replaced _destroy().
AbortReaches ==
  "mock" \notin conn.layers => \A r \in cutOff : verdict[r] = "aborted"

\* What passes through a mocked tunnel goes to its target, the rest to the
\* original one.
PassedToItsTarget ==
  \A r \in Request, target \in Targets :
    <<r, target>> \in served => (target = "tunnel" <=> tunnelUrl /\ ~IsConnect(r))

\* What the server sends is heard, unless the client destroys the socket, or the
\* connection ended without the response its cork waits for.  A mocked response
\* is delivered to its end, unless a "response" listener threw or the client is
\* gone.  A destroyed socket closes.
CorkedForGood == conn.corked /\ conn.real = "gone" /\ events = {}
Unanswered == {r \in Request : verdict[r] = "mock" /\ stage[r] # "thrown" /\ ~Complete(r)}
DeliversAndCloses ==
  /\ conn.heard # conn.sent ~>
       conn.heard = conn.sent \/ conn.destroyed \/ hurried \/ CorkedForGood
  /\ Unanswered # {} ~> Unanswered = {} \/ conn.ended \/ conn.destroyed
  /\ conn.destroyed ~> conn.closes > 0 \/ hurried \/ CorkedForGood

===============================================================================
