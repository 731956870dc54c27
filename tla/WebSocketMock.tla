---------------------------- MODULE WebSocketMock ----------------------------
(***************************************************************************)
(* One intercepted WebSocket (interceptors/WebSocket/).  Three parties meet *)
(* on it: the application that constructed it, the "connection" listeners   *)
(* of the interceptor with their client and server handles, and the         *)
(* original server, reached by real connections.  Without such listeners    *)
(* the connection is passed through.                                        *)
(*                                                                          *)
(* The library acts in microtasks, run in order.  An event whose listeners  *)
(* include the library's own is dispatched in steps.  Application and       *)
(* listeners may act in any of their own microtasks or event listeners,     *)
(* thus between any two steps.  Events of real connections are macrotasks.  *)
(***************************************************************************)
EXTENDS Integers, SequencesExt

CONSTANTS
  MaxMessages,      \* bound on the messages sent by anybody
  MaxConnections    \* bound on the calls of server.connect()

ASSUME BoundsAssumption == MaxMessages \in Nat /\ MaxConnections \in Nat \ {0}

Connection == 1..MaxConnections
Message == 1..MaxMessages
Extra == 0          \* stands for the messages of server.send()

VARIABLES
  readyState,   \* of the client
  listened,     \* whether the interceptor has "connection" listeners
  phase,        \* of the "connection" event
  tasks,        \* the microtasks of the library
  dispatching,  \* the library's listeners of the current event still to run
  early,        \* messages to the client waiting for its "open"
  real,         \* the connections to the original server
  current,      \* realWebSocket of the server handle, 0 for none
  closeHooked,  \* whether handleMockClose listens to the client
  mockAborted,  \* mockCloseController
  realAborted,  \* realCloseController
  prevented,    \* the messages of the application whose event was prevented
  sends, mocks, serverSends,   \* how many were sent: ws, client, server.send()
  log,          \* history: mocked events the client heard
  received,     \* history: what each real connection was sent
  offered,      \* history: messages sent on an open socket, connected to the server
  serverCloses  \* history: "close" events of the server handle, per connection

clientVars == <<readyState, early, log>>
taskVars == <<tasks, dispatching>>
serverVars == <<real, current, closeHooked, mockAborted, realAborted, received, serverCloses>>
sendVars == <<prevented, sends, mocks, serverSends, offered>>
eventVars == <<listened, phase>>
vars == <<clientVars, taskVars, serverVars, sendVars, eventVars>>

ReadyState == {"CONNECTING", "OPEN", "CLOSING", "CLOSED"}
Open == [do |-> "open", of |-> 0]
Close == [do |-> "close", of |-> 0]
MockClose == [do |-> "mockClose", of |-> 0, on |-> 0]

Mocked(m) == [event |-> "message", of |-> m]
Opened == [event |-> "open", of |-> 0]
Closed == [event |-> "close", of |-> 0]

\* A real connection: the messages waiting for its "open", whether
\* handleRealClose listens to it, who ended it first, whether it was made for a
\* client already closed, and whether its "close" was prevented.
RealConnection ==
  [state: ReadyState \cup {"NONE"}, deferred: Seq(Message \cup {Extra}), hooked: BOOLEAN,
   closer: {"nobody", "client", "interceptor", "server"}, late: BOOLEAN, kept: BOOLEAN]

Microtask ==
  [do: {"connection", "open", "close"}, of: {0}]
  \cup [do: {"outgoing", "forward", "deliver", "serverClosed"}, of: Nat]
ListenerLeft == [do: {"message", "flush", "mockClose"}, of: Nat, on: 0..MaxConnections]
Entry == {Opened, Closed} \cup {Mocked(m) : m \in Message}

TypeOK ==
  /\ readyState \in ReadyState
  /\ listened \in BOOLEAN
  /\ phase \in {"queued", "emitting", "mocked", "passthrough", "failed"}
  /\ tasks \in Seq(Microtask) /\ dispatching \in Seq(ListenerLeft)
  /\ readyState = "CLOSING" <=> Close \in ToSet(tasks)
  /\ early \in Seq(Message)
  /\ real \in [Connection -> RealConnection]
  /\ current \in 0..MaxConnections
  /\ closeHooked \in BOOLEAN /\ mockAborted \in BOOLEAN /\ realAborted \in BOOLEAN
  /\ prevented \subseteq Message /\ offered \subseteq Message
  /\ sends \in Nat /\ mocks \in Nat /\ serverSends \in Nat
  /\ sends + mocks + serverSends <= MaxMessages
  /\ log \in Seq(Entry)
  /\ received \in [Connection -> Seq(Message \cup {Extra})]
  /\ serverCloses \in [Connection -> Nat]

-----------------------------------------------------------------------------
(* The client: WebSocketOverride and WebSocketClassTransport.                *)

MoreToSend == sends + mocks + serverSends < MaxMessages

Ending(state) == state \in {"CLOSING", "CLOSED"}

\* [kClose](), given the microtasks already queued.
KCloseAgain(queue) == readyState' = "CLOSING" /\ tasks' = Append(queue, Close)
KClose(queue) ==
  /\ readyState' = IF Ending(readyState) THEN readyState ELSE "CLOSING"
  /\ tasks' = IF Ending(readyState) THEN queue ELSE Append(queue, Close)

\* send() on a connecting socket closes it and throws.
AppSends ==
  LET m == sends + 1
      told == Opened \in ToSet(log) /\ ~Ending(readyState)
      connected == current # 0 /\ real[current].state \in {"CONNECTING", "OPEN"}
  IN
  /\ MoreToSend
  /\ sends' = m
  /\ offered' = IF told /\ connected THEN offered \cup {m} ELSE offered
  /\ CASE readyState = "CONNECTING" -> KClose(tasks)
       [] readyState = "OPEN" -> /\ tasks' = Append(tasks, [do |-> "outgoing", of |-> m])
                                 /\ UNCHANGED readyState
       [] Ending(readyState) -> UNCHANGED <<readyState, tasks>>
  /\ UNCHANGED <<early, log, dispatching, serverVars, prevented, mocks, serverSends, eventVars>>

AppCloses ==
  /\ ~Ending(readyState)
  /\ KClose(tasks)
  /\ UNCHANGED <<early, log, dispatching, serverVars, sendVars, eventVars>>

-----------------------------------------------------------------------------
(* The server: WebSocketServerConnection.                                    *)

FreshConnection ==
  [state |-> "CONNECTING", deferred |-> <<>>, hooked |-> ~realAborted,
   closer |-> "nobody", late |-> readyState = "CLOSED", kept |-> FALSE]

MayConnect ==
  /\ current < MaxConnections
  /\ current # 0 => real[current].state # "OPEN"

HookMockClose == closeHooked' = (closeHooked \/ ~mockAborted)

Connect ==
  /\ current' = current + 1
  /\ real' = [real EXCEPT ![current + 1] = FreshConnection]
  /\ HookMockClose
  /\ UNCHANGED <<mockAborted, realAborted, received, serverCloses>>

DropWhileConnecting(c, m) == UNCHANGED <<real, received>>
Defer(c, m) ==
  /\ real' = [real EXCEPT ![c].deferred = Append(@, m)]
  /\ UNCHANGED received

\* [kSend]().
KSend(c, m) ==
  CASE real[c].state = "CONNECTING" -> Defer(c, m)
    [] real[c].state = "OPEN" -> /\ received' = [received EXCEPT ![c] = Append(@, m)]
                                 /\ UNCHANGED real
    [] Ending(real[c].state) -> UNCHANGED <<real, received>>

\* close() of a real connection, which then ends on its own.
RealClose(c, who) ==
  IF Ending(real[c].state) THEN real
  ELSE [real EXCEPT ![c].state = "CLOSING", ![c].closer = who]

-----------------------------------------------------------------------------
(* The interceptor's handles.                                                *)

Handled == listened /\ phase # "queued"

MockSends ==
  /\ Handled /\ MoreToSend
  /\ mocks' = mocks + 1
  /\ tasks' = Append(tasks, [do |-> "deliver", of |-> mocks'])
  /\ UNCHANGED <<clientVars, dispatching, serverVars, prevented, sends, serverSends, offered,
                 eventVars>>

MockCloses ==
  /\ Handled /\ ~Ending(readyState)
  /\ KClose(tasks)
  /\ UNCHANGED <<early, log, dispatching, serverVars, sendVars, eventVars>>

ServerConnects ==
  /\ Handled /\ MayConnect
  /\ Connect
  /\ UNCHANGED <<clientVars, taskVars, sendVars, eventVars>>

ServerSends ==
  /\ Handled /\ current # 0 /\ MoreToSend
  /\ serverSends' = serverSends + 1
  /\ KSend(current, Extra)
  /\ UNCHANGED <<clientVars, taskVars, current, closeHooked, mockAborted, realAborted,
                 serverCloses, prevented, sends, mocks, offered, eventVars>>

\* What server.close() leaves of the hooks of handleRealClose.
StillHooked(connections) == connections
Unhooked(connections) ==
  [c \in Connection |-> [connections[c] EXCEPT !.hooked = FALSE]]

ServerCloses ==
  /\ Handled /\ current # 0
  /\ realAborted' = TRUE
  /\ real' = Unhooked(RealClose(current, "interceptor"))
  /\ tasks' = IF Ending(real[current].state) THEN tasks
              ELSE Append(tasks, [do |-> "serverClosed", of |-> current])
  /\ UNCHANGED <<clientVars, dispatching, current, closeHooked, mockAborted, received,
                 serverCloses, sendVars, eventVars>>

-----------------------------------------------------------------------------
(* The "connection" event (WebSocketInterceptor.setup).                      *)

NoDecision == tasks
MockedOpen == Append(tasks, Open)

\* The listeners are done.  A throw of something that is not an Error leaves
\* the client as it is.
ListenersEnd ==
  /\ phase = "emitting" /\ listened /\ dispatching = <<>>
  /\ phase' = "mocked"
  /\ tasks' = MockedOpen
  /\ UNCHANGED <<clientVars, dispatching, serverVars, sendVars, listened>>

ListenersThrow(isError) ==
  /\ phase = "emitting" /\ listened /\ dispatching = <<>>
  /\ phase' = "failed"
  /\ IF isError THEN KClose(tasks) ELSE UNCHANGED <<readyState, tasks>>
  /\ UNCHANGED <<early, log, dispatching, serverVars, sendVars, listened>>

PassesThrough ==
  /\ phase = "emitting" /\ ~listened /\ dispatching = <<>>
  /\ phase' = "passthrough"
  /\ Connect
  /\ UNCHANGED <<clientVars, taskVars, sendVars, listened>>

-----------------------------------------------------------------------------
(* Microtasks.                                                               *)

Runs(do) ==
  /\ dispatching = <<>> /\ tasks # <<>>
  /\ Head(tasks).do = do
Subject == Head(tasks).of

RunConnection ==
  /\ Runs("connection")
  /\ tasks' = Tail(tasks)
  /\ phase' = "emitting"
  /\ UNCHANGED <<clientVars, dispatching, serverVars, sendVars, listened>>

\* Nothing has prevented the connection: "open", and the messages waiting for it.
RunOpen ==
  /\ Runs("open")
  /\ tasks' = Tail(tasks)
  /\ IF readyState = "CONNECTING"
     THEN /\ readyState' = "OPEN"
          /\ log' = Append(log, Opened)
          /\ dispatching' = [i \in DOMAIN early |->
               [do |-> "message", of |-> early[i], on |-> 0]]
          /\ early' = <<>>
     ELSE UNCHANGED <<clientVars, dispatching>>
  /\ UNCHANGED <<serverVars, sendVars, eventVars>>

\* The transport's "outgoing" event: the server hears it first and forwards it
\* a microtask later, when the listeners of the client handle may have
\* prevented it.
RunOutgoing(prevents) ==
  /\ Runs("outgoing")
  /\ prevents => Handled
  /\ prevented' = IF prevents THEN prevented \cup {Subject} ELSE prevented
  /\ tasks' = Tail(tasks) \o (IF current = 0 THEN <<>>
                              ELSE <<[do |-> "forward", of |-> Subject]>>)
  /\ UNCHANGED <<clientVars, dispatching, serverVars, sends, mocks, serverSends, offered,
                 eventVars>>

PreventedEarlier(m) == FALSE
IsPrevented(m) == m \in prevented

RunForward ==
  /\ Runs("forward")
  /\ tasks' = Tail(tasks)
  /\ IF IsPrevented(Subject) THEN UNCHANGED <<real, received>> ELSE KSend(current, Subject)
  /\ UNCHANGED <<clientVars, dispatching, current, closeHooked, mockAborted, realAborted,
                 serverCloses, sendVars, eventVars>>

NeverEarly == FALSE
WaitsForOpen == readyState = "CONNECTING"

RunDeliver ==
  /\ Runs("deliver")
  /\ tasks' = Tail(tasks)
  /\ CASE Ending(readyState) -> UNCHANGED <<early, log>>
       [] ~Ending(readyState) /\ WaitsForOpen ->
            early' = Append(early, Subject) /\ UNCHANGED log
       [] OTHER -> log' = Append(log, Mocked(Subject)) /\ UNCHANGED early
  /\ UNCHANGED <<readyState, dispatching, serverVars, sendVars, eventVars>>

RunClose ==
  /\ Runs("close")
  /\ tasks' = Tail(tasks)
  /\ readyState' = "CLOSED"
  /\ log' = Append(log, Closed)
  /\ dispatching' = IF closeHooked THEN <<MockClose>> ELSE <<>>
  /\ UNCHANGED <<early, serverVars, sendVars, eventVars>>

RunServerClosed ==
  /\ Runs("serverClosed")
  /\ tasks' = Tail(tasks)
  /\ serverCloses' = [serverCloses EXCEPT ![Subject] = @ + 1]
  /\ UNCHANGED <<clientVars, dispatching, real, current, closeHooked, mockAborted, realAborted,
                 received, sendVars, eventVars>>

-----------------------------------------------------------------------------
(* The rest of an event's listeners.                                         *)

Calls(do) == dispatching # <<>> /\ Head(dispatching).do = do
Listener == Head(dispatching)

\* A message that waited for "open", whatever the listeners before it did.
CallMessage ==
  /\ Calls("message")
  /\ dispatching' = Tail(dispatching)
  /\ log' = Append(log, Mocked(Listener.of))
  /\ UNCHANGED <<readyState, early, tasks, serverVars, sendVars, eventVars>>

\* A message that waited for the real connection, which drops it if it is
\* closing by now.
CallFlush ==
  /\ Calls("flush")
  /\ dispatching' = Tail(dispatching)
  /\ received' = IF real[Listener.on].state = "OPEN"
                 THEN [received EXCEPT ![Listener.on] = Append(@, Listener.of)]
                 ELSE received
  /\ UNCHANGED <<clientVars, tasks, real, current, closeHooked, mockAborted, realAborted,
                 serverCloses, sendVars, eventVars>>

\* handleMockClose().
CallMockClose ==
  /\ Calls("mockClose")
  /\ dispatching' = Tail(dispatching)
  /\ real' = RealClose(current, "client")
  /\ UNCHANGED <<clientVars, tasks, current, closeHooked, mockAborted, realAborted, received,
                 serverCloses, sendVars, eventVars>>

-----------------------------------------------------------------------------
(* Real connections.                                                         *)

Idle == tasks = <<>> /\ dispatching = <<>>

\* The server handle's "open" comes first; passed through, it is the client's.
RealOpens(c) ==
  /\ Idle /\ real[c].state = "CONNECTING"
  /\ real' = [real EXCEPT ![c].state = "OPEN", ![c].deferred = <<>>]
  /\ dispatching' = [i \in DOMAIN real[c].deferred |->
       [do |-> "flush", of |-> real[c].deferred[i], on |-> c]]
  /\ log' = IF phase = "passthrough" THEN Append(log, Opened) ELSE log
  /\ UNCHANGED <<readyState, early, tasks, current, closeHooked, mockAborted, realAborted,
                 received, serverCloses, sendVars, eventVars>>

\* It ends, by a failure, by its server, or because it was closed here.
\* handleRealClose() closes the client unless that is prevented.
RealCloses(c, prevents) ==
  LET by == IF real[c].closer = "nobody" THEN "server" ELSE real[c].closer IN
  /\ Idle /\ real[c].state \in {"CONNECTING", "OPEN", "CLOSING"}
  /\ prevents => Handled /\ real[c].hooked
  /\ real' = [real EXCEPT ![c].state = "CLOSED", ![c].closer = by, ![c].kept = prevents]
  /\ IF real[c].hooked
     THEN /\ mockAborted' = TRUE /\ closeHooked' = FALSE
          /\ serverCloses' = [serverCloses EXCEPT ![c] = @ + 1]
          /\ IF prevents THEN UNCHANGED <<readyState, tasks>> ELSE KClose(tasks)
     ELSE UNCHANGED <<readyState, tasks, mockAborted, closeHooked, serverCloses>>
  /\ UNCHANGED <<early, log, dispatching, current, realAborted, received, sendVars, eventVars>>

-----------------------------------------------------------------------------
NoConnection ==
  [state |-> "NONE", deferred |-> <<>>, hooked |-> FALSE, closer |-> "nobody",
   late |-> FALSE, kept |-> FALSE]

Init ==
  /\ readyState = "CONNECTING"
  /\ listened \in BOOLEAN
  /\ phase = "queued"
  /\ tasks = <<[do |-> "connection", of |-> 0]>> /\ dispatching = <<>>
  /\ early = <<>>
  /\ real = [c \in Connection |-> NoConnection]
  /\ current = 0 /\ closeHooked = FALSE /\ mockAborted = FALSE /\ realAborted = FALSE
  /\ prevented = {} /\ offered = {}
  /\ sends = 0 /\ mocks = 0 /\ serverSends = 0
  /\ log = <<>>
  /\ received = [c \in Connection |-> <<>>]
  /\ serverCloses = [c \in Connection |-> 0]

Application == AppSends \/ AppCloses

Interceptor ==
  \/ MockSends \/ MockCloses \/ ServerConnects \/ ServerSends \/ ServerCloses
  \/ ListenersEnd \/ \E isError \in BOOLEAN : ListenersThrow(isError)

Library ==
  \/ RunConnection \/ RunOpen \/ RunForward \/ RunDeliver \/ RunClose \/ RunServerClosed
  \/ \E prevents \in BOOLEAN : RunOutgoing(prevents)
  \/ CallMessage \/ CallFlush \/ CallMockClose
  \/ PassesThrough

OriginalServer ==
  \E c \in Connection : RealOpens(c) \/ \E prevents \in BOOLEAN : RealCloses(c, prevents)

Next == Application \/ Interceptor \/ Library \/ OriginalServer

Spec == Init /\ [][Next]_vars

\* Microtasks and listeners run.  Nobody is obliged to send or close, and
\* "connection" listeners may take for ever.
FairSpec == Spec /\ WF_vars(Library)

-----------------------------------------------------------------------------
(* Properties.                                                               *)

\* With an interceptor, the client hears "open" and "close" at most once, and
\* the mocked messages in the order they were sent, each once, after "open" and
\* before "close", wherever the microtasks of sends, open and close fall.
MockedInOrder ==
  listened =>
    /\ \A i, j \in DOMAIN log : i < j =>
         /\ log[i].event # "close" /\ log[j].event # "open"
         /\ log[i].event = "message" /\ log[j].event = "message" => log[i].of < log[j].of
    /\ log # <<>> => log[1].event # "message"

\* What a connection was given: it has it, or waits for its "open" to be sent it.
Given(c) == received[c] \o real[c].deferred
Sent(c) == ToSet(Given(c)) \ {Extra}

\* What the application sends reaches the original server in order, once, on one
\* connection, and never if its event was prevented, whether a message had to
\* wait for that connection or not ("outgoing" listener, [kSend]).
ForwardedInOrder ==
  \A c \in Connection :
    /\ \A i, j \in DOMAIN Given(c) :
         i < j /\ {Given(c)[i], Given(c)[j]} \subseteq Message => Given(c)[i] < Given(c)[j]
    /\ Sent(c) \cap prevented = {}
    /\ \A d \in Connection \ {c} : Sent(c) \cap Sent(d) = {}

Reached(m) == m \in prevented \/ \E c \in Connection : m \in Sent(c)

\* While the client is open and nobody has closed a connection, no message of
\* the application sent after server.connect() is lost, however its microtasks
\* interleave with the connection's opening.
NothingLost ==
  Idle /\ readyState = "OPEN" /\ (\A c \in Connection : real[c].closer = "nobody") =>
    \A m \in offered : Reached(m)

\* The first connection made for a client and the client end together: the
\* client's end closes it, and its own end closes the client, unless the
\* interceptor keeps the client (server.close(), or preventDefault() on "close").
\* The server handle hears of the end once, even if server.close() and the
\* original server end it at the same time (realCloseController).
ClosesTogether ==
  /\ LET c == 1 IN
     Idle /\ current = c =>
       /\ readyState = "CLOSED" /\ ~real[c].late => Ending(real[c].state)
       /\ real[c].state = "CLOSED" /\ ~real[c].kept /\ real[c].closer # "interceptor" =>
            readyState = "CLOSED"
  /\ \A c \in Connection : serverCloses[c] <= 1

\* Once its listeners are done a client opens or closes, and one that is closing
\* is closed, whatever they called.
OpensOrCloses ==
  /\ phase = "mocked" ~> \E entry \in ToSet(log) : entry.event \in {"open", "close"}
  /\ listened /\ readyState = "CLOSING" ~> readyState = "CLOSED"

\* "Once connected to the actual server, the outgoing client events are
\* forwarded to that server by default": a message sent on an open socket
\* reaches it, unless prevented or the connection was ended by the others.
ForwardedByDefault ==
  Idle /\ (\A c \in Connection : real[c].closer \in {"nobody", "client"}) =>
    \A m \in offered : Reached(m)
=============================================================================
