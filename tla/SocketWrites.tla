---------------------------- MODULE SocketWrites ----------------------------
(***************************************************************************)
(* The verdict on an intercepted connection and the client's writes on it   *)
(* (interceptors/net/socket-controller.ts, TcpSocketController).            *)
(*                                                                          *)
(* The client socket is never connected.  Its writes are handed to the      *)
(* "connection" subscribers and buffered until one of them claims the       *)
(* connection (the writes are then answered locally), or it passes through  *)
(* (they are flushed to a real connection, whose handle replaces the        *)
(* client's once it connects).  A settled controller is reset for the next  *)
(* exchange on the same socket.                                             *)
(*                                                                          *)
(* JavaScript runs to completion, so one action is one stretch of code.  A  *)
(* write is split in two where #handleWrite() pushes the data to the        *)
(* subscribers: whatever they call from their "data" listeners runs inside  *)
(* that write, and the second half observes it.  ticks is the queue of      *)
(* process.nextTick().                                                      *)
(***************************************************************************)
EXTENDS Integers, SequencesExt

CONSTANTS
  MaxSubscribers, \* bound on the listeners of "connection"
  MaxWrites,      \* bound on the writes of the client
  MaxExchanges,   \* bound on the exchanges (the resets, plus one)
  Pipelining      \* whether the client writes past a boundary before the verdict

ASSUME BoundsAssumption ==
  MaxSubscribers \in Nat /\ MaxWrites \in Nat /\ MaxExchanges \in Nat \ {0}
ASSUME PipeliningAssumption == Pipelining \in BOOLEAN

VARIABLES
  readyState,         \* SocketController.readyState
  awaited,            \* #awaitedVerdicts
  subscribers,        \* how many listeners "connection" has when it is emitted
  declined,           \* how many of them have called decline()
  announced,          \* whether "connection" was emitted
  ticks,              \* the callbacks queued with process.nextTick()
  buffer,             \* #bufferedWrites
  resetScheduled,     \* #resetScheduled
  writing,            \* the write being handled, 0 for none
  issued,             \* how many writes the client has issued
  callbacks,          \* buffered writes that still hold their callback (args[3])
  acks,               \* how often each write's callback was invoked
  passthroughSocket,  \* #passthroughSocket, an index of real, 0 for null
  swapped,            \* #realHandleSwapped
  retargeted,         \* whether #retargetedConnectionOptions is set
  real,               \* the real connections ever created
  carried,            \* writes whose callback a real connection will invoke
  connecting,         \* socket.connecting
  connected,          \* whether "connect" was emitted on the client
  connectEmulated,    \* #connectEmulated
  emulationDue,       \* a check for the connect->write scenario is queued
  pendingConnection,  \* the promise of handle.connect()
  completionDue,      \* claim() awaits that promise to complete the connection
  destroyed,          \* socket.destroyed
  closed,             \* whether the client emitted "close"
  exchange,           \* history: the current exchange
  opened,             \* history: the exchange a write may first be decided in
  decided,            \* history: the last exchange a write was decided in
  pushed,             \* history: the writes pushed to the subscribers
  mocked,             \* history: the writes a claim settled
  during,             \* history: what happened in the push of the current write
  straddling          \* history: writes whose push saw both a verdict and a reset

verdictVars == <<readyState, awaited, subscribers, declined, announced>>
writeVars == <<buffer, resetScheduled, writing, issued, callbacks, acks>>
realVars == <<passthroughSocket, swapped, retargeted, real, carried>>
connectVars == <<connecting, connected, connectEmulated, emulationDue,
                 pendingConnection, completionDue>>
clientVars == <<destroyed, closed>>
recordVars == <<exchange, opened, decided, pushed, mocked, straddling>>
historyVars == <<recordVars, during>>
vars == <<verdictVars, ticks, writeVars, realVars, connectVars, clientVars,
          historyVars>>

Write == 1..MaxWrites
Issued == 1..issued

Tick == [kind: {"announce", "dial", "passthrough"}] \cup [kind: {"push"}, write: Write]

\* A real connection: what its own Writable still queues, what reached its
\* handle, the writes in flight there, its own and those of the client socket
\* that shares the handle, and whether there were ever two at once.
Connection ==
  [target: {"original", "retargeted"},
   status: {"connecting", "open", "destroyed"},
   queue: Seq(Write), wire: Seq(Write), own: SUBSET Write, direct: SUBSET Write,
   overlapped: BOOLEAN]

\* Everything a real connection was ever given, in the order it is to be sent.
Given(r) == r.wire \o r.queue
Sent == UNION {ToSet(Given(real[c])) : c \in DOMAIN real}

TypeOK ==
  /\ readyState \in {"PENDING", "CLAIMED", "PASSTHROUGH"}
  /\ awaited \in 0..subscribers
  /\ subscribers \in 0..MaxSubscribers
  /\ declined \in 0..subscribers
  /\ announced \in BOOLEAN
  /\ ticks \in Seq(Tick)
  /\ buffer \in Seq(Write)
  /\ resetScheduled \in BOOLEAN
  /\ writing \in {0} \cup Write
  /\ issued \in 0..MaxWrites
  /\ callbacks \subseteq Issued
  /\ acks \in [Write -> 0..2]
  /\ real \in Seq(Connection)
  /\ passthroughSocket \in {0} \cup DOMAIN real
  /\ swapped \in BOOLEAN /\ retargeted \in BOOLEAN
  /\ carried \subseteq Issued
  /\ connecting \in BOOLEAN /\ connected \in BOOLEAN
  /\ connectEmulated \in BOOLEAN /\ emulationDue \in BOOLEAN
  /\ pendingConnection \in {"waiting", "resolved"}
  /\ completionDue \in BOOLEAN
  /\ destroyed \in BOOLEAN /\ closed \in BOOLEAN
  /\ exchange \in 1..MaxExchanges
  /\ opened \in [Write -> 0..MaxExchanges + 1] /\ decided \in [Write -> 0..MaxExchanges]
  /\ pushed \in Seq(Write)
  /\ mocked \subseteq Issued /\ straddling \subseteq Issued
  /\ during \subseteq {"verdict", "reset"}

-----------------------------------------------------------------------------
(* Real connections, as net.Socket behaves behind the public write(): while *)
(* it connects, or has a write of its own in flight, further writes queue.   *)

NewConnection ==
  [target |-> IF retargeted THEN "retargeted" ELSE "original",
   status |-> "connecting", queue |-> <<>>, wire |-> <<>>, own |-> {}, direct |-> {},
   overlapped |-> FALSE]

\* Dispatch the write the Writable may dispatch now, if any.
Pump(r) ==
  IF r.status # "open" \/ r.own # {} \/ r.queue = <<>> THEN r
  ELSE [r EXCEPT !.wire = Append(@, Head(r.queue)), !.queue = Tail(@),
                 !.own = {Head(r.queue)}, !.overlapped = @ \/ r.direct # {}]

Enqueue(r, writes) == Pump([r EXCEPT !.queue = @ \o writes])

\* The client socket writes to the handle it shares with the connection.
WriteDirectly(r, w) ==
  [r EXCEPT !.wire = Append(@, w), !.direct = {w}, !.overlapped = @ \/ r.own # {}]

Destroy(r) == [r EXCEPT !.status = "destroyed", !.own = {}, !.direct = {}]

\* Writes whose callback gets an error when the connection is destroyed.
Failing(r) == (ToSet(r.queue) \cup r.own \cup r.direct) \cap carried

\* Invoke the callbacks of the given writes.
Acked(writes) == [w \in Write |-> IF w \in writes THEN acks[w] + 1 ELSE acks[w]]

Live == passthroughSocket # 0 /\ real[passthroughSocket].status # "destroyed"

Decide(writes) ==
  decided' = [w \in Write |-> IF w \in writes THEN exchange ELSE decided[w]]

\* A verdict or a reset, perhaps in the middle of a write.
InPush(event) ==
  LET seen == during \cup {event} IN
  /\ during' = IF writing = 0 THEN {} ELSE seen
  /\ straddling' = IF writing # 0 /\ seen = {"verdict", "reset"}
                   THEN straddling \cup {writing} ELSE straddling

-----------------------------------------------------------------------------
(* The verdict, and the reset that opens the next exchange.                  *)

\* Subscribers hear of a write through "internal:write".
Listening == announced /\ subscribers > 0

\* Code that starts on an empty stack once the ticks are drained: a promise
\* continuation, an I/O event, or the client.
Turn == writing = 0 /\ ticks = <<>>

\* Boundaries are found in data, or signalled by "free": a destroyed client has
\* none once its last write and tick are over.
InTouch == ~destroyed \/ writing # 0 \/ ticks # <<>>

\* A pending controller is left alone: its buffer awaits the verdict.
ResetAlways == TRUE
ResetNeeded == readyState # "PENDING"

BufferKept == buffer
BufferAfterReset == IF ResetNeeded THEN <<>> ELSE buffer

\* reset() up to the retargeting, and #reset(); the callers assign the buffer.
ResetIfSettled ==
  IF ResetNeeded
  THEN /\ exchange < MaxExchanges
       /\ readyState' = "PENDING"
       /\ resetScheduled' = FALSE
       /\ connectEmulated' = FALSE
       /\ pendingConnection' = "waiting"
       /\ completionDue' = (completionDue /\ pendingConnection = "resolved")
       /\ exchange' = exchange + 1
       /\ InPush("reset")
  ELSE UNCHANGED <<readyState, resetScheduled, connectEmulated, pendingConnection,
                   completionDue, exchange, during, straddling>>

\* reset() without a target: a subscriber's, or the agent's "free" event.
Reset ==
  /\ announced /\ InTouch /\ (Listening \/ Turn)
  /\ ResetNeeded
  /\ ResetIfSettled
  /\ buffer' = BufferAfterReset
  /\ UNCHANGED <<awaited, subscribers, declined, announced, ticks, writing,
                 issued, callbacks, acks, realVars, connecting, connected,
                 emulationDue, clientVars, opened, decided, pushed, mocked>>

PassthroughSocketKept ==
  UNCHANGED <<passthroughSocket, swapped, real, carried, destroyed>>

\* The connection to the original target is detached and destroyed; a write it
\* still owed a callback fails, and with it the client.
DetachPassthroughSocket ==
  IF passthroughSocket # 0
  THEN LET r == real[passthroughSocket] IN
       /\ real' = [real EXCEPT ![passthroughSocket] = Destroy(r)]
       /\ passthroughSocket' = 0
       /\ swapped' = FALSE
       /\ carried' = carried \ Failing(r)
       /\ destroyed' = (destroyed \/ Failing(r) # {})
  ELSE UNCHANGED <<passthroughSocket, swapped, real, carried, destroyed>>

\* reset(target), on the first data past an established tunnel: the connection
\* now leads to another target.
Retarget ==
  /\ Listening /\ writing # 0
  /\ retargeted' = TRUE
  /\ DetachPassthroughSocket
  /\ ResetIfSettled
  /\ buffer' = BufferAfterReset
  /\ UNCHANGED <<awaited, subscribers, declined, announced, ticks, writing,
                 issued, callbacks, acks, connecting, connected, emulationDue,
                 closed, opened, decided, pushed, mocked>>

ScheduleReset ==
  /\ Listening /\ InTouch /\ ~resetScheduled
  /\ resetScheduled' = TRUE
  /\ UNCHANGED <<verdictVars, ticks, buffer, writing, issued, callbacks, acks,
                 realVars, connectVars, clientVars, historyVars>>

FlushedWritesKept == buffer
BufferAfterFlush == <<>>

\* passthrough(): reuse the live real connection or create one, and flush.
Establish ==
  LET c == IF Live THEN passthroughSocket ELSE Len(real) + 1
      before == IF Live THEN real[c] ELSE NewConnection
      after == Enqueue(before, buffer)
      writes == ToSet(buffer)
  IN /\ readyState' = "PASSTHROUGH"
     /\ passthroughSocket' = c
     /\ real' = IF Live THEN [real EXCEPT ![c] = after] ELSE Append(real, after)
     /\ carried' = carried \cup (writes \cap callbacks)
     /\ buffer' = BufferAfterFlush
     /\ Decide(writes)
     /\ InPush("verdict")

Unaffected ==
  UNCHANGED <<subscribers, resetScheduled, writing, issued, callbacks, acks,
              swapped, retargeted, connectVars, clientVars, exchange, opened, pushed,
              mocked>>

Passthrough ==
  /\ Listening /\ readyState = "PENDING"
  /\ Establish
  /\ Unaffected
  /\ UNCHANGED <<awaited, declined, announced, ticks>>

SkipClaim == destroyed \/ (~connecting /\ ~connectEmulated)

\* claim(): the connection is answered locally, and completed unless the client
\* is connected already.
Claim ==
  /\ Listening /\ readyState = "PENDING"
  /\ readyState' = "CLAIMED"
  /\ mocked' = mocked \cup ToSet(buffer)
  /\ Decide(ToSet(buffer))
  /\ InPush("verdict")
  /\ IF SkipClaim THEN UNCHANGED <<buffer, completionDue>>
     ELSE buffer' = <<>> /\ completionDue' = TRUE
  /\ UNCHANGED <<awaited, subscribers, declined, announced, ticks,
                 resetScheduled, writing, issued, callbacks, acks, realVars,
                 connecting, connected, connectEmulated, emulationDue,
                 pendingConnection, clientVars, exchange, opened, pushed>>

LastDeclineMissed(count) == count < 0
EveryoneDeclined(count) == count <= 0

\* decline(), once by each subscriber: counted only while the verdict is pending.
Decline ==
  /\ announced /\ declined < subscribers
  /\ declined' = declined + 1
  /\ IF readyState = "PENDING"
     THEN /\ awaited' = awaited - 1
          /\ ticks' = IF EveryoneDeclined(awaited - 1)
                      THEN Append(ticks, [kind |-> "passthrough"]) ELSE ticks
     ELSE UNCHANGED <<awaited, ticks>>
  /\ UNCHANGED <<readyState, subscribers, announced, writeVars, realVars,
                 connectVars, clientVars, historyVars>>

-----------------------------------------------------------------------------
(* The callbacks of process.nextTick(), in their order.                      *)

NextTick(kind) ==
  /\ writing = 0 /\ ticks # <<>>
  /\ Head(ticks).kind = kind

CountedOneShort == subscribers - 1
ListenerCount == subscribers

\* The "connection" event: awaitVerdicts(), unless the client is gone already.
AnnounceDestroyed ==
  /\ NextTick("announce") /\ destroyed
  /\ ticks' = Tail(ticks)
  /\ UNCHANGED <<verdictVars, writeVars, realVars, connectVars, clientVars, historyVars>>

AnnounceAwaiting ==
  /\ NextTick("announce") /\ ~destroyed /\ subscribers > 0
  /\ awaited' = ListenerCount
  /\ announced' = TRUE
  /\ ticks' = Tail(ticks)
  /\ UNCHANGED <<readyState, subscribers, declined, writeVars, realVars,
                 connectVars, clientVars, historyVars>>

AnnounceToNobody ==
  /\ NextTick("announce") /\ ~destroyed /\ subscribers = 0
  /\ announced' = TRUE
  /\ ticks' = Tail(ticks)
  /\ Establish
  /\ Unaffected
  /\ UNCHANGED <<awaited, declined>>

\* A write made before anyone listened reaches the subscribers now.
DeferredPush ==
  /\ NextTick("push")
  /\ ticks' = Tail(ticks)
  /\ pushed' = Append(pushed, Head(ticks).write)
  /\ UNCHANGED <<verdictVars, writeVars, realVars, connectVars, clientVars,
                 exchange, opened, decided, mocked, during, straddling>>

\* The passthrough decline() deferred, unless a verdict came first.
DeclinedByAll ==
  /\ NextTick("passthrough")
  /\ ticks' = Tail(ticks)
  /\ IF readyState = "PENDING" /\ ~destroyed
     THEN Establish /\ Unaffected /\ UNCHANGED <<awaited, declined, announced>>
     ELSE UNCHANGED <<verdictVars, writeVars, realVars, connectVars,
                      clientVars, historyVars>>

\* net.Socket gets to handle.connect().
Dial ==
  /\ NextTick("dial")
  /\ ticks' = Tail(ticks)
  /\ IF destroyed THEN UNCHANGED <<pendingConnection, emulationDue>>
     ELSE pendingConnection' = "resolved" /\ emulationDue' = TRUE
  /\ UNCHANGED <<verdictVars, writeVars, realVars, connecting, connected,
                 connectEmulated, completionDue, clientVars, historyVars>>

\* A client that waits for "connect" to write is told it is connected.
EmulateConnect ==
  /\ Turn /\ emulationDue
  /\ readyState = "PENDING" /\ connecting /\ buffer = <<>>
  /\ connectEmulated' = TRUE
  /\ connecting' = FALSE
  /\ emulationDue' = FALSE
  /\ UNCHANGED <<verdictVars, ticks, writeVars, realVars, connected,
                 pendingConnection, completionDue, clientVars, historyVars>>

\* The same check for a client without "connect" listeners, or too late.
EmulateNothing ==
  /\ Turn /\ emulationDue
  /\ emulationDue' = FALSE
  /\ UNCHANGED <<verdictVars, ticks, writeVars, realVars, connecting, connected,
                 connectEmulated, pendingConnection, completionDue, clientVars,
                 historyVars>>

\* claim() completes the connection: afterConnect() asserts that the socket is
\* connecting and emits "connect".
CompleteClaim ==
  /\ Turn /\ completionDue /\ pendingConnection = "resolved"
  /\ completionDue' = FALSE
  /\ connected' = (connected \/ (~destroyed /\ (connecting \/ connectEmulated)))
  /\ connecting' = FALSE
  /\ UNCHANGED <<verdictVars, ticks, writeVars, realVars, connectEmulated,
                 emulationDue, pendingConnection, clientVars, historyVars>>

-----------------------------------------------------------------------------
(* #handleWrite(), before and after the push.                                *)

\* Only one write of a Writable is in flight: the client issues the next one
\* when the callback of the last was invoked.
ClientWrites ==
  /\ writing = 0 /\ ~destroyed
  /\ ticks # <<>> => Head(ticks).kind = "announce"
  /\ issued < MaxWrites
  /\ \A w \in Issued : acks[w] > 0
  /\ resetScheduled /\ readyState = "PENDING" => Pipelining

SchedulesIgnored == FALSE
ResetsFirst == resetScheduled

WriteBegin ==
  LET w == issued + 1 IN
  /\ ClientWrites
  /\ issued' = w
  /\ writing' = w
  /\ callbacks' = callbacks \cup {w}
  /\ opened' = [opened EXCEPT ![w] = IF resetScheduled THEN exchange + 1 ELSE exchange]
  /\ IF ResetsFirst
     THEN ResetIfSettled /\ buffer' = Append(BufferAfterReset, w)
     ELSE /\ buffer' = Append(buffer, w)
          /\ UNCHANGED <<readyState, resetScheduled, connectEmulated,
                         pendingConnection, completionDue, exchange, during,
                         straddling>>
  /\ IF readyState' = "PENDING" /\ ~Listening
     THEN ticks' = Append(ticks, [kind |-> "push", write |-> w]) /\ UNCHANGED pushed
     ELSE pushed' = Append(pushed, w) /\ UNCHANGED ticks
  /\ UNCHANGED <<awaited, subscribers, declined, announced, acks, realVars,
                 connecting, connected, emulationDue, clientVars, decided, mocked>>

\* #acknowledgeWrite(): invoke the callback, once.
AcknowledgeAgain(w) ==
  /\ acks' = Acked({w} \cap callbacks)
  /\ UNCHANGED callbacks
Acknowledge(w) ==
  /\ acks' = Acked({w} \cap callbacks)
  /\ callbacks' = callbacks \ {w}

WriteReturns == writing' = 0 /\ during' = {}

Buffered == writing \in ToSet(buffer)

\* The push left the controller pending: keep the write for the verdict.
WriteAwaitsVerdict ==
  /\ writing # 0 /\ readyState = "PENDING"
  /\ buffer' = IF Buffered THEN buffer ELSE Append(buffer, writing)
  /\ Acknowledge(writing)
  /\ WriteReturns
  /\ UNCHANGED <<verdictVars, ticks, resetScheduled, issued, realVars,
                 connectVars, clientVars, recordVars>>

WriteMocked ==
  /\ writing # 0 /\ readyState = "CLAIMED"
  /\ buffer' = RemoveFirst(buffer, writing)
  /\ Acknowledge(writing)
  /\ WriteReturns
  /\ mocked' = mocked \cup {writing}
  /\ Decide({writing})
  /\ UNCHANGED <<verdictVars, ticks, resetScheduled, issued, realVars,
                 connectVars, clientVars, exchange, opened, pushed, straddling>>

\* passthrough() ran inside the push and flushed the write.
WriteFlushed ==
  /\ writing # 0 /\ readyState = "PASSTHROUGH" /\ ~Buffered
  /\ WriteReturns
  /\ UNCHANGED <<verdictVars, ticks, buffer, resetScheduled, issued, callbacks,
                 acks, realVars, connectVars, clientVars, recordVars>>

\* Until the handles are swapped the write goes to the real connection's own
\* Writable, from then on to the shared handle.  A connection that is gone
\* fails the write, and with it the client.
WriteThrough ==
  LET r == real[passthroughSocket]
      after == IF swapped THEN WriteDirectly(r, writing) ELSE Enqueue(r, <<writing>>)
  IN
  /\ writing # 0 /\ readyState = "PASSTHROUGH" /\ Buffered
  /\ buffer' = RemoveFirst(buffer, writing)
  /\ WriteReturns
  /\ IF destroyed \/ ~Live
     THEN destroyed' = TRUE /\ UNCHANGED <<real, carried, decided>>
     ELSE /\ real' = [real EXCEPT ![passthroughSocket] = after]
          /\ carried' = carried \cup ({writing} \cap callbacks)
          /\ Decide({writing})
          /\ UNCHANGED destroyed
  /\ UNCHANGED <<verdictVars, ticks, resetScheduled, issued, callbacks,
                 acks, passthroughSocket, swapped, retargeted, connectVars, closed,
                 exchange, opened, mocked, pushed, straddling>>

-----------------------------------------------------------------------------
(* The real connections and the end of the client.                           *)

\* "connect" of a real connection: a write queued by the flush leaves first,
\* then the client takes over the handle, or drops it when it is gone.
RealConnects(c) ==
  LET r == real[c]
      open == Pump([r EXCEPT !.status = "open"])
  IN
  /\ Turn /\ r.status = "connecting"
  /\ real' = [real EXCEPT ![c] = IF destroyed THEN Destroy(open) ELSE open]
  /\ IF destroyed THEN UNCHANGED <<swapped, connecting, connected>>
     ELSE swapped' = TRUE /\ connecting' = FALSE /\ connected' = TRUE
  /\ UNCHANGED <<verdictVars, ticks, buffer, resetScheduled, writing, issued,
                 callbacks, acks, passthroughSocket, retargeted, carried,
                 connectEmulated, emulationDue, pendingConnection, completionDue, clientVars,
                 historyVars>>

\* The kernel accepts a write in flight and its callback is invoked.
RealAccepts(c, w) ==
  LET r == real[c]
      rest == Pump([r EXCEPT !.own = @ \ {w}, !.direct = @ \ {w}])
  IN
  /\ Turn /\ w \in r.own \cup r.direct
  /\ real' = [real EXCEPT ![c] = rest]
  /\ carried' = carried \ {w}
  /\ acks' = Acked({w} \cap carried)
  /\ UNCHANGED <<verdictVars, ticks, buffer, resetScheduled, writing, issued,
                 callbacks, passthroughSocket, swapped, retargeted, connectVars,
                 clientVars, historyVars>>

\* The real connection fails or ends, and the client with it.
RealLost(c) ==
  /\ Turn /\ real[c].status # "destroyed"
  /\ real' = [real EXCEPT ![c] = Destroy(@)]
  /\ destroyed' = TRUE
  /\ UNCHANGED <<verdictVars, ticks, writeVars, passthroughSocket, swapped,
                 retargeted, carried, connectVars, closed, historyVars>>

\* The client, or a subscriber, destroys the socket, and with it the handle it
\* may share with the real connection.
ClientDestroys ==
  /\ ~destroyed
  /\ destroyed' = TRUE
  /\ real' = IF swapped /\ Live
             THEN [real EXCEPT ![passthroughSocket] = Destroy(@)] ELSE real
  /\ UNCHANGED <<verdictVars, ticks, writeVars, passthroughSocket, swapped,
                 retargeted, carried, connectVars, closed, historyVars>>

ClientCloses ==
  /\ Turn /\ destroyed /\ ~closed
  /\ closed' = TRUE
  /\ buffer' = <<>>
  /\ real' = IF Live THEN [real EXCEPT ![passthroughSocket] = Destroy(@)] ELSE real
  /\ passthroughSocket' = 0
  /\ UNCHANGED <<verdictVars, ticks, resetScheduled, writing, issued, callbacks,
                 acks, swapped, retargeted, carried, connectVars, destroyed,
                 historyVars>>

-----------------------------------------------------------------------------
\* The socket right after socket.connect(): the controller was created, and
\* the "connection" event and the dialling are queued.
Init ==
  /\ readyState = "PENDING" /\ awaited = 0
  /\ subscribers \in 0..MaxSubscribers
  /\ declined = 0 /\ announced = FALSE
  /\ ticks = <<[kind |-> "announce"], [kind |-> "dial"]>>
  /\ buffer = <<>> /\ resetScheduled = FALSE
  /\ writing = 0 /\ issued = 0 /\ callbacks = {}
  /\ acks = [w \in Write |-> 0]
  /\ passthroughSocket = 0 /\ swapped = FALSE /\ retargeted = FALSE
  /\ real = <<>> /\ carried = {}
  /\ connecting = TRUE /\ connected = FALSE /\ connectEmulated = FALSE
  /\ emulationDue = FALSE /\ pendingConnection = "waiting" /\ completionDue = FALSE
  /\ destroyed = FALSE /\ closed = FALSE
  /\ exchange = 1
  /\ opened = [w \in Write |-> 0] /\ decided = [w \in Write |-> 0]
  /\ pushed = <<>> /\ mocked = {} /\ during = {} /\ straddling = {}

RunTick ==
  \/ AnnounceDestroyed \/ AnnounceAwaiting \/ AnnounceToNobody
  \/ DeferredPush \/ DeclinedByAll \/ Dial

WriteEnd == WriteAwaitsVerdict \/ WriteMocked \/ WriteFlushed \/ WriteThrough

Subscriber ==
  Claim \/ Passthrough \/ Decline \/ Reset \/ Retarget \/ ScheduleReset

RealIO ==
  \E c \in DOMAIN real :
    RealConnects(c) \/ RealLost(c) \/ \E w \in Write : RealAccepts(c, w)

Next ==
  \/ WriteBegin \/ WriteEnd \/ RunTick \/ Subscriber
  \/ EmulateConnect \/ EmulateNothing \/ CompleteClaim
  \/ RealIO \/ ClientDestroys \/ ClientCloses

Spec == Init /\ [][Next]_vars

\* The event loop runs what is queued, a write in progress returns, and the
\* network answers: every connection attempt connects or fails, and the kernel
\* accepts what it was given.  Nothing obliges a client or a subscriber to act.
FairSpec ==
  /\ Spec
  /\ WF_vars(RunTick) /\ WF_vars(WriteEnd)
  /\ WF_vars(CompleteClaim) /\ WF_vars(ClientCloses)
  /\ WF_vars(\E c \in DOMAIN real :
       (real[c].status = "connecting" /\ (RealConnects(c) \/ RealLost(c)))
       \/ \E w \in Write : RealAccepts(c, w))

-----------------------------------------------------------------------------
(* Safety.                                                                   *)

Increasing(seq) == \A i, j \in DOMAIN seq : i < j => seq[i] < seq[j]

\* A write a claim settled never reaches a real connection, in that exchange or
\* a later one.  The exception is a write during whose push the controller was
\* reset: it also opens the next exchange (claim() and #reset() drop the buffer).
MockedStaysLocal == mocked \cap Sent \subseteq straddling

\* The subscribers are pushed every write once, in the order the client made them,
\* whether the first push is deferred or not and however often the controller is
\* reset (#push, #handleWrite).  Every real connection is given the writes in that
\* order, each at most once, and no two connections the same write, whether it
\* went through the flush, the real connection's own Writable or the shared
\* handle.  (Straddling writes may be sent again by the next exchange, and the
\* order is that of handles on which writes never overlapped: OneWriteInFlight.)
SentOnceInOrder ==
  /\ Increasing(pushed)
  /\ \A c \in DOMAIN real :
       LET sent == Given(real[c]) IN
       \A i, j \in DOMAIN sent :
         i < j /\ sent[i] \notin straddling /\ sent[j] \notin straddling =>
           IF real[c].overlapped THEN sent[i] # sent[j] ELSE sent[i] < sent[j]
  /\ \A c, d \in DOMAIN real :
       c # d => ToSet(Given(real[c])) \cap ToSet(Given(real[d])) \subseteq straddling

\* No write vanishes: while the client lives, each is awaiting a verdict, was
\* answered locally, or was given to a real connection (#reset() must not drop
\* the buffer of a pending exchange, nor passthrough() forget a write).
NothingLost ==
  ~destroyed =>
    Issued \ straddling \subseteq {writing} \cup ToSet(buffer) \cup mocked \cup Sent

\* A write made past the boundary of an exchange (scheduleReset) is decided by
\* the verdict on a later exchange, never by the one before the boundary.
DecidedInItsExchange == \A w \in Issued : decided[w] # 0 => decided[w] >= opened[w]

\* Once the connection was retargeted nothing more is given to a connection to
\* the original target (reset(target), #createRetargetedConnection).
RetargetedForGood ==
  [][retargeted =>
       \A c \in DOMAIN real' :
         real'[c].target = "original" =>
           c \in DOMAIN real /\ Len(Given(real'[c])) = Len(Given(real[c]))]_vars

\* Two writes are never in flight on one handle: TLS handles support only one
\* (net/utils/flush-writes.ts).
OneWriteInFlight ==
  \A c \in DOMAIN real : ~real[c].overlapped

(* Liveness.                                                                 *)

\* Every write's callback is invoked once: never twice, although a buffered write
\* is acknowledged on buffering and flushed with its arguments later
\* (#acknowledgeWrite), and in the end once, unless the client is destroyed.
AcknowledgedOnce ==
  /\ [](\A w \in Issued \ straddling : acks[w] <= 1)
  /\ \A w \in Write : (w <= issued) ~> (acks[w] > 0 \/ destroyed \/ w \in straddling)

\* A client whose connection was claimed in its first exchange is connected,
\* also when it was told so early (connect emulation).  Once everybody declined
\* a fresh connection, it passes through (or another verdict comes first).
VerdictsTakeEffect ==
  /\ (readyState = "CLAIMED" /\ exchange = 1) ~>
       (connected \/ destroyed \/ exchange > 1)
  /\ (announced /\ declined = subscribers /\ exchange = 1) ~>
       (readyState # "PENDING" \/ destroyed)

\* The same of every exchange: the controller owns "unclaimed after everyone
\* declined", and subscribers stay declined across the exchanges.
NeverLeftPending ==
  (announced /\ declined = subscribers /\ readyState = "PENDING") ~>
    (readyState # "PENDING" \/ destroyed)
=============================================================================
