----------------------------- MODULE ClientReads ------------------------------
(***************************************************************************)
(* The reading side of an intercepted client socket: what is pushed to it,  *)
(* when its consumer hears it, and how the socket ends, is destroyed and     *)
(* closes (interceptors/net/socket-controller.ts, TcpSocketController and    *)
(* toServerSocket()).                                                        *)
(*                                                                           *)
(* Nothing ever arrives on the client's own handle.  What it reads is pushed *)
(* to it: by the server socket handed to the "connection" listeners, by a    *)
(* mocked HTTP response, or by the forwarding of a real connection's "data", *)
(* "end", "error" and "close", which the controller can cork.                *)
(*                                                                           *)
(* A connection is a record, and every operation a function from one         *)
(* connection to the next, so that a listener that makes several calls is    *)
(* the composition of them.  net.Socket and its streams are external: they   *)
(* are modelled by what this code relies on.                                 *)
(***************************************************************************)
EXTENDS Integers, SequencesExt

CONSTANT
  HighWaterMark  \* the chunks a socket buffers before push() returns false

ASSUME HighWaterMarkAssumption == HighWaterMark \in Nat \ {0}

\* Data travels in chunks: a part of the answer to a request.  The end and the
\* close of a real connection queue behind the data while the reads are corked.
Part(request, part) == [request |-> request, part |-> part]
EndRead == Part(0, "end")
CloseRead == Part(0, "close")

\* The states of a real connection: "finished" once it emitted "end", "closing"
\* once it is destroyed, "severed" when the client closed the handle they share
\* under it, "gone" once the controller has let go of it.
RealState == {"none", "connecting", "open", "finished", "closing", "severed", "gone"}

\* A client socket that waits for its verdict.  layers are the overrides of its
\* _destroy(); nativeClose is set while the close of its handle is under way.
NewConnection ==
  [connecting |-> TRUE, flowing |-> TRUE, buffer |-> <<>>, eof |-> FALSE,
   ended |-> FALSE, destroyed |-> FALSE, closes |-> 0, layers |-> {"abort"},
   nativeClose |-> FALSE, corked |-> FALSE, corkedReads |-> <<>>,
   endPushed |-> FALSE, swapped |-> FALSE, real |-> "none", paused |-> FALSE,
   pendingWrites |-> <<>>, pendingEnd |-> FALSE, backpressured |-> FALSE,
   flushScheduled |-> FALSE, ticks |-> <<>>, sent |-> <<>>, heard |-> <<>>]

Connections(Chunk, Tick) ==
  [connecting: BOOLEAN, flowing: BOOLEAN, buffer: Seq(Chunk), eof: BOOLEAN,
   ended: BOOLEAN, destroyed: BOOLEAN, closes: Nat,
   layers: SUBSET {"abort", "waits", "mock"}, nativeClose: BOOLEAN,
   corked: BOOLEAN, corkedReads: Seq(Chunk \cup {EndRead, CloseRead}),
   endPushed: BOOLEAN, swapped: BOOLEAN, real: RealState, paused: BOOLEAN,
   pendingWrites: Seq(Chunk), pendingEnd: BOOLEAN, backpressured: BOOLEAN,
   flushScheduled: BOOLEAN, ticks: Seq(Tick), sent: Seq(Chunk), heard: Seq(Chunk)]

\* op(c, s[1]), and op() of what this gives and s[2], and so on: FoldLeft, written
\* as a recursive function.
Iterate(op(_, _), c, s) ==
  LET f[n \in 0..Len(s)] == IF n = 0 THEN c ELSE op(f[n - 1], s[n])
  IN  f[Len(s)]

Later(c, tick) == [c EXCEPT !.ticks = Append(@, tick)]
Emitted(c, chunk) == [c EXCEPT !.sent = Append(@, chunk)]

-----------------------------------------------------------------------------
(* Destroying and closing.                                                   *)

\* net.Socket._destroy(): close the handle, whose callback emits "close".  A
\* handle the real connection has closed already has no such callback; one that
\* is closed here takes the real connection's with it.
CloseHandle(c) ==
  IF ~c.swapped THEN [c EXCEPT !.nativeClose = TRUE]
  ELSE IF c.real \in {"open", "finished"}
  THEN [c EXCEPT !.nativeClose = TRUE, !.real = "severed"]
  ELSE c

CloseUndelivered(c) == [c EXCEPT !.layers = @ \ {"waits"}]

\* deliverClose(): "close" on the next tick, unless it was emitted by then.
DeliverClose(c) ==
  IF "waits" \in c.layers
  THEN Later([c EXCEPT !.layers = @ \ {"waits"}], "closeUnlessClosed") ELSE c

\* socket.destroy(), through the overrides of _destroy().  A mocked response
\* has replaced whatever was there before: it emits "close" by itself and
\* leaves the handle alone.
Destroy(c) ==
  IF c.destroyed THEN c
  ELSE LET d == DeliverClose([c EXCEPT !.destroyed = TRUE]) IN
       IF "mock" \in c.layers THEN Later(d, "close") ELSE CloseHandle(d)

RealAfterClose(c) == IF c.real = "none" THEN "none" ELSE "gone"

\* "close" on the client, and the controller's own listener to it.
EmitClose(c) ==
  [c EXCEPT !.closes = @ + 1, !.real = RealAfterClose(c),
            !.corked = FALSE, !.corkedReads = <<>>]

\* #emitClientClose(): a connection that ended gracefully closes only once its
\* consumer has read the end, or has destroyed the socket.
CloseMustWait(c) == c.endPushed /\ ~c.ended /\ ~c.destroyed

EmitClientClose(c) ==
  IF CloseMustWait(c) THEN [c EXCEPT !.layers = @ \cup {"waits"}] ELSE EmitClose(c)

-----------------------------------------------------------------------------
(* The client's buffer.                                                      *)

\* socket.push(chunk): straight to a consumer that is listening.
Push(c, chunk) ==
  IF c.destroyed THEN c
  ELSE IF c.eof THEN Destroy(c)
  ELSE IF c.flowing /\ c.buffer = <<>> THEN [c EXCEPT !.heard = Append(@, chunk)]
  ELSE [c EXCEPT !.buffer = Append(@, chunk)]

\* What push() returns.
TakesMore(c) == ~c.destroyed /\ ~c.eof /\ Len(c.buffer) < HighWaterMark

PushEnd(c) == IF c.destroyed THEN c ELSE [c EXCEPT !.eof = TRUE]

\* flushPendingWrites() of the server socket: push until the client is full,
\* and the end only behind the last of the writes.
FlushWrite(c, chunk) ==
  IF c.backpressured THEN c
  ELSE LET d == Push([c EXCEPT !.pendingWrites = Tail(@)], chunk) IN
       [d EXCEPT !.backpressured = ~TakesMore(d)]

FlushEnd(c) ==
  IF c.pendingEnd THEN PushEnd([c EXCEPT !.pendingEnd = FALSE]) ELSE c

FlushEndLast(c) == IF c.backpressured THEN c ELSE FlushEnd(c)

FlushServer(c) ==
  IF c.connecting
  THEN [c EXCEPT !.backpressured = TRUE, !.flushScheduled = TRUE]
  ELSE FlushEndLast(Iterate(FlushWrite, [c EXCEPT !.backpressured = FALSE],
                            c.pendingWrites))

\* _read(): the consumer wants more.  Whoever stopped for want of room goes on.
ServerWaits(c) == c.pendingWrites # <<>> \/ c.pendingEnd \/ c.backpressured

OnRead(c) ==
  LET d == [c EXCEPT !.paused = FALSE] IN
  IF ServerWaits(d) THEN FlushServer(d) ELSE d

\* socket.read() of one chunk; the stream asks for more before it hands it over.
ReadChunk(c) ==
  LET d == IF Len(c.buffer) - 1 < HighWaterMark /\ ~c.eof THEN OnRead(c) ELSE c IN
  [d EXCEPT !.heard = Append(@, Head(d.buffer)), !.buffer = Tail(@)]

\* "end", once the buffer is read; it delivers a "close" that waits for it.
EmitEnd(c) == DeliverClose([c EXCEPT !.ended = TRUE])

\* "connect" and "ready" on the client; the latter is what a flush may wait for.
Connect(c) ==
  LET d == [c EXCEPT !.connecting = FALSE, !.flushScheduled = FALSE] IN
  IF c.flushScheduled THEN FlushServer(d) ELSE d

\* write() and end() of the server socket.
ServerWrite(c, chunk) ==
  LET d == Emitted([c EXCEPT !.pendingWrites = Append(@, chunk)], chunk) IN
  IF c.backpressured THEN d ELSE FlushServer(d)

ServerEnd(c) == FlushServer([c EXCEPT !.pendingEnd = TRUE])

-----------------------------------------------------------------------------
(* The events of the real connection, and the cork.                          *)

PushReal(c, chunk) ==
  LET d == Push(c, chunk) IN IF TakesMore(d) THEN d ELSE [d EXCEPT !.paused = TRUE]

PushRealEnd(c) == PushEnd([c EXCEPT !.endPushed = TRUE])

\* #onRealSocketConnect(): the client takes over the handle, unless it is
\* destroyed by now.
OnRealConnect(c) ==
  IF c.destroyed THEN [c EXCEPT !.real = "gone"]
  ELSE Connect([c EXCEPT !.real = "open", !.swapped = TRUE])

OnRealData(c, chunk) ==
  LET d == Emitted(c, chunk) IN
  IF c.corked THEN [d EXCEPT !.corkedReads = Append(@, chunk)] ELSE PushReal(d, chunk)

OnRealEnd(c) ==
  LET d == [c EXCEPT !.real = "finished"] IN
  IF c.corked THEN [d EXCEPT !.corkedReads = Append(@, EndRead)] ELSE PushRealEnd(d)

\* #onRealSocketError(): a client with a swapped handle, which is closed by now,
\* would never emit "close" by itself.
OnRealError(c) ==
  LET d == [c EXCEPT !.real = "closing"] IN
  IF c.destroyed THEN d
  ELSE IF c.swapped THEN Later(Destroy(d), "close")
  ELSE Destroy(d)

ClosesOnlyIfClosed(c) == c.closes > 0
ClosesByItself(c) == c.closes > 0 \/ (c.destroyed /\ ~c.swapped)

OnRealClose(c) ==
  LET d == [c EXCEPT !.real = "gone"] IN
  IF c.corked THEN [d EXCEPT !.corkedReads = Append(@, CloseRead)]
  ELSE IF ClosesByItself(d) THEN d
  ELSE EmitClientClose(d)

Cork(c) == [c EXCEPT !.corked = TRUE]

Replay(c, read) ==
  CASE read = EndRead -> PushRealEnd(c)
    [] read = CloseRead -> EmitClientClose(c)
    [] OTHER -> PushReal(c, read)

ReplayBackwards(c) ==
  FoldRight(LAMBDA read, d: Replay(d, read), c.corkedReads,
            [c EXCEPT !.corked = FALSE, !.corkedReads = <<>>])

\* uncorkReads(): what arrived meanwhile, in its order.
Uncork(c) ==
  IF c.corked
  THEN Iterate(Replay, [c EXCEPT !.corked = FALSE, !.corkedReads = <<>>], c.corkedReads)
  ELSE c
===============================================================================
