------------------------ MODULE HttpExchanges_proofs -------------------------
(***************************************************************************)
(* Proofs about HttpExchanges and the operations of ClientReads, for any    *)
(* number of requests, chunks and pauses: its types and targets, and that    *)
(* it implements ReadStream.  What is in line between the server and the     *)
(* consumer is the invariant of that, and each step is shown to keep it.     *)
(***************************************************************************)
EXTENDS HttpExchanges, SequenceTheorems, WellFoundedInduction, TLAPS

-----------------------------------------------------------------------------
(* Operations on a connection.                                               *)

LiveStates == {"connecting", "open", "finished", "severed"}

\* What no operation undoes.  The source's hook stays in _destroy() unless a
\* mocked response replaces it, and only passthrough() and a decline dial.
Follows(c, d) ==
  /\ c.destroyed => d.destroyed
  /\ "mock" \in c.layers => "mock" \in d.layers
  /\ "abort" \in d.layers \/ "mock" \in d.layers
  /\ d.real \in LiveStates => c.real \in LiveStates

\* The connections over the chunks C and the ticks T that c may become, while its
\* consumer does not read.
After(c, C, T) ==
  {d \in Connections(C, T) : Follows(c, d) /\ (c.buffer # <<>> => d.buffer # <<>>)}

\* What a connection may have to do on its own account.
OwnTicks == {"close", "closeUnlessClosed", "eof", "destroy"}

\* A tick is queued (Later).
LEMMA LaterAfter ==
  ASSUME NEW C, NEW T, NEW c, NEW d \in After(c, C, T), NEW t \in T
  PROVE  Later(d, t) \in After(c, C, T)
<1>1. d \in Connections(C, T)
  BY DEF After
<1>2. Append(d.ticks, t) \in Seq(T)
  BY <1>1 DEF Connections
<1>3. Later(d, t) \in Connections(C, T)
  BY <1>1, <1>2 DEF Connections, Later
<1>4. Follows(c, Later(d, t)) /\ Later(d, t).buffer = d.buffer
  BY <1>1 DEF After, Follows, Connections, Later
<1>5. QED
  BY <1>3, <1>4 DEF After

\* The handle is closed (net.Socket._destroy()).
LEMMA CloseHandleAfter ==
  ASSUME NEW C, NEW T, NEW c, NEW d \in After(c, C, T)
  PROVE  CloseHandle(d) \in After(c, C, T)
<1>1. d \in Connections(C, T)
  BY DEF After
<1>2. CloseHandle(d) \in Connections(C, T)
  <2>1. [d EXCEPT !.nativeClose = TRUE] \in Connections(C, T)
    BY <1>1 DEF Connections
  <2>2. [d EXCEPT !.nativeClose = TRUE, !.real = "severed"] \in Connections(C, T)
    BY <1>1 DEF Connections, RealState
  <2>3. QED
    BY <1>1, <2>1, <2>2 DEF CloseHandle
<1>3. Follows(c, CloseHandle(d)) /\ CloseHandle(d).buffer = d.buffer
  BY <1>1 DEF After, Follows, Connections, CloseHandle, LiveStates
<1>4. QED
  BY <1>2, <1>3 DEF After

\* deliverClose() takes its own override out of the layers.
LEMMA DeliverCloseAfter ==
  ASSUME NEW C, NEW T, OwnTicks \subseteq T, NEW c, NEW d \in After(c, C, T)
  PROVE  DeliverClose(d) \in After(c, C, T)
<1>1. PICK e : e = [d EXCEPT !.layers = @ \ {"waits"}]
  OBVIOUS
<1>2. e \in After(c, C, T)
  BY <1>1 DEF After, Follows, Connections
<1>3. QED
  BY <1>1, <1>2, LaterAfter DEF DeliverClose, OwnTicks

\* destroy(), through the layers of _destroy().
LEMMA DestroyAfter ==
  ASSUME NEW C, NEW T, OwnTicks \subseteq T, NEW c, NEW d \in After(c, C, T)
  PROVE  Destroy(d) \in After(c, C, T)
<1>1. PICK e : e = [d EXCEPT !.destroyed = TRUE]
  OBVIOUS
<1>2. e \in After(c, C, T)
  BY <1>1 DEF After, Follows, Connections
<1>3. PICK f : f = DeliverClose(e)
  OBVIOUS
<1>4. f \in After(c, C, T)
  BY <1>2, <1>3, DeliverCloseAfter
<1>5. Later(f, "close") \in After(c, C, T) /\ CloseHandle(f) \in After(c, C, T)
  BY <1>4, LaterAfter, CloseHandleAfter DEF OwnTicks
<1>6. QED
  BY <1>1, <1>3, <1>5 DEF Destroy

\* "close" on the client.
LEMMA EmitCloseAfter ==
  ASSUME NEW C, NEW T, NEW c, NEW d \in After(c, C, T)
  PROVE  EmitClose(d) \in After(c, C, T)
<1>1. d \in Connections(C, T)
  BY DEF After
<1>2. d.closes + 1 \in Nat /\ RealAfterClose(d) \in RealState
  BY <1>1 DEF Connections, RealAfterClose, RealState
<1>3. EmitClose(d) \in Connections(C, T)
  <2>1. [d EXCEPT !.closes = @ + 1, !.real = RealAfterClose(d)] \in Connections(C, T)
    BY <1>1, <1>2 DEF Connections
  <2>2. PICK e : e = [d EXCEPT !.closes = @ + 1, !.real = RealAfterClose(d)]
    OBVIOUS
  <2>3. [e EXCEPT !.corked = FALSE, !.corkedReads = <<>>] \in Connections(C, T)
    <3>1. <<>> \in Seq(C \cup {EndRead, CloseRead})
      OBVIOUS
    <3>2. QED
      BY ZenonT(60), <2>1, <2>2, <3>1 DEF Connections
  <2>4. EmitClose(d) = [e EXCEPT !.corked = FALSE, !.corkedReads = <<>>]
    BY <1>1, <2>2 DEF Connections, EmitClose
  <2>5. QED
    BY <2>3, <2>4
<1>4. Follows(c, EmitClose(d)) /\ EmitClose(d).buffer = d.buffer
  BY <1>1 DEF After, Follows, Connections, EmitClose, RealAfterClose, LiveStates
<1>5. QED
  BY <1>3, <1>4 DEF After

\* #emitClientClose() emits it, or waits for the consumer.
LEMMA EmitClientCloseAfter ==
  ASSUME NEW C, NEW T, NEW c, NEW d \in After(c, C, T)
  PROVE  EmitClientClose(d) \in After(c, C, T)
<1>1. [d EXCEPT !.layers = @ \cup {"waits"}] \in After(c, C, T)
  BY DEF After, Follows, Connections
<1>2. QED
  BY <1>1, EmitCloseAfter DEF EmitClientClose

\* push() and push(null).
LEMMA PushAfter ==
  ASSUME NEW C, NEW T, OwnTicks \subseteq T, NEW c, NEW d \in After(c, C, T),
         NEW chunk \in C
  PROVE  Push(d, chunk) \in After(c, C, T)
<1>1. d \in Connections(C, T)
  BY DEF After
<1>2. [d EXCEPT !.heard = Append(@, chunk)] \in After(c, C, T)
  <2>1. Append(d.heard, chunk) \in Seq(C)
    BY <1>1 DEF Connections
  <2>2. PICK e : e = [d EXCEPT !.heard = Append(@, chunk)]
    OBVIOUS
  <2>3. e \in Connections(C, T)
    BY <1>1, <2>1, <2>2 DEF Connections
  <2>4. Follows(c, e) /\ e.buffer = d.buffer
    BY <1>1, <2>2 DEF After, Follows, Connections
  <2>5. QED
    BY <2>2, <2>3, <2>4 DEF After
<1>3. [d EXCEPT !.buffer = Append(@, chunk)] \in After(c, C, T)
  <2>1. Append(d.buffer, chunk) \in Seq(C) /\ Append(d.buffer, chunk) # <<>>
    BY <1>1 DEF Connections
  <2>2. PICK e : e = [d EXCEPT !.buffer = Append(@, chunk)]
    OBVIOUS
  <2>3. e \in Connections(C, T)
    BY <1>1, <2>1, <2>2 DEF Connections
  <2>4. Follows(c, e) /\ e.buffer # <<>>
    BY <1>1, <2>1, <2>2 DEF After, Follows, Connections
  <2>5. QED
    BY <2>2, <2>3, <2>4 DEF After
<1>4. QED
  BY <1>2, <1>3, DestroyAfter DEF Push

\* push(null).
LEMMA PushEndAfter ==
  ASSUME NEW C, NEW T, NEW c, NEW d \in After(c, C, T)
  PROVE  PushEnd(d) \in After(c, C, T)
<1>1. d \in Connections(C, T)
  BY DEF After
<1>2. PushEnd(d) \in Connections(C, T)
  <2>1. CASE d.destroyed
    BY <1>1, <2>1 DEF PushEnd
  <2>2. CASE ~d.destroyed
    <3>1. PushEnd(d) = [d EXCEPT !.eof = TRUE]
      BY <2>2 DEF PushEnd
    <3>2. [d EXCEPT !.eof = TRUE] \in Connections(C, T)
      BY <1>1 DEF Connections
    <3>3. QED
      BY <3>1, <3>2
  <2>3. QED
    BY <2>1, <2>2
<1>3. Follows(c, PushEnd(d)) /\ PushEnd(d).buffer = d.buffer
  BY <1>1 DEF After, Follows, Connections, PushEnd
<1>4. QED
  BY <1>2, <1>3 DEF After

-----------------------------------------------------------------------------
(* Iteration.  A set of natural numbers has a least element, so whatever holds *)
(* of 0 and of i + 1 when it holds of i, holds of every index.                  *)

Below == {p \in Nat \X Nat : p[1] < p[2]}

\* The least of a set of natural numbers.
LEMMA LeastNatural ==
  ASSUME NEW I, I \subseteq Nat, I # {}
  PROVE  \E i \in I : \A j \in I : i <= j
<1>1. IsWellFoundedOn(Below, Nat)
  BY NatLessThanWellFounded DEF OpToRel, Below
<1>2. PICK i \in I : \A j \in I : <<j, i>> \notin Below
  BY <1>1, WFMin
<1>3. \A j \in I : ~(j < i)
  BY <1>2 DEF Below
<1>4. QED
  BY <1>2, <1>3

\* Induction up to n.
LEMMA Induction ==
  ASSUME NEW n \in Nat, NEW I, 0 \in I, \A i \in 0..n - 1 : i \in I => i + 1 \in I
  PROVE  0..n \subseteq I
<1>1. PICK J : J = {i \in 0..n : i \notin I}
  OBVIOUS
<1>2. J \subseteq Nat
  BY <1>1
<1>3. ASSUME J # {} PROVE FALSE
  <2>1. PICK i \in J : \A j \in J : i <= j
    BY <1>2, <1>3, LeastNatural
  <2>2. i \in 1..n
    BY <1>1, <2>1
  <2>3. i - 1 \in 0..n - 1 /\ ~(i <= i - 1) /\ (i - 1) + 1 = i
    BY <2>2
  <2>4. i - 1 \in I
    BY <1>1, <2>1, <2>3
  <2>5. QED
    BY <1>1, <2>1, <2>3, <2>4
<1>4. QED
  BY <1>1, <1>3

\* What Iterate() computes for the calls of Replay().
Replays(f, c, s, n) == f = [i \in 0..n |-> IF i = 0 THEN c ELSE Replay(f[i - 1], s[i])]

\* That function exists.
LEMMA ReplaysExist ==
  ASSUME NEW c, NEW s, Len(s) \in Nat
  PROVE  \E f : Replays(f, c, s, Len(s))
<1>1. PICK I : I = {n \in Nat : \E f : Replays(f, c, s, n)}
  OBVIOUS
<1>2. 0 \in I
  <2>1. PICK f : f = [i \in 0..0 |-> c]
    OBVIOUS
  <2>2. Replays(f, c, s, 0)
    BY <2>1 DEF Replays
  <2>3. QED
    BY <1>1, <2>2
<1>3. ASSUME NEW n \in 0..Len(s) - 1, n \in I PROVE n + 1 \in I
  <2>1. PICK g : Replays(g, c, s, n)
    BY <1>1, <1>3
  <2>2. PICK f : f = [i \in 0..n + 1 |-> IF i = 0 THEN c ELSE Replay(g[i - 1], s[i])]
    OBVIOUS
  <2>3. \A i \in 0..n : f[i] = g[i]
    BY <2>1, <2>2 DEF Replays
  <2>4. \A i \in 0..n + 1 : i # 0 => i - 1 \in 0..n
    OBVIOUS
  <2>5. f = [i \in 0..n + 1 |-> IF i = 0 THEN c ELSE Replay(f[i - 1], s[i])]
    BY <2>2, <2>3, <2>4
  <2>6. Replays(f, c, s, n + 1)
    BY <2>5 DEF Replays
  <2>7. QED
    BY <1>1, <2>6
<1>4. 0..Len(s) \subseteq I
  BY <1>2, <1>3, Induction
<1>5. QED
  BY <1>1, <1>4

\* A replay stays in a set that each of its calls stays in (uncorkReads()).
LEMMA ReplayingStays ==
  ASSUME NEW S, NEW R, NEW c \in S, NEW s \in Seq(R),
         \A d \in S, r \in R : Replay(d, r) \in S
  PROVE  Iterate(Replay, c, s) \in S
<1>1. Len(s) \in Nat /\ \A i \in 1..Len(s) : s[i] \in R
  OBVIOUS
<1>2. PICK f : f = CHOOSE g :
        g = [i \in 0..Len(s) |-> IF i = 0 THEN c ELSE Replay(g[i - 1], s[i])]
  OBVIOUS
<1>3. f = [i \in 0..Len(s) |-> IF i = 0 THEN c ELSE Replay(f[i - 1], s[i])]
  <2>1. PICK g : Replays(g, c, s, Len(s))
    BY <1>1, ReplaysExist
  <2>2. g = [i \in 0..Len(s) |-> IF i = 0 THEN c ELSE Replay(g[i - 1], s[i])]
    BY <2>1 DEF Replays
  <2>3. QED
    BY <1>2, <2>2
<1>4. PICK I : I = {i \in 0..Len(s) : f[i] \in S}
  OBVIOUS
<1>5. 0 \in I
  BY <1>1, <1>3, <1>4
<1>6. ASSUME NEW i \in 0..Len(s) - 1, i \in I PROVE i + 1 \in I
  <2>1. i + 1 \in 1..Len(s) /\ (i + 1) - 1 = i
    BY <1>1
  <2>2. f[i + 1] = Replay(f[i], s[i + 1])
    BY <1>3, <2>1
  <2>3. QED
    BY <1>1, <1>4, <1>6, <2>1, <2>2
<1>7. 0..Len(s) \subseteq I
  BY <1>1, <1>5, <1>6, Induction
<1>8. Iterate(Replay, c, s) = f[Len(s)]
  BY <1>2 DEF Iterate
<1>9. QED
  BY <1>1, <1>4, <1>7, <1>8

-----------------------------------------------------------------------------
(* The operations that iterate.                                              *)

\* What Iterate() computes for the calls of FlushWrite().
Flushes(f, c, s, n) ==
  f = [i \in 0..n |-> IF i = 0 THEN c ELSE FlushWrite(f[i - 1], s[i])]

\* That function exists.
LEMMA FlushesExist ==
  ASSUME NEW c, NEW s, Len(s) \in Nat
  PROVE  \E f : Flushes(f, c, s, Len(s))
<1>1. PICK I : I = {n \in Nat : \E f : Flushes(f, c, s, n)}
  OBVIOUS
<1>2. 0 \in I
  <2>1. PICK f : f = [i \in 0..0 |-> c]
    OBVIOUS
  <2>2. Flushes(f, c, s, 0)
    BY <2>1 DEF Flushes
  <2>3. QED
    BY <1>1, <2>2
<1>3. ASSUME NEW n \in 0..Len(s) - 1, n \in I PROVE n + 1 \in I
  <2>1. PICK g : Flushes(g, c, s, n)
    BY <1>1, <1>3
  <2>2. PICK f : f = [i \in 0..n + 1 |-> IF i = 0 THEN c ELSE FlushWrite(g[i - 1], s[i])]
    OBVIOUS
  <2>3. \A i \in 0..n : f[i] = g[i]
    BY <2>1, <2>2 DEF Flushes
  <2>4. \A i \in 0..n + 1 : i # 0 => i - 1 \in 0..n
    OBVIOUS
  <2>5. f = [i \in 0..n + 1 |-> IF i = 0 THEN c ELSE FlushWrite(f[i - 1], s[i])]
    BY <2>2, <2>3, <2>4
  <2>6. Flushes(f, c, s, n + 1)
    BY <2>5 DEF Flushes
  <2>7. QED
    BY <1>1, <2>6
<1>4. 0..Len(s) \subseteq I
  BY <1>2, <1>3, Induction
<1>5. QED
  BY <1>1, <1>4

\* A connection that may be halfway through flushPendingWrites(): unless the client
\* is full, n writes are pending.
Flushing(c, C, T, n) ==
  {d \in After(c, C, T) : d.backpressured \/ Len(d.pendingWrites) = n}

\* A push leaves the pending writes of the server socket alone.
LEMMA PushKeepsWrites ==
  ASSUME NEW C, NEW T, NEW d \in Connections(C, T), NEW chunk
  PROVE  Push(d, chunk).pendingWrites = d.pendingWrites
BY DEF Connections, Push, Destroy, DeliverClose, CloseHandle, Later

\* One pending write is pushed, unless the client is full.
LEMMA FlushWriteAfter ==
  ASSUME NEW C, NEW T, OwnTicks \subseteq T, NEW c, NEW n \in Nat,
         NEW d \in Flushing(c, C, T, n + 1), NEW chunk \in C
  PROVE  FlushWrite(d, chunk) \in Flushing(c, C, T, n)
<1>1. d \in After(c, C, T) /\ (d.backpressured \/ Len(d.pendingWrites) = n + 1)
  BY DEF Flushing
<1>2. CASE d.backpressured
  BY <1>1, <1>2 DEF FlushWrite, Flushing
<1>3. CASE ~d.backpressured
  <2>1. d \in Connections(C, T) /\ d.pendingWrites \in Seq(C)
    BY <1>1 DEF After, Connections
  <2>2. Tail(d.pendingWrites) \in Seq(C) /\ Len(Tail(d.pendingWrites)) = n
    BY <1>1, <1>3, <2>1
  <2>3. PICK e : e = [d EXCEPT !.pendingWrites = Tail(@)]
    OBVIOUS
  <2>4. e \in After(c, C, T) /\ Len(e.pendingWrites) = n
    <3>1. e \in Connections(C, T)
      BY <2>1, <2>2, <2>3 DEF Connections
    <3>2. Follows(c, e) /\ e.buffer = d.buffer /\ e.pendingWrites = Tail(d.pendingWrites)
      BY <1>1, <2>1, <2>3 DEF After, Follows, Connections
    <3>3. QED
      BY <1>1, <2>2, <3>1, <3>2 DEF After
  <2>5. PICK g : g = Push(e, chunk)
    OBVIOUS
  <2>6. g \in After(c, C, T) /\ Len(g.pendingWrites) = n
    BY <2>4, <2>5, PushAfter, PushKeepsWrites DEF After
  <2>7. PICK h : h = [g EXCEPT !.backpressured = ~TakesMore(g)]
    OBVIOUS
  <2>8. h \in After(c, C, T) /\ Len(h.pendingWrites) = n
    <3>1. g \in Connections(C, T)
      BY <2>6 DEF After
    <3>2. h \in Connections(C, T)
      BY <2>7, <3>1 DEF Connections, TakesMore
    <3>3. Follows(c, h) /\ h.buffer = g.buffer /\ h.pendingWrites = g.pendingWrites
      BY <2>6, <2>7, <3>1 DEF After, Follows, Connections
    <3>4. QED
      BY <2>6, <3>2, <3>3 DEF After
  <2>9. FlushWrite(d, chunk) = h
    BY <1>3, <2>3, <2>5, <2>7 DEF FlushWrite
  <2>10. QED
    BY <2>8, <2>9 DEF Flushing
<1>4. QED
  BY <1>2, <1>3

\* All of them are (flushPendingWrites()).
LEMMA FlushingStays ==
  ASSUME NEW C, NEW T, OwnTicks \subseteq T, NEW c, NEW s \in Seq(C),
         NEW d \in Flushing(c, C, T, Len(s))
  PROVE  Iterate(FlushWrite, d, s) \in After(c, C, T)
<1>1. Len(s) \in Nat /\ \A i \in 1..Len(s) : s[i] \in C
  OBVIOUS
<1>2. PICK f : f = CHOOSE g :
        g = [i \in 0..Len(s) |-> IF i = 0 THEN d ELSE FlushWrite(g[i - 1], s[i])]
  OBVIOUS
<1>3. f = [i \in 0..Len(s) |-> IF i = 0 THEN d ELSE FlushWrite(f[i - 1], s[i])]
  <2>1. PICK g : Flushes(g, d, s, Len(s))
    BY <1>1, FlushesExist
  <2>2. g = [i \in 0..Len(s) |-> IF i = 0 THEN d ELSE FlushWrite(g[i - 1], s[i])]
    BY <2>1 DEF Flushes
  <2>3. QED
    BY <1>2, <2>2
<1>4. PICK I : I = {i \in 0..Len(s) : f[i] \in Flushing(c, C, T, Len(s) - i)}
  OBVIOUS
<1>5. 0 \in I
  <2>1. f[0] = d /\ Len(s) - 0 = Len(s) /\ 0 \in 0..Len(s)
    BY <1>1, <1>3
  <2>2. QED
    BY <1>4, <2>1
<1>6. ASSUME NEW i \in 0..Len(s) - 1, i \in I PROVE i + 1 \in I
  <2>1. i + 1 \in 1..Len(s) /\ (i + 1) - 1 = i /\ i + 1 \in 0..Len(s)
    BY <1>1
  <2>2. f[i + 1] = FlushWrite(f[i], s[i + 1]) /\ s[i + 1] \in C
    BY <1>1, <1>3, <2>1
  <2>3. PICK n : n = Len(s) - (i + 1)
    OBVIOUS
  <2>7. n \in Nat /\ n + 1 = Len(s) - i
    BY <1>1, <2>3
  <2>4. f[i] \in Flushing(c, C, T, n + 1)
    BY <1>4, <1>6, <2>7
  <2>5. f[i + 1] \in Flushing(c, C, T, n)
    BY <2>2, <2>4, <2>7, FlushWriteAfter
  <2>6. QED
    BY <1>4, <2>1, <2>3, <2>5
<1>7. Len(s) \in I
  <2>1. 0..Len(s) \subseteq I
    BY <1>1, <1>5, <1>6, Induction
  <2>2. Len(s) \in 0..Len(s)
    BY <1>1
  <2>3. QED
    BY <2>1, <2>2
<1>8. Iterate(FlushWrite, d, s) = f[Len(s)]
  BY <1>2 DEF Iterate
<1>9. QED
  BY <1>4, <1>7, <1>8 DEF Flushing

\* The end follows the last of the writes.
LEMMA FlushEndLastAfter ==
  ASSUME NEW C, NEW T, OwnTicks \subseteq T, NEW c, NEW d \in After(c, C, T)
  PROVE  FlushEndLast(d) \in After(c, C, T)
<1>1. [d EXCEPT !.pendingEnd = FALSE] \in After(c, C, T)
  <2>1. d \in Connections(C, T)
    BY DEF After
  <2>2. PICK e : e = [d EXCEPT !.pendingEnd = FALSE]
    OBVIOUS
  <2>3. e \in Connections(C, T)
    BY <2>1, <2>2 DEF Connections
  <2>4. Follows(c, e) /\ e.buffer = d.buffer
    BY <2>1, <2>2 DEF After, Follows, Connections
  <2>5. QED
    BY <2>2, <2>3, <2>4 DEF After
<1>2. QED
  BY <1>1, PushEndAfter DEF FlushEndLast, FlushEnd

\* flushPendingWrites().
LEMMA FlushServerAfter ==
  ASSUME NEW C, NEW T, OwnTicks \subseteq T, NEW c, NEW d \in After(c, C, T)
  PROVE  FlushServer(d) \in After(c, C, T)
<1>1. d \in Connections(C, T) /\ d.pendingWrites \in Seq(C)
  BY DEF After, Connections
<1>2. CASE d.connecting
  <2>1. PICK e : e = [d EXCEPT !.backpressured = TRUE, !.flushScheduled = TRUE]
    OBVIOUS
  <2>2. e \in Connections(C, T)
    BY <1>1, <2>1 DEF Connections
  <2>3. Follows(c, e) /\ e.buffer = d.buffer
    BY <1>1, <2>1 DEF After, Follows, Connections
  <2>4. QED
    BY <1>2, <2>1, <2>2, <2>3 DEF After, FlushServer
<1>3. CASE ~d.connecting
  <2>1. PICK e : e = [d EXCEPT !.backpressured = FALSE]
    OBVIOUS
  <2>2. e \in Connections(C, T)
    BY <1>1, <2>1 DEF Connections
  <2>3. Follows(c, e) /\ e.buffer = d.buffer /\ e.pendingWrites = d.pendingWrites
    BY <1>1, <2>1 DEF After, Follows, Connections
  <2>4. e \in Flushing(c, C, T, Len(d.pendingWrites))
    BY <2>2, <2>3 DEF After, Flushing
  <2>5. Iterate(FlushWrite, e, d.pendingWrites) \in After(c, C, T)
    BY <1>1, <2>4, FlushingStays
  <2>6. FlushServer(d) = FlushEndLast(Iterate(FlushWrite, e, d.pendingWrites))
    BY <1>3, <2>1 DEF FlushServer
  <2>7. QED
    BY <2>5, <2>6, FlushEndLastAfter
<1>4. QED
  BY <1>2, <1>3

\* _read() of the client.
LEMMA OnReadAfter ==
  ASSUME NEW C, NEW T, OwnTicks \subseteq T, NEW c, NEW d \in After(c, C, T)
  PROVE  OnRead(d) \in After(c, C, T)
<1>1. PICK e : e = [d EXCEPT !.paused = FALSE]
  OBVIOUS
<1>2. d \in Connections(C, T)
  BY DEF After
<1>3. e \in Connections(C, T)
  BY <1>1, <1>2 DEF Connections
<1>4. Follows(c, e) /\ e.buffer = d.buffer
  BY <1>1, <1>2 DEF After, Follows, Connections
<1>5. e \in After(c, C, T)
  BY <1>3, <1>4 DEF After
<1>6. QED
  BY <1>1, <1>5, FlushServerAfter DEF OnRead

\* read() of one chunk takes it out of the buffer.
LEMMA ReadChunkFollows ==
  ASSUME NEW C, NEW T, OwnTicks \subseteq T, NEW c, NEW d \in After(c, C, T),
         c.buffer # <<>>
  PROVE  ReadChunk(d) \in Connections(C, T) /\ Follows(c, ReadChunk(d))
<1>1. PICK e : e = IF Len(d.buffer) - 1 < HighWaterMark /\ ~d.eof THEN OnRead(d) ELSE d
  OBVIOUS
<1>2. e \in After(c, C, T)
  BY <1>1, OnReadAfter
<1>3. e \in Connections(C, T) /\ e.buffer # <<>>
  BY <1>2 DEF After
<1>4. e.buffer \in Seq(C) /\ e.heard \in Seq(C)
  BY <1>3 DEF Connections
<1>5. Head(e.buffer) \in C /\ Tail(e.buffer) \in Seq(C)
  BY <1>3, <1>4
<1>6. Append(e.heard, Head(e.buffer)) \in Seq(C)
  BY <1>4, <1>5
<1>7. PICK f : f = [e EXCEPT !.heard = Append(@, Head(e.buffer)), !.buffer = Tail(@)]
  OBVIOUS
<1>8. f \in Connections(C, T)
  BY <1>3, <1>5, <1>6, <1>7 DEF Connections
<1>9. Follows(c, f)
  BY <1>2, <1>3, <1>7 DEF After, Follows, Connections
<1>10. QED
  BY <1>1, <1>7, <1>8, <1>9 DEF ReadChunk

\* "end" of the client.
LEMMA EmitEndAfter ==
  ASSUME NEW C, NEW T, OwnTicks \subseteq T, NEW c, NEW d \in After(c, C, T)
  PROVE  EmitEnd(d) \in After(c, C, T)
<1>1. PICK e : e = [d EXCEPT !.ended = TRUE]
  OBVIOUS
<1>2. d \in Connections(C, T)
  BY DEF After
<1>3. e \in Connections(C, T)
  BY <1>1, <1>2 DEF Connections
<1>4. Follows(c, e) /\ e.buffer = d.buffer
  BY <1>1, <1>2 DEF After, Follows, Connections
<1>5. e \in After(c, C, T)
  BY <1>3, <1>4 DEF After
<1>6. QED
  BY <1>1, <1>5, DeliverCloseAfter DEF EmitEnd

\* "connect" of the client.
LEMMA ConnectAfter ==
  ASSUME NEW C, NEW T, OwnTicks \subseteq T, NEW c, NEW d \in After(c, C, T)
  PROVE  Connect(d) \in After(c, C, T)
<1>1. PICK e : e = [d EXCEPT !.connecting = FALSE, !.flushScheduled = FALSE]
  OBVIOUS
<1>2. d \in Connections(C, T)
  BY DEF After
<1>3. e \in Connections(C, T)
  BY <1>1, <1>2 DEF Connections
<1>4. Follows(c, e) /\ e.buffer = d.buffer
  BY <1>1, <1>2 DEF After, Follows, Connections
<1>5. e \in After(c, C, T)
  BY <1>3, <1>4 DEF After
<1>6. QED
  BY <1>1, <1>5, FlushServerAfter DEF Connect

\* write() of the server socket.
LEMMA ServerWriteAfter ==
  ASSUME NEW C, NEW T, OwnTicks \subseteq T, NEW c, NEW d \in After(c, C, T),
         NEW chunk \in C
  PROVE  ServerWrite(d, chunk) \in After(c, C, T)
<1>1. PICK e : e = Emitted([d EXCEPT !.pendingWrites = Append(@, chunk)], chunk)
  OBVIOUS
<1>2. d \in Connections(C, T)
  BY DEF After
<1>3. Append(d.pendingWrites, chunk) \in Seq(C) /\ Append(d.sent, chunk) \in Seq(C)
  BY <1>2 DEF Connections
<1>4. e \in Connections(C, T)
  BY <1>1, <1>2, <1>3 DEF Connections, Emitted
<1>5. Follows(c, e) /\ e.buffer = d.buffer
  BY <1>1, <1>2 DEF After, Follows, Connections, Emitted
<1>6. e \in After(c, C, T)
  BY <1>4, <1>5 DEF After
<1>7. QED
  BY <1>1, <1>6, FlushServerAfter DEF ServerWrite

\* end() of the server socket.
LEMMA ServerEndAfter ==
  ASSUME NEW C, NEW T, OwnTicks \subseteq T, NEW c, NEW d \in After(c, C, T)
  PROVE  ServerEnd(d) \in After(c, C, T)
<1>1. PICK e : e = [d EXCEPT !.pendingEnd = TRUE]
  OBVIOUS
<1>2. d \in Connections(C, T)
  BY DEF After
<1>3. e \in Connections(C, T)
  BY <1>1, <1>2 DEF Connections
<1>4. Follows(c, e) /\ e.buffer = d.buffer
  BY <1>1, <1>2 DEF After, Follows, Connections
<1>5. e \in After(c, C, T)
  BY <1>3, <1>4 DEF After
<1>6. QED
  BY <1>1, <1>5, FlushServerAfter DEF ServerEnd

-----------------------------------------------------------------------------
(* The events of the real connection, and the cork.                          *)

\* A read of the real connection is pushed, which may pause that connection.
LEMMA PushRealAfter ==
  ASSUME NEW C, NEW T, OwnTicks \subseteq T, NEW c, NEW d \in After(c, C, T),
         NEW chunk \in C
  PROVE  PushReal(d, chunk) \in After(c, C, T)
<1>1. PICK e : e = Push(d, chunk)
  OBVIOUS
<1>2. e \in After(c, C, T)
  BY <1>1, PushAfter
<1>3. e \in Connections(C, T)
  BY <1>2 DEF After
<1>4. [e EXCEPT !.paused = TRUE] \in After(c, C, T)
  <2>1. PICK f : f = [e EXCEPT !.paused = TRUE]
    OBVIOUS
  <2>2. f \in Connections(C, T)
    BY <1>3, <2>1 DEF Connections
  <2>3. Follows(c, f) /\ f.buffer = e.buffer
    BY <1>2, <1>3, <2>1 DEF After, Follows, Connections
  <2>4. QED
    BY <1>2, <2>1, <2>2, <2>3 DEF After
<1>5. QED
  BY <1>1, <1>2, <1>4 DEF PushReal

\* The end of the real connection is.
LEMMA PushRealEndAfter ==
  ASSUME NEW C, NEW T, OwnTicks \subseteq T, NEW c, NEW d \in After(c, C, T)
  PROVE  PushRealEnd(d) \in After(c, C, T)
<1>1. PICK e : e = [d EXCEPT !.endPushed = TRUE]
  OBVIOUS
<1>2. d \in Connections(C, T)
  BY DEF After
<1>3. e \in Connections(C, T)
  BY <1>1, <1>2 DEF Connections
<1>4. Follows(c, e) /\ e.buffer = d.buffer
  BY <1>1, <1>2 DEF After, Follows, Connections, LiveStates
<1>5. e \in After(c, C, T)
  BY <1>3, <1>4 DEF After
<1>6. QED
  BY <1>1, <1>5, PushEndAfter DEF PushRealEnd

\* #onRealSocketConnect().
LEMMA OnRealConnectAfter ==
  ASSUME NEW C, NEW T, OwnTicks \subseteq T, NEW c, NEW d \in After(c, C, T),
         d.real = "connecting"
  PROVE  OnRealConnect(d) \in After(c, C, T)
<1>1. PICK e : e = [d EXCEPT !.real = "open", !.swapped = TRUE]
  OBVIOUS
<1>2. d \in Connections(C, T)
  BY DEF After
<1>3. e \in Connections(C, T)
  BY <1>1, <1>2 DEF Connections, RealState
<1>4. Follows(c, e) /\ e.buffer = d.buffer
  BY <1>1, <1>2 DEF After, Follows, Connections, LiveStates, RealState
<1>5. e \in After(c, C, T)
  BY <1>3, <1>4 DEF After
<1>6. [d EXCEPT !.real = "gone"] \in After(c, C, T)
  <2>1. PICK f : f = [d EXCEPT !.real = "gone"]
    OBVIOUS
  <2>2. f \in Connections(C, T)
    BY <1>2, <2>1 DEF Connections, RealState
  <2>3. Follows(c, f) /\ f.buffer = d.buffer
    BY <1>2, <2>1 DEF After, Follows, Connections, LiveStates
  <2>4. QED
    BY <2>1, <2>2, <2>3 DEF After
<1>7. QED
  BY <1>1, <1>5, <1>6, ConnectAfter DEF OnRealConnect

\* A chunk is recorded as sent to the client.
LEMMA EmittedAfter ==
  ASSUME NEW C, NEW T, OwnTicks \subseteq T, NEW c, NEW d \in After(c, C, T),
         NEW chunk \in C
  PROVE  Emitted(d, chunk) \in After(c, C, T)
<1>1. PICK e : e = Emitted(d, chunk)
  OBVIOUS
<1>2. d \in Connections(C, T) /\ Append(d.sent, chunk) \in Seq(C)
  BY DEF After, Connections
<1>3. e \in Connections(C, T)
  BY <1>1, <1>2 DEF Connections, Emitted
<1>4. Follows(c, e) /\ e.buffer = d.buffer
  BY <1>1, <1>2 DEF After, Follows, Connections, Emitted
<1>5. QED
  BY <1>1, <1>3, <1>4 DEF After

\* A read that waits for uncorkReads().
LEMMA CorkedAfter ==
  ASSUME NEW C, NEW T, OwnTicks \subseteq T, NEW c, NEW d \in After(c, C, T),
         NEW read \in C \cup {EndRead, CloseRead}
  PROVE  [d EXCEPT !.corkedReads = Append(@, read)] \in After(c, C, T)
<1>1. PICK e : e = [d EXCEPT !.corkedReads = Append(@, read)]
  OBVIOUS
<1>2. d \in Connections(C, T)
  BY DEF After
<1>3. Append(d.corkedReads, read) \in Seq(C \cup {EndRead, CloseRead})
  <2>1. d.corkedReads \in Seq(C \cup {EndRead, CloseRead})
    BY <1>2 DEF Connections
  <2>2. PICK R : R = C \cup {EndRead, CloseRead}
    OBVIOUS
  <2>3. d.corkedReads \in Seq(R) /\ read \in R
    BY <2>1, <2>2
  <2>4. QED
    BY <2>2, <2>3
<1>4. e \in Connections(C, T)
  BY <1>1, <1>2, <1>3 DEF Connections
<1>5. Follows(c, e) /\ e.buffer = d.buffer
  BY <1>1, <1>2 DEF After, Follows, Connections
<1>6. QED
  BY <1>1, <1>4, <1>5 DEF After

\* "data" of the real connection.
LEMMA OnRealDataAfter ==
  ASSUME NEW C, NEW T, OwnTicks \subseteq T, NEW c, NEW d \in After(c, C, T),
         NEW chunk \in C
  PROVE  OnRealData(d, chunk) \in After(c, C, T)
<1>1. PICK e : e = Emitted(d, chunk)
  OBVIOUS
<1>2. e \in After(c, C, T)
  BY <1>1, EmittedAfter
<1>3. QED
  BY <1>1, <1>2, CorkedAfter, PushRealAfter DEF OnRealData

\* "end" of the real connection.
LEMMA OnRealEndAfter ==
  ASSUME NEW C, NEW T, OwnTicks \subseteq T, NEW c, NEW d \in After(c, C, T),
         d.real = "open"
  PROVE  OnRealEnd(d) \in After(c, C, T)
<1>1. PICK e : e = [d EXCEPT !.real = "finished"]
  OBVIOUS
<1>2. d \in Connections(C, T)
  BY DEF After
<1>3. e \in Connections(C, T)
  BY <1>1, <1>2 DEF Connections, RealState
<1>4. Follows(c, e) /\ e.buffer = d.buffer
  BY <1>1, <1>2 DEF After, Follows, Connections, LiveStates, RealState
<1>5. e \in After(c, C, T)
  BY <1>3, <1>4 DEF After
<1>6. QED
  BY <1>1, <1>5, CorkedAfter, PushRealEndAfter DEF OnRealEnd

\* #onRealSocketError().
LEMMA OnRealErrorAfter ==
  ASSUME NEW C, NEW T, OwnTicks \subseteq T, NEW c, NEW d \in After(c, C, T)
  PROVE  OnRealError(d) \in After(c, C, T)
<1>1. PICK e : e = [d EXCEPT !.real = "closing"]
  OBVIOUS
<1>2. d \in Connections(C, T)
  BY DEF After
<1>3. e \in Connections(C, T)
  BY <1>1, <1>2 DEF Connections, RealState
<1>4. Follows(c, e) /\ e.buffer = d.buffer
  BY <1>1, <1>2 DEF After, Follows, Connections, LiveStates, RealState
<1>5. e \in After(c, C, T)
  BY <1>3, <1>4 DEF After
<1>6. PICK f : f = Destroy(e)
  OBVIOUS
<1>7. f \in After(c, C, T)
  BY <1>5, <1>6, DestroyAfter
<1>8. Later(f, "close") \in After(c, C, T)
  BY <1>7, LaterAfter DEF OwnTicks
<1>9. QED
  BY <1>1, <1>5, <1>6, <1>7, <1>8 DEF OnRealError

\* "close" of the real connection.
LEMMA OnRealCloseAfter ==
  ASSUME NEW C, NEW T, OwnTicks \subseteq T, NEW c, NEW d \in After(c, C, T)
  PROVE  OnRealClose(d) \in After(c, C, T)
<1>1. PICK e : e = [d EXCEPT !.real = "gone"]
  OBVIOUS
<1>2. d \in Connections(C, T)
  BY DEF After
<1>3. e \in Connections(C, T)
  BY <1>1, <1>2 DEF Connections, RealState
<1>4. Follows(c, e) /\ e.buffer = d.buffer
  BY <1>1, <1>2 DEF After, Follows, Connections, LiveStates, RealState
<1>5. e \in After(c, C, T)
  BY <1>3, <1>4 DEF After
<1>6. QED
  BY <1>1, <1>5, CorkedAfter, EmitClientCloseAfter DEF OnRealClose

\* corkReads().
LEMMA CorkAfter ==
  ASSUME NEW C, NEW T, OwnTicks \subseteq T, NEW c, NEW d \in After(c, C, T)
  PROVE  Cork(d) \in After(c, C, T)
<1>1. PICK e : e = Cork(d)
  OBVIOUS
<1>2. d \in Connections(C, T)
  BY DEF After
<1>3. e \in Connections(C, T)
  BY <1>1, <1>2 DEF Connections, Cork
<1>4. Follows(c, e) /\ e.buffer = d.buffer
  BY <1>1, <1>2 DEF After, Follows, Connections, LiveStates, Cork
<1>5. e \in After(c, C, T)
  BY <1>3, <1>4 DEF After
<1>6. QED
  BY <1>1, <1>5

\* uncorkReads().
LEMMA UncorkAfter ==
  ASSUME NEW C, NEW T, OwnTicks \subseteq T, NEW c, NEW d \in After(c, C, T)
  PROVE  Uncork(d) \in After(c, C, T)
<1>1. PICK e : e = [d EXCEPT !.corked = FALSE, !.corkedReads = <<>>]
  OBVIOUS
<1>2. d \in Connections(C, T)
  BY DEF After
<1>3. e \in After(c, C, T)
  <2>1. <<>> \in Seq(C \cup {EndRead, CloseRead})
    OBVIOUS
  <2>2. e \in Connections(C, T)
    BY <1>1, <1>2, <2>1 DEF Connections
  <2>3. Follows(c, e) /\ e.buffer = d.buffer
    BY <1>1, <1>2 DEF After, Follows, Connections
  <2>4. QED
    BY <2>2, <2>3 DEF After
<1>4. \A f \in After(c, C, T), read \in C \cup {EndRead, CloseRead} :
        Replay(f, read) \in After(c, C, T)
  BY PushRealAfter, PushRealEndAfter, EmitClientCloseAfter DEF Replay
<1>5. d.corkedReads \in Seq(C \cup {EndRead, CloseRead})
  BY <1>2 DEF Connections
<1>6. Iterate(Replay, e, d.corkedReads) \in After(c, C, T)
  BY ONLY <1>3, <1>4, <1>5, ReplayingStays
<1>7. QED
  BY <1>1, <1>6 DEF Uncork

-----------------------------------------------------------------------------
(* The inductive invariant.                                                  *)

\* The requests that something may be sent for, and what that is.
Answerable ==
  {r \in Request : r <= current /\ (verdict[r] \in {"mock", "passthrough"} \/ Tunnelled)}
Sendable == {p \in Chunk : p.part # "data" => p.request \in Answerable}

\* Only a connection the source declines has the tick of a decline.
DueTicks == IF protocol = "other" THEN Tick ELSE OwnTicks

\* The variables the other parts say nothing about.
OtherTypes ==
  /\ pauses \in 0..MaxPauses
  /\ readyState \in {"PENDING", "CLAIMED", "PASSTHROUGH"}
  /\ completionDue \in BOOLEAN
  /\ stage \in [Request -> {"none", "listening", "connecting", "refused", "streaming",
                         "thrown", "done"}]
  /\ answering \in {"nothing", "informational", "head"}
  /\ parsers \subseteq Request
  /\ events \subseteq Event /\ settled \subseteq Event

Verdicts == {"none", "pending", "mock", "error", "passthrough", "aborted"}

Types ==
  /\ OtherTypes
  /\ protocol \in {"http", "other"}
  /\ connectFirst \in BOOLEAN /\ listening \in BOOLEAN /\ hurried \in BOOLEAN
  /\ current \in 0..MaxRequests
  /\ verdict \in [Request -> Verdicts]
  /\ hook \in 0..MaxRequests
  /\ tunnelUrl \in BOOLEAN /\ retargeted \in BOOLEAN /\ dialled \in Targets
  /\ served \subseteq Request \X Targets
  /\ cutOff \subseteq Request

\* What is on its way to the client belongs to an exchange that is answered.
AnswersOnly ==
  /\ conn \in Connections(Sendable, DueTicks)
  /\ reached \in Seq(Answerable)
  /\ \A r \in Request : stage[r] # "none" => verdict[r] = "mock"

\* At most the request the client has sent last is pending, and the hook is
\* about that one.
OneIsPending ==
  /\ protocol = "other" => current = 0
  /\ \A r \in Request : r > current => verdict[r] = "none"
  /\ \A r \in Request : verdict[r] = "pending" => hook = r
  /\ hook # 0 => hook = current /\ verdict[hook] = "pending"
  /\ Tunnelled => hook = 0

\* The hook runs when the client is destroyed, unless it was replaced.
HookHolds ==
  /\ "abort" \in conn.layers \/ "mock" \in conn.layers
  /\ cutOff # {} => conn.destroyed
  /\ AbortReaches

\* The real connection is dialled to where the exchange belongs.
DialledRight ==
  /\ tunnelUrl => connectFirst /\ verdict[1] = "mock"
  /\ retargeted <=> tunnelUrl /\ current >= 2
  /\ ~retargeted => dialled = "original"
  /\ retargeted /\ conn.real \in LiveStates => dialled = "tunnel"

ServedRight ==
  \A r \in Request, target \in Targets :
    <<r, target>> \in served =>
      /\ r <= current /\ verdict[r] = "passthrough"
      /\ target = "tunnel" <=> tunnelUrl /\ ~IsConnect(r)

IInv == Types /\ AnswersOnly /\ OneIsPending /\ HookHolds /\ DialledRight /\ ServedRight

\* More chunks and more ticks make more connections.
LEMMA Widening ==
  ASSUME NEW C, NEW D, C \subseteq D, NEW T, NEW c \in Connections(C, T)
  PROVE  c \in Connections(D, T)
<1>1. Seq(C) \subseteq Seq(D)
  OBVIOUS
<1>2. Seq(C \cup {EndRead, CloseRead}) \subseteq Seq(D \cup {EndRead, CloseRead})
  OBVIOUS
<1>3. QED
  BY <1>1, <1>2 DEF Connections

\* The connection as an operation finds it.
LEMMA ConnAfter ==
  ASSUME IInv
  PROVE  conn \in After(conn, Sendable, DueTicks) /\ OwnTicks \subseteq DueTicks
BY DEF IInv, AnswersOnly, HookHolds, After, Follows, DueTicks, OwnTicks, Tick

\* The invariant is stronger than the type invariant.
LEMMA TypesSuffice ==
  ASSUME IInv
  PROVE  TypeOK
<1>1. conn \in Connections(Chunk, DueTicks)
  BY Widening DEF IInv, AnswersOnly, Sendable
<1>2. Seq(DueTicks) \subseteq Seq(Tick)
  <2>1. DueTicks \subseteq Tick
    BY DEF DueTicks, OwnTicks, Tick
  <2>2. QED
    BY <2>1
<1>3. conn \in Connections(Chunk, Tick)
  BY <1>1, <1>2 DEF Connections
<1>4. reached \in Seq(Request)
  <2>1. Answerable \subseteq Request
    BY DEF Answerable
  <2>2. reached \in Seq(Answerable)
    BY DEF IInv, AnswersOnly
  <2>3. QED
    BY <2>1, <2>2
<1>5. QED
  BY <1>3, <1>4 DEF IInv, Types, OtherTypes, Verdicts, TypeOK

\* It holds at first.
LEMMA InitIInv ==
  ASSUME Init
  PROVE  IInv
<1>1. MaxRequests \in Nat \ {0} /\ MaxPauses \in Nat /\ 1 \in Request
  BY BoundsAssumption DEF Request
<1>2. Types
  <2>1. OtherTypes
    <3>1. pauses \in 0..MaxPauses
      BY <1>1 DEF Init
    <3>2. stage \in [Request -> {"none", "listening", "connecting", "refused", "streaming",
                         "thrown", "done"}]
      BY DEF Init
    <3>3. QED
      BY <3>1, <3>2 DEF Init, OtherTypes
  <2>2. /\ protocol \in {"http", "other"} /\ connectFirst \in BOOLEAN
        /\ listening \in BOOLEAN /\ hurried \in BOOLEAN
    BY DEF Init
  <2>3. verdict \in [Request -> Verdicts] /\ dialled \in Targets
    BY DEF Init, Verdicts, Targets
  <2>4. current \in 0..MaxRequests /\ hook \in 0..MaxRequests
    BY <1>1 DEF Init
  <2>5. QED
    BY <2>1, <2>2, <2>3, <2>4 DEF Init, Types
<1>3. AnswersOnly
  <2>1. <<>> \in Seq(Sendable) /\ <<>> \in Seq(Sendable \cup {EndRead, CloseRead})
           /\ <<>> \in Seq(DueTicks) /\ <<>> \in Seq(Answerable)
    OBVIOUS
  <2>2. NewConnection \in Connections(Sendable, DueTicks)
    BY <2>1 DEF NewConnection, Connections, RealState
  <2>3. QED
    BY <2>1, <2>2 DEF Init, AnswersOnly
<1>4. OneIsPending
  BY <1>1 DEF Init, OneIsPending, Tunnelled
<1>5. HookHolds
  BY <1>1 DEF Init, HookHolds, AbortReaches, NewConnection
<1>6. DialledRight
  BY <1>1 DEF Init, DialledRight
<1>7. ServedRight
  BY <1>1 DEF Init, ServedRight
<1>8. QED
  BY <1>2, <1>3, <1>4, <1>5, <1>6, <1>7 DEF IInv

\* A verdict is given to the pending request only, and stays.
Given(verdicts) ==
  /\ verdicts \in [Request -> Verdicts]
  /\ \A r \in Request :
       \/ verdicts[r] = verdict[r]
       \/ verdict[r] = "pending" /\ verdicts[r] \notin {"none", "pending"}

\* The connection changes and what the source hooks into it runs: the request that
\* was pending when the client is destroyed is aborted.
LEMMA Turning ==
  ASSUME IInv, NEW verdicts, Given(verdicts), NEW c, Turns(c, verdicts),
         c.destroyed \in BOOLEAN, conn.destroyed => c.destroyed,
         "mock" \in conn.layers => "mock" \in c.layers,
         "abort" \in c.layers \/ "mock" \in c.layers,
         UNCHANGED <<inputVars, current>>
  PROVE  /\ Given(verdict')
         /\ \A r \in Request : verdicts[r] # "pending" => verdict'[r] = verdicts[r]
         /\ hook' \in 0..MaxRequests /\ cutOff' \subseteq Request
         /\ OneIsPending' /\ HookHolds'
<1>1. MaxRequests \in Nat \ {0} /\ 1 \in Request /\ Request = 1..MaxRequests
  BY BoundsAssumption DEF Request
<1>2. /\ verdict \in [Request -> Verdicts] /\ hook \in 0..MaxRequests
      /\ cutOff \subseteq Request /\ current \in 0..MaxRequests
      /\ conn.destroyed \in BOOLEAN
  BY DEF IInv, Types, AnswersOnly, Connections
<1>3. hook # 0 => hook \in Request
  BY <1>1, <1>2
<1>4. \A r \in Request :
        verdict'[r] = verdicts[r] \/ (verdicts[r] = "pending" /\ verdict'[r] = "aborted")
  BY <1>3 DEF Turns, AfterHook, Given
<1>5. verdict' \in [Request -> Verdicts]
  BY <1>3 DEF Turns, AfterHook, Given, Verdicts
<1>6. Given(verdict')
  BY <1>4, <1>5 DEF Given
<1>7. \A r \in Request : verdicts[r] # "pending" => verdict'[r] = verdicts[r]
  BY <1>4
<1>8. hook' \in 0..MaxRequests
  BY <1>1, <1>2 DEF Turns
<1>9. cutOff' \subseteq Request
  BY <1>2 DEF Turns
<1>10. OneIsPending'
  <2>1. /\ protocol = "other" => current = 0
        /\ \A r \in Request : r > current => verdict[r] = "none"
        /\ \A r \in Request : verdict[r] = "pending" => hook = r
        /\ hook # 0 => hook = current /\ verdict[hook] = "pending"
        /\ Tunnelled => hook = 0
    BY DEF IInv, OneIsPending
  <2>2. \A r \in Request : verdict'[r] = "pending" => verdict[r] = "pending"
    BY <1>6 DEF Given
  <2>3. hook' = IF hook # 0 /\ verdict'[hook] # "pending" THEN 0 ELSE hook
    BY DEF Turns
  <2>4. (protocol = "other" => current = 0)'
    BY <2>1 DEF inputVars
  <2>5. \A r \in Request : r > current' => verdict'[r] = "none"
    BY <1>6, <2>1 DEF Given
  <2>6. \A r \in Request : verdict'[r] = "pending" => hook' = r
    BY <2>1, <2>2, <2>3
  <2>7. hook' # 0 => hook' = current' /\ verdict'[hook'] = "pending"
    BY <2>1, <2>3
  <2>8. Tunnelled' => hook' = 0
    <3>1. SUFFICES ASSUME Tunnelled', hook # 0, verdict'[hook] = "pending" PROVE FALSE
      BY <2>3
    <3>2. verdict'[1] = "passthrough" /\ connectFirst
      BY <3>1 DEF Tunnelled, inputVars
    <3>3. verdict[1] = "pending"
      BY <1>1, <1>6, <2>1, <3>1, <3>2 DEF Given, Tunnelled
    <3>4. hook = 1
      BY <1>1, <2>1, <3>3
    <3>5. QED
      BY <3>1, <3>2, <3>4
  <2>9. QED
    BY <2>4, <2>5, <2>6, <2>7, <2>8 DEF OneIsPending
<1>11. HookHolds'
  <2>1. conn' = c
    BY DEF Turns
  <2>2. ("abort" \in conn.layers \/ "mock" \in conn.layers)'
    BY <2>1
  <2>3. (cutOff # {} => conn.destroyed)'
    BY <1>2, <2>1 DEF Turns, IInv, HookHolds
  <2>4. ASSUME "mock" \notin c.layers, NEW r \in cutOff' PROVE verdict'[r] = "aborted"
    <3>1. "abort" \in conn.layers /\ "mock" \notin conn.layers
      BY <2>4 DEF IInv, HookHolds
    <3>2. CASE c.destroyed /\ ~conn.destroyed
      <4>1. verdicts[r] = "pending" /\ r \in Request
        BY <2>4, <3>2 DEF Turns
      <4>2. verdict[r] = "pending"
        BY <4>1 DEF Given
      <4>3. hook = r /\ hook # 0
        BY <1>1, <4>1, <4>2 DEF IInv, OneIsPending
      <4>4. HookRuns(c)
        BY <3>1, <3>2, <4>3 DEF HookRuns
      <4>5. verdict' = [verdicts EXCEPT ![r] = "aborted"]
        BY <4>1, <4>3, <4>4 DEF Turns, AfterHook
      <4>6. QED
        BY <4>1, <4>5 DEF Given
    <3>3. CASE ~(c.destroyed /\ ~conn.destroyed)
      <4>1. r \in cutOff
        BY <2>4, <3>3 DEF Turns
      <4>2. verdict[r] = "aborted" /\ r \in Request
        BY <1>2, <3>1, <4>1 DEF IInv, HookHolds, AbortReaches
      <4>3. QED
        BY <1>6, <4>2 DEF Given
    <3>4. QED
      BY <3>2, <3>3
  <2>5. AbortReaches'
    BY <2>1, <2>4 DEF AbortReaches
  <2>6. QED
    BY <2>2, <2>3, <2>5 DEF HookHolds
<1>12. QED
  BY <1>6, <1>7, <1>8, <1>9, <1>10, <1>11

\* What is answered stays answered.
LEMMA MoreIsAnswered ==
  ASSUME IInv, Given(verdict'), UNCHANGED inputVars, current' = current
  PROVE  Answerable \subseteq Answerable' /\ Sendable \subseteq Sendable' /\ DueTicks' = DueTicks
<1>1. 1 \in Request
  BY BoundsAssumption DEF Request
<1>2. Tunnelled => Tunnelled'
  BY <1>1 DEF Given, Tunnelled, inputVars
<1>3. Answerable \subseteq Answerable'
  BY <1>2 DEF Given, Answerable
<1>4. Sendable \subseteq Sendable'
  BY <1>3 DEF Sendable
<1>5. QED
  BY <1>3, <1>4 DEF DueTicks, inputVars

-----------------------------------------------------------------------------
(* The steps that give no verdict.                                           *)

\* A step that changes the connection, and none of what the exchanges depend on.
LEMMA Becoming ==
  ASSUME IInv, NEW c \in Connections(Sendable, DueTicks), Becomes(c),
         conn.destroyed => c.destroyed,
         "mock" \in conn.layers => "mock" \in c.layers,
         "abort" \in c.layers \/ "mock" \in c.layers,
         retargeted /\ c.real \in LiveStates => dialled = "tunnel",
         UNCHANGED <<inputVars, current, tunnelVars, served>>, OtherTypes',
         reached' \in Seq(Answerable),
         \A r \in Request : stage'[r] # "none" => verdict[r] = "mock"
  PROVE  IInv'
<1>1. Given(verdict)
  BY DEF IInv, Types, Given
<1>2. c.destroyed \in BOOLEAN /\ conn' = c /\ Turns(c, verdict)
  BY DEF Connections, Becomes, Turns
<1>3. /\ Given(verdict')
      /\ \A r \in Request : verdict[r] # "pending" => verdict'[r] = verdict[r]
      /\ hook' \in 0..MaxRequests /\ cutOff' \subseteq Request
      /\ OneIsPending' /\ HookHolds'
  BY <1>1, <1>2, Turning
<1>4. Answerable \subseteq Answerable' /\ Sendable \subseteq Sendable' /\ DueTicks' = DueTicks
  BY <1>3, MoreIsAnswered
<1>5. Types'
  BY <1>3 DEF IInv, Types, Given, inputVars, tunnelVars
<1>6. AnswersOnly'
  <2>1. c \in Connections(Sendable', DueTicks)
    BY <1>4, Widening
  <2>2. (conn \in Connections(Sendable, DueTicks))'
    BY <1>2, <1>4, <2>1
  <2>3. reached' \in Seq(Answerable')
    BY <1>4
  <2>4. \A r \in Request : stage'[r] # "none" => verdict'[r] = "mock"
    BY <1>3
  <2>5. QED
    BY <2>2, <2>3, <2>4 DEF AnswersOnly
<1>7. DialledRight'
  <2>1. 1 \in Request
    BY BoundsAssumption DEF Request
  <2>2. /\ tunnelUrl => connectFirst /\ verdict[1] = "mock"
        /\ retargeted <=> tunnelUrl /\ current >= 2
        /\ ~retargeted => dialled = "original"
    BY DEF IInv, DialledRight
  <2>3. (tunnelUrl => connectFirst /\ verdict[1] = "mock")'
    BY <1>3, <2>1, <2>2 DEF inputVars, tunnelVars
  <2>4. (retargeted /\ conn.real \in LiveStates => dialled = "tunnel")'
    BY <1>2 DEF tunnelVars
  <2>5. QED
    BY <2>2, <2>3, <2>4 DEF DialledRight, tunnelVars
<1>8. ServedRight'
  BY <1>3 DEF IInv, ServedRight, IsConnect, inputVars, tunnelVars
<1>9. QED
  BY <1>3, <1>5, <1>6, <1>7, <1>8 DEF IInv

\* The same of a connection that dials nothing.
LEMMA BecomingAfter ==
  ASSUME IInv, NEW c \in Connections(Sendable, DueTicks), Follows(conn, c), Becomes(c),
         UNCHANGED <<inputVars, current, tunnelVars, served>>, OtherTypes',
         reached' \in Seq(Answerable),
         \A r \in Request : stage'[r] # "none" => verdict[r] = "mock"
  PROVE  IInv'
<1>1. retargeted /\ c.real \in LiveStates => dialled = "tunnel"
  BY DEF IInv, DialledRight, Follows
<1>2. QED
  BY <1>1, Becoming DEF Follows

\* The same when nothing else changes.
LEMMA OnlyConnBecoming ==
  ASSUME IInv, NEW c \in Connections(Sendable, DueTicks), Follows(conn, c), OnlyConn(c)
  PROVE  IInv'
<1>1. UNCHANGED <<inputVars, current, tunnelVars, served>>
  BY DEF OnlyConn, exchangeVars, realVars
<1>2. OtherTypes'
  BY DEF IInv, Types, OtherTypes, OnlyConn, exchangeVars, realVars, eventVars
<1>3. reached' \in Seq(Answerable) /\ \A r \in Request : stage'[r] # "none" => verdict[r] = "mock"
  BY DEF IInv, AnswersOnly, OnlyConn, exchangeVars, realVars
<1>4. QED
  BY <1>1, <1>2, <1>3, BecomingAfter DEF OnlyConn

\* The same by an operation that is not a read.
LEMMA OnlyConnAfter ==
  ASSUME IInv, NEW c \in After(conn, Sendable, DueTicks), OnlyConn(c)
  PROVE  IInv'
BY OnlyConnBecoming DEF After

\* When the connection does not change either, it becomes what it is.
LEMMA StillBecomes ==
  ASSUME IInv, UNCHANGED <<conn, verdict, hook, cutOff>>
  PROVE  Becomes(conn)
BY DEF IInv, OneIsPending, Becomes, Turns, AfterHook, HookRuns

\* Nothing of what the invariant is about changes.
LEMMA StillHolds ==
  ASSUME IInv, UNCHANGED <<conn, verdict, hook, cutOff>>,
         UNCHANGED <<inputVars, current, tunnelVars, served, reached>>, OtherTypes',
         \A r \in Request : stage'[r] # "none" => verdict[r] = "mock"
  PROVE  IInv'
<1>1. Becomes(conn)
  BY StillBecomes
<1>2. conn \in Connections(Sendable, DueTicks) /\ Follows(conn, conn)
  BY ConnAfter DEF After
<1>3. reached' \in Seq(Answerable)
  BY DEF IInv, AnswersOnly
<1>4. QED
  BY <1>1, <1>2, <1>3, BecomingAfter

\* What a mocked response consists of may be sent.
LEMMA MockSendable ==
  ASSUME IInv, NEW r \in Answerable, NEW part \in {"informational", "head", "fin"}
  PROVE  Part(r, part) \in Sendable
<1>1. r \in Request /\ MaxRequests \in Nat /\ MaxChunks \in Nat
  BY BoundsAssumption DEF Answerable
<1>2. r \in Index
  BY <1>1 DEF Request, Index
<1>3. QED
  BY <1>2 DEF Part, Chunk, Sendable

\* A request with a mocked response is answered.
LEMMA MockAnswerable ==
  ASSUME IInv, NEW r \in Request, verdict[r] = "mock"
  PROVE  r \in Answerable
BY BoundsAssumption DEF IInv, Types, OneIsPending, Answerable, Request

\* A part of a mocked response is pushed.
LEMMA PushPartAfter ==
  ASSUME IInv, NEW r \in Request, verdict[r] = "mock",
         NEW part \in {"informational", "head", "fin"},
         NEW d \in After(conn, Sendable, DueTicks)
  PROVE  PushPart(d, r, part) \in After(conn, Sendable, DueTicks)
<1>1. PICK p : p = Part(r, part)
  OBVIOUS
<1>2. p \in Sendable
  BY <1>1, MockAnswerable, MockSendable
<1>3. OwnTicks \subseteq DueTicks
  BY ConnAfter
<1>4. PICK e : e = Emitted(d, p)
  OBVIOUS
<1>5. e \in After(conn, Sendable, DueTicks)
  BY <1>2, <1>3, <1>4, EmittedAfter
<1>6. Push(e, p) \in After(conn, Sendable, DueTicks)
  BY <1>2, <1>3, <1>5, PushAfter
<1>7. QED
  BY <1>1, <1>4, <1>6 DEF PushPart

\* A mocked response replaces _destroy().
LEMMA OverrideAfter ==
  ASSUME NEW C, NEW T, NEW c, NEW d \in After(c, C, T)
  PROVE  Override(d) \in After(c, C, T)
<1>1. PICK e : e = [d EXCEPT !.layers = {"mock"}]
  OBVIOUS
<1>2. d \in Connections(C, T)
  BY DEF After
<1>3. e \in Connections(C, T)
  BY <1>1, <1>2 DEF Connections
<1>4. Follows(c, e) /\ e.buffer = d.buffer
  BY <1>1, <1>2 DEF After, Follows, Connections
<1>5. e \in After(c, C, T)
  BY <1>3, <1>4 DEF After
<1>6. QED
  BY <1>1, <1>5 DEF Override

\* A callback of process.nextTick() is taken out of the queue.
LEMMA TickedAfter ==
  ASSUME IInv, conn.ticks # <<>>
  PROVE  Ticked \in After(conn, Sendable, DueTicks)
<1>1. conn \in Connections(Sendable, DueTicks) /\ Follows(conn, conn)
  BY ConnAfter DEF After
<1>2. Tail(conn.ticks) \in Seq(DueTicks)
  BY <1>1 DEF Connections
<1>3. PICK e : e = [conn EXCEPT !.ticks = Tail(@)]
  OBVIOUS
<1>4. e \in Connections(Sendable, DueTicks)
  BY <1>1, <1>2, <1>3 DEF Connections
<1>5. Follows(conn, e) /\ e.buffer = conn.buffer
  BY <1>1, <1>3 DEF Follows, Connections
<1>6. QED
  BY <1>3, <1>4, <1>5 DEF After, Ticked

\* The "response" listeners of a mocked response settle.
LEMMA MockedListenersSettleStep ==
  ASSUME IInv, NEW r \in Request, MockedListenersSettle(r)
  PROVE  IInv'
<1>1. stage[r] = "listening" /\ verdict[r] = "mock"
  BY DEF MockedListenersSettle, IInv, AnswersOnly
<1>2. PICK c : /\ c \in {conn, Override(conn)} /\ Becomes(c)
               /\ stage' \in {Stage(r, "connecting"), Stage(r, StageOfResponse(conn))}
  BY DEF MockedListenersSettle
<1>3. c \in After(conn, Sendable, DueTicks)
  BY <1>2, ConnAfter, OverrideAfter
<1>4. /\ UNCHANGED <<inputVars, current, tunnelVars, served, reached>>
      /\ UNCHANGED <<pauses, readyState, completionDue, answering, parsers, eventVars>>
  BY DEF MockedListenersSettle, realVars
<1>5. OtherTypes'
  BY <1>2, <1>4 DEF IInv, Types, OtherTypes, Stage, StageOfResponse, eventVars
<1>6. \A q \in Request : stage'[q] # "none" => verdict[q] = "mock"
  BY <1>1, <1>2 DEF IInv, Types, OtherTypes, AnswersOnly, Stage
<1>7. reached' \in Seq(Answerable)
  BY <1>4 DEF IInv, AnswersOnly
<1>8. QED
  BY <1>2, <1>3, <1>4, <1>5, <1>6, <1>7, BecomingAfter DEF After

\* One of them throws.
LEMMA MockedListenersThrowStep ==
  ASSUME IInv, NEW r \in Request, MockedListenersThrow(r)
  PROVE  IInv'
<1>1. stage[r] = "listening" /\ verdict[r] = "mock"
  BY DEF MockedListenersThrow, IInv, AnswersOnly
<1>2. stage' = Stage(r, "thrown")
  BY DEF MockedListenersThrow
<1>3. OtherTypes'
  BY <1>2 DEF MockedListenersThrow, IInv, Types, OtherTypes, Stage, realVars, eventVars
<1>4. \A q \in Request : stage'[q] # "none" => verdict[q] = "mock"
  BY <1>1, <1>2 DEF IInv, Types, OtherTypes, AnswersOnly, Stage
<1>5. /\ UNCHANGED <<conn, verdict, hook, cutOff>>
      /\ UNCHANGED <<inputVars, current, tunnelVars, served, reached>>
  BY DEF MockedListenersThrow, realVars
<1>6. QED
  BY <1>3, <1>4, <1>5, StillHolds

\* The claimed connection completes.
LEMMA ClaimCompletesStep ==
  ASSUME IInv, ClaimCompletes
  PROVE  IInv'
<1>1. conn \in After(conn, Sendable, DueTicks) /\ OwnTicks \subseteq DueTicks
  BY ConnAfter
<1>2. PICK d : d = Connect(conn)
  OBVIOUS
<1>3. d \in After(conn, Sendable, DueTicks)
  BY <1>1, <1>2, ConnectAfter
<1>4. Destroy(d) \in After(conn, Sendable, DueTicks)
        /\ Override(d) \in After(conn, Sendable, DueTicks)
  BY <1>1, <1>3, DestroyAfter, OverrideAfter
<1>5. PICK c : c \in {conn, d, Destroy(d), Override(d)} /\ Becomes(c)
  BY <1>2 DEF ClaimCompletes
<1>6. c \in After(conn, Sendable, DueTicks)
  BY <1>1, <1>3, <1>4, <1>5
<1>7. /\ UNCHANGED <<inputVars, current, tunnelVars, served, reached>>
      /\ UNCHANGED <<pauses, readyState, answering, parsers, eventVars>>
      /\ completionDue' = FALSE
  BY DEF ClaimCompletes, realVars
<1>8. /\ stage' \in [Request -> {"none", "listening", "connecting", "refused", "streaming",
                         "thrown", "done"}]
      /\ \A q \in Request : stage'[q] # "none" => stage[q] # "none"
  <2>1. stage \in [Request -> {"none", "listening", "connecting", "refused", "streaming",
                         "thrown", "done"}]
    BY DEF IInv, Types, OtherTypes
  <2>2. CASE stage' = stage
    BY <2>1, <2>2
  <2>3. CASE stage' = [r \in Request |->
                         CASE r \in {q \in Request : stage[q] = "connecting"} -> "streaming"
                           [] r \in {q \in Request : stage[q] = "refused"} -> "done"
                           [] OTHER -> stage[r]]
    BY <2>1, <2>3
  <2>4. QED
    BY <2>2, <2>3 DEF ClaimCompletes
<1>9. OtherTypes'
  BY <1>7, <1>8 DEF IInv, Types, OtherTypes, eventVars
<1>10. \A q \in Request : stage'[q] # "none" => verdict[q] = "mock"
  BY <1>8 DEF IInv, AnswersOnly
<1>11. reached' \in Seq(Answerable)
  BY <1>7 DEF IInv, AnswersOnly
<1>12. QED
  BY <1>5, <1>6, <1>7, <1>9, <1>10, <1>11, BecomingAfter DEF After

\* A chunk of a mocked body is written.
LEMMA MockedBodyWritesStep ==
  ASSUME IInv, NEW r \in Request, MockedBodyWrites(r)
  PROVE  IInv'
<1>1. verdict[r] = "mock"
  BY DEF MockedBodyWrites, IInv, AnswersOnly
<1>2. PushPart(conn, r, "head") \in After(conn, Sendable, DueTicks)
  BY <1>1, ConnAfter, PushPartAfter
<1>3. QED
  BY <1>2, OnlyConnAfter DEF MockedBodyWrites

\* A mocked body ends.
LEMMA MockedBodyEndsStep ==
  ASSUME IInv, NEW r \in Request, NEW framed \in BOOLEAN, MockedBodyEnds(r, framed)
  PROVE  IInv'
<1>1. stage[r] = "streaming" /\ verdict[r] = "mock"
  BY DEF MockedBodyEnds, IInv, AnswersOnly
<1>2. WithHead(r) \in After(conn, Sendable, DueTicks)
  BY <1>1, ConnAfter, PushPartAfter DEF WithHead
<1>3. PICK d : d = IF Delimited(r, framed) THEN PushPart(WithHead(r), r, "fin") ELSE WithHead(r)
  OBVIOUS
<1>4. d \in After(conn, Sendable, DueTicks)
  BY <1>1, <1>2, <1>3, PushPartAfter
<1>5. PICK c : c = IF EndsStream(r, framed) THEN Later(d, "eof") ELSE d
  OBVIOUS
<1>6. c \in After(conn, Sendable, DueTicks)
  BY <1>4, <1>5, ConnAfter, LaterAfter DEF OwnTicks
<1>7. Becomes(c) /\ stage' = Stage(r, "done")
  BY <1>3, <1>5 DEF MockedBodyEnds
<1>8. /\ UNCHANGED <<inputVars, current, tunnelVars, served, reached>>
      /\ UNCHANGED <<pauses, readyState, completionDue, answering, parsers, eventVars>>
  BY DEF MockedBodyEnds, realVars
<1>9. OtherTypes'
  BY <1>7, <1>8 DEF IInv, Types, OtherTypes, Stage, eventVars
<1>10. \A q \in Request : stage'[q] # "none" => verdict[q] = "mock"
  BY <1>1, <1>7 DEF IInv, Types, OtherTypes, AnswersOnly, Stage
<1>11. reached' \in Seq(Answerable)
  BY <1>8 DEF IInv, AnswersOnly
<1>12. QED
  BY <1>6, <1>7, <1>8, <1>9, <1>10, <1>11, BecomingAfter DEF After

\* A mocked body breaks.
LEMMA MockedBodyBreaksStep ==
  ASSUME IInv, NEW r \in Request, MockedBodyBreaks(r)
  PROVE  IInv'
<1>1. stage[r] = "streaming" /\ verdict[r] = "mock"
  BY DEF MockedBodyBreaks, IInv, AnswersOnly
<1>2. Later(conn, "destroy") \in After(conn, Sendable, DueTicks)
  BY ConnAfter, LaterAfter DEF OwnTicks
<1>3. Becomes(Later(conn, "destroy")) /\ stage' = Stage(r, "done")
  BY DEF MockedBodyBreaks
<1>4. /\ UNCHANGED <<inputVars, current, tunnelVars, served, reached>>
      /\ UNCHANGED <<pauses, readyState, completionDue, answering, parsers, eventVars>>
  BY DEF MockedBodyBreaks, realVars
<1>5. OtherTypes'
  BY <1>3, <1>4 DEF IInv, Types, OtherTypes, Stage, eventVars
<1>6. \A q \in Request : stage'[q] # "none" => verdict[q] = "mock"
  BY <1>1, <1>3 DEF IInv, Types, OtherTypes, AnswersOnly, Stage
<1>7. reached' \in Seq(Answerable)
  BY <1>4 DEF IInv, AnswersOnly
<1>8. QED
  BY <1>2, <1>3, <1>4, <1>5, <1>6, <1>7, BecomingAfter DEF After

\* The chunks of a connection that is not HTTP may be sent.
LEMMA NextChunkSendable ==
  ASSUME IInv, Len(conn.sent) < MaxChunks
  PROVE  NextChunk \in Sendable
<1>1. conn.sent \in Seq(Sendable)
  BY DEF IInv, AnswersOnly, Connections
<1>2. Len(conn.sent) \in Nat
  BY <1>1
<1>3. Len(conn.sent) + 1 \in Index
  BY <1>2, BoundsAssumption DEF Index
<1>4. QED
  BY <1>3 DEF NextChunk, Part, Chunk, Sendable

\* What an exchange is answered with by a real connection is pushed, or waits.
LEMMA AnswersStep ==
  ASSUME IInv, NEW part \in {"informational", "head", "fin"}, Answers(part),
         answering' \in {"nothing", "informational", "head"},
         reached' \in {reached, Tail(reached)}
  PROVE  IInv'
<1>1. reached \in Seq(Answerable) /\ reached # <<>>
  BY DEF Answers, IInv, AnswersOnly
<1>2. Head(reached) \in Answerable /\ reached' \in Seq(Answerable)
  BY <1>1
<1>3. PICK p : p = Part(Head(reached), part)
  OBVIOUS
<1>4. p \in Sendable
  BY <1>2, <1>3, MockSendable
<1>5. OnRealData(conn, p) \in After(conn, Sendable, DueTicks)
  BY <1>4, ConnAfter, OnRealDataAfter
<1>6. /\ Becomes(OnRealData(conn, p))
      /\ events' = events \cup Parsed(Head(reached), part)
      /\ UNCHANGED <<inputVars, pauses, exchangeVars, tunnelVars, parsers, served, settled>>
  BY <1>3 DEF Answers
<1>7. events' \subseteq Event
  <2>1. Head(reached) \in Request
    BY <1>2 DEF Answerable
  <2>2. part # "fin" => part \in {"informational", "head"}
    OBVIOUS
  <2>3. parsers \subseteq Request /\ events \subseteq Event
    BY DEF IInv, Types, OtherTypes
  <2>4. Parsed(Head(reached), part) \subseteq Event
    BY <2>1, <2>2, <2>3 DEF Parsed, Event
  <2>5. QED
    BY <1>6, <2>3, <2>4
<1>8. OtherTypes'
  BY <1>6, <1>7 DEF IInv, Types, OtherTypes, exchangeVars
<1>9. \A q \in Request : stage'[q] # "none" => verdict[q] = "mock"
  BY <1>6 DEF IInv, AnswersOnly, exchangeVars
<1>10. UNCHANGED <<inputVars, current, tunnelVars, served>>
  BY <1>6 DEF exchangeVars
<1>11. QED
  BY <1>2, <1>5, <1>6, <1>8, <1>9, <1>10, BecomingAfter DEF After

\* The real server answers, or fails, or ends, or sends what is not HTTP.
LEMMA ServerStep ==
  ASSUME IInv, Server
  PROVE  IInv'
<1>1. CASE RealInforms
  BY <1>1, AnswersStep DEF RealInforms
<1>2. CASE RealResponds
  BY <1>2, AnswersStep DEF RealResponds
<1>3. CASE RealCompletes
  BY <1>3, AnswersStep DEF RealCompletes
<1>4. CASE RealSends
  <2>1. NextChunk \in Sendable
    BY <1>4, NextChunkSendable DEF RealSends
  <2>2. OnRealData(conn, NextChunk) \in After(conn, Sendable, DueTicks)
    BY <2>1, ConnAfter, OnRealDataAfter
  <2>3. QED
    BY <1>4, <2>2, OnlyConnAfter DEF RealSends
<1>5. CASE RealEnds
  <2>1. OnRealEnd(conn) \in After(conn, Sendable, DueTicks)
    BY <1>5, ConnAfter, OnRealEndAfter DEF RealEnds
  <2>2. QED
    BY <1>5, <2>1, OnlyConnAfter DEF RealEnds
<1>6. CASE RealFails
  <2>1. OnRealError(conn) \in After(conn, Sendable, DueTicks)
    BY ConnAfter, OnRealErrorAfter
  <2>2. QED
    BY <1>6, <2>1, OnlyConnAfter DEF RealFails
<1>7. QED
  BY <1>1, <1>2, <1>3, <1>4, <1>5, <1>6 DEF Server

\* The listeners of a "response" event settle.
LEMMA ResponseListenersSettleStep ==
  ASSUME IInv, NEW e \in events, ResponseListenersSettle(e)
  PROVE  IInv'
<1>1. PICK c : c = UncorkFor(e)
  OBVIOUS
<1>2. c \in After(conn, Sendable, DueTicks)
  BY <1>1, ConnAfter, UncorkAfter, CorkAfter DEF UncorkFor
<1>3. /\ Becomes(c)
      /\ events' = events \ {e} /\ settled' = settled \cup {e}
      /\ UNCHANGED <<inputVars, pauses, exchangeVars, tunnelVars, realVars>>
  BY <1>1 DEF ResponseListenersSettle
<1>4. OtherTypes'
  BY <1>3 DEF IInv, Types, OtherTypes, exchangeVars, realVars
<1>5. UNCHANGED <<inputVars, current, tunnelVars, served>>
  BY <1>3 DEF exchangeVars, realVars
<1>6. reached' \in Seq(Answerable) /\ \A q \in Request : stage'[q] # "none" => verdict[q] = "mock"
  BY <1>3 DEF IInv, AnswersOnly, exchangeVars, realVars
<1>7. QED
  BY <1>2, <1>3, <1>4, <1>5, <1>6, BecomingAfter DEF After

\* The real connection closes.
LEMMA RealClosesStep ==
  ASSUME IInv, RealCloses
  PROVE  IInv'
<1>1. OnRealClose(conn) \in After(conn, Sendable, DueTicks)
  BY ConnAfter, OnRealCloseAfter
<1>2. /\ Becomes(OnRealClose(conn)) /\ parsers' = {}
      /\ UNCHANGED <<inputVars, pauses, exchangeVars, tunnelVars, eventVars>>
      /\ UNCHANGED <<reached, answering, served>>
  BY DEF RealCloses, RealUnchanged
<1>3. OtherTypes'
  BY <1>2 DEF IInv, Types, OtherTypes, exchangeVars, eventVars
<1>4. UNCHANGED <<inputVars, current, tunnelVars, served>>
  BY <1>2 DEF exchangeVars
<1>5. reached' \in Seq(Answerable) /\ \A q \in Request : stage'[q] # "none" => verdict[q] = "mock"
  BY <1>2 DEF IInv, AnswersOnly, exchangeVars
<1>6. QED
  BY <1>1, <1>2, <1>3, <1>4, <1>5, BecomingAfter DEF After

\* The callbacks of process.nextTick().
LEMMA TicksStep ==
  ASSUME IInv, Ticks
  PROVE  IInv'
<1>1. conn.ticks # <<>> /\ Ticked \in After(conn, Sendable, DueTicks)
        /\ OwnTicks \subseteq DueTicks
  BY TickedAfter, ConnAfter DEF Ticks, TickClose, TickDeliverClose, TickEnd, TickDestroy,
       TickPassthrough, NextTick
<1>2. CASE TickClose
  <2>1. EmitClose(Ticked) \in After(conn, Sendable, DueTicks)
    BY <1>1, EmitCloseAfter
  <2>2. QED
    BY <1>2, <2>1, OnlyConnAfter DEF TickClose
<1>3. CASE TickDeliverClose
  <2>1. CloseOnce(Ticked) \in After(conn, Sendable, DueTicks)
    BY <1>1, EmitCloseAfter DEF CloseOnce
  <2>2. QED
    BY <1>3, <2>1, OnlyConnAfter DEF TickDeliverClose
<1>4. CASE TickEnd
  <2>1. PushEnd(Ticked) \in After(conn, Sendable, DueTicks)
    BY <1>1, PushEndAfter
  <2>2. QED
    BY <1>4, <2>1, OnlyConnAfter DEF TickEnd
<1>5. CASE TickDestroy
  <2>1. Destroy(Ticked) \in After(conn, Sendable, DueTicks)
    BY <1>1, DestroyAfter
  <2>2. QED
    BY <1>5, <2>1, OnlyConnAfter DEF TickDestroy
<1>6. CASE TickPassthrough
  <2>1. protocol = "other"
    <3>1. conn.ticks \in Seq(DueTicks)
      BY DEF IInv, AnswersOnly, Connections
    <3>2. "passthrough" \in DueTicks
      <4>1. Head(conn.ticks) \in DueTicks
        BY <1>1, <3>1
      <4>2. QED
        BY <1>6, <4>1 DEF TickPassthrough, NextTick
    <3>3. QED
      BY <3>2 DEF DueTicks, OwnTicks
  <2>2. ~retargeted
    BY <2>1 DEF IInv, OneIsPending, DialledRight
  <2>3. PICK c : c \in {Ticked, Dialled(Ticked)} /\ Becomes(c)
    BY <1>6 DEF TickPassthrough
  <2>4. Ticked \in Connections(Sendable, DueTicks) /\ Follows(conn, Ticked)
    BY <1>1 DEF After
  <2>5. Dialled(Ticked) \in Connections(Sendable, DueTicks)
    BY <2>4 DEF Connections, Dialled, RealState
  <2>6. /\ Dialled(Ticked).destroyed = Ticked.destroyed
        /\ Dialled(Ticked).layers = Ticked.layers
    BY <2>4 DEF Connections, Dialled
  <2>7. /\ UNCHANGED <<inputVars, pauses, completionDue, current, stage, tunnelVars>>
        /\ UNCHANGED <<realVars, eventVars>>
        /\ readyState' \in {"PASSTHROUGH", readyState}
    BY <1>6 DEF TickPassthrough
  <2>8. OtherTypes'
    BY <2>7 DEF IInv, Types, OtherTypes, realVars, eventVars
  <2>9. reached' \in Seq(Answerable) /\ \A q \in Request : stage'[q] # "none" => verdict[q] = "mock"
    BY <2>7 DEF IInv, AnswersOnly, realVars
  <2>10. UNCHANGED <<inputVars, current, tunnelVars, served>>
    BY <2>7 DEF realVars
  <2>11. c \in Connections(Sendable, DueTicks)
    BY <2>3, <2>4, <2>5
  <2>12. /\ conn.destroyed => c.destroyed
         /\ "mock" \in conn.layers => "mock" \in c.layers
         /\ "abort" \in c.layers \/ "mock" \in c.layers
    BY <2>3, <2>4, <2>6 DEF Follows
  <2>13. QED
    BY <2>2, <2>3, <2>8, <2>9, <2>10, <2>11, <2>12, Becoming
<1>7. QED
  BY <1>2, <1>3, <1>4, <1>5, <1>6 DEF Ticks

\* What the event loop does.
LEMMA EventLoopStep ==
  ASSUME IInv, EventLoop
  PROVE  IInv'
<1>1. conn \in Connections(Sendable, DueTicks) /\ Follows(conn, conn)
  BY ConnAfter DEF After
<1>2. CASE RealConnects
  <2>1. OnRealConnect(conn) \in After(conn, Sendable, DueTicks)
    BY <1>2, ConnAfter, OnRealConnectAfter DEF RealConnects
  <2>2. QED
    BY <1>2, <2>1, OnlyConnAfter DEF RealConnects
<1>3. CASE RealFinishes
  <2>1. PICK c : c = [conn EXCEPT !.real = "closing"]
    OBVIOUS
  <2>2. c \in Connections(Sendable, DueTicks)
    BY <1>1, <2>1 DEF Connections, RealState
  <2>3. Follows(conn, c)
    BY <1>1, <2>1 DEF Connections, Follows, LiveStates
  <2>4. QED
    BY <1>3, <2>1, <2>2, <2>3, OnlyConnBecoming DEF RealFinishes
<1>4. CASE NativeClose
  <2>1. PICK c : c = [conn EXCEPT !.nativeClose = FALSE]
    OBVIOUS
  <2>2. c \in Connections(Sendable, DueTicks)
    BY <1>1, <2>1 DEF Connections
  <2>3. Follows(conn, c) /\ c.buffer = conn.buffer
    BY <1>1, <2>1 DEF Connections, Follows
  <2>4. EmitClose(c) \in After(conn, Sendable, DueTicks)
    BY <2>2, <2>3, EmitCloseAfter DEF After
  <2>5. QED
    BY <1>4, <2>1, <2>4, OnlyConnAfter DEF NativeClose
<1>5. QED
  BY <1>2, <1>3, <1>4, ClaimCompletesStep, RealClosesStep, TicksStep DEF EventLoop

\* Another subscriber claims the connection, or the source declines it.
LEMMA OtherProtocolStep ==
  ASSUME IInv, OtherSubscriberClaims \/ SourceDeclines \/ ServerSends \/ ServerEnds
  PROVE  IInv'
<1>1. CASE OtherSubscriberClaims
  <2>1. /\ UNCHANGED <<conn, verdict, hook, cutOff>>
        /\ UNCHANGED <<inputVars, current, tunnelVars, served, reached>>
    BY <1>1 DEF OtherSubscriberClaims, realVars
  <2>2. OtherTypes'
    BY <1>1 DEF OtherSubscriberClaims, IInv, Types, OtherTypes, realVars, eventVars
  <2>3. \A q \in Request : stage'[q] # "none" => verdict[q] = "mock"
    BY <1>1 DEF OtherSubscriberClaims, IInv, AnswersOnly
  <2>4. QED
    BY <2>1, <2>2, <2>3, StillHolds
<1>2. CASE SourceDeclines
  <2>1. "passthrough" \in DueTicks
    BY <1>2 DEF SourceDeclines, DueTicks, Tick
  <2>2. Later(conn, "passthrough") \in After(conn, Sendable, DueTicks)
    BY <2>1, ConnAfter, LaterAfter
  <2>3. QED
    BY <1>2, <2>2, OnlyConnAfter DEF SourceDeclines
<1>3. CASE ServerSends
  <2>1. NextChunk \in Sendable
    BY <1>3, NextChunkSendable DEF ServerSends
  <2>2. ServerWrite(conn, NextChunk) \in After(conn, Sendable, DueTicks)
    BY <2>1, ConnAfter, ServerWriteAfter
  <2>3. QED
    BY <1>3, <2>2, OnlyConnAfter DEF ServerSends
<1>4. CASE ServerEnds
  <2>1. ServerEnd(conn) \in After(conn, Sendable, DueTicks)
    BY ConnAfter, ServerEndAfter
  <2>2. QED
    BY <1>4, <2>1, OnlyConnAfter DEF ServerEnds
<1>5. QED
  BY <1>1, <1>2, <1>3, <1>4

\* The client and its consumer.
LEMMA ConsumerStep ==
  ASSUME IInv, ConsumerPauses \/ Consumer \/ ClientDestroys
  PROVE  IInv'
<1>1. conn \in Connections(Sendable, DueTicks) /\ Follows(conn, conn)
  BY ConnAfter DEF After
<1>2. CASE ConsumerPauses
  <2>1. PICK c : c = [conn EXCEPT !.flowing = FALSE]
    OBVIOUS
  <2>2. c \in Connections(Sendable, DueTicks)
    BY <1>1, <2>1 DEF Connections
  <2>3. Follows(conn, c)
    BY <1>1, <2>1 DEF Connections, Follows
  <2>4. /\ Becomes(c) /\ pauses < MaxPauses /\ pauses' = pauses + 1
        /\ UNCHANGED <<inputVars, exchangeVars, tunnelVars, realVars, eventVars>>
    BY <1>2, <2>1 DEF ConsumerPauses
  <2>5. pauses' \in 0..MaxPauses
    <3>1. pauses \in 0..MaxPauses
      BY DEF IInv, Types, OtherTypes
    <3>2. QED
      BY <2>4, <3>1, BoundsAssumption
  <2>6. OtherTypes'
    BY <2>4, <2>5 DEF IInv, Types, OtherTypes, exchangeVars, realVars, eventVars
  <2>7. reached' \in Seq(Answerable) /\ \A q \in Request : stage'[q] # "none" => verdict[q] = "mock"
    BY <2>4 DEF IInv, AnswersOnly, exchangeVars, realVars
  <2>8. UNCHANGED <<inputVars, current, tunnelVars, served>>
    BY <2>4 DEF exchangeVars, realVars
  <2>9. QED
    BY <2>2, <2>3, <2>4, <2>6, <2>7, <2>8, BecomingAfter
<1>3. CASE ConsumerResumes
  <2>1. PICK c : c = [conn EXCEPT !.flowing = TRUE]
    OBVIOUS
  <2>2. c \in Connections(Sendable, DueTicks)
    BY <1>1, <2>1 DEF Connections
  <2>3. Follows(conn, c)
    BY <1>1, <2>1 DEF Connections, Follows
  <2>4. QED
    BY <1>3, <2>1, <2>2, <2>3, OnlyConnBecoming DEF ConsumerResumes
<1>4. CASE ConsumerReads
  <2>1. ReadChunk(conn) \in Connections(Sendable, DueTicks) /\ Follows(conn, ReadChunk(conn))
    BY <1>4, ConnAfter, ReadChunkFollows DEF ConsumerReads
  <2>2. QED
    BY <1>4, <2>1, OnlyConnBecoming DEF ConsumerReads
<1>5. CASE ConsumerHearsEnd
  <2>1. EmitEnd(conn) \in After(conn, Sendable, DueTicks)
    BY ConnAfter, EmitEndAfter
  <2>2. QED
    BY <1>5, <2>1, OnlyConnAfter DEF ConsumerHearsEnd
<1>6. CASE ClientTearsDown \/ ClientDestroys
  <2>1. Destroy(conn) \in After(conn, Sendable, DueTicks)
    BY ConnAfter, DestroyAfter
  <2>2. QED
    BY <1>6, <2>1, OnlyConnAfter DEF ClientTearsDown, ClientDestroys
<1>7. QED
  BY <1>2, <1>3, <1>4, <1>5, <1>6 DEF Consumer

-----------------------------------------------------------------------------
(* The requests and their verdicts.                                          *)

\* The next request is written only when the one before it is answered, so none is
\* pending.
LEMMA NonePending ==
  ASSUME IInv, ClientWrites
  PROVE  hook = 0
<1>1. SUFFICES ASSUME hook # 0 PROVE FALSE
  OBVIOUS
<1>2. hook = current /\ verdict[current] = "pending" /\ ~Tunnelled /\ current # 0
  BY <1>1 DEF IInv, OneIsPending
<1>3. Complete(current)
  <2>1. current \in 0..MaxRequests
    BY DEF IInv, Types
  <2>2. QED
    BY <1>2, <2>1, BoundsAssumption DEF ClientWrites
<1>4. conn.heard \in Seq(Sendable)
  BY DEF IInv, AnswersOnly, Connections
<1>5. Part(current, "fin") \in Sendable
  BY <1>3, <1>4 DEF Complete, ToSet
<1>6. current \in Answerable
  BY <1>5 DEF Sendable, Part
<1>7. QED
  BY <1>2, <1>6 DEF Answerable

\* The client writes its next request.
LEMMA ClientRequestsStep ==
  ASSUME IInv, ClientRequests
  PROVE  IInv'
<1>1. PICK r : r = current + 1
  OBVIOUS
<1>2. /\ MaxRequests \in Nat \ {0} /\ 1 \in Request /\ r \in Request
      /\ current \in 0..MaxRequests /\ r \in 1..MaxRequests
  BY <1>1, BoundsAssumption DEF IInv, Types, ClientRequests, ClientWrites, Request
<1>3. /\ ~conn.destroyed /\ ~Tunnelled /\ protocol = "http"
      /\ EnterTunnel /\ readyState' = "PENDING" /\ current' = r
      /\ verdict' = [verdict EXCEPT ![r] = "pending"] /\ hook' = r
      /\ UNCHANGED <<inputVars, pauses, completionDue, stage, tunnelUrl, dialled,
                     served, eventVars, cutOff>>
  BY <1>1 DEF ClientRequests, ClientWrites
<1>4. hook = 0
  BY NonePending DEF ClientRequests
<1>5. verdict \in [Request -> Verdicts]
  BY DEF IInv, Types
<1>6. /\ \A q \in Request : q # r => verdict'[q] = verdict[q]
      /\ verdict'[r] = "pending" /\ verdict[r] = "none"
      /\ verdict' \in [Request -> Verdicts]
  <2>1. verdict[r] = "none"
    BY <1>1, <1>2 DEF IInv, OneIsPending
  <2>2. QED
    BY <1>2, <1>3, <1>5, <2>1 DEF Verdicts
<1>7. ~Tunnelled'
  BY <1>2, <1>3, <1>6 DEF Tunnelled, inputVars
<1>8. Answerable \subseteq Answerable'
  <2>1. \A q \in Request : q <= current => q <= r /\ q # r
    BY <1>1, <1>2 DEF Request
  <2>2. \A q \in Answerable : q \in Request /\ q <= r /\ verdict'[q] \in {"mock", "passthrough"}
    BY <1>3, <1>6, <2>1 DEF Answerable
  <2>3. QED
    BY <1>3, <2>2 DEF Answerable
<1>9. Sendable \subseteq Sendable' /\ DueTicks' = DueTicks
  BY <1>3, <1>8 DEF Sendable, DueTicks, inputVars
<1>10. conn \in Connections(Sendable, DueTicks)
  BY DEF IInv, AnswersOnly
<1>11. conn' \in {conn, Detach(conn)}
  BY <1>3 DEF EnterTunnel
<1>12. Detach(conn) \in Connections(Sendable, DueTicks)
  BY <1>10 DEF Connections, Detach, RealState
<1>13. /\ Detach(conn).destroyed = conn.destroyed /\ Detach(conn).layers = conn.layers
       /\ Detach(conn).real = "none"
  BY <1>10 DEF Connections, Detach
<1>14. Types'
  <2>1. OtherTypes'
    BY <1>3 DEF IInv, Types, OtherTypes, EnterTunnel, eventVars
  <2>2. retargeted' \in BOOLEAN
    BY <1>3 DEF IInv, Types, EnterTunnel, RetargetTunnel
  <2>3. (hook \in 0..MaxRequests /\ current \in 0..MaxRequests)'
    BY <1>2, <1>3
  <2>4. QED
    BY <1>3, <1>6, <2>1, <2>2, <2>3 DEF IInv, Types, inputVars
<1>15. AnswersOnly'
  <2>1. conn' \in Connections(Sendable', DueTicks)
    BY <1>9, <1>10, <1>11, <1>12, Widening
  <2>2. reached' \in Seq(Answerable')
    <3>1. reached' \in {reached, <<>>} /\ reached \in Seq(Answerable)
      BY <1>3 DEF EnterTunnel, IInv, AnswersOnly
    <3>2. <<>> \in Seq(Answerable') /\ Seq(Answerable) \subseteq Seq(Answerable')
      BY <1>8
    <3>3. QED
      BY <3>1, <3>2
  <2>3. \A q \in Request : stage'[q] # "none" => verdict'[q] = "mock"
    BY <1>3, <1>6 DEF IInv, AnswersOnly
  <2>4. QED
    BY <1>9, <2>1, <2>2, <2>3 DEF AnswersOnly
<1>16. OneIsPending'
  <2>1. \A q \in Request : q > current' => verdict'[q] = "none"
    BY <1>1, <1>2, <1>3, <1>6 DEF IInv, OneIsPending, Request
  <2>2. \A q \in Request : verdict'[q] = "pending" => hook' = q
    <3>1. SUFFICES ASSUME NEW q \in Request, verdict'[q] = "pending", q # r PROVE FALSE
      BY <1>3
    <3>2. hook = q
      BY <1>6, <3>1 DEF IInv, OneIsPending
    <3>3. QED
      BY <1>4, <3>2 DEF Request
  <2>3. protocol' # "other"
    BY <1>3 DEF inputVars
  <2>4. QED
    BY <1>3, <1>6, <1>7, <2>1, <2>2, <2>3 DEF OneIsPending
<1>17. HookHolds'
  <2>1. cutOff' = {}
    BY <1>3 DEF IInv, HookHolds
  <2>2. QED
    BY <1>11, <1>13, <2>1 DEF IInv, HookHolds, AbortReaches
<1>18. DialledRight'
  <2>1. /\ tunnelUrl => connectFirst /\ verdict[1] = "mock"
        /\ retargeted <=> tunnelUrl /\ current >= 2
        /\ ~retargeted => dialled = "original"
    BY DEF IInv, DialledRight
  <2>2. CASE tunnelUrl
    <3>1. verdict[1] = "mock" /\ r # 1
      BY <1>6, <2>1, <2>2
    <3>2. current' >= 2
      BY <1>2, <1>3, <3>1
    <3>3. retargeted' = TRUE /\ conn' = Detach(conn)
      BY <1>3, <2>2 DEF EnterTunnel, RetargetTunnel
    <3>4. conn'.real \notin LiveStates
      BY <1>13, <3>3 DEF LiveStates
    <3>5. (tunnelUrl => connectFirst /\ verdict[1] = "mock")'
      BY <1>2, <1>3, <1>6, <2>1, <2>2, <3>1 DEF inputVars
    <3>6. QED
      BY <1>3, <2>2, <3>2, <3>3, <3>4, <3>5 DEF DialledRight
  <2>3. CASE ~tunnelUrl
    BY <1>3, <2>1, <2>3 DEF EnterTunnel, DialledRight
  <2>4. QED
    BY <2>2, <2>3
<1>19. ServedRight'
  <2>1. SUFFICES ASSUME NEW q \in Request, NEW target \in Targets, <<q, target>> \in served
                 PROVE  /\ q <= current' /\ verdict'[q] = "passthrough"
                        /\ target = "tunnel" <=> tunnelUrl /\ ~IsConnect(q)
    BY <1>3 DEF ServedRight, IsConnect, inputVars
  <2>2. q <= current /\ verdict[q] = "passthrough" /\ (target = "tunnel" <=> tunnelUrl /\ ~IsConnect(q))
    BY <2>1 DEF IInv, ServedRight
  <2>3. q <= current' /\ q # r
    BY <1>1, <1>2, <1>3, <2>2 DEF Request
  <2>4. QED
    BY <1>6, <2>2, <2>3
<1>20. QED
  BY <1>14, <1>15, <1>16, <1>17, <1>18, <1>19 DEF IInv

\* The client writes its next request through a tunnel that passed through.
LEMMA ClientRequestsThroughTunnelStep ==
  ASSUME IInv, ClientRequestsThroughTunnel
  PROVE  IInv'
<1>1. PICK r : r = current + 1
  OBVIOUS
<1>2. /\ MaxRequests \in Nat \ {0} /\ 1 \in Request /\ r \in Request
      /\ current \in 0..MaxRequests /\ r \in 1..MaxRequests
  BY <1>1, BoundsAssumption
     DEF IInv, Types, ClientRequestsThroughTunnel, ClientWrites, Request
<1>3. /\ Tunnelled /\ protocol = "http" /\ current' = r
      /\ reached' = Append(reached, r)
      /\ UNCHANGED <<inputVars, conn, pauses, verdict, hook, readyState, completionDue>>
      /\ UNCHANGED <<stage, tunnelVars, answering, parsers, served, eventVars, cutOff>>
  BY <1>1 DEF ClientRequestsThroughTunnel, ClientWrites
<1>4. hook = 0 /\ Tunnelled'
  BY <1>3 DEF Tunnelled, inputVars, IInv, OneIsPending
<1>5. Answerable \subseteq Answerable' /\ r \in Answerable'
  <2>1. \A q \in Request : q <= current => q <= r
    BY <1>1, <1>2 DEF Request
  <2>2. r <= r
    BY <1>1, <1>2
  <2>3. Answerable' = {q \in Request : q <= r}
    BY <1>3, <1>4 DEF Answerable
  <2>4. QED
    BY <1>2, <2>1, <2>2, <2>3 DEF Answerable
<1>6. Sendable \subseteq Sendable' /\ DueTicks' = DueTicks
  BY <1>3, <1>5 DEF Sendable, DueTicks, inputVars
<1>7. Types'
  <2>1. OtherTypes'
    BY <1>3 DEF IInv, Types, OtherTypes, eventVars
  <2>2. QED
    BY <1>2, <1>3, <2>1 DEF IInv, Types, inputVars, tunnelVars
<1>8. AnswersOnly'
  <2>1. conn' \in Connections(Sendable', DueTicks)
    BY <1>3, <1>6, Widening DEF IInv, AnswersOnly
  <2>2. reached' \in Seq(Answerable')
    <3>1. reached \in Seq(Answerable')
      <4>1. reached \in Seq(Answerable)
        BY DEF IInv, AnswersOnly
      <4>2. QED
        BY <1>5, <4>1
    <3>2. QED
      BY <1>3, <1>5, <3>1
  <2>3. \A q \in Request : stage'[q] # "none" => verdict'[q] = "mock"
    BY <1>3 DEF IInv, AnswersOnly
  <2>4. QED
    BY <1>6, <2>1, <2>2, <2>3 DEF AnswersOnly
<1>9. OneIsPending'
  <2>1. \A q \in Request : q > current' => verdict'[q] = "none"
    BY <1>1, <1>2, <1>3 DEF IInv, OneIsPending, Request
  <2>2. \A q \in Request : verdict'[q] = "pending" => hook' = q
    BY <1>3 DEF IInv, OneIsPending
  <2>3. protocol' # "other"
    BY <1>3 DEF inputVars
  <2>4. QED
    BY <1>3, <1>4, <2>1, <2>2, <2>3 DEF OneIsPending
<1>10. HookHolds'
  BY <1>3 DEF IInv, HookHolds, AbortReaches
<1>11. DialledRight'
  <2>1. ~tunnelUrl
    BY <1>3 DEF IInv, DialledRight, Tunnelled
  <2>2. QED
    BY <1>3, <2>1 DEF IInv, DialledRight, tunnelVars, inputVars
<1>12. ServedRight'
  <2>1. SUFFICES ASSUME NEW q \in Request, NEW target \in Targets, <<q, target>> \in served
                 PROVE  /\ q <= current' /\ verdict[q] = "passthrough"
                        /\ target = "tunnel" <=> tunnelUrl /\ ~IsConnect(q)
    BY <1>3 DEF ServedRight, IsConnect, inputVars, tunnelVars
  <2>2. q <= current /\ verdict[q] = "passthrough" /\ (target = "tunnel" <=> tunnelUrl /\ ~IsConnect(q))
    BY <2>1 DEF IInv, ServedRight
  <2>3. q <= current'
    BY <1>1, <1>2, <1>3, <2>2 DEF Request
  <2>4. QED
    BY <2>2, <2>3
<1>13. QED
  BY <1>7, <1>8, <1>9, <1>10, <1>11, <1>12 DEF IInv

\* What is known of a request that gets its verdict.
LEMMA UndecidedIsPending ==
  ASSUME IInv, NEW r \in Request, Undecided(r)
  PROVE  /\ hook = r /\ current = r /\ ~Tunnelled
         /\ (tunnelUrl => r # 1)
         /\ (retargeted <=> tunnelUrl)
         /\ \A v \in {"mock", "error", "passthrough"} : Given(Decides(r, v))
<1>1. 1 \in Request /\ r \in Nat /\ r # 0 /\ verdict[r] = "pending"
  BY BoundsAssumption DEF Request, Undecided
<1>2. hook = r /\ current = r /\ ~Tunnelled
  BY <1>1 DEF IInv, OneIsPending
<1>3. tunnelUrl => r # 1
  BY <1>1 DEF IInv, DialledRight
<1>4. retargeted <=> tunnelUrl
  BY <1>1, <1>2, <1>3 DEF IInv, DialledRight
<1>5. \A v \in {"mock", "error", "passthrough"} : Given(Decides(r, v))
  BY <1>1 DEF IInv, Types, Given, Decides, Verdicts
<1>6. QED
  BY <1>2, <1>3, <1>4, <1>5

\* A verdict that dials nothing.
LEMMA Deciding ==
  ASSUME IInv, NEW r \in Request, Undecided(r), NEW v \in {"mock", "error"},
         NEW c \in After(conn, Sendable, DueTicks), Turns(c, Decides(r, v)),
         UNCHANGED <<inputVars, current, retargeted, dialled, served, reached>>,
         OtherTypes', tunnelUrl' \in BOOLEAN,
         tunnelUrl' # tunnelUrl => IsConnect(r) /\ v = "mock" /\ tunnelUrl',
         \A q \in Request : stage'[q] # "none" => stage[q] # "none" \/ (q = r /\ v = "mock")
  PROVE  IInv'
<1>1. /\ MaxRequests \in Nat \ {0} /\ 1 \in Request /\ r \in 1..MaxRequests
      /\ verdict[r] = "pending" /\ verdict \in [Request -> Verdicts]
  BY BoundsAssumption DEF Request, Undecided, IInv, Types
<1>2. /\ hook = r /\ current = r /\ ~Tunnelled
      /\ (tunnelUrl => r # 1)
      /\ (retargeted <=> tunnelUrl)
      /\ Given(Decides(r, v))
  BY UndecidedIsPending
<1>3. /\ c \in Connections(Sendable, DueTicks) /\ c.destroyed \in BOOLEAN
      /\ Follows(conn, c) /\ conn' = c
  BY DEF After, Connections, Turns
<1>4. PICK verdicts : verdicts = Decides(r, v)
  OBVIOUS
<1>5. /\ Given(verdict')
      /\ \A q \in Request : verdicts[q] # "pending" => verdict'[q] = verdicts[q]
      /\ hook' \in 0..MaxRequests /\ cutOff' \subseteq Request
      /\ OneIsPending' /\ HookHolds'
  BY <1>2, <1>3, <1>4, Turning DEF Follows
<1>6. verdict'[r] = v /\ \A q \in Request : verdict[q] # "pending" => verdict'[q] = verdict[q]
  <2>1. verdicts[r] = v
    BY <1>1, <1>4 DEF Decides
  <2>2. QED
    BY <1>5, <2>1 DEF Given
<1>7. Answerable \subseteq Answerable' /\ Sendable \subseteq Sendable' /\ DueTicks' = DueTicks
  BY <1>5, MoreIsAnswered
<1>8. Types'
  BY <1>5 DEF IInv, Types, Given, inputVars
<1>9. AnswersOnly'
  <2>1. conn' \in Connections(Sendable', DueTicks)
    BY <1>3, <1>7, Widening
  <2>2. reached' \in Seq(Answerable')
    <3>1. reached \in Seq(Answerable)
      BY DEF IInv, AnswersOnly
    <3>2. QED
      BY <1>7, <3>1
  <2>3. \A q \in Request : stage'[q] # "none" => verdict'[q] = "mock"
    BY <1>6 DEF IInv, AnswersOnly
  <2>4. QED
    BY <1>7, <2>1, <2>2, <2>3 DEF AnswersOnly
<1>10. DialledRight'
  <2>1. /\ tunnelUrl => connectFirst /\ verdict[1] = "mock"
        /\ retargeted <=> tunnelUrl /\ current >= 2
        /\ ~retargeted => dialled = "original"
        /\ retargeted /\ conn.real \in LiveStates => dialled = "tunnel"
    BY DEF IInv, DialledRight
  <2>2. (tunnelUrl => connectFirst /\ verdict[1] = "mock")'
    BY <1>1, <1>6, <2>1 DEF IsConnect, inputVars
  <2>3. (retargeted <=> tunnelUrl /\ current >= 2)'
    <3>1. CASE tunnelUrl' = tunnelUrl
      BY <2>1, <3>1
    <3>2. CASE tunnelUrl' # tunnelUrl
      <4>1. r = 1 /\ ~tunnelUrl
        BY <3>2 DEF IsConnect, IInv, Types
      <4>2. ~retargeted /\ ~(current >= 2)
        BY <1>2, <4>1
      <4>3. QED
        BY <4>2
    <3>3. QED
      BY <3>1, <3>2
  <2>4. (~retargeted => dialled = "original")'
    BY <2>1
  <2>5. (retargeted /\ conn.real \in LiveStates => dialled = "tunnel")'
    BY <1>3, <2>1 DEF Follows
  <2>6. QED
    BY <2>2, <2>3, <2>4, <2>5 DEF DialledRight
<1>11. ServedRight'
  <2>1. SUFFICES ASSUME NEW q \in Request, NEW target \in Targets, <<q, target>> \in served
                 PROVE  /\ q <= current /\ verdict'[q] = "passthrough"
                        /\ target = "tunnel" <=> tunnelUrl' /\ ~IsConnect(q)
    BY DEF ServedRight, IsConnect, inputVars
  <2>2. q <= current /\ verdict[q] = "passthrough" /\ (target = "tunnel" <=> tunnelUrl /\ ~IsConnect(q))
    BY <2>1 DEF IInv, ServedRight
  <2>3. verdict'[q] = "passthrough"
    BY <1>6, <2>2
  <2>4. CASE tunnelUrl' = tunnelUrl
    BY <2>2, <2>3, <2>4
  <2>5. CASE tunnelUrl' # tunnelUrl
    <3>1. r = 1
      BY <2>5 DEF IsConnect
    <3>2. q = 1
      BY <1>2, <2>2, <3>1 DEF Request
    <3>3. QED
      BY <1>1, <2>2, <3>1, <3>2
  <2>6. QED
    BY <2>4, <2>5
<1>12. QED
  BY <1>5, <1>8, <1>9, <1>10, <1>11 DEF IInv

\* A mocked response to a destroyed socket.
LEMMA RespondInVainStep ==
  ASSUME IInv, NEW r \in Request, RespondInVain(r)
  PROVE  IInv'
<1>1. /\ Undecided(r) /\ Turns(conn, Decides(r, "mock"))
      /\ stage' = [stage EXCEPT ![r] = "done"]
      /\ UNCHANGED <<inputVars, current, tunnelVars, realVars, eventVars>>
      /\ UNCHANGED <<pauses, readyState, completionDue>>
  BY DEF RespondInVain
<1>2. OtherTypes'
  BY <1>1 DEF IInv, Types, OtherTypes, realVars, eventVars
<1>3. \A q \in Request : stage'[q] # "none" => stage[q] # "none" \/ (q = r /\ "mock" = "mock")
  BY <1>1 DEF IInv, Types, OtherTypes
<1>4. UNCHANGED <<inputVars, current, retargeted, dialled, served, reached>>
        /\ tunnelUrl' = tunnelUrl /\ tunnelUrl \in BOOLEAN
  BY <1>1 DEF tunnelVars, realVars, IInv, Types
<1>5. conn \in After(conn, Sendable, DueTicks)
  BY ConnAfter
<1>6. QED
  BY <1>1, <1>2, <1>3, <1>4, <1>5, Deciding

\* A mocked response.
LEMMA RespondWithStep ==
  ASSUME IInv, NEW r \in Request, NEW ok \in BOOLEAN, RespondWith(r, ok)
  PROVE  IInv'
<1>1. /\ Undecided(r) /\ Turns(conn, Decides(r, "mock"))
      /\ readyState' = "CLAIMED" /\ completionDue' = conn.connecting
      /\ tunnelUrl' = (tunnelUrl \/ (IsConnect(r) /\ ok))
      /\ stage' = [stage EXCEPT ![r] = "listening"]
      /\ UNCHANGED <<inputVars, pauses, current, retargeted, dialled, realVars, eventVars>>
  BY DEF RespondWith
<1>2. conn \in After(conn, Sendable, DueTicks) /\ conn.connecting \in BOOLEAN
  BY ConnAfter DEF After, Connections
<1>3. OtherTypes'
  BY <1>1, <1>2 DEF IInv, Types, OtherTypes, realVars, eventVars
<1>4. \A q \in Request : stage'[q] # "none" => stage[q] # "none" \/ (q = r /\ "mock" = "mock")
  BY <1>1 DEF IInv, Types, OtherTypes
<1>5. tunnelUrl' \in BOOLEAN /\ (tunnelUrl' # tunnelUrl => IsConnect(r) /\ tunnelUrl')
  BY <1>1 DEF IInv, Types, IsConnect
<1>6. UNCHANGED <<inputVars, current, retargeted, dialled, served, reached>>
  BY <1>1 DEF realVars
<1>7. QED
  BY <1>1, <1>2, <1>3, <1>4, <1>5, <1>6, Deciding

\* Response.error().
LEMMA RespondWithNetworkErrorStep ==
  ASSUME IInv, NEW r \in Request, RespondWithNetworkError(r)
  PROVE  IInv'
<1>1. PICK c : c = IF conn.connecting THEN conn ELSE Destroy(conn)
  OBVIOUS
<1>2. c \in After(conn, Sendable, DueTicks) /\ conn.connecting \in BOOLEAN
  <2>1. c \in After(conn, Sendable, DueTicks)
    BY <1>1, ConnAfter, DestroyAfter
  <2>2. conn.connecting \in BOOLEAN
    BY ConnAfter DEF After, Connections
  <2>3. QED
    BY <2>1, <2>2
<1>3. /\ Undecided(r) /\ Turns(c, Decides(r, "mock"))
      /\ readyState' = "CLAIMED" /\ completionDue' = conn.connecting
      /\ stage' = [stage EXCEPT ![r] = IF conn.connecting THEN "refused" ELSE "done"]
      /\ UNCHANGED <<inputVars, pauses, current, tunnelVars, realVars, eventVars>>
  BY <1>1 DEF RespondWithNetworkError
<1>4. OtherTypes'
  BY <1>2, <1>3 DEF IInv, Types, OtherTypes, realVars, eventVars
<1>5. \A q \in Request : stage'[q] # "none" => stage[q] # "none" \/ (q = r /\ "mock" = "mock")
  BY <1>3 DEF IInv, Types, OtherTypes
<1>6. UNCHANGED <<inputVars, current, retargeted, dialled, served, reached>>
        /\ tunnelUrl' = tunnelUrl /\ tunnelUrl \in BOOLEAN
  BY <1>3 DEF tunnelVars, realVars, IInv, Types
<1>7. QED
  BY <1>2, <1>3, <1>4, <1>5, <1>6, Deciding

\* errorWith().
LEMMA ErrorWithStep ==
  ASSUME IInv, NEW r \in Request, NEW isError \in BOOLEAN, ErrorWith(r, isError)
  PROVE  IInv'
<1>1. PICK c : c = IF isError THEN Destroy(conn) ELSE conn
  OBVIOUS
<1>2. c \in After(conn, Sendable, DueTicks)
  BY <1>1, ConnAfter, DestroyAfter
<1>3. /\ Undecided(r) /\ Turns(c, Decides(r, "error"))
      /\ UNCHANGED <<inputVars, pauses, exchangeVars, tunnelVars, realVars, eventVars>>
  BY <1>1 DEF ErrorWith
<1>4. OtherTypes'
  BY <1>3 DEF IInv, Types, OtherTypes, exchangeVars, realVars, eventVars
<1>5. UNCHANGED <<inputVars, current, retargeted, dialled, served, reached>>
        /\ stage' = stage /\ tunnelUrl' = tunnelUrl /\ tunnelUrl \in BOOLEAN
  BY <1>3 DEF tunnelVars, realVars, exchangeVars, IInv, Types
<1>6. QED
  BY <1>2, <1>3, <1>4, <1>5, Deciding

\* passthrough().
LEMMA PassthroughStep ==
  ASSUME IInv, NEW r \in Request, Passthrough(r)
  PROVE  IInv'
<1>1. /\ MaxRequests \in Nat \ {0} /\ 1 \in Request /\ r \in 1..MaxRequests
      /\ verdict[r] = "pending" /\ verdict \in [Request -> Verdicts]
  BY BoundsAssumption DEF Request, Passthrough, Undecided, IInv, Types
<1>2. /\ hook = r /\ current = r /\ ~Tunnelled
      /\ (tunnelUrl => r # 1)
      /\ (retargeted <=> tunnelUrl)
      /\ Given(Decides(r, "passthrough"))
  BY UndecidedIsPending DEF Passthrough
<1>3. PICK c : c = CorkForListeners(IF Live THEN conn ELSE Dialled(conn))
  OBVIOUS
<1>4. PICK verdicts : verdicts = Decides(r, "passthrough")
  OBVIOUS
<1>5. /\ readyState' = "PASSTHROUGH" /\ Turns(c, verdicts)
      /\ dialled' = IF Live THEN dialled ELSE Target
      /\ parsers' = IF listening THEN (IF Live THEN parsers ELSE {}) \cup {r} ELSE parsers
      /\ UNCHANGED <<inputVars, pauses, completionDue, current, stage, tunnelUrl,
                     retargeted, eventVars>>
  BY <1>3, <1>4 DEF Passthrough
<1>6. /\ answering' \in {"nothing", answering}
      /\ reached' \in {reached, Append(reached, r), <<r>>}
      /\ served' \in {served, served \cup {<<r, dialled'>>}}
  BY DEF Passthrough
<1>7. conn \in Connections(Sendable, DueTicks) /\ Follows(conn, conn)
  BY ConnAfter DEF After
<1>8. /\ c \in Connections(Sendable, DueTicks)
      /\ c.destroyed = conn.destroyed /\ c.layers = conn.layers
  <2>1. PICK d : d = IF Live THEN conn ELSE Dialled(conn)
    OBVIOUS
  <2>2. /\ d \in Connections(Sendable, DueTicks)
        /\ d.destroyed = conn.destroyed /\ d.layers = conn.layers
    BY <1>7, <2>1 DEF Connections, Dialled, RealState
  <2>3. /\ Cork(d) \in Connections(Sendable, DueTicks)
        /\ Cork(d).destroyed = d.destroyed /\ Cork(d).layers = d.layers
    BY <2>2 DEF Connections, Cork
  <2>4. QED
    BY <1>3, <2>1, <2>2, <2>3 DEF CorkForListeners
<1>9. /\ Given(verdict')
      /\ \A q \in Request : verdicts[q] # "pending" => verdict'[q] = verdicts[q]
      /\ hook' \in 0..MaxRequests /\ cutOff' \subseteq Request
      /\ OneIsPending' /\ HookHolds'
  <2>1. c.destroyed \in BOOLEAN
    BY <1>8 DEF Connections
  <2>2. QED
    BY <1>2, <1>4, <1>5, <1>7, <1>8, <2>1, Turning DEF Follows
<1>10. /\ verdict'[r] = "passthrough"
       /\ \A q \in Request : verdict[q] # "pending" => verdict'[q] = verdict[q]
  <2>1. verdicts[r] = "passthrough"
    BY <1>1, <1>4 DEF Decides
  <2>2. QED
    BY <1>9, <2>1 DEF Given
<1>11. Answerable \subseteq Answerable' /\ Sendable \subseteq Sendable' /\ DueTicks' = DueTicks
  BY <1>5, <1>9, MoreIsAnswered
<1>12. r \in Answerable'
  BY <1>1, <1>2, <1>5, <1>10 DEF Answerable
<1>13. dialled' \in Targets
  BY <1>5 DEF Target, Targets, IInv, Types
<1>14. Types'
  <2>1. parsers' \subseteq Request
    BY <1>5 DEF IInv, Types, OtherTypes
  <2>2. OtherTypes'
    BY <1>5, <1>6, <2>1 DEF IInv, Types, OtherTypes, eventVars
  <2>3. served' \subseteq Request \X Targets
    BY <1>6, <1>13 DEF IInv, Types
  <2>4. QED
    BY <1>5, <1>9, <1>13, <2>2, <2>3 DEF IInv, Types, Given, inputVars
<1>15. AnswersOnly'
  <2>1. conn' \in Connections(Sendable', DueTicks)
    BY <1>5, <1>8, <1>11, Widening DEF Turns
  <2>2. reached' \in Seq(Answerable')
    <3>1. reached \in Seq(Answerable)
      BY DEF IInv, AnswersOnly
    <3>2. reached \in Seq(Answerable')
      BY <1>11, <3>1
    <3>3. Append(reached, r) \in Seq(Answerable') /\ <<r>> \in Seq(Answerable')
      BY <1>12, <3>2
    <3>4. QED
      BY <1>6, <3>2, <3>3
  <2>3. \A q \in Request : stage'[q] # "none" => verdict'[q] = "mock"
    BY <1>5, <1>10 DEF IInv, AnswersOnly
  <2>4. QED
    BY <1>11, <2>1, <2>2, <2>3 DEF AnswersOnly
<1>16. DialledRight'
  <2>1. /\ tunnelUrl => connectFirst /\ verdict[1] = "mock"
        /\ retargeted <=> tunnelUrl /\ current >= 2
        /\ ~retargeted => dialled = "original"
        /\ retargeted /\ Live => dialled = "tunnel"
    BY DEF IInv, DialledRight, Live, LiveStates
  <2>2. (tunnelUrl => connectFirst /\ verdict[1] = "mock")'
    BY <1>1, <1>5, <1>10, <2>1 DEF inputVars
  <2>3. ~retargeted => dialled' = "original"
    BY <1>5, <2>1 DEF Target
  <2>4. retargeted => dialled' = "tunnel"
    BY <1>5, <2>1 DEF Target
  <2>5. QED
    BY <1>5, <2>1, <2>2, <2>3, <2>4 DEF DialledRight
<1>17. ServedRight'
  <2>1. SUFFICES ASSUME NEW q \in Request, NEW target \in Targets, <<q, target>> \in served'
                 PROVE  /\ q <= current /\ verdict'[q] = "passthrough"
                        /\ target = "tunnel" <=> tunnelUrl /\ ~IsConnect(q)
    BY <1>5 DEF ServedRight, IsConnect, inputVars
  <2>2. CASE <<q, target>> \in served
    BY <1>10, <2>2 DEF IInv, ServedRight
  <2>3. CASE q = r /\ target = dialled'
    <3>1. q <= current
      BY <1>1, <1>2, <2>3
    <3>2. retargeted => dialled' = "tunnel"
      BY <1>5 DEF Target, IInv, DialledRight, Live, LiveStates
    <3>3. ~retargeted => dialled' = "original"
      BY <1>5 DEF Target, IInv, DialledRight
    <3>4. target = "tunnel" <=> retargeted
      BY <2>3, <3>2, <3>3
    <3>5. tunnelUrl => ~IsConnect(q)
      BY <1>2, <2>3 DEF IsConnect
    <3>6. QED
      BY <1>2, <1>10, <2>3, <3>1, <3>4, <3>5
  <2>4. QED
    BY <1>6, <2>1, <2>2, <2>3
<1>18. QED
  BY <1>9, <1>14, <1>15, <1>16, <1>17 DEF IInv

-----------------------------------------------------------------------------
(* Theorems.                                                                 *)

\* Every step keeps the invariant.
LEMMA NextIInv ==
  ASSUME IInv, [Next]_vars
  PROVE  IInv'
<1>1. CASE ClientRequests
  BY <1>1, ClientRequestsStep
<1>2. CASE ClientRequestsThroughTunnel
  BY <1>2, ClientRequestsThroughTunnelStep
<1>3. CASE Listeners
  BY <1>3, RespondInVainStep, RespondWithStep, RespondWithNetworkErrorStep, ErrorWithStep,
     PassthroughStep DEF Listeners
<1>4. CASE \E r \in Request :
             MockedListenersThrow(r) \/ MockedBodyWrites(r) \/ MockedBodyBreaks(r)
  BY <1>4, MockedListenersThrowStep, MockedBodyWritesStep, MockedBodyBreaksStep
<1>5. CASE MockProceeds
  BY <1>5, MockedListenersSettleStep, MockedBodyEndsStep DEF MockProceeds
<1>6. CASE SettleEvent
  BY <1>6, ResponseListenersSettleStep DEF SettleEvent
<1>7. CASE Server
  BY <1>7, ServerStep
<1>8. CASE EventLoop
  BY <1>8, EventLoopStep
<1>9. CASE OtherSubscriberClaims \/ SourceDeclines \/ ServerSends \/ ServerEnds
  BY <1>9, OtherProtocolStep
<1>10. CASE ConsumerPauses \/ Consumer \/ ClientDestroys
  BY <1>10, ConsumerStep
<1>11. CASE UNCHANGED vars
  <2>1. /\ UNCHANGED <<conn, verdict, hook, cutOff, pauses>>
        /\ UNCHANGED <<inputVars, exchangeVars, tunnelVars, realVars, eventVars>>
    BY <1>11 DEF vars
  <2>2. OtherTypes'
    BY <2>1 DEF IInv, Types, OtherTypes, exchangeVars, realVars, eventVars
  <2>3. UNCHANGED <<inputVars, current, tunnelVars, served, reached>>
    BY <2>1 DEF exchangeVars, realVars
  <2>4. \A q \in Request : stage'[q] # "none" => verdict[q] = "mock"
    BY <2>1 DEF IInv, AnswersOnly, exchangeVars
  <2>5. QED
    BY <2>1, <2>2, <2>3, <2>4, StillHolds
<1>12. QED
  BY <1>1, <1>2, <1>3, <1>4, <1>5, <1>6, <1>7, <1>8, <1>9, <1>10, <1>11 DEF Next

\* The invariant holds always.
THEOREM Invariance == Spec => []IInv
<1>1. Init => IInv
  BY InitIInv
<1>2. IInv /\ [Next]_vars => IInv'
  BY NextIInv
<1>3. QED
  BY <1>1, <1>2, PTL DEF Spec

\* Every variable keeps to its type; the chunks, the ticks and the requests that wait
\* on the real connection are those of this connection.
THEOREM TypeCorrectness == Spec => []TypeOK
<1>1. IInv => TypeOK
  BY TypesSuffice
<1>2. QED
  BY <1>1, Invariance, PTL

\* The request that is pending when the client destroys its socket is aborted, unless
\* the mocked response to an earlier one replaced _destroy().
THEOREM DestroyAborts == Spec => []AbortReaches
<1>1. IInv => AbortReaches
  BY DEF IInv, HookHolds
<1>2. QED
  BY <1>1, Invariance, PTL

\* What passes through a mocked tunnel is sent to the tunnel's target, and everything
\* else to the original one.
THEOREM PassthroughTarget == Spec => []PassedToItsTarget
<1>1. IInv => PassedToItsTarget
  BY DEF IInv, ServedRight, PassedToItsTarget
<1>2. QED
  BY <1>1, Invariance, PTL

-----------------------------------------------------------------------------
(* Sequences.                                                                *)

\* A prefix is what something was appended to.
LEMMA PrefixOfConcat ==
  ASSUME NEW S, NEW s \in Seq(S), NEW t \in Seq(S)
  PROVE  IsPrefix(s, s \o t)
<1>1. /\ s \o t \in Seq(S) /\ Len(s \o t) = Len(s) + Len(t)
      /\ \A i \in 1..Len(s) : (s \o t)[i] = s[i]
  BY ConcatProperties
<1>2. Len(s) \in Nat /\ Len(t) \in Nat
  OBVIOUS
<1>3. \A i \in 1..Len(s) : s[i] \in S
  OBVIOUS
<1>4. /\ SubSeq(s, 1, Len(s)) \in Seq(S) /\ Len(SubSeq(s, 1, Len(s))) = Len(s)
      /\ \A i \in 1..Len(s) : SubSeq(s, 1, Len(s))[i] = s[i]
  OBVIOUS
<1>5. /\ SubSeq(s \o t, 1, Len(s)) \in Seq(S) /\ Len(SubSeq(s \o t, 1, Len(s))) = Len(s)
      /\ \A i \in 1..Len(s) : SubSeq(s \o t, 1, Len(s))[i] = (s \o t)[i]
  <2>1. PICK u : u = s \o t
    OBVIOUS
  <2>2. u \in Seq(S) /\ Len(u) = Len(s) + Len(t)
    BY <1>1, <2>1
  <2>3. Len(s) <= Len(u)
    BY <1>2, <2>2
  <2>4. \A i \in 1..Len(s) : u[i] \in S
    BY <1>2, <2>2, <2>3
  <2>5. /\ SubSeq(u, 1, Len(s)) \in Seq(S) /\ Len(SubSeq(u, 1, Len(s))) = Len(s)
        /\ \A i \in 1..Len(s) : SubSeq(u, 1, Len(s))[i] = u[i]
    BY <1>2, <2>2, <2>3, <2>4
  <2>6. QED
    BY <2>1, <2>5
<1>6. SubSeq(s, 1, Len(s)) = SubSeq(s \o t, 1, Len(s))
  BY <1>1, <1>2, <1>4, <1>5, SeqEqual
<1>7. QED
  BY <1>1, <1>2, <1>6 DEF IsPrefix

\* What is appended to a sequence has it as a prefix, and so has itself.
LEMMA PrefixOfAppend ==
  ASSUME NEW S, NEW s \in Seq(S), NEW x \in S
  PROVE  IsPrefix(s, Append(s, x)) /\ IsPrefix(s, s)
<1>1. <<x>> \in Seq(S) /\ <<>> \in Seq(S)
  OBVIOUS
<1>2. Append(s, x) = s \o <<x>> /\ s \o <<>> = s
  BY AppendIsConcat, ConcatEmptySeq
<1>3. IsPrefix(s, s \o <<x>>) /\ IsPrefix(s, s \o <<>>)
  BY <1>1, PrefixOfConcat
<1>4. QED
  BY <1>2, <1>3

\* The same without an element.
LEMMA PrefixOfItself ==
  ASSUME NEW S, NEW s \in Seq(S)
  PROVE  IsPrefix(s, s)
<1>1. <<>> \in Seq(S) /\ s \o <<>> = s
  BY ConcatEmptySeq
<1>2. IsPrefix(s, s \o <<>>)
  BY <1>1, PrefixOfConcat
<1>3. QED
  BY <1>1, <1>2

\* Appending to the second of two sequences appends to both.
LEMMA AppendConcat ==
  ASSUME NEW S, NEW s \in Seq(S), NEW t \in Seq(S), NEW x \in S
  PROVE  s \o Append(t, x) = Append(s \o t, x)
<1>1. <<x>> \in Seq(S) /\ s \o t \in Seq(S)
  BY ConcatProperties
<1>2. Append(t, x) = t \o <<x>> /\ Append(s \o t, x) = (s \o t) \o <<x>>
  BY <1>1, AppendIsConcat
<1>3. QED
  BY <1>1, <1>2, ConcatAssociative

\* Moving the head of the second to the end of the first leaves both as they are.
LEMMA MoveHead ==
  ASSUME NEW S, NEW s \in Seq(S), NEW t \in Seq(S), t # <<>>
  PROVE  Append(s, Head(t)) \o Tail(t) = s \o t
<1>1. /\ Head(t) \in S /\ Tail(t) \in Seq(S) /\ Len(Tail(t)) = Len(t) - 1
      /\ \A i \in 1..Len(Tail(t)) : Tail(t)[i] = t[i + 1]
      /\ Head(t) = t[1] /\ Len(t) \in Nat \ {0}
  BY HeadTailProperties, EmptySeq
<1>2. PICK h : h = Head(t)
  OBVIOUS
<1>3. <<h>> \in Seq(S) /\ Append(s, h) = s \o <<h>>
  BY <1>1, <1>2, AppendIsConcat
<1>4. t = <<h>> \o Tail(t)
  <2>1. PICK u : u = Tail(t)
    OBVIOUS
  <2>2. u \in Seq(S) /\ Len(u) = Len(t) - 1 /\ (\A i \in 1..Len(u) : u[i] = t[i + 1])
    BY <1>1, <2>1
  <2>3. Len(<<h>>) = 1 /\ <<h>>[1] = h
    OBVIOUS
  <2>4. /\ <<h>> \o u \in Seq(S) /\ Len(<<h>> \o u) = 1 + Len(u)
        /\ \A i \in 1..1 + Len(u) : (<<h>> \o u)[i] = IF i <= 1 THEN <<h>>[i] ELSE u[i - 1]
    BY <1>3, <2>2, <2>3, ConcatProperties
  <2>5. \A i \in 1..Len(t) : (<<h>> \o u)[i] = t[i]
    <3>1. SUFFICES ASSUME NEW i \in 1..Len(t) PROVE (<<h>> \o u)[i] = t[i]
      OBVIOUS
    <3>2. 1 + Len(u) = Len(t)
      BY <1>1, <2>2
    <3>3. CASE i = 1
      BY <1>1, <1>2, <2>3, <2>4, <3>2, <3>3
    <3>4. CASE i # 1
      <4>1. i - 1 \in 1..Len(u) /\ ~(i <= 1) /\ (i - 1) + 1 = i
        BY <1>1, <3>2, <3>4
      <4>2. (<<h>> \o u)[i] = u[i - 1]
        BY <2>4, <3>2, <4>1
      <4>3. QED
        BY <2>2, <4>1, <4>2
    <3>5. QED
      BY <3>3, <3>4
  <2>6. QED
    BY <1>1, <2>1, <2>2, <2>4, <2>5, SeqEqual
<1>5. (s \o <<h>>) \o Tail(t) = s \o (<<h>> \o Tail(t))
  BY <1>1, <1>3, ConcatAssociative
<1>6. QED
  BY <1>2, <1>3, <1>4, <1>5

\* Concatenation is associative.
LEMMA ConcatThree ==
  ASSUME NEW S, NEW s \in Seq(S), NEW t \in Seq(S), NEW u \in Seq(S)
  PROVE  (s \o t) \o u = s \o (t \o u)
BY ConcatAssociative

\* Whatever a longer sequence begins with, one with another element does.
LEMMA PrefixGrows ==
  ASSUME NEW S, NEW s \in Seq(S), NEW t \in Seq(S), IsPrefix(s, t), NEW x \in S
  PROVE  IsPrefix(s, Append(t, x))
<1>1. PICK u : u = Append(t, x)
  OBVIOUS
<1>2. /\ u \in Seq(S) /\ Len(u) = Len(t) + 1
      /\ \A i \in 1..Len(t) : u[i] = t[i]
  BY <1>1
<1>3. Len(s) \in Nat /\ Len(t) \in Nat /\ Len(s) <= Len(t)
  BY DEF IsPrefix
<1>4. /\ \A i \in 1..Len(s) : t[i] \in S /\ u[i] = t[i]
      /\ \A i \in 1..Len(s) : u[i] \in S
  BY <1>2, <1>3
<1>5. /\ SubSeq(t, 1, Len(s)) \in Seq(S) /\ Len(SubSeq(t, 1, Len(s))) = Len(s)
      /\ \A i \in 1..Len(s) : SubSeq(t, 1, Len(s))[i] = t[i]
  BY <1>3, <1>4
<1>6. /\ SubSeq(u, 1, Len(s)) \in Seq(S) /\ Len(SubSeq(u, 1, Len(s))) = Len(s)
      /\ \A i \in 1..Len(s) : SubSeq(u, 1, Len(s))[i] = u[i]
  BY <1>2, <1>3, <1>4
<1>7. SubSeq(t, 1, Len(s)) = SubSeq(u, 1, Len(s))
  BY <1>3, <1>4, <1>5, <1>6, SeqEqual
<1>8. QED
  BY <1>1, <1>2, <1>3, <1>7 DEF IsPrefix

\* The elements of a sequence and one more.
LEMMA ElementsOfAppend ==
  ASSUME NEW S, NEW s \in Seq(S), NEW x \in S
  PROVE  ToSet(Append(s, x)) = ToSet(s) \cup {x}
<1>1. PICK u : u = Append(s, x)
  OBVIOUS
<1>2. /\ Len(u) = Len(s) + 1 /\ u[Len(s) + 1] = x /\ Len(s) \in Nat
      /\ \A i \in 1..Len(s) : u[i] = s[i]
      /\ DOMAIN u = 1..Len(u) /\ DOMAIN s = 1..Len(s)
  BY <1>1
<1>3. \A y \in ToSet(u) : y \in ToSet(s) \cup {x}
  <2>1. SUFFICES ASSUME NEW i \in 1..Len(u) PROVE u[i] \in ToSet(s) \cup {x}
    BY <1>2 DEF ToSet
  <2>2. i \in 1..Len(s) \/ i = Len(s) + 1
    BY <1>2
  <2>3. QED
    BY <1>2, <2>2 DEF ToSet
<1>4. \A y \in ToSet(s) : y \in ToSet(u)
  <2>1. SUFFICES ASSUME NEW i \in 1..Len(s) PROVE s[i] \in ToSet(u)
    BY <1>2 DEF ToSet
  <2>2. i \in 1..Len(u)
    BY <1>2
  <2>3. QED
    BY <1>2, <2>2 DEF ToSet
<1>5. x \in ToSet(u)
  <2>1. Len(s) + 1 \in 1..Len(u)
    BY <1>2
  <2>2. QED
    BY <1>2, <2>1 DEF ToSet
<1>6. QED
  BY <1>1, <1>3, <1>4, <1>5

\* The elements of two sequences.
LEMMA ElementsOfConcat ==
  ASSUME NEW S, NEW s \in Seq(S), NEW t \in Seq(S)
  PROVE  ToSet(s \o t) = ToSet(s) \cup ToSet(t)
<1>1. Range(s \o t) = Range(s) \cup Range(t)
  BY RangeConcatenation
<1>2. QED
  BY <1>1 DEF Range, ToSet

\* The elements behind the first.
LEMMA ElementsOfTail ==
  ASSUME NEW S, NEW s \in Seq(S), s # <<>>
  PROVE  /\ ToSet(Tail(s)) \subseteq ToSet(s)
         /\ Head(s) \in ToSet(s)
         /\ \A x \in ToSet(s) : x # Head(s) => x \in ToSet(Tail(s))
<1>1. PICK u : u = Tail(s)
  OBVIOUS
<1>2. /\ u \in Seq(S) /\ Len(u) = Len(s) - 1 /\ Len(s) \in Nat \ {0} /\ Head(s) = s[1]
      /\ \A i \in 1..Len(u) : u[i] = s[i + 1]
      /\ DOMAIN u = 1..Len(u) /\ DOMAIN s = 1..Len(s)
  BY <1>1, HeadTailProperties, EmptySeq
<1>3. ToSet(u) \subseteq ToSet(s)
  <2>1. SUFFICES ASSUME NEW i \in 1..Len(u) PROVE u[i] \in ToSet(s)
    BY <1>2 DEF ToSet
  <2>2. i + 1 \in 1..Len(s)
    BY <1>2
  <2>3. QED
    BY <1>2, <2>2 DEF ToSet
<1>4. Head(s) \in ToSet(s)
  <2>1. 1 \in 1..Len(s)
    BY <1>2
  <2>2. QED
    BY <1>2, <2>1 DEF ToSet
<1>5. \A x \in ToSet(s) : x # Head(s) => x \in ToSet(u)
  <2>1. SUFFICES ASSUME NEW i \in 1..Len(s), s[i] # Head(s) PROVE s[i] \in ToSet(u)
    BY <1>2 DEF ToSet
  <2>2. i - 1 \in 1..Len(u) /\ (i - 1) + 1 = i
    BY <1>2, <2>1
  <2>3. s[i] = u[i - 1]
    BY <1>2, <2>2
  <2>4. QED
    BY <1>2, <2>2, <2>3 DEF ToSet
<1>6. QED
  BY <1>1, <1>3, <1>4, <1>5

-----------------------------------------------------------------------------
(* A connection that is no longer read.                                      *)

\* Until it is destroyed or closed, a client is read.
Alive(c) == ~c.destroyed /\ c.closes = 0

\* What was pushed to it and not discarded.
Delivered(c) == c.heard \o c.buffer

\* What a close, and the end, come after.
Closing(c) ==
  /\ c.closes > 0 => c.ended \/ c.destroyed
  /\ c.nativeClose => c.destroyed
  /\ "close" \in ToSet(c.ticks) => c.destroyed
  /\ "closeUnlessClosed" \in ToSet(c.ticks) => c.ended \/ c.destroyed
  /\ c.ended => c.eof /\ c.buffer = <<>>

\* Its consumer hears nothing, and nothing is sent.
Kept(c, d) ==
  /\ d.heard = c.heard /\ d.ended = c.ended /\ d.closes = c.closes /\ d.sent = c.sent
  /\ c.destroyed => d.destroyed
  /\ "eof" \in ToSet(d.ticks) => "eof" \in ToSet(c.ticks)

\* What a connection may become that way.
Keeping(c) == {d \in After(c, Chunk, Tick) : Kept(c, d) /\ Closing(d)}

\* The ticks of a connection when one is queued.
LEMMA TicksLater ==
  ASSUME NEW c, NEW d \in After(c, Chunk, Tick), NEW t \in Tick
  PROVE  /\ Later(d, t) \in After(c, Chunk, Tick)
         /\ Later(d, t) = [d EXCEPT !.ticks = Later(d, t).ticks]
         /\ ToSet(Later(d, t).ticks) = ToSet(d.ticks) \cup {t}
<1>1. d \in Connections(Chunk, Tick) /\ d.ticks \in Seq(Tick)
  BY DEF After, Connections
<1>2. Later(d, t).ticks = Append(d.ticks, t)
  BY <1>1 DEF Connections, Later
<1>3. ToSet(Append(d.ticks, t)) = ToSet(d.ticks) \cup {t}
  BY <1>1, ElementsOfAppend
<1>4. Later(d, t) = [d EXCEPT !.ticks = Append(d.ticks, t)]
  BY <1>1 DEF Later
<1>5. QED
  BY <1>2, <1>3, <1>4, LaterAfter

\* A tick is queued that has a reason.
LEMMA LaterKeeps ==
  ASSUME NEW c, NEW d \in Keeping(c), NEW t \in Tick, t # "eof",
         t = "close" => d.destroyed,
         t = "closeUnlessClosed" => d.ended \/ d.destroyed
  PROVE  Later(d, t) \in Keeping(c)
<1>1. d \in After(c, Chunk, Tick) /\ Kept(c, d) /\ Closing(d) /\ d \in Connections(Chunk, Tick)
  BY DEF Keeping, After
<1>2. PICK e : e = Later(d, t)
  OBVIOUS
<1>3. /\ e \in After(c, Chunk, Tick) /\ e = [d EXCEPT !.ticks = e.ticks]
      /\ ToSet(e.ticks) = ToSet(d.ticks) \cup {t}
  BY <1>1, <1>2, TicksLater
<1>4. /\ e.heard = d.heard /\ e.ended = d.ended /\ e.closes = d.closes /\ e.sent = d.sent
      /\ e.destroyed = d.destroyed /\ e.nativeClose = d.nativeClose /\ e.eof = d.eof
      /\ e.buffer = d.buffer
  BY <1>1, <1>3 DEF Connections
<1>5. Kept(c, e)
  BY <1>1, <1>3, <1>4 DEF Kept
<1>6. Closing(e)
  BY <1>1, <1>3, <1>4 DEF Closing
<1>7. QED
  BY <1>2, <1>3, <1>5, <1>6 DEF Keeping

\* A change of what neither the consumer nor a close depends on.
LEMMA ChangeKeeps ==
  ASSUME NEW c, NEW d \in Keeping(c), NEW e \in After(c, Chunk, Tick),
         e.heard = d.heard, e.ended = d.ended, e.closes = d.closes, e.sent = d.sent,
         d.destroyed => e.destroyed, e.nativeClose => e.destroyed, d.eof => e.eof,
         e.buffer = d.buffer, e.ticks = d.ticks
  PROVE  e \in Keeping(c)
<1>1. Kept(c, d) /\ Closing(d)
  BY DEF Keeping
<1>2. Kept(c, e)
  BY <1>1 DEF Kept
<1>3. Closing(e)
  BY <1>1 DEF Closing
<1>4. QED
  BY <1>2, <1>3 DEF Keeping

\* The handle of a destroyed client is closed.
LEMMA CloseHandleKeeps ==
  ASSUME NEW c, NEW d \in Keeping(c), d.destroyed
  PROVE  CloseHandle(d) \in Keeping(c) /\ CloseHandle(d).destroyed
<1>1. d \in After(c, Chunk, Tick) /\ d \in Connections(Chunk, Tick) /\ Closing(d)
  BY DEF Keeping, After
<1>2. CloseHandle(d) \in After(c, Chunk, Tick)
  BY <1>1, CloseHandleAfter
<1>3. PICK e : e = CloseHandle(d)
  OBVIOUS
<1>4. /\ e.heard = d.heard /\ e.ended = d.ended /\ e.closes = d.closes /\ e.sent = d.sent
      /\ e.destroyed = d.destroyed /\ e.eof = d.eof /\ e.buffer = d.buffer /\ e.ticks = d.ticks
  BY <1>1, <1>3 DEF CloseHandle, Connections
<1>5. QED
  BY <1>2, <1>3, <1>4, ChangeKeeps

\* A close that waited is delivered.
LEMMA DeliverCloseKeeps ==
  ASSUME NEW c, NEW d \in Keeping(c), d.ended \/ d.destroyed
  PROVE  DeliverClose(d) \in Keeping(c) /\ DeliverClose(d).destroyed = d.destroyed
<1>1. d \in After(c, Chunk, Tick) /\ d \in Connections(Chunk, Tick) /\ Closing(d)
  BY DEF Keeping, After
<1>2. PICK e : e = [d EXCEPT !.layers = @ \ {"waits"}]
  OBVIOUS
<1>3. e \in After(c, Chunk, Tick)
  BY <1>1, <1>2 DEF After, Follows, Connections
<1>4. /\ e.heard = d.heard /\ e.ended = d.ended /\ e.closes = d.closes /\ e.sent = d.sent
      /\ e.destroyed = d.destroyed /\ e.eof = d.eof /\ e.buffer = d.buffer /\ e.ticks = d.ticks
      /\ e.nativeClose = d.nativeClose
  BY <1>1, <1>2 DEF Connections
<1>5. e \in Keeping(c)
  BY <1>1, <1>3, <1>4, ChangeKeeps DEF Closing
<1>6. Later(e, "closeUnlessClosed") \in Keeping(c)
  BY <1>4, <1>5, LaterKeeps DEF Tick
<1>7. Later(e, "closeUnlessClosed").destroyed = d.destroyed
  BY <1>1, <1>2 DEF Later, Connections
<1>8. QED
  BY <1>2, <1>6, <1>7 DEF DeliverClose

\* The client is destroyed.
LEMMA DestroyKeeps ==
  ASSUME NEW c, NEW d \in Keeping(c)
  PROVE  Destroy(d) \in Keeping(c) /\ Destroy(d).destroyed
<1>1. d \in After(c, Chunk, Tick) /\ d \in Connections(Chunk, Tick) /\ Closing(d)
  BY DEF Keeping, After
<1>2. PICK e : e = [d EXCEPT !.destroyed = TRUE]
  OBVIOUS
<1>3. e \in After(c, Chunk, Tick)
  BY <1>1, <1>2 DEF After, Follows, Connections
<1>4. /\ e.heard = d.heard /\ e.ended = d.ended /\ e.closes = d.closes /\ e.sent = d.sent
      /\ e.destroyed = TRUE /\ e.eof = d.eof /\ e.buffer = d.buffer /\ e.ticks = d.ticks
      /\ e.nativeClose = d.nativeClose
  BY <1>1, <1>2 DEF Connections
<1>5. e \in Keeping(c)
  BY <1>3, <1>4, ChangeKeeps
<1>6. PICK f : f = DeliverClose(e)
  OBVIOUS
<1>7. f \in Keeping(c) /\ f.destroyed
  BY <1>4, <1>5, <1>6, DeliverCloseKeeps
<1>8. Later(f, "close") \in Keeping(c) /\ Later(f, "close").destroyed
  <2>1. Later(f, "close") \in Keeping(c)
    BY <1>7, LaterKeeps DEF Tick
  <2>2. f \in Connections(Chunk, Tick)
    BY <1>7 DEF Keeping, After
  <2>3. QED
    BY <1>7, <2>1, <2>2 DEF Later, Connections
<1>9. CloseHandle(f) \in Keeping(c) /\ CloseHandle(f).destroyed
  BY <1>7, CloseHandleKeeps
<1>10. QED
  BY <1>2, <1>6, <1>8, <1>9 DEF Destroy

\* push() to a client that takes no more.
LEMMA PushKeeps ==
  ASSUME NEW c, NEW d \in Keeping(c), NEW chunk, d.eof \/ ~Alive(d)
  PROVE  Push(d, chunk) \in Keeping(c) /\ ~Alive(Push(d, chunk))
<1>1. d \in Connections(Chunk, Tick) /\ Closing(d)
  BY DEF Keeping, After
<1>2. CASE d.destroyed
  BY <1>2 DEF Push, Alive
<1>3. CASE ~d.destroyed
  <2>1. d.eof
    BY <1>1, <1>3 DEF Alive, Closing, Connections
  <2>2. Push(d, chunk) = Destroy(d)
    BY <1>3, <2>1 DEF Push
  <2>3. QED
    BY <2>2, DestroyKeeps DEF Alive
<1>4. QED
  BY <1>2, <1>3

\* push(null).
LEMMA PushEndKeeps ==
  ASSUME NEW c, NEW d \in Keeping(c)
  PROVE  PushEnd(d) \in Keeping(c)
<1>1. d \in After(c, Chunk, Tick) /\ d \in Connections(Chunk, Tick) /\ Closing(d)
  BY DEF Keeping, After
<1>2. PICK e : e = PushEnd(d)
  OBVIOUS
<1>3. e \in After(c, Chunk, Tick)
  BY <1>1, <1>2, PushEndAfter
<1>4. /\ e.heard = d.heard /\ e.ended = d.ended /\ e.closes = d.closes /\ e.sent = d.sent
      /\ e.destroyed = d.destroyed /\ e.buffer = d.buffer /\ e.ticks = d.ticks
      /\ e.nativeClose = d.nativeClose /\ (d.eof => e.eof)
  BY <1>1, <1>2 DEF PushEnd, Connections
<1>5. QED
  BY <1>1, <1>2, <1>3, <1>4, ChangeKeeps DEF Closing

\* f lists the states between the calls of FlushWrite().
FlushRun(f, d, s) ==
  /\ f[0] = d /\ f[Len(s)] = Iterate(FlushWrite, d, s)
  /\ \A i \in 0..Len(s) - 1 : f[i + 1] = FlushWrite(f[i], s[i + 1])

\* The states Iterate() passes through for the calls of FlushWrite().
LEMMA FlushSteps ==
  ASSUME NEW d, NEW s, Len(s) \in Nat
  PROVE  \E f : FlushRun(f, d, s)
<1>2. PICK f : f = CHOOSE g :
        g = [i \in 0..Len(s) |-> IF i = 0 THEN d ELSE FlushWrite(g[i - 1], s[i])]
  OBVIOUS
<1>3. f = [i \in 0..Len(s) |-> IF i = 0 THEN d ELSE FlushWrite(f[i - 1], s[i])]
  <2>1. PICK g : Flushes(g, d, s, Len(s))
    BY FlushesExist
  <2>2. g = [i \in 0..Len(s) |-> IF i = 0 THEN d ELSE FlushWrite(g[i - 1], s[i])]
    BY <2>1 DEF Flushes
  <2>3. QED
    BY <1>2, <2>2
<1>4. f[0] = d
  BY <1>3
<1>5. ASSUME NEW i \in 0..Len(s) - 1 PROVE f[i + 1] = FlushWrite(f[i], s[i + 1])
  <2>1. i + 1 \in 0..Len(s) /\ i + 1 # 0 /\ (i + 1) - 1 = i
    OBVIOUS
  <2>2. QED
    BY <1>3, <2>1
<1>6. f[Len(s)] = Iterate(FlushWrite, d, s)
  BY <1>2 DEF Iterate
<1>7. QED
  BY <1>4, <1>5, <1>6 DEF FlushRun

\* And those between the calls of Replay().
ReplayRun(f, d, s) ==
  /\ f[0] = d /\ f[Len(s)] = Iterate(Replay, d, s)
  /\ \A i \in 0..Len(s) - 1 : f[i + 1] = Replay(f[i], s[i + 1])

\* The same for the calls of Replay().
LEMMA ReplaySteps ==
  ASSUME NEW d, NEW s, Len(s) \in Nat
  PROVE  \E f : ReplayRun(f, d, s)
<1>2. PICK f : f = CHOOSE g :
        g = [i \in 0..Len(s) |-> IF i = 0 THEN d ELSE Replay(g[i - 1], s[i])]
  OBVIOUS
<1>3. f = [i \in 0..Len(s) |-> IF i = 0 THEN d ELSE Replay(f[i - 1], s[i])]
  <2>1. PICK g : Replays(g, d, s, Len(s))
    BY ReplaysExist
  <2>2. g = [i \in 0..Len(s) |-> IF i = 0 THEN d ELSE Replay(g[i - 1], s[i])]
    BY <2>1 DEF Replays
  <2>3. QED
    BY <1>2, <2>2
<1>4. f[0] = d
  BY <1>3
<1>5. ASSUME NEW i \in 0..Len(s) - 1 PROVE f[i + 1] = Replay(f[i], s[i + 1])
  <2>1. i + 1 \in 0..Len(s) /\ i + 1 # 0 /\ (i + 1) - 1 = i
    OBVIOUS
  <2>2. QED
    BY <1>3, <2>1
<1>6. f[Len(s)] = Iterate(Replay, d, s)
  BY <1>2 DEF Iterate
<1>7. QED
  BY <1>4, <1>5, <1>6 DEF ReplayRun

\* The connections that c may become when nobody reads it any longer.
Lost(c) == {d \in Keeping(c) : ~Alive(d)}

\* A change that Keeping() allows is one to something lost, if that was lost already.
LEMMA ChangeLost ==
  ASSUME NEW c, NEW d \in Lost(c), NEW e \in After(c, Chunk, Tick),
         e.heard = d.heard, e.ended = d.ended, e.closes = d.closes, e.sent = d.sent,
         d.destroyed => e.destroyed, e.nativeClose => e.destroyed, d.eof => e.eof,
         e.buffer = d.buffer, e.ticks = d.ticks
  PROVE  e \in Lost(c)
BY ChangeKeeps DEF Lost, Alive

\* One pending write is taken out of the queue of a lost client.
LEMMA FlushWriteLost ==
  ASSUME NEW c, NEW n \in Nat, NEW d \in Lost(c) \cap Flushing(c, Chunk, Tick, n + 1),
         NEW chunk \in Chunk
  PROVE  FlushWrite(d, chunk) \in Lost(c) \cap Flushing(c, Chunk, Tick, n)
<1>1. FlushWrite(d, chunk) \in Flushing(c, Chunk, Tick, n)
  <2>1. OwnTicks \subseteq Tick
    BY DEF OwnTicks, Tick
  <2>2. QED
    BY <2>1, FlushWriteAfter
<1>2. FlushWrite(d, chunk) \in Lost(c)
  <2>1. CASE d.backpressured
    BY <2>1 DEF FlushWrite
  <2>2. CASE ~d.backpressured
    <3>1. d \in After(c, Chunk, Tick) /\ d \in Connections(Chunk, Tick) /\ Closing(d)
      BY DEF Lost, Keeping, After
    <3>2. d.pendingWrites \in Seq(Chunk) /\ Len(d.pendingWrites) = n + 1
      BY <2>2, <3>1 DEF Flushing, Connections
    <3>3. Tail(d.pendingWrites) \in Seq(Chunk)
      BY <3>2
    <3>4. PICK e : e = [d EXCEPT !.pendingWrites = Tail(@)]
      OBVIOUS
    <3>5. e \in Connections(Chunk, Tick)
      BY <3>1, <3>3, <3>4 DEF Connections
    <3>6. Follows(c, e) /\ e.buffer = d.buffer
      BY <3>1, <3>4 DEF After, Follows, Connections
    <3>7. /\ e.heard = d.heard /\ e.ended = d.ended /\ e.closes = d.closes /\ e.sent = d.sent
          /\ e.destroyed = d.destroyed /\ e.eof = d.eof /\ e.ticks = d.ticks
          /\ e.nativeClose = d.nativeClose
      BY <3>1, <3>4 DEF Connections
    <3>8. e \in Lost(c)
      BY <3>1, <3>5, <3>6, <3>7, ChangeLost DEF After, Closing
    <3>9. PICK g : g = Push(e, chunk)
      OBVIOUS
    <3>10. g \in Lost(c)
      BY <3>8, <3>9, PushKeeps DEF Lost
    <3>11. PICK h : h = [g EXCEPT !.backpressured = ~TakesMore(g)]
      OBVIOUS
    <3>12. FlushWrite(d, chunk) = h
      BY <2>2, <3>4, <3>9, <3>11 DEF FlushWrite
    <3>13. h \in After(c, Chunk, Tick)
      BY <1>1, <3>12 DEF Flushing
    <3>14. /\ h.heard = g.heard /\ h.ended = g.ended /\ h.closes = g.closes /\ h.sent = g.sent
           /\ h.destroyed = g.destroyed /\ h.eof = g.eof /\ h.ticks = g.ticks
           /\ h.nativeClose = g.nativeClose /\ h.buffer = g.buffer
      <4>1. g \in Connections(Chunk, Tick)
        BY <3>10 DEF Lost, Keeping, After
      <4>2. QED
        BY <3>11, <4>1 DEF Connections
    <3>15. h \in Lost(c)
      <4>1. Closing(g)
        BY <3>10 DEF Lost, Keeping
      <4>2. QED
        BY <3>10, <3>13, <3>14, <4>1, ChangeLost DEF Closing
    <3>16. QED
      BY <3>12, <3>15
  <2>3. QED
    BY <2>1, <2>2
<1>3. QED
  BY <1>1, <1>2

\* flushPendingWrites() of a lost client.
LEMMA FlushServerLost ==
  ASSUME NEW c, NEW d \in Lost(c)
  PROVE  FlushServer(d) \in Lost(c)
<1>1. /\ d \in After(c, Chunk, Tick) /\ d \in Connections(Chunk, Tick) /\ Closing(d)
      /\ d.pendingWrites \in Seq(Chunk)
  BY DEF Lost, Keeping, After, Connections
<1>2. CASE d.connecting
  <2>1. FlushServer(d) \in After(c, Chunk, Tick)
    BY <1>1, FlushServerAfter DEF OwnTicks, Tick
  <2>2. PICK e : e = [d EXCEPT !.backpressured = TRUE, !.flushScheduled = TRUE]
    OBVIOUS
  <2>3. /\ e.heard = d.heard /\ e.ended = d.ended /\ e.closes = d.closes /\ e.sent = d.sent
        /\ e.destroyed = d.destroyed /\ e.eof = d.eof /\ e.ticks = d.ticks
        /\ e.nativeClose = d.nativeClose /\ e.buffer = d.buffer
    BY <1>1, <2>2 DEF Connections
  <2>4. e = FlushServer(d)
    BY <1>2, <2>2 DEF FlushServer
  <2>5. QED
    BY <1>1, <2>1, <2>3, <2>4, ChangeLost DEF Closing
<1>3. CASE ~d.connecting
  <2>1. PICK e : e = [d EXCEPT !.backpressured = FALSE]
    OBVIOUS
  <2>2. e \in Connections(Chunk, Tick)
    BY <1>1, <2>1 DEF Connections
  <2>3. Follows(c, e) /\ e.buffer = d.buffer /\ e.pendingWrites = d.pendingWrites
    BY <1>1, <2>1 DEF After, Follows, Connections
  <2>4. /\ e.heard = d.heard /\ e.ended = d.ended /\ e.closes = d.closes /\ e.sent = d.sent
        /\ e.destroyed = d.destroyed /\ e.eof = d.eof /\ e.ticks = d.ticks
        /\ e.nativeClose = d.nativeClose
    BY <1>1, <2>1 DEF Connections
  <2>5. e \in After(c, Chunk, Tick)
    BY <1>1, <2>2, <2>3 DEF After
  <2>6. e \in Lost(c)
    BY <1>1, <2>3, <2>4, <2>5, ChangeLost DEF Closing
  <2>7. PICK s : s = d.pendingWrites
    OBVIOUS
  <2>8. s \in Seq(Chunk) /\ Len(s) \in Nat /\ \A i \in 1..Len(s) : s[i] \in Chunk
    BY <1>1, <2>7
  <2>19. PICK f : FlushRun(f, e, s)
    BY <2>8, FlushSteps
  <2>9. /\ f[0] = e /\ f[Len(s)] = Iterate(FlushWrite, e, s)
        /\ \A i \in 0..Len(s) - 1 : f[i + 1] = FlushWrite(f[i], s[i + 1])
    BY <2>19 DEF FlushRun
  <2>10. PICK I : I = {i \in 0..Len(s) :
                        f[i] \in Lost(c) \cap Flushing(c, Chunk, Tick, Len(s) - i)}
    OBVIOUS
  <2>11. 0 \in I
    <3>1. Len(s) - 0 = Len(s) /\ 0 \in 0..Len(s)
      BY <2>8
    <3>2. e \in Flushing(c, Chunk, Tick, Len(s))
      BY <2>3, <2>5, <2>7 DEF Flushing
    <3>3. QED
      BY <2>6, <2>9, <2>10, <3>1, <3>2
  <2>12. ASSUME NEW i \in 0..Len(s) - 1, i \in I PROVE i + 1 \in I
    <3>1. PICK n : n = Len(s) - (i + 1)
      OBVIOUS
    <3>2. n \in Nat /\ n + 1 = Len(s) - i /\ i + 1 \in 0..Len(s) /\ i + 1 \in 1..Len(s)
      BY <2>8, <3>1
    <3>3. f[i] \in Lost(c) \cap Flushing(c, Chunk, Tick, n + 1)
      BY <2>10, <2>12, <3>2
    <3>4. s[i + 1] \in Chunk
      BY <2>8, <3>2
    <3>5. f[i + 1] \in Lost(c) \cap Flushing(c, Chunk, Tick, n)
      BY <2>9, <3>2, <3>3, <3>4, FlushWriteLost
    <3>6. QED
      BY <2>10, <3>1, <3>2, <3>5
  <2>13. Len(s) \in I
    <3>1. 0..Len(s) \subseteq I
      BY <2>8, <2>11, <2>12, Induction
    <3>2. QED
      BY <2>8, <3>1
  <2>14. PICK g : g = Iterate(FlushWrite, e, s)
    OBVIOUS
  <2>15. g \in Lost(c)
    BY <2>9, <2>10, <2>13, <2>14
  <2>16. FlushEndLast(g) \in Lost(c)
    <3>1. g \in After(c, Chunk, Tick) /\ g \in Connections(Chunk, Tick) /\ Closing(g)
      BY <2>15 DEF Lost, Keeping, After
    <3>2. PICK h : h = [g EXCEPT !.pendingEnd = FALSE]
      OBVIOUS
    <3>3. h \in Connections(Chunk, Tick)
      BY <3>1, <3>2 DEF Connections
    <3>4. Follows(c, h) /\ h.buffer = g.buffer
      BY <3>1, <3>2 DEF After, Follows, Connections
    <3>5. /\ h.heard = g.heard /\ h.ended = g.ended /\ h.closes = g.closes /\ h.sent = g.sent
          /\ h.destroyed = g.destroyed /\ h.eof = g.eof /\ h.ticks = g.ticks
          /\ h.nativeClose = g.nativeClose
      BY <3>1, <3>2 DEF Connections
    <3>6. h \in Lost(c)
      BY <2>15, <3>1, <3>3, <3>4, <3>5, ChangeLost DEF After, Closing
    <3>7. PushEnd(h) \in Lost(c)
      <4>1. PushEnd(h) \in Keeping(c)
        BY <3>6, PushEndKeeps DEF Lost
      <4>2. PushEnd(h).destroyed = h.destroyed /\ PushEnd(h).closes = h.closes
        BY <3>3 DEF PushEnd, Connections
      <4>3. QED
        BY <3>6, <4>1, <4>2 DEF Lost, Alive
    <3>8. QED
      BY <2>15, <3>2, <3>7 DEF FlushEndLast, FlushEnd
  <2>17. FlushServer(d) = FlushEndLast(g)
    BY <1>3, <2>1, <2>7, <2>14 DEF FlushServer
  <2>18. QED
    BY <2>16, <2>17
<1>4. QED
  BY <1>2, <1>3

\* A connection is one that it may become.
LEMMA KeepsItself ==
  ASSUME NEW c, c \in After(c, Chunk, Tick), Closing(c)
  PROVE  c \in Keeping(c)
BY DEF Keeping, Kept

\* A read of the real connection that nobody hears.
LEMMA PushRealLost ==
  ASSUME NEW c, NEW d \in Keeping(c), NEW chunk, d.eof \/ ~Alive(d)
  PROVE  PushReal(d, chunk) \in Lost(c)
<1>1. PICK e : e = Push(d, chunk)
  OBVIOUS
<1>2. e \in Lost(c)
  BY <1>1, PushKeeps DEF Lost
<1>3. e \in After(c, Chunk, Tick) /\ e \in Connections(Chunk, Tick) /\ Closing(e)
  BY <1>2 DEF Lost, Keeping, After
<1>4. PICK f : f = [e EXCEPT !.paused = TRUE]
  OBVIOUS
<1>5. f \in Connections(Chunk, Tick)
  BY <1>3, <1>4 DEF Connections
<1>6. Follows(c, f) /\ f.buffer = e.buffer
  BY <1>3, <1>4 DEF After, Follows, Connections
<1>7. /\ f.heard = e.heard /\ f.ended = e.ended /\ f.closes = e.closes /\ f.sent = e.sent
      /\ f.destroyed = e.destroyed /\ f.eof = e.eof /\ f.ticks = e.ticks
      /\ f.nativeClose = e.nativeClose
  BY <1>3, <1>4 DEF Connections
<1>8. f \in Lost(c)
  BY <1>2, <1>3, <1>5, <1>6, <1>7, ChangeLost DEF After, Closing
<1>9. QED
  BY <1>1, <1>2, <1>4, <1>8 DEF PushReal

\* The end of the real connection.
LEMMA PushRealEndKeeps ==
  ASSUME NEW c, NEW d \in Keeping(c)
  PROVE  PushRealEnd(d) \in Keeping(c) /\ PushRealEnd(d).destroyed = d.destroyed
<1>1. d \in After(c, Chunk, Tick) /\ d \in Connections(Chunk, Tick) /\ Closing(d)
  BY DEF Keeping, After
<1>2. PICK e : e = [d EXCEPT !.endPushed = TRUE]
  OBVIOUS
<1>3. e \in Connections(Chunk, Tick)
  BY <1>1, <1>2 DEF Connections
<1>4. Follows(c, e) /\ e.buffer = d.buffer
  BY <1>1, <1>2 DEF After, Follows, Connections
<1>5. /\ e.heard = d.heard /\ e.ended = d.ended /\ e.closes = d.closes /\ e.sent = d.sent
      /\ e.destroyed = d.destroyed /\ e.eof = d.eof /\ e.ticks = d.ticks
      /\ e.nativeClose = d.nativeClose
  BY <1>1, <1>2 DEF Connections
<1>6. e \in Keeping(c)
  BY <1>1, <1>3, <1>4, <1>5, ChangeKeeps DEF After, Closing
<1>7. PushEnd(e) \in Keeping(c)
  BY <1>6, PushEndKeeps
<1>8. PushEnd(e).destroyed = d.destroyed
  BY <1>3, <1>5 DEF PushEnd, Connections
<1>9. QED
  BY <1>2, <1>7, <1>8 DEF PushRealEnd

\* What "close" changes.
LEMMA EmitCloseFields ==
  ASSUME NEW d \in Connections(Chunk, Tick), Closing(d), d.ended \/ d.destroyed
  PROVE  LET e == EmitClose(d) IN
         /\ e.heard = d.heard /\ e.ended = d.ended /\ e.sent = d.sent
         /\ e.destroyed = d.destroyed /\ e.ticks = d.ticks /\ e.closes = d.closes + 1
         /\ Closing(e) /\ ~Alive(e)
<1>1. PICK e : e = EmitClose(d)
  OBVIOUS
<1>2. d.closes \in Nat
  BY DEF Connections
<1>3. /\ e.heard = d.heard /\ e.ended = d.ended /\ e.sent = d.sent /\ e.buffer = d.buffer
      /\ e.destroyed = d.destroyed /\ e.ticks = d.ticks /\ e.closes = d.closes + 1
      /\ e.nativeClose = d.nativeClose /\ e.eof = d.eof
  BY <1>1 DEF EmitClose, Connections
<1>4. Closing(e)
  BY <1>3 DEF Closing
<1>5. ~Alive(e)
  BY <1>2, <1>3 DEF Alive
<1>6. QED
  BY <1>1, <1>3, <1>4, <1>5

\* What a lost client may become, closed or not.
Silent(c) ==
  {d \in After(c, Chunk, Tick) :
     /\ d.heard = c.heard /\ d.ended = c.ended /\ d.sent = c.sent /\ d.closes >= c.closes
     /\ c.destroyed => d.destroyed
     /\ "eof" \in ToSet(d.ticks) => "eof" \in ToSet(c.ticks)
     /\ Closing(d) /\ ~Alive(d)}

\* What is lost is silent.
LEMMA LostIsSilent ==
  ASSUME NEW c, NEW d \in Silent(c), NEW e \in Lost(d)
  PROVE  e \in Silent(c)
<1>1. e \in After(c, Chunk, Tick)
  BY DEF Silent, Lost, Keeping, After, Follows
<1>2. QED
  BY <1>1 DEF Silent, Lost, Keeping, Kept

\* "close" is, too.
LEMMA EmitCloseSilent ==
  ASSUME NEW c \in Connections(Chunk, Tick), NEW d \in Silent(c)
  PROVE  EmitClose(d) \in Silent(c)
<1>1. d \in After(c, Chunk, Tick) /\ d \in Connections(Chunk, Tick) /\ Closing(d) /\ ~Alive(d)
  BY DEF Silent, After
<1>2. d.ended \/ d.destroyed
  BY <1>1 DEF Closing, Alive, Connections
<1>3. EmitClose(d) \in After(c, Chunk, Tick)
  BY <1>1, EmitCloseAfter
<1>4. c.closes \in Nat /\ d.closes \in Nat /\ d.closes >= c.closes
  BY <1>1 DEF Connections, Silent
<1>5. PICK e : e = EmitClose(d)
  OBVIOUS
<1>6. /\ e.heard = d.heard /\ e.ended = d.ended /\ e.sent = d.sent
      /\ e.destroyed = d.destroyed /\ e.ticks = d.ticks /\ e.closes = d.closes + 1
      /\ Closing(e) /\ ~Alive(e)
  BY <1>1, <1>2, <1>5, EmitCloseFields
<1>7. e.closes >= c.closes
  BY <1>4, <1>6
<1>8. QED
  BY <1>3, <1>5, <1>6, <1>7 DEF Silent

\* #emitClientClose() of a lost client.
LEMMA EmitClientCloseSilent ==
  ASSUME NEW c \in Connections(Chunk, Tick), NEW d \in Silent(c)
  PROVE  EmitClientClose(d) \in Silent(c)
<1>1. d \in After(c, Chunk, Tick) /\ d \in Connections(Chunk, Tick) /\ Closing(d) /\ ~Alive(d)
  BY DEF Silent, After
<1>2. PICK e : e = [d EXCEPT !.layers = @ \cup {"waits"}]
  OBVIOUS
<1>3. e \in After(c, Chunk, Tick)
  BY <1>1, <1>2 DEF After, Follows, Connections
<1>4. /\ e.heard = d.heard /\ e.ended = d.ended /\ e.closes = d.closes /\ e.sent = d.sent
      /\ e.destroyed = d.destroyed /\ e.eof = d.eof /\ e.ticks = d.ticks
      /\ e.nativeClose = d.nativeClose /\ e.buffer = d.buffer
  BY <1>1, <1>2 DEF Connections
<1>5. e \in Silent(c)
  BY <1>1, <1>3, <1>4 DEF Silent, Closing, Alive
<1>6. QED
  BY <1>2, <1>5, EmitCloseSilent DEF EmitClientClose

\* One corked read of a lost client is replayed.
LEMMA ReplaySilent ==
  ASSUME NEW c \in Connections(Chunk, Tick), NEW d \in Silent(c), NEW read
  PROVE  Replay(d, read) \in Silent(c)
<1>1. d \in After(d, Chunk, Tick) /\ Closing(d) /\ ~Alive(d)
  BY DEF Silent, After, Follows
<1>2. d \in Keeping(d)
  BY <1>1, KeepsItself
<1>3. PushReal(d, read) \in Silent(c)
  BY <1>1, <1>2, PushRealLost, LostIsSilent
<1>4. PushRealEnd(d) \in Silent(c)
  <2>1. PushRealEnd(d) \in Keeping(d) /\ PushRealEnd(d).destroyed = d.destroyed
    BY <1>2, PushRealEndKeeps
  <2>2. PushRealEnd(d) \in Lost(d)
    BY <1>1, <2>1 DEF Lost, Keeping, Kept, Alive
  <2>3. QED
    BY <2>2, LostIsSilent
<1>5. QED
  BY <1>3, <1>4, EmitClientCloseSilent DEF Replay

\* uncorkReads() of a lost client.
LEMMA UncorkSilent ==
  ASSUME NEW c, c \in After(c, Chunk, Tick), Closing(c), ~Alive(c)
  PROVE  Uncork(c) \in Silent(c)
<1>1. c \in Connections(Chunk, Tick) /\ c.closes \in Nat
  BY DEF After, Connections
<1>2. c \in Silent(c)
  BY <1>1 DEF Silent
<1>3. PICK e : e = [c EXCEPT !.corked = FALSE, !.corkedReads = <<>>]
  OBVIOUS
<1>4. e \in After(c, Chunk, Tick)
  <2>1. <<>> \in Seq(Chunk \cup {EndRead, CloseRead})
    OBVIOUS
  <2>2. e \in Connections(Chunk, Tick)
    BY <1>1, <1>3, <2>1 DEF Connections
  <2>3. Follows(c, e) /\ e.buffer = c.buffer
    BY <1>1, <1>3 DEF After, Follows, Connections
  <2>4. QED
    BY <2>2, <2>3 DEF After
<1>5. /\ e.heard = c.heard /\ e.ended = c.ended /\ e.closes = c.closes /\ e.sent = c.sent
      /\ e.destroyed = c.destroyed /\ e.eof = c.eof /\ e.ticks = c.ticks
      /\ e.nativeClose = c.nativeClose /\ e.buffer = c.buffer
  BY <1>1, <1>3 DEF Connections
<1>6. e \in Silent(c)
  BY <1>2, <1>4, <1>5 DEF Silent, Closing, Alive
<1>7. \A d \in Silent(c), read \in Chunk \cup {EndRead, CloseRead} : Replay(d, read) \in Silent(c)
  BY <1>1, ReplaySilent
<1>8. c.corkedReads \in Seq(Chunk \cup {EndRead, CloseRead})
  BY <1>1 DEF Connections
<1>9. Iterate(Replay, e, c.corkedReads) \in Silent(c)
  BY ONLY <1>6, <1>7, <1>8, ReplayingStays
<1>10. QED
  BY <1>2, <1>3, <1>9 DEF Uncork

-----------------------------------------------------------------------------
(* The stream that the consumer reads.                                       *)

\* What may be behind the data that is corked: the end and the close of the real
\* connection.
Endings == {<<EndRead>>, <<EndRead, CloseRead>>}

\* A real connection that has ended.
Over == {"finished", "closing", "gone"}

\* What was sent is what was handed to the client, then what waits for room, then
\* what is corked (D); E is corked behind it.
InLine(c, D, E) ==
  /\ E \in Endings \cup {<<>>, <<CloseRead>>}
  /\ c.corkedReads = D \o E
  /\ c.sent = Delivered(c) \o (c.pendingWrites \o D)
  /\ c.eof => D = <<>> /\ c.pendingWrites = <<>> /\ E \notin Endings
  /\ c.real \in Over => c.endPushed \/ E \in Endings
  /\ E # <<>> => c.real \in Over
  /\ E \notin {<<>>, <<EndRead>>} => c.real = "gone"

\* Everything sent is in line, whether or not there is a cork; and the client has been
\* told of the end of the real connection only if that has ended.
Sound(c) ==
  /\ \E D \in Seq(Chunk), E \in Seq({EndRead, CloseRead}) : InLine(c, D, E)
  /\ ~c.corked => c.corkedReads = <<>>
  /\ c.endPushed => c.eof /\ c.real \notin {"open", "none"}
  /\ c.endPushed /\ c.real = "connecting" =>
       "closeUnlessClosed" \in ToSet(c.ticks) /\ c.ended
  /\ c.real # "severed"

\* The server socket has nothing to write.
NothingToWrite(c) ==
  c.pendingWrites = <<>> /\ ~c.pendingEnd /\ ~c.backpressured /\ ~c.flushScheduled

\* The stages of a mocked response that is yet to be written.
Active == {"listening", "connecting", "refused", "streaming"}

\* A part of the answer to a request is sent.
Sent(r, part) == Part(r, part) \in ToSet(conn.sent)

\* A request goes to the real connection.
PassedOn(r) == verdict[r] = "passthrough" \/ Tunnelled

\* A mocked response is over without an end that its framing tells.
MockOver ==
  /\ current # 0 /\ verdict[current] = "mock" /\ stage[current] \notin Active
  /\ ~Sent(current, "fin")

\* The real connection has at most the last request to answer.
Reaching ==
  /\ reached \in {<<>>, <<current>>}
  /\ reached # <<>> => PassedOn(current) /\ ~Sent(current, "fin")
  /\ reached # <<>> /\ answering # "head" => ~Sent(current, "head")
  /\ \A e \in events :
       e.part = "informational" => reached # <<>> /\ answering = "informational"

\* At most the last request has a mocked response to come.
Mocking ==
  /\ \A r \in Request : stage[r] \in Active => r = current /\ ~Sent(r, "fin")
  /\ "eof" \in ToSet(conn.ticks) => MockOver
  /\ Tunnelled => \A r \in Request : r > 1 => verdict[r] = "none"

\* While an HTTP client is read: its reads are corked for the last request, it is
\* paused in the middle of the last response, its stream ends with a mocked response
\* or with the real connection, and nothing is dialled before that has closed.
HttpAlive ==
  /\ NothingToWrite(conn)
  /\ conn.corked =>
       current # 0 /\ PassedOn(current) /\ Part(current, "fin") \notin ToSet(Delivered(conn))
  /\ conn.eof /\ ~conn.endPushed => MockOver
  /\ ~conn.flowing => MidResponse
  /\ conn.endPushed /\ conn.real = "gone" /\ current # 0 /\ verdict[current] = "pending" =>
       \/ "waits" \in conn.layers /\ ~conn.ended
       \/ "closeUnlessClosed" \in ToSet(conn.ticks) /\ conn.ended

\* While a client of another protocol is read: what it hears is either a subscriber's
\* or a real connection's.
OtherAlive ==
  /\ ~conn.corked
  /\ conn.real # "none" <=> readyState = "PASSTHROUGH"
  /\ readyState # "CLAIMED" => NothingToWrite(conn) /\ (conn.eof => conn.endPushed)

\* A client that is read.
AliveInv ==
  Alive(conn) =>
    /\ Sound(conn)
    /\ protocol = "http" => HttpAlive
    /\ protocol = "other" => OtherAlive

\* Only HTTP has "response" events.
NoEvents == protocol = "other" => ~listening /\ events = {}

\* What is known of the stream, whoever writes it.
SInv == Reaching /\ Mocking /\ Closing(conn) /\ NoEvents /\ AliveInv

\* It holds at first.
LEMMA InitSInv ==
  ASSUME Init
  PROVE  SInv
<1>1. ToSet(<<>>) = {}
  BY DEF ToSet
<1>2. /\ conn.sent = <<>> /\ conn.ticks = <<>> /\ conn.corkedReads = <<>>
      /\ conn.heard = <<>> /\ conn.buffer = <<>> /\ conn.pendingWrites = <<>>
      /\ ~conn.eof /\ ~conn.ended /\ ~conn.endPushed /\ conn.real = "none" /\ ~conn.corked
      /\ conn.flowing /\ ~conn.pendingEnd /\ ~conn.backpressured /\ ~conn.flushScheduled
      /\ ~conn.destroyed /\ conn.closes = 0 /\ ~conn.nativeClose
  BY DEF Init, NewConnection
<1>3. Reaching
  BY DEF Init, Reaching
<1>4. Mocking
  BY <1>1, <1>2, BoundsAssumption DEF Init, Mocking, Active, Tunnelled, Request
<1>5. Closing(conn)
  BY <1>1, <1>2 DEF Closing
<1>6. NoEvents
  BY DEF Init, NoEvents
<1>7. InLine(conn, <<>>, <<>>)
  BY <1>2 DEF InLine, Delivered, Endings, Over
<1>8. <<>> \in Seq(Chunk) /\ <<>> \in Seq({EndRead, CloseRead})
  OBVIOUS
<1>9. Sound(conn)
  BY <1>2, <1>7, <1>8 DEF Sound
<1>10. HttpAlive
  BY <1>2 DEF HttpAlive, NothingToWrite
<1>11. OtherAlive
  BY <1>2 DEF OtherAlive, NothingToWrite, Init
<1>12. QED
  BY <1>3, <1>4, <1>5, <1>6, <1>9, <1>10, <1>11 DEF SInv, AliveInv

\* What the other side of the connection does to the client, as the abstract stream
\* sees it.
Promised(c, d) ==
  \/ /\ d.sent = c.sent /\ d.heard = c.heard /\ d.ended = c.ended
     /\ d.destroyed = c.destroyed /\ (d.closes > 0 <=> c.closes > 0)
  \/ /\ ~c.ended /\ Alive(c) /\ Alive(d)
     /\ IsPrefix(c.sent, d.sent) /\ IsPrefix(c.heard, d.heard) /\ IsPrefix(d.heard, d.sent)
     /\ d.ended = c.ended /\ d.destroyed = c.destroyed /\ (d.closes > 0 <=> c.closes > 0)
  \/ /\ c.destroyed \/ c.closes > 0
     /\ IsPrefix(c.sent, d.sent)
     /\ d.heard = c.heard /\ d.ended = c.ended /\ d.destroyed = c.destroyed
     /\ d.closes > 0 <=> c.closes > 0
  \/ /\ ~c.ended /\ ~c.destroyed /\ c.heard = c.sent /\ d.ended = TRUE
     /\ d.sent = c.sent /\ d.heard = c.heard /\ d.destroyed = c.destroyed
     /\ d.closes > 0 <=> c.closes > 0
  \/ /\ ~c.destroyed /\ d.destroyed = TRUE
     /\ d.heard = c.heard /\ d.ended = c.ended /\ (d.closes > 0 <=> c.closes > 0)
     /\ IsPrefix(c.sent, d.sent)
  \/ /\ c.closes = 0 /\ (c.ended \/ c.destroyed) /\ d.closes > 0
     /\ d.sent = c.sent /\ d.heard = c.heard /\ d.ended = c.ended /\ d.destroyed = c.destroyed

\* Nothing is promised of what is sent to a client that is lost.
LEMMA LostPromised ==
  ASSUME NEW c \in Connections(Chunk, Tick), NEW d \in Connections(Chunk, Tick),
         d.heard = c.heard, d.ended = c.ended, IsPrefix(c.sent, d.sent),
         c.destroyed => d.destroyed, d.closes = c.closes, ~Alive(d)
  PROVE  Promised(c, d)
<1>1. /\ c.destroyed \in BOOLEAN /\ d.destroyed \in BOOLEAN /\ c.closes \in Nat
  BY DEF Connections
<1>2. CASE c.destroyed = d.destroyed
  BY <1>1, <1>2 DEF Promised, Alive
<1>3. CASE c.destroyed # d.destroyed
  BY <1>1, <1>3 DEF Promised
<1>4. QED
  BY <1>2, <1>3

\* Whatever keeps the client, and leaves it lost, is as promised.
LEMMA KeepingPromised ==
  ASSUME NEW c \in Connections(Chunk, Tick), NEW d \in Lost(c)
  PROVE  Promised(c, d)
<1>1. d \in Connections(Chunk, Tick) /\ Kept(c, d) /\ ~Alive(d) /\ c.sent \in Seq(Chunk)
  BY DEF Lost, Keeping, After, Connections
<1>2. IsPrefix(c.sent, d.sent)
  BY <1>1, PrefixOfItself DEF Kept
<1>3. QED
  BY <1>1, <1>2, LostPromised DEF Kept

\* So is what a lost client does by itself.
LEMMA SilentPromised ==
  ASSUME NEW c \in Connections(Chunk, Tick), ~Alive(c), Closing(c), NEW d \in Silent(c)
  PROVE  Promised(c, d)
<1>1. /\ d \in Connections(Chunk, Tick) /\ c.sent \in Seq(Chunk)
      /\ c.destroyed \in BOOLEAN /\ d.destroyed \in BOOLEAN
      /\ c.closes \in Nat /\ d.closes \in Nat
  BY DEF Silent, After, Connections
<1>2. IsPrefix(c.sent, d.sent)
  BY <1>1, PrefixOfItself DEF Silent
<1>3. CASE d.closes = c.closes
  BY <1>1, <1>2, <1>3, LostPromised DEF Silent
<1>4. CASE c.closes = 0 /\ d.closes > 0
  <2>1. c.destroyed /\ d.destroyed
    BY <1>1, <1>4 DEF Alive, Silent
  <2>2. QED
    BY <1>1, <1>4, <2>1 DEF Silent, Promised
<1>5. CASE c.closes > 0 /\ d.closes > 0
  <2>1. CASE c.destroyed = d.destroyed
    BY <1>1, <1>5, <2>1 DEF Silent, Promised
  <2>2. CASE c.destroyed # d.destroyed
    <3>1. ~c.destroyed /\ d.destroyed = TRUE
      BY <1>1, <2>2 DEF Silent
    <3>2. QED
      BY <1>2, <1>5, <3>1 DEF Silent, Promised
  <2>3. QED
    BY <2>1, <2>2
<1>6. d.closes >= c.closes
  BY DEF Silent
<1>7. QED
  BY <1>1, <1>3, <1>4, <1>5, <1>6

\* "close" comes after the end, or after the destruction.
LEMMA EmitClosePromised ==
  ASSUME NEW c \in Connections(Chunk, Tick), c.ended \/ c.destroyed,
         NEW d \in Connections(Chunk, Tick),
         d.heard = c.heard, d.ended = c.ended, d.sent = c.sent, d.destroyed = c.destroyed,
         d.closes = c.closes + 1
  PROVE  Promised(c, d)
<1>1. c.closes \in Nat
  BY DEF Connections
<1>2. d.closes > 0
  BY <1>1
<1>3. CASE c.closes = 0
  BY <1>2, <1>3 DEF Promised
<1>4. CASE c.closes > 0
  BY <1>2, <1>4 DEF Promised
<1>5. QED
  BY <1>1, <1>3, <1>4

\* A client that is read is handed more of what was sent.
LEMMA TransferPromised ==
  ASSUME NEW c \in Connections(Chunk, Tick), NEW d \in Connections(Chunk, Tick),
         Alive(c), Alive(d), Sound(d), ~c.ended, ~d.ended,
         IsPrefix(c.sent, d.sent), IsPrefix(c.heard, d.heard)
  PROVE  Promised(c, d)
<1>1. PICK D \in Seq(Chunk), E \in Seq({EndRead, CloseRead}) : InLine(d, D, E)
  BY DEF Sound
<1>2. d.sent = (d.heard \o d.buffer) \o (d.pendingWrites \o D)
  BY <1>1 DEF InLine, Delivered
<1>3. PICK h, b : h = d.heard /\ b = d.buffer
  OBVIOUS
<1>4. PICK t : t = d.pendingWrites \o D
  OBVIOUS
<1>5. h \in Seq(Chunk) /\ b \in Seq(Chunk) /\ d.pendingWrites \in Seq(Chunk)
  BY <1>3 DEF Connections
<1>6. t \in Seq(Chunk)
  BY <1>4, <1>5, ConcatProperties
<1>7. b \o t \in Seq(Chunk)
  BY <1>5, <1>6, ConcatProperties
<1>8. (h \o b) \o t = h \o (b \o t)
  <2>1. PICK S : S = Chunk
    OBVIOUS
  <2>2. h \in Seq(S) /\ b \in Seq(S) /\ t \in Seq(S)
    BY <1>5, <1>6, <2>1
  <2>3. QED
    BY ONLY SMTT(30), <2>2, ConcatThree
<1>9. IsPrefix(d.heard, d.sent)
  BY <1>2, <1>3, <1>4, <1>5, <1>7, <1>8, PrefixOfConcat
<1>10. c.ended \in BOOLEAN /\ d.ended \in BOOLEAN /\ c.destroyed \in BOOLEAN /\ d.destroyed \in BOOLEAN
  BY DEF Connections
<1>11. QED
  BY <1>9, <1>10 DEF Promised, Alive

-----------------------------------------------------------------------------
(* What a step changes of the exchanges.                                     *)

\* The connection, as the invariant types it.
LEMMA ConnTyped ==
  ASSUME IInv
  PROVE  conn \in Connections(Chunk, Tick) /\ conn \in After(conn, Chunk, Tick)
<1>1. conn \in Connections(Chunk, Tick)
  BY TypesSuffice DEF TypeOK
<1>2. QED
  BY <1>1 DEF IInv, HookHolds, After, Follows

\* No verdict becomes one to pass the request through.
NonePassed == \A r \in Request : verdict'[r] = "passthrough" => verdict[r] = "passthrough"

\* A step that gives no verdict at most aborts the pending request.
LEMMA BecomesGives ==
  ASSUME IInv, NEW c, Becomes(c)
  PROVE  Given(verdict') /\ NonePassed /\ conn' = c /\ (~c.destroyed => verdict' = verdict)
<1>1. verdict \in [Request -> Verdicts] /\ hook \in 0..MaxRequests
  BY DEF IInv, Types
<1>2. hook # 0 => hook \in Request
  BY <1>1, BoundsAssumption DEF Request
<1>3. conn' = c /\ verdict' = AfterHook(c, verdict)
  BY DEF Becomes, Turns
<1>4. CASE HookRuns(c) /\ verdict[hook] = "pending"
  <2>1. verdict' = [verdict EXCEPT ![hook] = "aborted"]
    BY <1>3, <1>4 DEF AfterHook
  <2>2. hook \in Request /\ c.destroyed
    BY <1>2, <1>4 DEF HookRuns
  <2>3. QED
    BY <1>1, <1>3, <1>4, <2>1, <2>2 DEF Given, NonePassed, Verdicts
<1>5. CASE ~(HookRuns(c) /\ verdict[hook] = "pending")
  <2>1. verdict' = verdict
    BY <1>3, <1>5 DEF AfterHook
  <2>2. QED
    BY <1>1, <1>3, <2>1 DEF Given, NonePassed
<1>6. QED
  BY <1>4, <1>5

\* A verdict, with the hook that may run.
LEMMA TurnsGives ==
  ASSUME IInv, NEW verdicts, Given(verdicts), NEW c, Turns(c, verdicts)
  PROVE  /\ Given(verdict') /\ conn' = c /\ (~c.destroyed => verdict' = verdicts)
         /\ \A r \in Request : verdict'[r] = verdicts[r] \/ verdict'[r] = "aborted"
         /\ \A r \in Request : verdicts[r] # "pending" => verdict'[r] = verdicts[r]
<1>1. verdicts \in [Request -> Verdicts] /\ hook \in 0..MaxRequests
  BY DEF IInv, Types, Given
<1>2. hook # 0 => hook \in Request
  BY <1>1, BoundsAssumption DEF Request
<1>3. conn' = c /\ verdict' = AfterHook(c, verdicts)
  BY DEF Turns
<1>4. CASE HookRuns(c) /\ verdicts[hook] = "pending"
  <2>1. verdict' = [verdicts EXCEPT ![hook] = "aborted"]
    BY <1>3, <1>4 DEF AfterHook
  <2>2. hook \in Request /\ c.destroyed
    BY <1>2, <1>4 DEF HookRuns
  <2>3. verdict' \in [Request -> Verdicts]
    BY <1>1, <2>1, <2>2 DEF Verdicts
  <2>4. \A r \in Request : verdict'[r] = IF r = hook THEN "aborted" ELSE verdicts[r]
    BY <1>1, <2>1, <2>2
  <2>5. QED
    BY <1>3, <1>4, <2>2, <2>3, <2>4 DEF Given
<1>5. CASE ~(HookRuns(c) /\ verdicts[hook] = "pending")
  <2>1. verdict' = verdicts
    BY <1>3, <1>5 DEF AfterHook
  <2>2. QED
    BY <1>1, <1>3, <2>1
<1>6. QED
  BY <1>4, <1>5

\* Nothing of what the exchanges are about happens: no head and no end of a response
\* is sent, and the end of the stream is queued for a mocked response only.
Quiet ==
  /\ UNCHANGED <<inputVars, current, reached, answering>>
  /\ \A r \in Request : stage'[r] \in Active => stage[r] \in Active
  /\ events' \subseteq events
  /\ \A r \in Nat : Sent(r, "head")' => Sent(r, "head")
  /\ \A r \in Nat : Sent(r, "fin")' => Sent(r, "fin")
  /\ "eof" \in ToSet(conn'.ticks) => "eof" \in ToSet(conn.ticks) \/ MockOver'

\* Then what is known of them stays.
LEMMA QuietKeeps ==
  ASSUME IInv, SInv, Quiet, Given(verdict'), NonePassed
  PROVE  Reaching' /\ Mocking' /\ NoEvents' /\ (MockOver => MockOver')
<1>1. 1 \in Request /\ current \in Nat /\ current \in 0..MaxRequests
  BY BoundsAssumption DEF Request, IInv, Types
<1>2. /\ Reaching /\ Mocking /\ NoEvents
      /\ \A r \in Request : verdict[r] \in {"mock", "passthrough", "none"} => verdict'[r] = verdict[r]
  BY DEF SInv, Given
<1>3. Tunnelled' <=> Tunnelled
  BY <1>1, <1>2 DEF Quiet, Tunnelled, inputVars, NonePassed
<1>4. current # 0 => current \in Request
  BY <1>1, BoundsAssumption DEF Request
<1>5. reached # <<>> => current \in Request
  <2>1. reached \in Seq(Request)
    BY TypesSuffice DEF TypeOK
  <2>2. ASSUME reached = <<current>> PROVE current \in Request
    <3>1. reached[1] \in Request
      BY <2>1, <2>2
    <3>2. QED
      BY <2>2, <3>1
  <2>3. QED
    BY <1>2, <2>2 DEF Reaching
<1>6. reached # <<>> => (PassedOn(current) => PassedOn(current)')
  BY <1>2, <1>3, <1>5 DEF PassedOn, Quiet
<1>7. Reaching'
  <2>1. reached' = reached /\ current' = current /\ answering' = answering /\ events' \subseteq events
    BY DEF Quiet
  <2>2. (reached \in {<<>>, <<current>>})'
    BY <1>2, <2>1 DEF Reaching
  <2>3. (reached # <<>> => PassedOn(current) /\ ~Sent(current, "fin"))'
    BY <1>1, <1>2, <1>6, <2>1 DEF Reaching, Quiet
  <2>4. (reached # <<>> /\ answering # "head" => ~Sent(current, "head"))'
    BY <1>1, <1>2, <2>1 DEF Reaching, Quiet
  <2>5. (\A e \in events : e.part = "informational" => reached # <<>> /\ answering = "informational")'
    BY <1>2, <2>1 DEF Reaching
  <2>6. QED
    BY <2>2, <2>3, <2>4, <2>5 DEF Reaching
<1>8. MockOver => MockOver'
  BY <1>1, <1>2, <1>4 DEF MockOver, Quiet
<1>9. Mocking'
  <2>1. \A r \in Request : r \in Nat
    BY DEF Request
  <2>2. (\A r \in Request : stage[r] \in Active => r = current /\ ~Sent(r, "fin"))'
    BY <1>2, <2>1 DEF Mocking, Quiet
  <2>3. ("eof" \in ToSet(conn.ticks) => MockOver)'
    BY <1>2, <1>8 DEF Mocking, Quiet
  <2>4. (Tunnelled => \A r \in Request : r > 1 => verdict[r] = "none")'
    BY <1>2, <1>3 DEF Mocking
  <2>5. QED
    BY <2>2, <2>3, <2>4 DEF Mocking
<1>10. NoEvents'
  <2>1. listening' = listening /\ protocol' = protocol /\ events' \subseteq events
    BY DEF Quiet, inputVars
  <2>2. QED
    BY <1>2, <2>1 DEF NoEvents
<1>11. QED
  BY <1>7, <1>8, <1>9, <1>10

\* Once the client is lost that is all there is to know.
LEMMA LostIsSound ==
  ASSUME Reaching', Mocking', NoEvents', Closing(conn'), ~Alive(conn')
  PROVE  SInv'
BY DEF SInv, AliveInv, Closing, Alive

\* A step after which the client is lost.
LEMMA QuietLost ==
  ASSUME IInv, SInv, NEW c, Becomes(c),
         UNCHANGED <<inputVars, current, stage, reached, answering>>, events' \subseteq events,
         c.sent = conn.sent,
         "eof" \in ToSet(c.ticks) => "eof" \in ToSet(conn.ticks),
         Closing(c), ~Alive(c)
  PROVE  SInv'
<1>1. Given(verdict') /\ NonePassed /\ conn' = c
  BY BecomesGives
<1>2. Quiet
  BY <1>1 DEF Quiet, Sent
<1>3. Reaching' /\ Mocking' /\ NoEvents'
  BY <1>1, <1>2, QuietKeeps
<1>4. Closing(conn') /\ ~Alive(conn')
  BY <1>1
<1>5. QED
  BY <1>3, <1>4, LostIsSound

-----------------------------------------------------------------------------
(* The steps after which the client is lost.                                 *)

\* The connection is all that changes.
LEMMA OnlyConnQuiet ==
  ASSUME NEW c, OnlyConn(c)
  PROVE  /\ Becomes(c) /\ UNCHANGED <<inputVars, current, stage, reached, answering>>
         /\ events' = events
BY DEF OnlyConn, exchangeVars, realVars, eventVars

\* It is destroyed, or was lost before.
LEMMA LostStep ==
  ASSUME IInv, SInv, NEW c \in Lost(conn), OnlyConn(c)
  PROVE  SInv' /\ Promised(conn, conn')
<1>1. /\ Becomes(c) /\ UNCHANGED <<inputVars, current, stage, reached, answering>>
      /\ events' \subseteq events
  BY OnlyConnQuiet
<1>2. /\ c.sent = conn.sent /\ ("eof" \in ToSet(c.ticks) => "eof" \in ToSet(conn.ticks))
      /\ Closing(c) /\ ~Alive(c)
  BY DEF Lost, Keeping, Kept
<1>3. SInv'
  BY <1>1, <1>2, QuietLost
<1>4. conn \in Connections(Chunk, Tick)
  BY ConnTyped
<1>5. Promised(conn, c)
  BY <1>4, KeepingPromised
<1>6. conn' = c
  BY <1>1, BecomesGives
<1>7. QED
  BY <1>3, <1>5, <1>6

\* It was lost before, and perhaps closes.
LEMMA SilentStep ==
  ASSUME IInv, SInv, ~Alive(conn), NEW c \in Silent(conn), Becomes(c),
         UNCHANGED <<inputVars, current, stage, reached, answering>>, events' \subseteq events
  PROVE  SInv' /\ Promised(conn, conn')
<1>1. /\ c.sent = conn.sent /\ ("eof" \in ToSet(c.ticks) => "eof" \in ToSet(conn.ticks))
      /\ Closing(c) /\ ~Alive(c)
  BY DEF Silent
<1>2. SInv'
  BY <1>1, QuietLost
<1>3. conn \in Connections(Chunk, Tick) /\ Closing(conn)
  BY ConnTyped DEF SInv
<1>4. Promised(conn, c)
  BY <1>3, SilentPromised
<1>5. conn' = c
  BY BecomesGives
<1>6. QED
  BY <1>2, <1>4, <1>5

\* It closes, after its end or its destruction.
LEMMA CloseStep ==
  ASSUME IInv, SInv, NEW b \in Connections(Chunk, Tick), b.ended \/ b.destroyed, Closing(b),
         b.heard = conn.heard, b.ended = conn.ended, b.sent = conn.sent,
         b.destroyed = conn.destroyed, b.closes = conn.closes,
         "eof" \in ToSet(b.ticks) => "eof" \in ToSet(conn.ticks),
         NEW c, c = EmitClose(b), Becomes(c),
         UNCHANGED <<inputVars, current, stage, reached, answering>>, events' \subseteq events
  PROVE  SInv' /\ Promised(conn, conn')
<1>1. /\ c.heard = b.heard /\ c.ended = b.ended /\ c.sent = b.sent
      /\ c.destroyed = b.destroyed /\ c.ticks = b.ticks /\ c.closes = b.closes + 1
      /\ Closing(c) /\ ~Alive(c)
  BY EmitCloseFields
<1>2. SInv'
  BY <1>1, QuietLost
<1>3. conn \in Connections(Chunk, Tick) /\ conn' = c
  BY ConnTyped, BecomesGives
<1>4. c \in Connections(Chunk, Tick)
  <2>1. c.closes \in Nat /\ c.closes = b.closes + 1
    BY <1>1 DEF Connections
  <2>2. <<>> \in Seq(Chunk \cup {EndRead, CloseRead})
    OBVIOUS
  <2>3. QED
    BY ZenonT(60), <2>1, <2>2 DEF EmitClose, RealAfterClose, Connections, RealState
<1>5. Promised(conn, c)
  BY <1>1, <1>3, <1>4, EmitClosePromised
<1>6. QED
  BY <1>2, <1>3, <1>5

\* A callback is taken out of the queue.
LEMMA TickedKeeps ==
  ASSUME IInv, SInv, conn.ticks # <<>>
  PROVE  /\ Ticked \in Keeping(conn)
         /\ Ticked = [conn EXCEPT !.ticks = Ticked.ticks]
         /\ ToSet(Ticked.ticks) \subseteq ToSet(conn.ticks) /\ Head(conn.ticks) \in ToSet(conn.ticks)
         /\ \A t \in ToSet(conn.ticks) : t # Head(conn.ticks) => t \in ToSet(Ticked.ticks)
<1>1. conn \in Connections(Chunk, Tick) /\ conn \in After(conn, Chunk, Tick) /\ Closing(conn)
  BY ConnTyped DEF SInv
<1>2. conn.ticks \in Seq(Tick) /\ Tail(conn.ticks) \in Seq(Tick)
  <2>1. conn.ticks \in Seq(Tick)
    BY <1>1 DEF Connections
  <2>2. QED
    BY <2>1
<1>3. PICK s : s = Tail(conn.ticks)
  OBVIOUS
<1>4. PICK e : e = [conn EXCEPT !.ticks = s]
  OBVIOUS
<1>5. e = Ticked /\ e.ticks = s
  BY <1>1, <1>3, <1>4 DEF Ticked, Connections
<1>6. e \in Connections(Chunk, Tick)
  BY <1>1, <1>2, <1>3, <1>4 DEF Connections
<1>7. Follows(conn, e) /\ e.buffer = conn.buffer
  BY <1>1, <1>4 DEF After, Follows, Connections
<1>8. /\ ToSet(s) \subseteq ToSet(conn.ticks) /\ Head(conn.ticks) \in ToSet(conn.ticks)
      /\ \A t \in ToSet(conn.ticks) : t # Head(conn.ticks) => t \in ToSet(s)
  BY <1>2, <1>3, ElementsOfTail
<1>9. /\ e.heard = conn.heard /\ e.ended = conn.ended /\ e.closes = conn.closes
      /\ e.sent = conn.sent /\ e.destroyed = conn.destroyed /\ e.eof = conn.eof
      /\ e.buffer = conn.buffer /\ e.nativeClose = conn.nativeClose
  BY <1>1, <1>4 DEF Connections
<1>10. Kept(conn, e)
  BY <1>5, <1>8, <1>9 DEF Kept
<1>11. Closing(e)
  BY <1>1, <1>5, <1>8, <1>9 DEF Closing
<1>12. e \in Keeping(conn)
  BY <1>6, <1>7, <1>10, <1>11 DEF Keeping, After
<1>13. QED
  BY <1>4, <1>5, <1>8, <1>12

\* The client is destroyed: by its user, past the end, or in a tick.
LEMMA DestroySound ==
  ASSUME IInv, SInv, ClientDestroys \/ ClientTearsDown \/ TickDestroy
  PROVE  SInv' /\ Promised(conn, conn')
<1>1. conn \in Keeping(conn)
  BY ConnTyped, KeepsItself DEF SInv
<1>2. PICK b : OnlyConn(Destroy(b)) /\ b \in Keeping(conn)
  BY <1>1, TickedKeeps DEF ClientDestroys, ClientTearsDown, TickDestroy, NextTick
<1>3. Destroy(b) \in Keeping(conn) /\ Destroy(b).destroyed
  BY <1>2, DestroyKeeps
<1>4. Destroy(b) \in Lost(conn)
  BY <1>3 DEF Lost, Alive
<1>5. QED
  BY <1>2, <1>4, LostStep

\* "close" of a destroyed client: its handle is closed, or the tick has come.
LEMMA TickCloseSound ==
  ASSUME IInv, SInv, NativeClose \/ TickClose
  PROVE  SInv' /\ Promised(conn, conn')
<1>1. conn \in Connections(Chunk, Tick) /\ Closing(conn)
  BY ConnTyped DEF SInv
<1>2. CASE NativeClose
  <2>1. PICK b : b = [conn EXCEPT !.nativeClose = FALSE]
    OBVIOUS
  <2>2. b \in Connections(Chunk, Tick)
    BY <1>1, <2>1 DEF Connections
  <2>3. /\ b.heard = conn.heard /\ b.ended = conn.ended /\ b.closes = conn.closes
        /\ b.sent = conn.sent /\ b.destroyed = conn.destroyed /\ b.eof = conn.eof
        /\ b.buffer = conn.buffer /\ b.nativeClose = FALSE /\ b.ticks = conn.ticks
    BY <1>1, <2>1 DEF Connections
  <2>4. Closing(b) /\ b.destroyed
    BY <1>1, <1>2, <2>3 DEF Closing, NativeClose
  <2>5. PICK c : c = EmitClose(b)
    OBVIOUS
  <2>6. OnlyConn(c)
    BY <1>2, <2>1, <2>5 DEF NativeClose
  <2>7. QED
    BY <2>2, <2>3, <2>4, <2>5, <2>6, CloseStep, OnlyConnQuiet
<1>3. CASE TickClose
  <2>1. conn.ticks # <<>> /\ Head(conn.ticks) = "close" /\ OnlyConn(EmitClose(Ticked))
    BY <1>3 DEF TickClose, NextTick
  <2>2. PICK b : b = Ticked
    OBVIOUS
  <2>3. b \in Keeping(conn) /\ Head(conn.ticks) \in ToSet(conn.ticks)
      /\ b = [conn EXCEPT !.ticks = b.ticks]
    BY <2>1, <2>2, TickedKeeps
  <2>4. b \in Connections(Chunk, Tick) /\ Kept(conn, b) /\ Closing(b)
    BY <2>3 DEF Keeping, After
  <2>5. conn.destroyed /\ b.destroyed = conn.destroyed
    BY <1>1, <2>1, <2>3 DEF Closing, Connections
  <2>6. PICK c : c = EmitClose(b)
    OBVIOUS
  <2>7. OnlyConn(c)
    BY <2>1, <2>2, <2>6
  <2>8. QED
    BY <2>4, <2>5, <2>6, <2>7, CloseStep, OnlyConnQuiet DEF Kept
<1>4. QED
  BY <1>2, <1>3

\* "close" of a client that ended or is destroyed, unless it was emitted by then.
LEMMA TickDeliverCloseSound ==
  ASSUME IInv, SInv, TickDeliverClose
  PROVE  SInv' /\ Promised(conn, conn')
<1>1. conn \in Connections(Chunk, Tick) /\ Closing(conn) /\ conn.closes \in Nat
  BY ConnTyped DEF SInv, Connections
<1>2. conn.ticks # <<>> /\ Head(conn.ticks) = "closeUnlessClosed" /\ OnlyConn(CloseOnce(Ticked))
  BY DEF TickDeliverClose, NextTick
<1>3. PICK b : b = Ticked
  OBVIOUS
<1>4. b \in Keeping(conn) /\ Head(conn.ticks) \in ToSet(conn.ticks)
      /\ b = [conn EXCEPT !.ticks = b.ticks]
  BY <1>2, <1>3, TickedKeeps
<1>5. b \in Connections(Chunk, Tick) /\ Kept(conn, b) /\ Closing(b)
  BY <1>4 DEF Keeping, After
<1>6. b.destroyed = conn.destroyed /\ (conn.ended \/ conn.destroyed)
  BY <1>1, <1>2, <1>4 DEF Closing, Connections
<1>7. CASE conn.closes = 0
  <2>1. PICK c : c = EmitClose(b)
    OBVIOUS
  <2>2. OnlyConn(c)
    BY <1>2, <1>3, <1>5, <1>7, <2>1 DEF CloseOnce, Kept
  <2>3. QED
    BY <1>5, <1>6, <2>1, <2>2, CloseStep, OnlyConnQuiet DEF Kept
<1>8. CASE conn.closes # 0
  <2>1. OnlyConn(b)
    BY <1>2, <1>3, <1>5, <1>8 DEF CloseOnce, Kept
  <2>2. b \in Lost(conn)
    BY <1>4, <1>5, <1>8 DEF Lost, Alive, Kept
  <2>3. QED
    BY <2>1, <2>2, LostStep
<1>9. QED
  BY <1>7, <1>8

\* The real connection fails: the client is destroyed, unless it was.
LEMMA RealFailsSound ==
  ASSUME IInv, SInv, RealFails
  PROVE  SInv' /\ Promised(conn, conn')
<1>1. /\ conn \in Connections(Chunk, Tick) /\ conn \in After(conn, Chunk, Tick)
      /\ Closing(conn) /\ OnlyConn(OnRealError(conn))
  BY ConnTyped DEF SInv, RealFails
<1>2. PICK d : d = [conn EXCEPT !.real = "closing"]
  OBVIOUS
<1>3. d \in Connections(Chunk, Tick)
  BY <1>1, <1>2 DEF Connections, RealState
<1>4. Follows(conn, d) /\ d.buffer = conn.buffer
  BY <1>1, <1>2 DEF After, Follows, Connections, LiveStates
<1>5. /\ d.heard = conn.heard /\ d.ended = conn.ended /\ d.closes = conn.closes
      /\ d.sent = conn.sent /\ d.destroyed = conn.destroyed /\ d.eof = conn.eof
      /\ d.nativeClose = conn.nativeClose /\ d.ticks = conn.ticks
  BY <1>1, <1>2 DEF Connections
<1>6. conn \in Keeping(conn)
  BY <1>1, KeepsItself
<1>7. d \in Keeping(conn)
  BY <1>1, <1>3, <1>4, <1>5, <1>6, ChangeKeeps DEF After, Closing
<1>8. CASE conn.destroyed
  <2>1. OnRealError(conn) = d
    BY <1>2, <1>8 DEF OnRealError
  <2>2. d \in Lost(conn)
    BY <1>5, <1>7, <1>8 DEF Lost, Alive
  <2>3. QED
    BY <1>1, <2>1, <2>2, LostStep
<1>9. CASE ~conn.destroyed
  <2>1. PICK e : e = Destroy(d)
    OBVIOUS
  <2>2. e \in Keeping(conn) /\ e.destroyed
    BY <1>7, <2>1, DestroyKeeps
  <2>3. Later(e, "close") \in Keeping(conn) /\ Later(e, "close").destroyed
    <3>1. Later(e, "close") \in Keeping(conn)
      BY <2>2, LaterKeeps DEF Tick
    <3>2. e \in Connections(Chunk, Tick)
      BY <2>2 DEF Keeping, After
    <3>3. QED
      BY <2>2, <3>1, <3>2 DEF Later, Connections
  <2>4. e \in Lost(conn) /\ Later(e, "close") \in Lost(conn)
    BY <2>2, <2>3 DEF Lost, Alive
  <2>5. OnRealError(conn) \in Lost(conn)
    BY <1>2, <1>9, <2>1, <2>4 DEF OnRealError
  <2>6. QED
    BY <1>1, <2>5, LostStep
<1>10. QED
  BY <1>8, <1>9

-----------------------------------------------------------------------------
(* Verdicts.                                                                 *)

\* The elements of a sequence are those of its set.
LEMMA ElementsIn ==
  ASSUME NEW S, NEW s \in Seq(S)
  PROVE  ToSet(s) \subseteq S
BY DEF ToSet

\* A request without a verdict has been sent nothing.
LEMMA NothingSent ==
  ASSUME IInv, NEW r \in Request, NEW part \in {"informational", "head", "fin"},
         \/ r > current
         \/ verdict[r] \notin {"mock", "passthrough"} /\ ~Tunnelled
  PROVE  Part(r, part) \notin ToSet(conn.sent) /\ Part(r, part) \notin ToSet(conn.heard)
<1>1. current \in Nat /\ r \in Nat
  BY BoundsAssumption DEF Request, IInv, Types
<1>2. r \notin Answerable
  BY <1>1 DEF Answerable
<1>3. Part(r, part).part # "data" /\ Part(r, part).request = r
  BY DEF Part
<1>4. Part(r, part) \notin Sendable
  BY <1>2, <1>3 DEF Sendable
<1>5. conn.sent \in Seq(Sendable) /\ conn.heard \in Seq(Sendable)
  BY DEF IInv, AnswersOnly, Connections
<1>6. ToSet(conn.sent) \subseteq Sendable /\ ToSet(conn.heard) \subseteq Sendable
  BY <1>5, ElementsIn
<1>7. QED
  BY <1>4, <1>6

\* What waits for the real connection are requests.
LEMMA ReachedRequest ==
  ASSUME IInv, Reaching, reached # <<>>
  PROVE  current \in Request /\ reached = <<current>>
<1>1. reached \in Seq(Request) /\ reached = <<current>>
  BY TypesSuffice DEF TypeOK, Reaching
<1>2. reached[1] \in Request /\ reached[1] = current
  BY <1>1
<1>3. QED
  BY <1>1, <1>2

\* While a request has no verdict, nothing of an answer is under way.
LEMMA UndecidedFacts ==
  ASSUME IInv, SInv, NEW r \in Request, Undecided(r)
  PROVE  /\ current = r /\ protocol = "http" /\ ~Tunnelled /\ verdict[r] = "pending"
         /\ reached = <<>> /\ "eof" \notin ToSet(conn.ticks)
         /\ \A q \in Request : stage[q] \notin Active
         /\ \A e \in events : e.part # "informational"
         /\ \A part \in {"informational", "head", "fin"} : ~Sent(r, part)
         /\ Alive(conn) => ~conn.corked /\ (conn.eof => conn.endPushed) /\ conn.flowing
<1>1. current = r /\ ~Tunnelled /\ verdict[r] = "pending" /\ r # 0
  BY UndecidedIsPending, BoundsAssumption DEF Undecided, Request
<1>2. protocol = "http"
  BY <1>1 DEF IInv, OneIsPending, Types
<1>3. Reaching /\ Mocking /\ AliveInv
  BY DEF SInv
<1>4. ~PassedOn(r) /\ ~MockOver
  BY <1>1 DEF PassedOn, MockOver
<1>5. reached = <<>>
  BY <1>1, <1>3, <1>4 DEF Reaching
<1>6. "eof" \notin ToSet(conn.ticks)
  BY <1>3, <1>4 DEF Mocking
<1>7. \A q \in Request : stage[q] \notin Active
  <2>1. SUFFICES ASSUME NEW q \in Request, stage[q] \in Active PROVE FALSE
    OBVIOUS
  <2>2. q = r /\ stage[q] # "none"
    BY <1>1, <1>3, <2>1 DEF Mocking, Active
  <2>3. QED
    BY <1>1, <2>2 DEF IInv, AnswersOnly
<1>8. \A e \in events : e.part # "informational"
  BY <1>3, <1>5 DEF Reaching
<1>9. \A part \in {"informational", "head", "fin"} :
        Part(r, part) \notin ToSet(conn.sent) /\ Part(r, part) \notin ToSet(conn.heard)
  BY <1>1, NothingSent
<1>10. Alive(conn) => ~conn.corked /\ (conn.eof => conn.endPushed) /\ conn.flowing
  <2>1. SUFFICES ASSUME Alive(conn)
                 PROVE  ~conn.corked /\ (conn.eof => conn.endPushed) /\ conn.flowing
    OBVIOUS
  <2>2. HttpAlive
    BY <1>2, <1>3, <2>1 DEF AliveInv
  <2>3. ~MidResponse
    BY <1>1, <1>9 DEF MidResponse
  <2>4. QED
    BY <1>1, <1>4, <2>2, <2>3 DEF HttpAlive
<1>11. QED
  BY <1>1, <1>2, <1>5, <1>6, <1>7, <1>8, <1>9, <1>10 DEF Sent

\* A connection that reads the same, and has the same to read.
Same(c, d) ==
  /\ d.heard = c.heard /\ d.buffer = c.buffer /\ d.eof = c.eof /\ d.ended = c.ended
  /\ d.destroyed = c.destroyed /\ d.closes = c.closes /\ d.sent = c.sent
  /\ d.corked = c.corked /\ d.corkedReads = c.corkedReads /\ d.endPushed = c.endPushed
  /\ d.real = c.real /\ d.flowing = c.flowing
  /\ d.pendingWrites = c.pendingWrites /\ d.pendingEnd = c.pendingEnd
  /\ d.backpressured = c.backpressured /\ d.flushScheduled = c.flushScheduled
  /\ "closeUnlessClosed" \in ToSet(c.ticks) => "closeUnlessClosed" \in ToSet(d.ticks)

\* What is in line is the same.
LEMMA SoundSame ==
  ASSUME NEW c, NEW d, Same(c, d), Sound(c)
  PROVE  Sound(d)
<1>1. PICK D \in Seq(Chunk), E \in Seq({EndRead, CloseRead}) : InLine(c, D, E)
  BY DEF Sound
<1>2. InLine(d, D, E)
  BY <1>1 DEF Same, InLine, Delivered
<1>3. QED
  BY <1>2 DEF Same, Sound

\* So is what holds while it is read.
LEMMA AliveKept ==
  ASSUME SInv, Alive(conn), Same(conn, conn'), UNCHANGED <<inputVars, current>>,
         current # 0 /\ verdict'[current] = "pending" =>
           verdict[current] = "pending" /\ ("waits" \in conn.layers => "waits" \in conn'.layers),
         current # 0 /\ PassedOn(current) => PassedOn(current)',
         MockOver => MockOver',
         protocol = "other" => OtherAlive'
  PROVE  AliveInv'
<1>1. /\ Sound(conn)
      /\ protocol = "http" => HttpAlive
  BY DEF SInv, AliveInv
<1>2. Sound(conn')
  BY <1>1, SoundSame
<1>3. ASSUME protocol = "http" PROVE HttpAlive'
  <2>1. /\ NothingToWrite(conn)
        /\ conn.corked =>
             current # 0 /\ PassedOn(current) /\ Part(current, "fin") \notin ToSet(Delivered(conn))
        /\ conn.eof /\ ~conn.endPushed => MockOver
        /\ ~conn.flowing => MidResponse
        /\ conn.endPushed /\ conn.real = "gone" /\ current # 0 /\ verdict[current] = "pending" =>
             \/ "waits" \in conn.layers /\ ~conn.ended
             \/ "closeUnlessClosed" \in ToSet(conn.ticks) /\ conn.ended
    BY <1>1, <1>3 DEF HttpAlive
  <2>2. current' = current
    OBVIOUS
  <2>3. NothingToWrite(conn')
    BY <2>1 DEF Same, NothingToWrite
  <2>4. (conn.corked =>
           current # 0 /\ PassedOn(current) /\ Part(current, "fin") \notin ToSet(Delivered(conn)))'
    BY <2>1, <2>2 DEF Same, Delivered
  <2>5. (conn.eof /\ ~conn.endPushed => MockOver)'
    BY <2>1 DEF Same
  <2>6. (~conn.flowing => MidResponse)'
    BY <2>1, <2>2 DEF Same, MidResponse, Complete
  <2>7. (conn.endPushed /\ conn.real = "gone" /\ current # 0 /\ verdict[current] = "pending" =>
             \/ "waits" \in conn.layers /\ ~conn.ended
             \/ "closeUnlessClosed" \in ToSet(conn.ticks) /\ conn.ended)'
    BY <2>1, <2>2 DEF Same
  <2>8. QED
    BY <2>3, <2>4, <2>5, <2>6, <2>7 DEF HttpAlive
<1>4. protocol' = protocol
  BY DEF inputVars
<1>5. QED
  BY <1>2, <1>3, <1>4 DEF AliveInv

\* The client has nothing new, and neither has what it was sent.
LEMMA SamePromised ==
  ASSUME NEW c, NEW d, Same(c, d)
  PROVE  Promised(c, d)
BY DEF Same, Promised

\* A connection that only the source's bookkeeping changes.
LEMMA SameClosing ==
  ASSUME NEW c, NEW d, Same(c, d), Closing(c), d.nativeClose = c.nativeClose,
         "close" \in ToSet(d.ticks) => "close" \in ToSet(c.ticks),
         "closeUnlessClosed" \in ToSet(d.ticks) => "closeUnlessClosed" \in ToSet(c.ticks)
  PROVE  Closing(d)
BY DEF Same, Closing

\* A connection is the same as itself.
LEMMA SameItself ==
  ASSUME NEW c
  PROVE  Same(c, c)
BY DEF Same

\* What a verdict other than passthrough leaves of the exchanges.
LEMMA DecidedKeeps ==
  ASSUME IInv, SInv, NEW r \in Request, Undecided(r), NEW v \in {"mock", "error"},
         NEW c, Turns(c, Decides(r, v)), c.sent = conn.sent,
         "eof" \in ToSet(c.ticks) => "eof" \in ToSet(conn.ticks),
         UNCHANGED <<inputVars, current, reached, answering>>, events' = events,
         \A q \in Request : stage'[q] \in Active => q = r \/ stage[q] \in Active
  PROVE  Reaching' /\ Mocking' /\ NoEvents' /\ conn' = c
<1>1. /\ current = r /\ protocol = "http" /\ ~Tunnelled /\ verdict[r] = "pending"
      /\ reached = <<>> /\ "eof" \notin ToSet(conn.ticks)
      /\ \A q \in Request : stage[q] \notin Active
      /\ \A e \in events : e.part # "informational"
      /\ \A part \in {"informational", "head", "fin"} : ~Sent(r, part)
  BY UndecidedFacts
<1>2. Given(Decides(r, v)) /\ 1 \in Request
  BY UndecidedIsPending, BoundsAssumption DEF Request
<1>3. /\ Given(verdict') /\ conn' = c
      /\ \A q \in Request : verdict'[q] = Decides(r, v)[q] \/ verdict'[q] = "aborted"
  BY <1>2, TurnsGives
<1>4. ~Tunnelled'
  <2>1. \A q \in Request : Decides(r, v)[q] = "passthrough" => verdict[q] = "passthrough"
    BY DEF Decides, IInv, Types
  <2>2. verdict'[1] = "passthrough" => verdict[1] = "passthrough"
    BY <1>2, <1>3, <2>1
  <2>3. QED
    BY <1>1, <2>2 DEF Tunnelled, inputVars
<1>5. Reaching'
  <2>1. reached' = <<>> /\ events' = events
    BY <1>1
  <2>2. QED
    BY <1>1, <2>1 DEF Reaching
<1>6. Mocking'
  <2>1. \A q \in Request : Sent(q, "fin")' <=> Sent(q, "fin")
    BY <1>3 DEF Sent
  <2>2. (\A q \in Request : stage[q] \in Active => q = current /\ ~Sent(q, "fin"))'
    BY <1>1, <2>1
  <2>3. "eof" \notin ToSet(conn'.ticks)
    BY <1>1, <1>3
  <2>4. QED
    BY <1>4, <2>2, <2>3 DEF Mocking
<1>7. NoEvents'
  BY DEF SInv, NoEvents, inputVars
<1>8. QED
  BY <1>3, <1>5, <1>6, <1>7

\* A verdict that leaves the connection as it is.
LEMMA DecidedSound ==
  ASSUME IInv, SInv, NEW r \in Request, Undecided(r), NEW v \in {"mock", "error"},
         Turns(conn, Decides(r, v)),
         UNCHANGED <<inputVars, current, reached, answering>>, events' = events,
         \A q \in Request : stage'[q] \in Active => q = r \/ stage[q] \in Active
  PROVE  SInv' /\ Promised(conn, conn')
<1>1. Reaching' /\ Mocking' /\ NoEvents' /\ conn' = conn
  BY DecidedKeeps
<1>2. Same(conn, conn')
  BY <1>1, SameItself
<1>3. Closing(conn')
  BY <1>1 DEF SInv
<1>4. CASE ~Alive(conn)
  BY <1>1, <1>2, <1>3, <1>4, LostIsSound, SamePromised
<1>5. CASE Alive(conn)
  <2>1. current = r /\ protocol = "http" /\ ~Tunnelled /\ verdict[r] = "pending"
    BY UndecidedFacts
  <2>2. ~PassedOn(current) /\ ~MockOver
    BY <2>1 DEF PassedOn, MockOver
  <2>3. Given(Decides(r, v)) /\ Decides(r, v)[r] = v
    BY UndecidedIsPending DEF Decides, IInv, Types
  <2>4. verdict'[r] # "pending"
    BY <2>3, TurnsGives
  <2>5. AliveInv'
    BY <1>2, <1>5, <2>1, <2>2, <2>4, AliveKept
  <2>6. QED
    BY <1>1, <1>2, <1>3, <2>5, SamePromised DEF SInv
<1>6. QED
  BY <1>4, <1>5

\* A verdict that destroys the client.
LEMMA DecidedDestroys ==
  ASSUME IInv, SInv, NEW r \in Request, Undecided(r), NEW v \in {"mock", "error"},
         Turns(Destroy(conn), Decides(r, v)),
         UNCHANGED <<inputVars, current, reached, answering>>, events' = events,
         \A q \in Request : stage'[q] \in Active => q = r \/ stage[q] \in Active
  PROVE  SInv' /\ Promised(conn, conn')
<1>1. conn \in Keeping(conn) /\ conn \in Connections(Chunk, Tick)
  BY ConnTyped, KeepsItself DEF SInv
<1>2. PICK c : c = Destroy(conn)
  OBVIOUS
<1>3. c \in Keeping(conn) /\ c.destroyed
  BY <1>1, <1>2, DestroyKeeps
<1>4. c \in Lost(conn) /\ Kept(conn, c) /\ Closing(c) /\ ~Alive(c)
  BY <1>3 DEF Lost, Alive, Keeping
<1>5. Reaching' /\ Mocking' /\ NoEvents' /\ conn' = c
  BY <1>2, <1>4, DecidedKeeps DEF Kept
<1>6. SInv'
  BY <1>4, <1>5, LostIsSound
<1>7. Promised(conn, c)
  BY <1>1, <1>4, KeepingPromised
<1>8. QED
  BY <1>5, <1>6, <1>7

\* A mocked response, a network error, or an error.
LEMMA DecisionsSound ==
  ASSUME IInv, SInv, NEW r \in Request,
         \/ RespondInVain(r)
         \/ \E ok \in BOOLEAN : RespondWith(r, ok)
         \/ RespondWithNetworkError(r)
         \/ \E isError \in BOOLEAN : ErrorWith(r, isError)
  PROVE  SInv' /\ Promised(conn, conn')
<1>1. /\ Undecided(r)
      /\ UNCHANGED <<inputVars, current, reached, answering>> /\ events' = events
  BY DEF RespondInVain, RespondWith, RespondWithNetworkError, ErrorWith, realVars, eventVars,
         exchangeVars
<1>2. \A q \in Request : stage'[q] \in Active => q = r \/ stage[q] \in Active
  BY DEF RespondInVain, RespondWith, RespondWithNetworkError, ErrorWith, exchangeVars, IInv,
         Types, OtherTypes
<1>3. \E v \in {"mock", "error"} :
        Turns(conn, Decides(r, v)) \/ Turns(Destroy(conn), Decides(r, v))
  BY DEF RespondInVain, RespondWith, RespondWithNetworkError, ErrorWith
<1>4. QED
  BY <1>1, <1>2, <1>3, DecidedSound, DecidedDestroys

-----------------------------------------------------------------------------
(* The steps that leave what is read as it is.                               *)

\* Such a step, when it is quiet.
LEMMA SameStep ==
  ASSUME IInv, SInv, NEW c, Becomes(c), Same(conn, c), Closing(c),
         UNCHANGED <<inputVars, current, reached, answering>>, events' \subseteq events,
         \A r \in Request : stage'[r] \in Active => stage[r] \in Active,
         "eof" \in ToSet(c.ticks) => "eof" \in ToSet(conn.ticks) \/ MockOver',
         current # 0 /\ verdict[current] = "pending" /\ "waits" \in conn.layers =>
           "waits" \in c.layers,
         protocol = "other" /\ Alive(conn) => OtherAlive'
  PROVE  SInv' /\ Promised(conn, conn')
<1>1. Given(verdict') /\ NonePassed /\ conn' = c /\ (~c.destroyed => verdict' = verdict)
  BY BecomesGives
<1>2. c.sent = conn.sent
  BY DEF Same
<1>3. Quiet
  BY <1>1, <1>2 DEF Quiet, Sent
<1>4. Reaching' /\ Mocking' /\ NoEvents' /\ (MockOver => MockOver')
  BY <1>1, <1>3, QuietKeeps
<1>5. Promised(conn, conn')
  BY <1>1, SamePromised
<1>6. CASE ~Alive(conn)
  <2>1. ~Alive(conn')
    BY <1>1, <1>6 DEF Same, Alive
  <2>2. QED
    BY <1>1, <1>4, <1>5, <2>1, LostIsSound
<1>7. CASE Alive(conn)
  <2>1. verdict' = verdict
    BY <1>1, <1>7 DEF Alive, Same
  <2>2. PassedOn(current) => PassedOn(current)'
    BY <2>1 DEF PassedOn, Tunnelled, inputVars
  <2>3. AliveInv'
    BY <1>1, <1>4, <1>7, <2>1, <2>2, AliveKept
  <2>4. QED
    BY <1>1, <1>4, <1>5, <2>3 DEF SInv
<1>8. QED
  BY <1>6, <1>7

\* What holds of a connection of another protocol, when nobody has said more of it.
LEMMA OtherSame ==
  ASSUME SInv, protocol = "other", Alive(conn), Same(conn, conn'), readyState' = readyState
  PROVE  OtherAlive'
BY DEF SInv, AliveInv, OtherAlive, Same, NothingToWrite

\* With another protocol there are no requests.
LEMMA OtherHasNone ==
  ASSUME IInv, SInv, protocol = "other"
  PROVE  /\ current = 0 /\ reached = <<>> /\ ~listening /\ events = {}
         /\ \A r \in Request : verdict[r] = "none" /\ stage[r] = "none"
<1>1. current = 0 /\ ~listening /\ events = {}
  BY DEF IInv, OneIsPending, SInv, NoEvents
<1>2. 0 \notin Request
  BY BoundsAssumption DEF Request
<1>3. reached = <<>>
  BY <1>1, <1>2, ReachedRequest DEF SInv
<1>4. \A r \in Request : verdict[r] = "none"
  BY <1>1, BoundsAssumption DEF IInv, OneIsPending, Request
<1>5. \A r \in Request : stage[r] = "none"
  BY <1>4 DEF IInv, AnswersOnly
<1>6. QED
  BY <1>1, <1>3, <1>4, <1>5

\* A mocked response is that of a request of an HTTP connection, which it has answered.
LEMMA StagedFacts ==
  ASSUME IInv, SInv, NEW r \in Request, stage[r] \in Active
  PROVE  /\ current = r /\ verdict[r] = "mock" /\ protocol = "http" /\ r # 0
         /\ ~Sent(r, "fin") /\ ~PassedOn(r) /\ ~MockOver
         /\ "eof" \notin ToSet(conn.ticks) /\ reached = <<>>
         /\ Alive(conn) => ~conn.corked /\ (conn.eof => conn.endPushed) /\ NothingToWrite(conn)
<1>1. Mocking /\ Reaching /\ AliveInv
  BY DEF SInv
<1>2. current = r /\ ~Sent(r, "fin") /\ stage[r] # "none"
  BY <1>1 DEF Mocking, Active
<1>3. verdict[r] = "mock" /\ r # 0
  BY <1>2, BoundsAssumption DEF IInv, AnswersOnly, Request
<1>4. protocol = "http"
  BY <1>2, <1>3 DEF IInv, OneIsPending, Types
<1>5. ~PassedOn(r)
  <2>1. SUFFICES ASSUME Tunnelled PROVE FALSE
    BY <1>3 DEF PassedOn
  <2>2. verdict[1] = "passthrough" /\ \A q \in Request : q > 1 => verdict[q] = "none"
    BY <1>1, <2>1 DEF Mocking, Tunnelled
  <2>3. r = 1
    BY <1>3, <2>2, BoundsAssumption DEF Request
  <2>4. QED
    BY <1>3, <2>2, <2>3
<1>6. ~MockOver
  BY <1>2 DEF MockOver
<1>7. "eof" \notin ToSet(conn.ticks) /\ reached = <<>>
  BY <1>1, <1>2, <1>5, <1>6 DEF Mocking, Reaching
<1>8. Alive(conn) => ~conn.corked /\ (conn.eof => conn.endPushed) /\ NothingToWrite(conn)
  BY <1>1, <1>2, <1>4, <1>5, <1>6 DEF AliveInv, HttpAlive
<1>9. QED
  BY <1>2, <1>3, <1>4, <1>5, <1>6, <1>7, <1>8

\* The source's respondWith() overrides _destroy().
LEMMA OverrideSame ==
  ASSUME NEW c \in Connections(Chunk, Tick)
  PROVE  Same(c, Override(c)) /\ (Closing(c) => Closing(Override(c)))
         /\ Override(c).ticks = c.ticks
<1>1. PICK d : d = [c EXCEPT !.layers = {"mock"}]
  OBVIOUS
<1>2. /\ d.heard = c.heard /\ d.buffer = c.buffer /\ d.eof = c.eof /\ d.ended = c.ended
      /\ d.destroyed = c.destroyed /\ d.closes = c.closes /\ d.sent = c.sent
      /\ d.corked = c.corked /\ d.corkedReads = c.corkedReads /\ d.endPushed = c.endPushed
      /\ d.real = c.real /\ d.flowing = c.flowing
      /\ d.pendingWrites = c.pendingWrites /\ d.pendingEnd = c.pendingEnd
      /\ d.backpressured = c.backpressured /\ d.flushScheduled = c.flushScheduled
      /\ d.ticks = c.ticks /\ d.nativeClose = c.nativeClose
  BY <1>1 DEF Connections
<1>3. Same(c, d) /\ (Closing(c) => Closing(d)) /\ d.ticks = c.ticks
  BY <1>2 DEF Same, Closing
<1>4. Same(c, c)
  BY SameItself
<1>5. QED
  BY <1>1, <1>3, <1>4 DEF Override

\* The "response" listeners of a mocked response settle.
LEMMA MockedListenersSettleSound ==
  ASSUME IInv, SInv, NEW r \in Request, MockedListenersSettle(r)
  PROVE  SInv' /\ Promised(conn, conn')
<1>1. stage[r] \in Active
  BY DEF MockedListenersSettle, Active
<1>2. current = r /\ verdict[r] = "mock" /\ protocol = "http"
  BY <1>1, StagedFacts
<1>3. PICK c : c \in {conn, Override(conn)} /\ Becomes(c)
  BY DEF MockedListenersSettle
<1>4. Same(conn, c) /\ Closing(c) /\ c.ticks = conn.ticks
  BY <1>3, OverrideSame, SameItself, ConnTyped DEF SInv
<1>5. UNCHANGED <<inputVars, current, reached, answering>> /\ events' = events
  BY DEF MockedListenersSettle, realVars, eventVars
<1>6. \A q \in Request : stage'[q] \in Active => stage[q] \in Active
  BY <1>1 DEF MockedListenersSettle, Stage, IInv, Types, OtherTypes
<1>7. QED
  BY <1>2, <1>3, <1>4, <1>5, <1>6, SameStep

\* One of them throws.
LEMMA MockedListenersThrowSound ==
  ASSUME IInv, SInv, NEW r \in Request, MockedListenersThrow(r)
  PROVE  SInv' /\ Promised(conn, conn')
<1>1. stage[r] \in Active
  BY DEF MockedListenersThrow, Active
<1>2. protocol = "http"
  BY <1>1, StagedFacts
<1>3. Becomes(conn)
  BY StillBecomes DEF MockedListenersThrow
<1>4. Same(conn, conn) /\ Closing(conn)
  BY SameItself DEF SInv
<1>5. UNCHANGED <<inputVars, current, reached, answering>> /\ events' = events
  BY DEF MockedListenersThrow, realVars, eventVars
<1>6. \A q \in Request : stage'[q] \in Active => stage[q] \in Active
  BY DEF MockedListenersThrow, Stage, IInv, Types, OtherTypes, Active
<1>7. QED
  BY <1>2, <1>3, <1>4, <1>5, <1>6, SameStep

\* A tick is queued.
LEMMA LaterSame ==
  ASSUME NEW c \in Connections(Chunk, Tick), NEW t \in Tick
  PROVE  /\ Same(c, Later(c, t)) /\ Later(c, t).nativeClose = c.nativeClose
         /\ Later(c, t).layers = c.layers
         /\ ToSet(Later(c, t).ticks) = ToSet(c.ticks) \cup {t}
<1>1. PICK d : d = Later(c, t)
  OBVIOUS
<1>2. c.ticks \in Seq(Tick) /\ d.ticks = Append(c.ticks, t)
  BY <1>1 DEF Connections, Later
<1>3. ToSet(d.ticks) = ToSet(c.ticks) \cup {t}
  BY <1>2, ElementsOfAppend
<1>4. /\ d.heard = c.heard /\ d.buffer = c.buffer /\ d.eof = c.eof /\ d.ended = c.ended
      /\ d.destroyed = c.destroyed /\ d.closes = c.closes /\ d.sent = c.sent
      /\ d.corked = c.corked /\ d.corkedReads = c.corkedReads /\ d.endPushed = c.endPushed
      /\ d.real = c.real /\ d.flowing = c.flowing
      /\ d.pendingWrites = c.pendingWrites /\ d.pendingEnd = c.pendingEnd
      /\ d.backpressured = c.backpressured /\ d.flushScheduled = c.flushScheduled
      /\ d.nativeClose = c.nativeClose /\ d.layers = c.layers
  BY <1>1 DEF Later, Connections
<1>5. QED
  BY <1>1, <1>3, <1>4 DEF Same

\* The body of a mocked response fails.
LEMMA MockedBodyBreaksSound ==
  ASSUME IInv, SInv, NEW r \in Request, MockedBodyBreaks(r)
  PROVE  SInv' /\ Promised(conn, conn')
<1>1. stage[r] \in Active
  BY DEF MockedBodyBreaks, Active
<1>2. protocol = "http"
  BY <1>1, StagedFacts
<1>3. PICK c : c = Later(conn, "destroy")
  OBVIOUS
<1>4. /\ Same(conn, c) /\ c.nativeClose = conn.nativeClose /\ c.layers = conn.layers
      /\ ToSet(c.ticks) = ToSet(conn.ticks) \cup {"destroy"}
  BY <1>3, LaterSame, ConnTyped DEF Tick
<1>5. Closing(c)
  BY <1>4, SameClosing DEF SInv
<1>6. UNCHANGED <<inputVars, current, reached, answering>> /\ events' = events /\ Becomes(c)
  BY <1>3 DEF MockedBodyBreaks, realVars, eventVars
<1>7. \A q \in Request : stage'[q] \in Active => stage[q] \in Active
  BY DEF MockedBodyBreaks, Stage, IInv, Types, OtherTypes, Active
<1>8. QED
  BY <1>2, <1>4, <1>5, <1>6, <1>7, SameStep

\* The source declines a connection of another protocol.
LEMMA SourceDeclinesSound ==
  ASSUME IInv, SInv, SourceDeclines
  PROVE  SInv' /\ Promised(conn, conn')
<1>1. PICK c : c = Later(conn, "passthrough")
  OBVIOUS
<1>2. /\ Same(conn, c) /\ c.nativeClose = conn.nativeClose /\ c.layers = conn.layers
      /\ ToSet(c.ticks) = ToSet(conn.ticks) \cup {"passthrough"}
  BY <1>1, LaterSame, ConnTyped DEF Tick
<1>3. Closing(c)
  BY <1>2, SameClosing DEF SInv
<1>4. OnlyConn(c) /\ readyState' = readyState /\ UNCHANGED stage
  BY <1>1 DEF SourceDeclines, OnlyConn, exchangeVars
<1>5. conn' = c
  BY <1>4, BecomesGives DEF OnlyConn
<1>6. protocol = "other" /\ Alive(conn) => OtherAlive'
  BY <1>2, <1>4, <1>5, OtherSame
<1>7. QED
  BY <1>2, <1>3, <1>4, <1>6, SameStep, OnlyConnQuiet

\* Another subscriber claims it.
LEMMA OtherSubscriberClaimsSound ==
  ASSUME IInv, SInv, OtherSubscriberClaims
  PROVE  SInv' /\ Promised(conn, conn')
<1>1. /\ UNCHANGED <<inputVars, current, reached, answering, conn>> /\ events' = events
      /\ UNCHANGED stage /\ readyState = "PENDING" /\ readyState' = "CLAIMED"
  BY DEF OtherSubscriberClaims, realVars, eventVars
<1>2. Becomes(conn)
  BY StillBecomes DEF OtherSubscriberClaims
<1>3. protocol = "other" /\ Alive(conn) => OtherAlive'
  BY <1>1 DEF SInv, AliveInv, OtherAlive
<1>4. Same(conn, conn) /\ Closing(conn)
  BY SameItself DEF SInv
<1>5. QED
  BY <1>1, <1>2, <1>3, <1>4, SameStep

-----------------------------------------------------------------------------
(* The steps that change what is read, and send nothing.                     *)

\* Such a step, when it is quiet.
LEMMA QuietStep ==
  ASSUME IInv, SInv, NEW c, Becomes(c),
         UNCHANGED <<inputVars, current, stage, reached, answering>>, events' \subseteq events,
         c.sent = conn.sent,
         "eof" \in ToSet(c.ticks) => "eof" \in ToSet(conn.ticks),
         Closing(c), Alive(c) => Sound(c),
         Alive(c) /\ protocol = "http" => HttpAlive',
         Alive(c) /\ protocol = "other" => OtherAlive'
  PROVE  SInv'
<1>1. Given(verdict') /\ NonePassed /\ conn' = c
  BY BecomesGives
<1>2. Quiet
  BY <1>1 DEF Quiet, Sent
<1>3. Reaching' /\ Mocking' /\ NoEvents'
  BY <1>1, <1>2, QuietKeeps
<1>4. AliveInv'
  BY <1>1 DEF AliveInv, inputVars
<1>5. QED
  BY <1>1, <1>3, <1>4 DEF SInv

\* What holds of an HTTP client that is read, after a change of the connection.
LEMMA HttpKept ==
  ASSUME HttpAlive, UNCHANGED <<inputVars, current, stage, verdict>>, conn'.sent = conn.sent,
         NothingToWrite(conn'),
         conn'.corked => conn.corked /\ Delivered(conn') = Delivered(conn),
         conn'.eof /\ ~conn'.endPushed => (conn.eof /\ ~conn.endPushed) \/ MockOver,
         ~conn'.flowing => (~conn.flowing \/ MidResponse) /\ conn'.heard = conn.heard,
         conn'.endPushed /\ conn'.real = "gone" /\ current # 0 /\ verdict[current] = "pending" =>
             \/ "waits" \in conn'.layers /\ ~conn'.ended
             \/ "closeUnlessClosed" \in ToSet(conn'.ticks) /\ conn'.ended
             \/ /\ conn.endPushed /\ conn.real = "gone" /\ conn'.ended = conn.ended
                /\ "waits" \in conn.layers => "waits" \in conn'.layers
                /\ "closeUnlessClosed" \in ToSet(conn.ticks) =>
                     "closeUnlessClosed" \in ToSet(conn'.ticks)
  PROVE  HttpAlive'
<1>1. /\ conn.corked =>
           current # 0 /\ PassedOn(current) /\ Part(current, "fin") \notin ToSet(Delivered(conn))
      /\ conn.eof /\ ~conn.endPushed => MockOver
      /\ ~conn.flowing => MidResponse
      /\ conn.endPushed /\ conn.real = "gone" /\ current # 0 /\ verdict[current] = "pending" =>
           \/ "waits" \in conn.layers /\ ~conn.ended
           \/ "closeUnlessClosed" \in ToSet(conn.ticks) /\ conn.ended
  BY DEF HttpAlive
<1>2. current' = current /\ verdict' = verdict /\ stage' = stage
  OBVIOUS
<1>3. PassedOn(current) <=> PassedOn(current)'
  BY DEF PassedOn, Tunnelled, inputVars
<1>4. MockOver <=> MockOver'
  BY DEF MockOver, Sent
<1>5. (conn.corked =>
         current # 0 /\ PassedOn(current) /\ Part(current, "fin") \notin ToSet(Delivered(conn)))'
  BY <1>1, <1>2, <1>3
<1>6. (conn.eof /\ ~conn.endPushed => MockOver)'
  BY <1>1, <1>4
<1>7. (~conn.flowing => MidResponse)'
  BY <1>1, <1>2 DEF MidResponse, Complete
<1>8. (conn.endPushed /\ conn.real = "gone" /\ current # 0 /\ verdict[current] = "pending" =>
           \/ "waits" \in conn.layers /\ ~conn.ended
           \/ "closeUnlessClosed" \in ToSet(conn.ticks) /\ conn.ended)'
  BY <1>1, <1>2
<1>9. QED
  BY <1>5, <1>6, <1>7, <1>8 DEF HttpAlive

\* The consumer hears, and is sent, nothing.
LEMMA StillPromised ==
  ASSUME NEW c, NEW d, d.sent = c.sent, d.heard = c.heard, d.ended = c.ended,
         d.destroyed = c.destroyed, d.closes = c.closes
  PROVE  Promised(c, d)
BY DEF Promised

\* The consumer pauses, or resumes.
LEMMA ConsumerFlowsSound ==
  ASSUME IInv, SInv, ConsumerPauses \/ ConsumerResumes
  PROVE  SInv' /\ Promised(conn, conn')
<1>1. PICK b \in BOOLEAN : /\ Becomes([conn EXCEPT !.flowing = b])
                           /\ b = FALSE /\ protocol = "http" => MidResponse
  BY DEF ConsumerPauses, ConsumerResumes, OnlyConn
<1>2. /\ UNCHANGED <<inputVars, current, stage, reached, answering, readyState>>
      /\ events' \subseteq events
  BY DEF ConsumerPauses, ConsumerResumes, OnlyConn, exchangeVars, realVars, eventVars
<1>3. PICK c : c = [conn EXCEPT !.flowing = b]
  OBVIOUS
<1>4. conn \in Connections(Chunk, Tick) /\ Closing(conn)
  BY ConnTyped DEF SInv
<1>5. /\ c.heard = conn.heard /\ c.buffer = conn.buffer /\ c.eof = conn.eof /\ c.ended = conn.ended
      /\ c.destroyed = conn.destroyed /\ c.closes = conn.closes /\ c.sent = conn.sent
      /\ c.corked = conn.corked /\ c.corkedReads = conn.corkedReads
      /\ c.endPushed = conn.endPushed /\ c.real = conn.real /\ c.flowing = b
      /\ c.pendingWrites = conn.pendingWrites /\ c.pendingEnd = conn.pendingEnd
      /\ c.backpressured = conn.backpressured /\ c.flushScheduled = conn.flushScheduled
      /\ c.ticks = conn.ticks /\ c.nativeClose = conn.nativeClose /\ c.layers = conn.layers
  BY <1>3, <1>4 DEF Connections
<1>6. Becomes(c) /\ conn' = c /\ (~c.destroyed => verdict' = verdict)
  BY <1>1, <1>3, BecomesGives
<1>7. Closing(c)
  BY <1>4, <1>5 DEF Closing
<1>8. Promised(conn, c)
  BY <1>5, StillPromised
<1>9. ASSUME Alive(c) PROVE Alive(conn) /\ verdict' = verdict
  BY <1>5, <1>6, <1>9 DEF Alive
<1>10. Alive(c) => Sound(c)
  <2>1. SUFFICES ASSUME Alive(c) PROVE Sound(c)
    OBVIOUS
  <2>2. Sound(conn)
    BY <1>9, <2>1 DEF SInv, AliveInv
  <2>3. PICK D \in Seq(Chunk), E \in Seq({EndRead, CloseRead}) : InLine(conn, D, E)
    BY <2>2 DEF Sound
  <2>4. InLine(c, D, E)
    BY <1>5, <2>3 DEF InLine, Delivered
  <2>5. QED
    BY <1>5, <2>2, <2>4 DEF Sound
<1>11. Alive(c) /\ protocol = "http" => HttpAlive'
  <2>1. SUFFICES ASSUME Alive(c), protocol = "http" PROVE HttpAlive'
    OBVIOUS
  <2>2. HttpAlive /\ verdict' = verdict
    BY <1>9, <2>1 DEF SInv, AliveInv
  <2>3. NothingToWrite(c)
    BY <1>5, <2>2 DEF HttpAlive, NothingToWrite
  <2>4. Delivered(c) = Delivered(conn)
    BY <1>5 DEF Delivered
  <2>5. QED
    BY <1>1, <1>2, <1>5, <1>6, <2>1, <2>2, <2>3, <2>4, HttpKept
<1>12. Alive(c) /\ protocol = "other" => OtherAlive'
  <2>1. SUFFICES ASSUME Alive(c), protocol = "other" PROVE OtherAlive'
    OBVIOUS
  <2>2. OtherAlive
    BY <1>9, <2>1 DEF SInv, AliveInv
  <2>3. QED
    BY <1>2, <1>5, <1>6, <2>2 DEF OtherAlive, NothingToWrite
<1>13. SInv'
  BY <1>2, <1>5, <1>6, <1>7, <1>10, <1>11, <1>12, QuietStep
<1>14. QED
  BY <1>6, <1>8, <1>13

\* The real connection closes its handle.
LEMMA RealFinishesSound ==
  ASSUME IInv, SInv, RealFinishes
  PROVE  SInv' /\ Promised(conn, conn')
<1>1. conn.real = "finished" /\ OnlyConn([conn EXCEPT !.real = "closing"])
  BY DEF RealFinishes
<1>2. PICK c : c = [conn EXCEPT !.real = "closing"]
  OBVIOUS
<1>3. OnlyConn(c)
  BY <1>1, <1>2
<1>4. /\ UNCHANGED <<inputVars, current, stage, reached, answering, readyState>>
      /\ events' \subseteq events /\ Becomes(c)
  BY <1>3 DEF OnlyConn, exchangeVars, realVars, eventVars
<1>5. conn \in Connections(Chunk, Tick) /\ Closing(conn)
  BY ConnTyped DEF SInv
<1>6. /\ c.heard = conn.heard /\ c.buffer = conn.buffer /\ c.eof = conn.eof /\ c.ended = conn.ended
      /\ c.destroyed = conn.destroyed /\ c.closes = conn.closes /\ c.sent = conn.sent
      /\ c.corked = conn.corked /\ c.corkedReads = conn.corkedReads
      /\ c.endPushed = conn.endPushed /\ c.real = "closing" /\ c.flowing = conn.flowing
      /\ c.pendingWrites = conn.pendingWrites /\ c.pendingEnd = conn.pendingEnd
      /\ c.backpressured = conn.backpressured /\ c.flushScheduled = conn.flushScheduled
      /\ c.ticks = conn.ticks /\ c.nativeClose = conn.nativeClose /\ c.layers = conn.layers
  BY <1>2, <1>5 DEF Connections
<1>7. conn' = c /\ (~c.destroyed => verdict' = verdict)
  BY <1>4, BecomesGives
<1>8. Closing(c) /\ Promised(conn, c)
  BY <1>5, <1>6, StillPromised DEF Closing
<1>9. ASSUME Alive(c) PROVE Alive(conn) /\ verdict' = verdict
  BY <1>6, <1>7, <1>9 DEF Alive
<1>10. Alive(c) => Sound(c)
  <2>1. SUFFICES ASSUME Alive(c) PROVE Sound(c)
    OBVIOUS
  <2>2. Sound(conn)
    BY <1>9, <2>1 DEF SInv, AliveInv
  <2>3. PICK D \in Seq(Chunk), E \in Seq({EndRead, CloseRead}) : InLine(conn, D, E)
    BY <2>2 DEF Sound
  <2>4. InLine(c, D, E)
    BY <1>1, <1>6, <2>3 DEF InLine, Delivered, Over
  <2>5. QED
    BY <1>6, <2>2, <2>4 DEF Sound
<1>11. Alive(c) /\ protocol = "http" => HttpAlive'
  <2>1. SUFFICES ASSUME Alive(c), protocol = "http" PROVE HttpAlive'
    OBVIOUS
  <2>2. HttpAlive /\ verdict' = verdict
    BY <1>9, <2>1 DEF SInv, AliveInv
  <2>3. NothingToWrite(c)
    BY <1>6, <2>2 DEF HttpAlive, NothingToWrite
  <2>4. Delivered(c) = Delivered(conn)
    BY <1>6 DEF Delivered
  <2>5. QED
    BY <1>4, <1>6, <1>7, <2>2, <2>3, <2>4, HttpKept
<1>12. Alive(c) /\ protocol = "other" => OtherAlive'
  <2>1. SUFFICES ASSUME Alive(c), protocol = "other" PROVE OtherAlive'
    OBVIOUS
  <2>2. OtherAlive
    BY <1>9, <2>1 DEF SInv, AliveInv
  <2>3. QED
    BY <1>1, <1>4, <1>6, <1>7, <2>2 DEF OtherAlive, NothingToWrite
<1>13. SInv'
  BY <1>4, <1>6, <1>8, <1>10, <1>11, <1>12, QuietStep
<1>14. QED
  BY <1>7, <1>8, <1>13

\* What taking a tick out of the queue leaves.
LEMMA TickedFields ==
  ASSUME IInv, SInv, conn.ticks # <<>>, NEW b, b = Ticked
  PROVE  /\ b.heard = conn.heard /\ b.buffer = conn.buffer /\ b.eof = conn.eof
         /\ b.ended = conn.ended /\ b.destroyed = conn.destroyed /\ b.closes = conn.closes
         /\ b.sent = conn.sent /\ b.corked = conn.corked /\ b.corkedReads = conn.corkedReads
         /\ b.endPushed = conn.endPushed /\ b.real = conn.real /\ b.flowing = conn.flowing
         /\ b.pendingWrites = conn.pendingWrites /\ b.pendingEnd = conn.pendingEnd
         /\ b.backpressured = conn.backpressured /\ b.flushScheduled = conn.flushScheduled
         /\ b.nativeClose = conn.nativeClose /\ b.layers = conn.layers
         /\ ("closeUnlessClosed" \in ToSet(conn.ticks) /\ Head(conn.ticks) # "closeUnlessClosed" =>
               "closeUnlessClosed" \in ToSet(b.ticks))
<1>1. b = [conn EXCEPT !.ticks = b.ticks] /\ conn \in Connections(Chunk, Tick)
  BY TickedKeeps, ConnTyped
<1>2. "closeUnlessClosed" \in ToSet(conn.ticks) /\ Head(conn.ticks) # "closeUnlessClosed" =>
        "closeUnlessClosed" \in ToSet(b.ticks)
  BY TickedKeeps
<1>3. QED
  BY <1>1, <1>2 DEF Connections

\* The end of a mocked response that is known by the end of the stream.
LEMMA TickEndSound ==
  ASSUME IInv, SInv, TickEnd
  PROVE  SInv' /\ Promised(conn, conn')
<1>1. conn.ticks # <<>> /\ Head(conn.ticks) = "eof" /\ OnlyConn(PushEnd(Ticked))
  BY DEF TickEnd, NextTick
<1>2. PICK b : b = Ticked
  OBVIOUS
<1>3. b \in Keeping(conn) /\ "eof" \in ToSet(conn.ticks)
  BY <1>1, <1>2, TickedKeeps
<1>4. PICK c : c = PushEnd(b)
  OBVIOUS
<1>5. OnlyConn(c) /\ c \in Keeping(conn)
  BY <1>1, <1>2, <1>3, <1>4, PushEndKeeps
<1>6. CASE ~Alive(c)
  <2>1. c \in Lost(conn)
    BY <1>5, <1>6 DEF Lost
  <2>2. QED
    BY <1>5, <2>1, LostStep
<1>7. CASE Alive(c)
  <2>1. b \in Connections(Chunk, Tick) /\ conn \in Connections(Chunk, Tick)
    BY <1>3, ConnTyped DEF Keeping, After
  <2>2. /\ b.heard = conn.heard /\ b.buffer = conn.buffer
        /\ b.ended = conn.ended /\ b.destroyed = conn.destroyed /\ b.closes = conn.closes
        /\ b.sent = conn.sent /\ b.corked = conn.corked /\ b.corkedReads = conn.corkedReads
        /\ b.endPushed = conn.endPushed /\ b.real = conn.real /\ b.flowing = conn.flowing
        /\ b.pendingWrites = conn.pendingWrites /\ b.pendingEnd = conn.pendingEnd
        /\ b.backpressured = conn.backpressured /\ b.flushScheduled = conn.flushScheduled
        /\ b.layers = conn.layers
        /\ ("closeUnlessClosed" \in ToSet(conn.ticks) => "closeUnlessClosed" \in ToSet(b.ticks))
    BY <1>1, <1>2, TickedFields
  <2>3. ~b.destroyed
    BY <1>4, <1>7 DEF PushEnd, Alive
  <2>4. c = [b EXCEPT !.eof = TRUE]
    BY <1>4, <2>3 DEF PushEnd
  <2>5. /\ c.heard = conn.heard /\ c.buffer = conn.buffer /\ c.eof = TRUE
        /\ c.ended = conn.ended /\ c.destroyed = conn.destroyed /\ c.closes = conn.closes
        /\ c.sent = conn.sent /\ c.corked = conn.corked /\ c.corkedReads = conn.corkedReads
        /\ c.endPushed = conn.endPushed /\ c.real = conn.real /\ c.flowing = conn.flowing
        /\ c.pendingWrites = conn.pendingWrites /\ c.pendingEnd = conn.pendingEnd
        /\ c.backpressured = conn.backpressured /\ c.flushScheduled = conn.flushScheduled
        /\ c.layers = conn.layers /\ c.ticks = b.ticks
    BY <2>1, <2>2, <2>4 DEF Connections
  <2>6. Alive(conn)
    BY <1>7, <2>5 DEF Alive
  <2>7. MockOver
    BY <1>3 DEF SInv, Mocking
  <2>8. protocol = "http"
    BY <2>7 DEF MockOver, IInv, OneIsPending, Types
  <2>9. Sound(conn) /\ HttpAlive
    BY <2>6, <2>8 DEF SInv, AliveInv
  <2>10. ~PassedOn(current)
    <3>1. verdict[current] = "mock" /\ current \in Request
      BY <2>7, BoundsAssumption DEF MockOver, IInv, Types, Request
    <3>2. SUFFICES ASSUME Tunnelled PROVE FALSE
      BY <3>1 DEF PassedOn
    <3>3. verdict[1] = "passthrough" /\ \A q \in Request : q > 1 => verdict[q] = "none"
      BY <3>2 DEF SInv, Mocking, Tunnelled
    <3>4. current = 1
      BY <3>1, <3>3, BoundsAssumption DEF Request
    <3>5. QED
      BY <3>1, <3>3, <3>4
  <2>11. ~conn.corked /\ NothingToWrite(conn)
    BY <2>9, <2>10 DEF HttpAlive
  <2>12. PICK D \in Seq(Chunk), E \in Seq({EndRead, CloseRead}) : InLine(conn, D, E)
    BY <2>9 DEF Sound
  <2>13. D = <<>> /\ E = <<>>
    <3>1. D \o E = <<>>
      BY <2>9, <2>11, <2>12 DEF Sound, InLine
    <3>2. Len(D \o E) = Len(D) + Len(E) /\ Len(D) \in Nat /\ Len(E) \in Nat
      OBVIOUS
    <3>3. Len(D) = 0 /\ Len(E) = 0
      BY <3>1, <3>2
    <3>4. QED
      BY <3>3, EmptySeq
  <2>14. InLine(c, D, E)
    BY <2>5, <2>11, <2>12, <2>13 DEF InLine, Delivered, NothingToWrite, Endings
  <2>15. Sound(c)
    BY <2>2, <2>5, <2>9, <2>14 DEF Sound
  <2>16. /\ UNCHANGED <<inputVars, current, stage, reached, answering, readyState>>
         /\ events' \subseteq events /\ Becomes(c)
    BY <1>5 DEF OnlyConn, exchangeVars, realVars, eventVars
  <2>17. conn' = c /\ verdict' = verdict
    BY <1>7, <2>16, BecomesGives DEF Alive
  <2>18. HttpAlive'
    <3>1. NothingToWrite(c) /\ Delivered(c) = Delivered(conn)
      BY <2>5, <2>11 DEF NothingToWrite, Delivered
    <3>2. QED
      BY <2>2, <2>5, <2>7, <2>9, <2>16, <2>17, <3>1, HttpKept
  <2>19. Closing(c) /\ ("eof" \in ToSet(c.ticks) => "eof" \in ToSet(conn.ticks))
    BY <1>5 DEF Keeping, Kept
  <2>20. SInv'
    BY <2>5, <2>8, <2>15, <2>16, <2>18, <2>19, QuietStep
  <2>21. Promised(conn, c)
    BY <2>5, StillPromised
  <2>22. QED
    BY <2>17, <2>20, <2>21
<1>8. QED
  BY <1>6, <1>7

\* The consumer hears the end.
LEMMA ConsumerHearsEndSound ==
  ASSUME IInv, SInv, ConsumerHearsEnd
  PROVE  SInv' /\ Promised(conn, conn')
<1>1. conn.eof /\ conn.buffer = <<>> /\ ~conn.ended /\ ~conn.destroyed /\ OnlyConn(EmitEnd(conn))
  BY DEF ConsumerHearsEnd
<1>2. conn \in Connections(Chunk, Tick) /\ Closing(conn) /\ conn.ticks \in Seq(Tick)
  BY ConnTyped DEF SInv, Connections
<1>3. Alive(conn)
  BY <1>1, <1>2 DEF Alive, Closing, Connections
<1>4. PICK b : b = [conn EXCEPT !.ended = TRUE]
  OBVIOUS
<1>5. b \in Connections(Chunk, Tick)
  BY <1>2, <1>4 DEF Connections
<1>6. PICK c : c = DeliverClose(b)
  OBVIOUS
<1>7. OnlyConn(c)
  BY <1>1, <1>4, <1>6 DEF EmitEnd
<1>8. PICK e : e = [b EXCEPT !.layers = @ \ {"waits"}]
  OBVIOUS
<1>9. e \in Connections(Chunk, Tick) /\ b.layers = conn.layers
  <2>1. e \in Connections(Chunk, Tick)
    BY <1>5, <1>8 DEF Connections
  <2>2. b.layers = conn.layers
    BY <1>2, <1>4 DEF Connections
  <2>3. QED
    BY <2>1, <2>2
<1>10. /\ e.heard = conn.heard /\ e.buffer = conn.buffer /\ e.eof = conn.eof /\ e.ended = TRUE
       /\ e.destroyed = conn.destroyed /\ e.closes = conn.closes /\ e.sent = conn.sent
       /\ e.corked = conn.corked /\ e.corkedReads = conn.corkedReads
       /\ e.endPushed = conn.endPushed /\ e.real = conn.real /\ e.flowing = conn.flowing
       /\ e.pendingWrites = conn.pendingWrites /\ e.pendingEnd = conn.pendingEnd
       /\ e.backpressured = conn.backpressured /\ e.flushScheduled = conn.flushScheduled
       /\ e.ticks = conn.ticks /\ e.nativeClose = conn.nativeClose
  BY <1>2, <1>4, <1>8 DEF Connections
<1>11. /\ b.heard = conn.heard /\ b.buffer = conn.buffer /\ b.eof = conn.eof /\ b.ended = TRUE
       /\ b.destroyed = conn.destroyed /\ b.closes = conn.closes /\ b.sent = conn.sent
       /\ b.corked = conn.corked /\ b.corkedReads = conn.corkedReads
       /\ b.endPushed = conn.endPushed /\ b.real = conn.real /\ b.flowing = conn.flowing
       /\ b.pendingWrites = conn.pendingWrites /\ b.pendingEnd = conn.pendingEnd
       /\ b.backpressured = conn.backpressured /\ b.flushScheduled = conn.flushScheduled
       /\ b.ticks = conn.ticks /\ b.nativeClose = conn.nativeClose
  BY <1>2, <1>4 DEF Connections
<1>12. Same(e, Later(e, "closeUnlessClosed"))
       /\ Later(e, "closeUnlessClosed").nativeClose = e.nativeClose
       /\ ToSet(Later(e, "closeUnlessClosed").ticks) = ToSet(e.ticks) \cup {"closeUnlessClosed"}
  BY <1>9, LaterSame DEF Tick
<1>13. c = IF "waits" \in conn.layers THEN Later(e, "closeUnlessClosed") ELSE b
  BY <1>6, <1>8, <1>9 DEF DeliverClose
<1>14. /\ c.heard = conn.heard /\ c.buffer = conn.buffer /\ c.eof = conn.eof /\ c.ended = TRUE
       /\ c.destroyed = conn.destroyed /\ c.closes = conn.closes /\ c.sent = conn.sent
       /\ c.corked = conn.corked /\ c.corkedReads = conn.corkedReads
       /\ c.endPushed = conn.endPushed /\ c.real = conn.real /\ c.flowing = conn.flowing
       /\ c.pendingWrites = conn.pendingWrites /\ c.pendingEnd = conn.pendingEnd
       /\ c.backpressured = conn.backpressured /\ c.flushScheduled = conn.flushScheduled
       /\ c.nativeClose = conn.nativeClose
  BY <1>10, <1>11, <1>12, <1>13 DEF Same
<1>15. /\ ToSet(conn.ticks) \subseteq ToSet(c.ticks)
       /\ ToSet(c.ticks) \subseteq ToSet(conn.ticks) \cup {"closeUnlessClosed"}
       /\ "waits" \in conn.layers => "closeUnlessClosed" \in ToSet(c.ticks)
  BY <1>10, <1>11, <1>12, <1>13
<1>16. Closing(c)
  BY <1>1, <1>2, <1>14, <1>15 DEF Closing
<1>17. Sound(conn)
  BY <1>3 DEF SInv, AliveInv
<1>18. PICK D \in Seq(Chunk), E \in Seq({EndRead, CloseRead}) : InLine(conn, D, E)
  BY <1>17 DEF Sound
<1>19. InLine(c, D, E)
  BY <1>14, <1>18 DEF InLine, Delivered
<1>20. Sound(c)
  BY <1>14, <1>15, <1>17, <1>19 DEF Sound
<1>21. conn.heard = conn.sent
  <2>1. D = <<>> /\ conn.pendingWrites = <<>>
    BY <1>1, <1>18 DEF InLine
  <2>2. conn.sent = (conn.heard \o <<>>) \o (<<>> \o <<>>)
    BY <1>1, <1>18, <2>1 DEF InLine, Delivered
  <2>3. PICK h : h = conn.heard
    OBVIOUS
  <2>4. h \in Seq(Chunk)
    BY <1>2, <2>3 DEF Connections
  <2>5. h \o <<>> = h /\ <<>> \o <<>> = <<>>
    <3>1. <<>> \in Seq(Chunk)
      OBVIOUS
    <3>2. QED
      BY <2>4, <3>1, ConcatEmptySeq
  <2>6. QED
    BY <2>2, <2>3, <2>5
<1>22. Promised(conn, c)
  BY <1>1, <1>14, <1>21 DEF Promised
<1>23. /\ UNCHANGED <<inputVars, current, stage, reached, answering, readyState>>
       /\ events' \subseteq events /\ Becomes(c)
  BY <1>7 DEF OnlyConn, exchangeVars, realVars, eventVars
<1>24. conn' = c /\ verdict' = verdict
  BY <1>1, <1>14, <1>23, BecomesGives
<1>25. protocol = "http" => HttpAlive'
  <2>1. SUFFICES ASSUME protocol = "http" PROVE HttpAlive'
    OBVIOUS
  <2>2. HttpAlive
    BY <1>3, <2>1 DEF SInv, AliveInv
  <2>3. NothingToWrite(c) /\ Delivered(c) = Delivered(conn)
    BY <1>14, <2>2 DEF HttpAlive, NothingToWrite, Delivered
  <2>4. HttpAlive'
    <3>1. /\ conn.corked =>
               current # 0 /\ PassedOn(current) /\ Part(current, "fin") \notin ToSet(Delivered(conn))
          /\ conn.eof /\ ~conn.endPushed => MockOver
          /\ ~conn.flowing => MidResponse
          /\ conn.endPushed /\ conn.real = "gone" /\ current # 0 /\ verdict[current] = "pending" =>
               \/ "waits" \in conn.layers /\ ~conn.ended
               \/ "closeUnlessClosed" \in ToSet(conn.ticks) /\ conn.ended
      BY <2>2 DEF HttpAlive
    <3>2. current' = current /\ verdict' = verdict /\ stage' = stage
      BY <1>23, <1>24
    <3>3. PassedOn(current) <=> PassedOn(current)'
      BY <1>23, <1>24 DEF PassedOn, Tunnelled, inputVars
    <3>4. MockOver <=> MockOver'
      BY <1>14, <1>23, <1>24 DEF MockOver, Sent
    <3>5. (conn.corked =>
             current # 0 /\ PassedOn(current) /\ Part(current, "fin") \notin ToSet(Delivered(conn)))'
      BY <1>14, <1>24, <2>3, <3>1, <3>2, <3>3
    <3>6. (conn.eof /\ ~conn.endPushed => MockOver)'
      BY <1>14, <1>24, <3>1, <3>4
    <3>7. (~conn.flowing => MidResponse)'
      BY <1>14, <1>24, <3>1, <3>2 DEF MidResponse, Complete
    <3>8. (conn.endPushed /\ conn.real = "gone" /\ current # 0 /\ verdict[current] = "pending" =>
             \/ "waits" \in conn.layers /\ ~conn.ended
             \/ "closeUnlessClosed" \in ToSet(conn.ticks) /\ conn.ended)'
      BY <1>1, <1>14, <1>15, <1>24, <3>1, <3>2
    <3>9. NothingToWrite(conn')
      BY <1>24, <2>3
    <3>10. QED
      BY <3>5, <3>6, <3>7, <3>8, <3>9 DEF HttpAlive
  <2>5. QED
    BY <2>4
<1>26. protocol = "other" => OtherAlive'
  <2>1. SUFFICES ASSUME protocol = "other" PROVE OtherAlive'
    OBVIOUS
  <2>2. OtherAlive
    BY <1>3, <2>1 DEF SInv, AliveInv
  <2>3. QED
    BY <1>14, <1>23, <1>24, <2>2 DEF OtherAlive, NothingToWrite
<1>27. "eof" \in ToSet(c.ticks) => "eof" \in ToSet(conn.ticks)
  BY <1>15
<1>28. SInv'
  BY <1>14, <1>16, <1>20, <1>23, <1>25, <1>26, <1>27, QuietStep
<1>29. QED
  BY <1>22, <1>24, <1>28

-----------------------------------------------------------------------------
(* The real connection opens, ends and closes.                               *)

\* Without a cork nothing is in line behind it.
LEMMA NothingCorked ==
  ASSUME NEW c, Sound(c), ~c.corked
  PROVE  InLine(c, <<>>, <<>>)
<1>1. PICK D \in Seq(Chunk), E \in Seq({EndRead, CloseRead}) : InLine(c, D, E)
  BY DEF Sound
<1>2. D \o E = <<>>
  BY <1>1 DEF Sound, InLine
<1>3. Len(D \o E) = Len(D) + Len(E) /\ Len(D) \in Nat /\ Len(E) \in Nat
  OBVIOUS
<1>4. Len(D) = 0 /\ Len(E) = 0
  BY <1>2, <1>3
<1>5. D = <<>> /\ E = <<>>
  BY <1>4, EmptySeq
<1>6. QED
  BY <1>1, <1>5

\* The same, spelled out.
LEMMA Uncorked ==
  ASSUME NEW c \in Connections(Chunk, Tick), Sound(c), ~c.corked
  PROVE  /\ c.corkedReads = <<>> /\ c.sent = Delivered(c) \o c.pendingWrites
         /\ c.eof => c.pendingWrites = <<>>
         /\ c.real \in Over => c.endPushed
<1>1. InLine(c, <<>>, <<>>)
  BY NothingCorked
<1>2. c.corkedReads = <<>>
  BY DEF Sound
<1>3. <<>> \notin Endings
  BY DEF Endings
<1>4. PICK s : s = c.pendingWrites
  OBVIOUS
<1>5. s \in Seq(Chunk)
  BY <1>4 DEF Connections
<1>6. s \o <<>> = s
  BY <1>5, ConcatEmptySeq
<1>7. QED
  BY <1>1, <1>2, <1>3, <1>4, <1>6 DEF InLine

\* And the other way round.
LEMMA SoundUncorked ==
  ASSUME NEW c \in Connections(Chunk, Tick), c.corkedReads = <<>>,
         c.sent = Delivered(c) \o c.pendingWrites,
         c.eof => c.pendingWrites = <<>>,
         c.real \in Over => c.endPushed,
         c.endPushed => c.eof /\ c.real \notin {"open", "none"},
         c.endPushed /\ c.real = "connecting" =>
           "closeUnlessClosed" \in ToSet(c.ticks) /\ c.ended,
         c.real # "severed"
  PROVE  Sound(c)
<1>1. <<>> \in Seq(Chunk) /\ <<>> \in Seq({EndRead, CloseRead}) /\ <<>> \notin Endings
      /\ <<>> \o <<>> = <<>>
  BY DEF Endings
<1>2. PICK s : s = c.pendingWrites
  OBVIOUS
<1>3. s \in Seq(Chunk)
  BY <1>2 DEF Connections
<1>4. s \o <<>> = s
  BY <1>3, ConcatEmptySeq
<1>5. InLine(c, <<>>, <<>>)
  BY <1>1, <1>2, <1>4 DEF InLine
<1>6. QED
  BY <1>1, <1>5 DEF Sound

\* Only a connection that the source declines has the tick of it.
LEMMA DeclinedIsOther ==
  ASSUME IInv, "passthrough" \in ToSet(conn.ticks)
  PROVE  protocol = "other"
<1>1. conn.ticks \in Seq(DueTicks)
  BY DEF IInv, AnswersOnly, Connections
<1>2. ToSet(conn.ticks) \subseteq DueTicks
  BY <1>1, ElementsIn
<1>3. QED
  BY <1>2 DEF DueTicks, OwnTicks

\* Everyone has declined: it passes through.
LEMMA TickPassthroughSound ==
  ASSUME IInv, SInv, TickPassthrough
  PROVE  SInv' /\ Promised(conn, conn')
<1>1. conn.ticks # <<>> /\ Head(conn.ticks) = "passthrough"
  BY DEF TickPassthrough, NextTick
<1>2. PICK b : b = Ticked
  OBVIOUS
<1>3. /\ b \in Keeping(conn) /\ Head(conn.ticks) \in ToSet(conn.ticks)
      /\ ToSet(b.ticks) \subseteq ToSet(conn.ticks)
  BY <1>1, <1>2, TickedKeeps
<1>4. protocol = "other"
  BY <1>1, <1>3, DeclinedIsOther
<1>5. /\ conn \in Connections(Chunk, Tick) /\ b \in Connections(Chunk, Tick)
      /\ Closing(conn) /\ Closing(b)
  BY <1>3, ConnTyped DEF Keeping, After, SInv
<1>6. /\ b.heard = conn.heard /\ b.buffer = conn.buffer /\ b.eof = conn.eof
      /\ b.ended = conn.ended /\ b.destroyed = conn.destroyed /\ b.closes = conn.closes
      /\ b.sent = conn.sent /\ b.corked = conn.corked /\ b.corkedReads = conn.corkedReads
      /\ b.endPushed = conn.endPushed /\ b.real = conn.real /\ b.flowing = conn.flowing
      /\ b.pendingWrites = conn.pendingWrites /\ b.pendingEnd = conn.pendingEnd
      /\ b.backpressured = conn.backpressured /\ b.flushScheduled = conn.flushScheduled
      /\ b.nativeClose = conn.nativeClose /\ b.layers = conn.layers
      /\ ("closeUnlessClosed" \in ToSet(conn.ticks) => "closeUnlessClosed" \in ToSet(b.ticks))
  BY <1>1, <1>2, TickedFields
<1>7. /\ UNCHANGED <<inputVars, current, stage, reached, answering>> /\ events' \subseteq events
  BY DEF TickPassthrough, realVars, eventVars
<1>8. CASE readyState = "PENDING" /\ ~conn.destroyed
  <2>1. PICK c : c = Dialled(b)
    OBVIOUS
  <2>2. Becomes(c) /\ readyState' = "PASSTHROUGH"
    BY <1>2, <1>8, <2>1 DEF TickPassthrough
  <2>3. conn' = c
    BY <2>2, BecomesGives
  <2>4. /\ c.heard = conn.heard /\ c.buffer = conn.buffer /\ c.eof = conn.eof
        /\ c.ended = conn.ended /\ c.destroyed = conn.destroyed /\ c.closes = conn.closes
        /\ c.sent = conn.sent /\ c.corked = conn.corked /\ c.corkedReads = conn.corkedReads
        /\ c.endPushed = conn.endPushed /\ c.real = "connecting" /\ c.flowing = conn.flowing
        /\ c.pendingWrites = conn.pendingWrites /\ c.pendingEnd = conn.pendingEnd
        /\ c.backpressured = conn.backpressured /\ c.flushScheduled = conn.flushScheduled
        /\ c.nativeClose = conn.nativeClose /\ c.ticks = b.ticks
    BY <1>5, <1>6, <2>1 DEF Dialled, Connections
  <2>5. c \in Connections(Chunk, Tick)
    BY <1>5, <2>1 DEF Dialled, Connections, RealState
  <2>6. Closing(c)
    BY <1>5, <1>6, <2>4 DEF Closing
  <2>7. Alive(c) => Sound(c) /\ OtherAlive'
    <3>1. SUFFICES ASSUME Alive(c) PROVE Sound(c) /\ OtherAlive'
      OBVIOUS
    <3>2. Sound(conn) /\ OtherAlive
      BY <1>4, <2>4, <3>1 DEF SInv, AliveInv, Alive
    <3>3. conn.real = "none" /\ ~conn.corked
      BY <1>8, <3>2 DEF OtherAlive
    <3>4. /\ conn.corkedReads = <<>> /\ conn.sent = Delivered(conn) \o conn.pendingWrites
          /\ conn.eof => conn.pendingWrites = <<>>
      BY <1>5, <3>2, <3>3, Uncorked
    <3>5. ~conn.endPushed
      BY <3>2, <3>3 DEF Sound
    <3>6. Sound(c)
      BY <2>4, <2>5, <3>4, <3>5, SoundUncorked DEF Delivered, Over
    <3>7. OtherAlive'
      BY <1>8, <2>2, <2>3, <2>4, <3>2 DEF OtherAlive, NothingToWrite
    <3>8. QED
      BY <3>6, <3>7
  <2>8. SInv'
    BY <1>3, <1>4, <1>7, <2>2, <2>4, <2>6, <2>7, QuietStep
  <2>9. Promised(conn, c)
    BY <2>4, StillPromised
  <2>10. QED
    BY <2>3, <2>8, <2>9
<1>9. CASE ~(readyState = "PENDING" /\ ~conn.destroyed)
  <2>1. Becomes(b) /\ readyState' = readyState
    BY <1>2, <1>9 DEF TickPassthrough
  <2>2. Same(conn, b)
    BY <1>6 DEF Same
  <2>3. conn' = b
    BY <2>1, BecomesGives
  <2>4. Alive(conn) => OtherAlive'
    BY <1>4, <2>1, <2>2, <2>3, OtherSame
  <2>5. QED
    BY <1>3, <1>5, <1>6, <1>7, <2>1, <2>2, <2>4, SameStep
<1>10. QED
  BY <1>8, <1>9

\* What a connection of either protocol has to write, while a real connection is there.
LEMMA RealWritesNothing ==
  ASSUME IInv, SInv, Alive(conn), conn.real # "none"
  PROVE  NothingToWrite(conn)
BY DEF SInv, AliveInv, HttpAlive, OtherAlive, IInv, Types

\* The real connection opens.
LEMMA RealConnectsSound ==
  ASSUME IInv, SInv, RealConnects
  PROVE  SInv' /\ Promised(conn, conn')
<1>1. conn.real = "connecting" /\ conn.ticks = <<>> /\ OnlyConn(OnRealConnect(conn))
  BY DEF RealConnects, Idle
<1>2. /\ conn \in Connections(Chunk, Tick) /\ conn \in After(conn, Chunk, Tick) /\ Closing(conn)
  BY ConnTyped DEF SInv
<1>3. CASE conn.destroyed
  <2>1. PICK c : c = [conn EXCEPT !.real = "gone"]
    OBVIOUS
  <2>2. OnlyConn(c)
    BY <1>1, <1>3, <2>1 DEF OnRealConnect
  <2>3. /\ c.heard = conn.heard /\ c.ended = conn.ended /\ c.destroyed = conn.destroyed
        /\ c.closes = conn.closes /\ c.sent = conn.sent /\ c.ticks = conn.ticks
        /\ c.nativeClose = conn.nativeClose /\ c.eof = conn.eof /\ c.buffer = conn.buffer
    BY <1>2, <2>1 DEF Connections
  <2>4. Closing(c) /\ ~Alive(c)
    BY <1>2, <1>3, <2>3 DEF Closing, Alive
  <2>5. SInv'
    BY <2>2, <2>3, <2>4, QuietLost, OnlyConnQuiet
  <2>6. Promised(conn, c) /\ conn' = c
    BY <2>2, <2>3, StillPromised, OnlyConnQuiet, BecomesGives
  <2>7. QED
    BY <2>5, <2>6
<1>4. CASE ~conn.destroyed /\ ~Alive(conn)
  <2>1. PICK a : a = [conn EXCEPT !.real = "open", !.swapped = TRUE]
    OBVIOUS
  <2>2. a \in Connections(Chunk, Tick)
    BY <1>2, <2>1 DEF Connections, RealState
  <2>3. PICK b : b = [a EXCEPT !.connecting = FALSE, !.flushScheduled = FALSE]
    OBVIOUS
  <2>4. b \in Connections(Chunk, Tick)
    BY <2>2, <2>3 DEF Connections
  <2>5. /\ b.heard = conn.heard /\ b.ended = conn.ended /\ b.destroyed = conn.destroyed
        /\ b.closes = conn.closes /\ b.sent = conn.sent /\ b.ticks = conn.ticks
        /\ b.nativeClose = conn.nativeClose /\ b.eof = conn.eof /\ b.buffer = conn.buffer
        /\ b.layers = conn.layers
    BY <1>2, <2>1, <2>3 DEF Connections
  <2>6. b \in After(conn, Chunk, Tick)
    BY <1>1, <1>2, <2>4, <2>5 DEF After, Follows, LiveStates
  <2>7. conn \in Keeping(conn)
    BY <1>2, KeepsItself
  <2>8. b \in Lost(conn)
    BY <1>2, <1>4, <2>5, <2>6, <2>7, ChangeKeeps DEF Lost, Alive, Closing
  <2>9. FlushServer(b) \in Lost(conn)
    BY <2>8, FlushServerLost
  <2>10. OnRealConnect(conn) \in Lost(conn)
    BY <1>4, <2>1, <2>3, <2>8, <2>9 DEF OnRealConnect, Connect
  <2>11. QED
    BY <1>1, <2>10, LostStep
<1>5. CASE Alive(conn)
  <2>1. PICK a : a = [conn EXCEPT !.real = "open", !.swapped = TRUE]
    OBVIOUS
  <2>2. a \in Connections(Chunk, Tick)
    BY <1>2, <2>1 DEF Connections, RealState
  <2>3. PICK c : c = [a EXCEPT !.connecting = FALSE, !.flushScheduled = FALSE]
    OBVIOUS
  <2>4. c \in Connections(Chunk, Tick)
    BY <2>2, <2>3 DEF Connections
  <2>5. NothingToWrite(conn) /\ Sound(conn)
    BY <1>1, <1>5, RealWritesNothing DEF SInv, AliveInv
  <2>6. /\ c.heard = conn.heard /\ c.buffer = conn.buffer /\ c.eof = conn.eof
        /\ c.ended = conn.ended /\ c.destroyed = conn.destroyed /\ c.closes = conn.closes
        /\ c.sent = conn.sent /\ c.corked = conn.corked /\ c.corkedReads = conn.corkedReads
        /\ c.endPushed = conn.endPushed /\ c.real = "open" /\ c.flowing = conn.flowing
        /\ c.pendingWrites = conn.pendingWrites /\ c.pendingEnd = conn.pendingEnd
        /\ c.backpressured = conn.backpressured /\ c.flushScheduled = FALSE
        /\ c.ticks = conn.ticks /\ c.nativeClose = conn.nativeClose /\ c.layers = conn.layers
    BY <1>2, <2>1, <2>3 DEF Connections
  <2>7. OnlyConn(c)
    <3>1. ~a.flushScheduled
      BY <1>2, <2>1, <2>5 DEF NothingToWrite, Connections
    <3>2. Connect(a) = c
      BY <2>3, <3>1 DEF Connect
    <3>3. QED
      BY <1>1, <1>5, <2>1, <3>2 DEF OnRealConnect, Alive
  <2>8. ~conn.endPushed
    <3>1. "closeUnlessClosed" \notin ToSet(conn.ticks)
      BY <1>1 DEF ToSet
    <3>2. QED
      BY <1>1, <2>5, <3>1 DEF Sound
  <2>9. Sound(c)
    <3>1. PICK D \in Seq(Chunk), E \in Seq({EndRead, CloseRead}) : InLine(conn, D, E)
      BY <2>5 DEF Sound
    <3>2. E = <<>>
      BY <1>1, <3>1 DEF InLine, Over
    <3>3. InLine(c, D, E)
      BY <2>6, <3>1, <3>2 DEF InLine, Delivered, Over
    <3>4. QED
      BY <2>5, <2>6, <2>8, <3>3 DEF Sound
  <2>10. /\ UNCHANGED <<inputVars, current, stage, reached, answering, readyState>>
         /\ events' \subseteq events /\ Becomes(c)
    BY <2>7 DEF OnlyConn, exchangeVars, realVars, eventVars
  <2>11. conn' = c /\ verdict' = verdict
    BY <1>5, <2>6, <2>10, BecomesGives DEF Alive
  <2>12. NothingToWrite(c) /\ Delivered(c) = Delivered(conn)
    BY <2>5, <2>6 DEF NothingToWrite, Delivered
  <2>13. protocol = "http" => HttpAlive'
    <3>1. SUFFICES ASSUME protocol = "http" PROVE HttpAlive'
      OBVIOUS
    <3>2. HttpAlive
      BY <1>5, <3>1 DEF SInv, AliveInv
    <3>3. QED
      BY <2>6, <2>8, <2>10, <2>11, <2>12, <3>2, HttpKept
  <2>14. protocol = "other" => OtherAlive'
    <3>1. SUFFICES ASSUME protocol = "other" PROVE OtherAlive'
      OBVIOUS
    <3>2. OtherAlive
      BY <1>5, <3>1 DEF SInv, AliveInv
    <3>3. QED
      BY <1>1, <2>6, <2>10, <2>11, <2>12, <3>2 DEF OtherAlive
  <2>15. Closing(c)
    BY <1>2, <2>6 DEF Closing
  <2>16. SInv'
    BY <2>6, <2>9, <2>10, <2>13, <2>14, <2>15, QuietStep
  <2>17. Promised(conn, c)
    BY <2>6, StillPromised
  <2>18. QED
    BY <2>11, <2>16, <2>17
<1>6. QED
  BY <1>3, <1>4, <1>5

\* The ticks of a connection's own are ticks.
LEMMA OwnIsTick == OwnTicks \subseteq Tick
BY DEF OwnTicks, Tick

\* A request with a mocked response does not pass through.
LEMMA MockNotPassed ==
  ASSUME IInv, Mocking, current \in Request, verdict[current] = "mock"
  PROVE  ~PassedOn(current)
<1>1. SUFFICES ASSUME Tunnelled PROVE FALSE
  BY DEF PassedOn
<1>2. verdict[1] = "passthrough" /\ \A q \in Request : q > 1 => verdict[q] = "none"
  BY <1>1 DEF Mocking, Tunnelled
<1>3. current = 1
  BY <1>2, BoundsAssumption DEF Request
<1>4. QED
  BY <1>2, <1>3

\* So the end of one is not that of a request that passes through.
LEMMA MockOverNotPassed ==
  ASSUME IInv, Mocking, MockOver
  PROVE  ~PassedOn(current)
<1>1. current \in Request
  BY BoundsAssumption DEF MockOver, IInv, Types, Request
<1>2. QED
  BY <1>1, MockNotPassed DEF MockOver

\* A read behind what is corked.
LEMMA CorkedBehind ==
  ASSUME NEW D \in Seq(Chunk), NEW E \in Seq({EndRead, CloseRead}), NEW read \in {EndRead, CloseRead}
  PROVE  Append(D \o E, read) = D \o Append(E, read) /\ Append(E, read) \in Seq({EndRead, CloseRead})
<1>1. PICK S : S = Chunk \cup {EndRead, CloseRead}
  OBVIOUS
<1>2. D \in Seq(S) /\ E \in Seq(S) /\ read \in S
  BY <1>1
<1>3. D \o Append(E, read) = Append(D \o E, read)
  BY ONLY <1>2, AppendConcat
<1>4. QED
  BY <1>3

\* The real connection ends.
LEMMA RealEndsSound ==
  ASSUME IInv, SInv, RealEnds
  PROVE  SInv' /\ Promised(conn, conn')
<1>1. conn.real = "open" /\ OnlyConn(OnRealEnd(conn))
  BY DEF RealEnds
<1>2. /\ conn \in Connections(Chunk, Tick) /\ conn \in After(conn, Chunk, Tick) /\ Closing(conn)
  BY ConnTyped DEF SInv
<1>3. PICK d : d = [conn EXCEPT !.real = "finished"]
  OBVIOUS
<1>4. d \in Connections(Chunk, Tick)
  BY <1>2, <1>3 DEF Connections, RealState
<1>5. /\ d.heard = conn.heard /\ d.buffer = conn.buffer /\ d.eof = conn.eof
      /\ d.ended = conn.ended /\ d.destroyed = conn.destroyed /\ d.closes = conn.closes
      /\ d.sent = conn.sent /\ d.corked = conn.corked /\ d.corkedReads = conn.corkedReads
      /\ d.endPushed = conn.endPushed /\ d.real = "finished" /\ d.flowing = conn.flowing
      /\ d.pendingWrites = conn.pendingWrites /\ d.pendingEnd = conn.pendingEnd
      /\ d.backpressured = conn.backpressured /\ d.flushScheduled = conn.flushScheduled
      /\ d.ticks = conn.ticks /\ d.nativeClose = conn.nativeClose /\ d.layers = conn.layers
  BY <1>2, <1>3 DEF Connections
<1>6. d \in After(conn, Chunk, Tick)
  BY <1>1, <1>2, <1>4, <1>5 DEF After, Follows, LiveStates
<1>7. d \in Keeping(conn)
  <2>1. conn \in Keeping(conn)
    BY <1>2, KeepsItself
  <2>2. QED
    BY <1>2, <1>5, <1>6, <2>1, ChangeKeeps DEF Closing
<1>8. PICK e : e = [d EXCEPT !.corkedReads = Append(@, EndRead)]
  OBVIOUS
<1>9. e \in After(conn, Chunk, Tick)
  BY <1>6, <1>8, CorkedAfter, OwnIsTick
<1>10. /\ e.heard = conn.heard /\ e.buffer = conn.buffer /\ e.eof = conn.eof
       /\ e.ended = conn.ended /\ e.destroyed = conn.destroyed /\ e.closes = conn.closes
       /\ e.sent = conn.sent /\ e.corked = conn.corked
       /\ e.corkedReads = Append(conn.corkedReads, EndRead)
       /\ e.endPushed = conn.endPushed /\ e.real = "finished" /\ e.flowing = conn.flowing
       /\ e.pendingWrites = conn.pendingWrites /\ e.pendingEnd = conn.pendingEnd
       /\ e.backpressured = conn.backpressured /\ e.flushScheduled = conn.flushScheduled
       /\ e.ticks = conn.ticks /\ e.nativeClose = conn.nativeClose /\ e.layers = conn.layers
  BY <1>4, <1>5, <1>8 DEF Connections
<1>11. e \in Keeping(conn)
  BY <1>5, <1>7, <1>9, <1>10, ChangeKeeps DEF Keeping, Closing
<1>12. PICK f : f = PushRealEnd(d)
  OBVIOUS
<1>13. f \in Keeping(conn) /\ f.destroyed = d.destroyed
  BY <1>7, <1>12, PushRealEndKeeps
<1>14. OnRealEnd(conn) = IF conn.corked THEN e ELSE f
  BY <1>3, <1>8, <1>12 DEF OnRealEnd
<1>15. CASE ~Alive(conn)
  <2>1. f.closes = conn.closes
    BY <1>13 DEF Keeping, Kept
  <2>2. e \in Lost(conn) /\ f \in Lost(conn)
    BY <1>5, <1>10, <1>11, <1>13, <1>15, <2>1 DEF Lost, Alive
  <2>3. QED
    BY <1>1, <1>14, <2>2, LostStep
<1>16. CASE Alive(conn)
  <2>1. Sound(conn) /\ NothingToWrite(conn)
    BY <1>1, <1>16, RealWritesNothing DEF SInv, AliveInv
  <2>2. ~conn.endPushed
    BY <1>1, <2>1 DEF Sound
  <2>3. PICK c : c = OnRealEnd(conn)
    OBVIOUS
  <2>4. /\ UNCHANGED <<inputVars, current, stage, reached, answering, readyState>>
        /\ events' \subseteq events /\ Becomes(c)
    BY <1>1, <2>3 DEF OnlyConn, exchangeVars, realVars, eventVars
  <2>5. /\ c.sent = conn.sent /\ ("eof" \in ToSet(c.ticks) => "eof" \in ToSet(conn.ticks))
        /\ Closing(c)
    BY <1>11, <1>13, <1>14, <2>3 DEF Keeping, Kept
  <2>6. CASE conn.corked
    <3>1. c = e
      BY <1>14, <2>3, <2>6
    <3>2. protocol = "http" /\ HttpAlive
      BY <1>16, <2>6 DEF SInv, AliveInv, OtherAlive, IInv, Types
    <3>3. ~conn.eof
      BY <2>2, <2>6, <3>2, MockOverNotPassed DEF HttpAlive, SInv
    <3>4. PICK D \in Seq(Chunk), E \in Seq({EndRead, CloseRead}) : InLine(conn, D, E)
      BY <2>1 DEF Sound
    <3>5. E = <<>>
      BY <1>1, <3>4 DEF InLine, Over
    <3>6. Append(D \o E, EndRead) = D \o Append(E, EndRead)
          /\ Append(E, EndRead) \in Seq({EndRead, CloseRead})
      BY CorkedBehind
    <3>7. Append(E, EndRead) = <<EndRead>>
      BY <3>5
    <3>8. <<EndRead>> \in Endings /\ <<EndRead>> # <<>>
      BY DEF Endings
    <3>9. PICK F : F = <<EndRead>>
      OBVIOUS
    <3>10. c.corkedReads = D \o F
      BY <1>10, <3>1, <3>4, <3>6, <3>7, <3>9 DEF InLine
    <3>11. InLine(c, D, F)
      BY <1>10, <3>1, <3>3, <3>4, <3>8, <3>9, <3>10 DEF InLine, Delivered, Over
    <3>12. F \in Seq({EndRead, CloseRead})
      BY <3>6, <3>7, <3>9
    <3>13. Sound(c)
      BY <1>10, <2>1, <2>2, <2>6, <3>1, <3>11, <3>12 DEF Sound
    <3>14. conn' = c /\ verdict' = verdict
      BY <1>10, <1>16, <2>4, <3>1, BecomesGives DEF Alive
    <3>15. NothingToWrite(c) /\ Delivered(c) = Delivered(conn)
      BY <1>10, <2>1, <3>1 DEF NothingToWrite, Delivered
    <3>16. HttpAlive'
      BY <1>10, <2>4, <3>1, <3>2, <3>14, <3>15, HttpKept
    <3>17. SInv'
      BY <2>4, <2>5, <3>2, <3>13, <3>16, QuietStep
    <3>18. Promised(conn, c)
      BY <1>10, <3>1, StillPromised
    <3>19. QED
      BY <3>14, <3>17, <3>18
  <2>7. CASE ~conn.corked
    <3>1. c = f
      BY <1>14, <2>3, <2>7
    <3>2. c = [d EXCEPT !.endPushed = TRUE, !.eof = TRUE]
      <4>1. PICK g : g = [d EXCEPT !.endPushed = TRUE]
        OBVIOUS
      <4>2. ~g.destroyed
        BY <1>4, <1>5, <1>16, <4>1 DEF Connections, Alive
      <4>3. f = [g EXCEPT !.eof = TRUE]
        BY <1>12, <4>1, <4>2 DEF PushRealEnd, PushEnd
      <4>4. QED
        BY <1>4, <3>1, <4>1, <4>3 DEF Connections
    <3>3. c \in Connections(Chunk, Tick)
      BY <1>13, <3>1 DEF Keeping, After
    <3>4. /\ c.heard = conn.heard /\ c.buffer = conn.buffer /\ c.eof = TRUE
          /\ c.ended = conn.ended /\ c.destroyed = conn.destroyed /\ c.closes = conn.closes
          /\ c.sent = conn.sent /\ c.corked = conn.corked /\ c.corkedReads = conn.corkedReads
          /\ c.endPushed = TRUE /\ c.real = "finished" /\ c.flowing = conn.flowing
          /\ c.pendingWrites = conn.pendingWrites /\ c.pendingEnd = conn.pendingEnd
          /\ c.backpressured = conn.backpressured /\ c.flushScheduled = conn.flushScheduled
          /\ c.ticks = conn.ticks /\ c.layers = conn.layers
      BY <1>4, <1>5, <3>2 DEF Connections
    <3>5. conn.corkedReads = <<>> /\ conn.sent = Delivered(conn) \o conn.pendingWrites
      BY <1>2, <2>1, <2>7, Uncorked
    <3>6. NothingToWrite(c) /\ Delivered(c) = Delivered(conn)
      BY <2>1, <3>4 DEF NothingToWrite, Delivered
    <3>7. Sound(c)
      BY <3>3, <3>4, <3>5, <3>6, SoundUncorked DEF NothingToWrite
    <3>8. conn' = c /\ verdict' = verdict
      BY <1>16, <2>4, <3>4, BecomesGives DEF Alive
    <3>9. protocol = "http" => HttpAlive'
      <4>1. SUFFICES ASSUME protocol = "http" PROVE HttpAlive'
        OBVIOUS
      <4>2. HttpAlive
        BY <1>16, <4>1 DEF SInv, AliveInv
      <4>3. QED
        BY <2>4, <2>7, <3>4, <3>6, <3>8, <4>2, HttpKept
    <3>10. protocol = "other" => OtherAlive'
      <4>1. SUFFICES ASSUME protocol = "other" PROVE OtherAlive'
        OBVIOUS
      <4>2. OtherAlive
        BY <1>16, <4>1 DEF SInv, AliveInv
      <4>3. QED
        BY <1>1, <2>4, <3>4, <3>6, <3>8, <4>2 DEF OtherAlive
    <3>11. SInv'
      BY <2>4, <2>5, <3>7, <3>9, <3>10, QuietStep
    <3>12. Promised(conn, c)
      BY <3>4, StillPromised
    <3>13. QED
      BY <3>8, <3>11, <3>12
  <2>8. QED
    BY <2>6, <2>7
<1>17. QED
  BY <1>15, <1>16

\* A lost client is silent about what it keeps.
LEMMA LostSilent ==
  ASSUME NEW c \in Connections(Chunk, Tick), NEW d \in Lost(c)
  PROVE  d \in Silent(c)
<1>1. c.closes \in Nat
  BY DEF Connections
<1>2. QED
  BY <1>1 DEF Lost, Silent, Keeping, Kept

\* What the real connection had to say when it closes, and whether the client is read.
LEMMA RealClosesDead ==
  ASSUME IInv, SInv, RealCloses, ~Alive(conn)
  PROVE  SInv' /\ Promised(conn, conn')
<1>1. /\ conn \in Connections(Chunk, Tick) /\ conn \in After(conn, Chunk, Tick) /\ Closing(conn)
  BY ConnTyped DEF SInv
<1>2. PICK d : d = [conn EXCEPT !.real = "gone"]
  OBVIOUS
<1>3. d \in Connections(Chunk, Tick)
  BY <1>1, <1>2 DEF Connections, RealState
<1>4. /\ d.heard = conn.heard /\ d.buffer = conn.buffer /\ d.eof = conn.eof
      /\ d.ended = conn.ended /\ d.destroyed = conn.destroyed /\ d.closes = conn.closes
      /\ d.sent = conn.sent /\ d.corked = conn.corked /\ d.corkedReads = conn.corkedReads
      /\ d.endPushed = conn.endPushed /\ d.real = "gone" /\ d.flowing = conn.flowing
      /\ d.pendingWrites = conn.pendingWrites /\ d.pendingEnd = conn.pendingEnd
      /\ d.backpressured = conn.backpressured /\ d.flushScheduled = conn.flushScheduled
      /\ d.ticks = conn.ticks /\ d.nativeClose = conn.nativeClose /\ d.layers = conn.layers
      /\ d.connecting = conn.connecting /\ d.swapped = conn.swapped
      /\ d.paused = conn.paused
  BY <1>1, <1>2 DEF Connections
<1>5. d \in After(conn, Chunk, Tick)
  BY <1>1, <1>3, <1>4 DEF After, Follows, LiveStates
<1>6. d \in Lost(conn)
  <2>1. conn \in Keeping(conn)
    BY <1>1, KeepsItself
  <2>2. d \in Keeping(conn)
    BY <1>1, <1>4, <1>5, <2>1, ChangeKeeps DEF Closing
  <2>3. QED
    BY <1>4, <2>2 DEF Lost, Alive
<1>7. PICK e : e = [d EXCEPT !.corkedReads = Append(@, CloseRead)]
  OBVIOUS
<1>8. e \in After(conn, Chunk, Tick)
  BY <1>5, <1>7, CorkedAfter, OwnIsTick
<1>9. /\ e.heard = conn.heard /\ e.buffer = conn.buffer /\ e.eof = conn.eof
      /\ e.ended = conn.ended /\ e.destroyed = conn.destroyed /\ e.closes = conn.closes
      /\ e.sent = conn.sent /\ e.corked = conn.corked
      /\ e.corkedReads = Append(conn.corkedReads, CloseRead) /\ e.endPushed = conn.endPushed
      /\ e.real = "gone" /\ e.flowing = conn.flowing /\ e.pendingWrites = conn.pendingWrites
      /\ e.pendingEnd = conn.pendingEnd /\ e.backpressured = conn.backpressured
      /\ e.flushScheduled = conn.flushScheduled /\ e.ticks = conn.ticks
      /\ e.nativeClose = conn.nativeClose /\ e.layers = conn.layers
      /\ e.connecting = conn.connecting /\ e.swapped = conn.swapped
      /\ e.paused = conn.paused
  BY <1>3, <1>4, <1>7 DEF Connections
<1>10. e \in Lost(conn)
  BY <1>4, <1>6, <1>8, <1>9, ChangeLost DEF Lost, Keeping, Closing
<1>11. d \in Silent(conn) /\ e \in Silent(conn)
  BY <1>1, <1>6, <1>10, LostSilent
<1>12. EmitClientClose(d) \in Silent(conn)
  BY <1>1, <1>11, EmitClientCloseSilent
<1>13. OnRealClose(conn) \in Silent(conn)
  BY <1>2, <1>7, <1>11, <1>12 DEF OnRealClose
<1>14. /\ Becomes(OnRealClose(conn)) /\ events' \subseteq events
       /\ UNCHANGED <<inputVars, current, stage, reached, answering>>
  BY DEF RealCloses, RealUnchanged, exchangeVars, eventVars
<1>15. QED
  BY <1>13, <1>14, SilentStep

\* Its reads are corked.
LEMMA RealClosesCorked ==
  ASSUME IInv, SInv, RealCloses, Alive(conn), conn.corked
  PROVE  SInv' /\ Promised(conn, conn')
<1>1. /\ conn \in Connections(Chunk, Tick) /\ Closing(conn) /\ conn.real = "closing"
  BY ConnTyped DEF SInv, RealCloses
<1>2. PICK d : d = [conn EXCEPT !.real = "gone"]
  OBVIOUS
<1>3. d \in Connections(Chunk, Tick)
  BY <1>1, <1>2 DEF Connections, RealState
<1>4. PICK c : c = [d EXCEPT !.corkedReads = Append(@, CloseRead)]
  OBVIOUS
<1>5. /\ c.heard = conn.heard /\ c.buffer = conn.buffer /\ c.eof = conn.eof
      /\ c.ended = conn.ended /\ c.destroyed = conn.destroyed /\ c.closes = conn.closes
      /\ c.sent = conn.sent /\ c.corked = conn.corked
      /\ c.corkedReads = Append(conn.corkedReads, CloseRead) /\ c.endPushed = conn.endPushed
      /\ c.real = "gone" /\ c.flowing = conn.flowing /\ c.pendingWrites = conn.pendingWrites
      /\ c.pendingEnd = conn.pendingEnd /\ c.backpressured = conn.backpressured
      /\ c.flushScheduled = conn.flushScheduled /\ c.ticks = conn.ticks
      /\ c.nativeClose = conn.nativeClose /\ c.layers = conn.layers
      /\ c.connecting = conn.connecting /\ c.swapped = conn.swapped
      /\ c.paused = conn.paused
  BY <1>1, <1>2, <1>3, <1>4 DEF Connections
<1>6. c = OnRealClose(conn)
  BY <1>2, <1>4 DEF OnRealClose
<1>7. /\ Becomes(c) /\ events' \subseteq events
      /\ UNCHANGED <<inputVars, current, stage, reached, answering>>
  BY <1>6 DEF RealCloses, RealUnchanged, exchangeVars, eventVars
<1>8. conn' = c /\ verdict' = verdict
  BY <1>5, <1>7, BecomesGives DEF Alive
<1>9. protocol = "http" /\ HttpAlive /\ Sound(conn)
  BY DEF SInv, AliveInv, OtherAlive, IInv, Types
<1>10. PICK D \in Seq(Chunk), E \in Seq({EndRead, CloseRead}) : InLine(conn, D, E)
  BY <1>9 DEF Sound
<1>11. E \in {<<>>, <<EndRead>>}
  BY <1>1, <1>10 DEF InLine
<1>12. PICK F : F = Append(E, CloseRead)
  OBVIOUS
<1>13. conn.corkedReads = D \o E
  BY <1>10 DEF InLine
<1>14. c.corkedReads = D \o F /\ F \in Seq({EndRead, CloseRead})
  BY ZenonT(60), <1>5, <1>12, <1>13, CorkedBehind
<1>15. CloseRead # EndRead
  BY DEF CloseRead, EndRead, Part
<1>16. InLine(c, D, F)
  <2>1. CASE E = <<>>
    <3>1. F = <<CloseRead>>
      BY <1>12, <2>1
    <3>2. F \notin Endings /\ F \notin {<<>>, <<EndRead>>} /\ E \notin Endings
      BY <1>15, <2>1, <3>1 DEF Endings
    <3>3. QED
      BY <1>1, <1>5, <1>10, <1>14, <3>1, <3>2 DEF InLine, Delivered, Over
  <2>2. CASE E = <<EndRead>>
    <3>1. F = <<EndRead, CloseRead>>
      <4>1. ASSUME NEW S, NEW a \in S, NEW b \in S PROVE Append(<<a>>, b) = <<a, b>>
        <5>1. PICK u : u = Append(<<a>>, b)
          OBVIOUS
        <5>2. <<a>> \in Seq(S) /\ Len(<<a>>) = 1 /\ <<a>>[1] = a
          OBVIOUS
        <5>3. u \in Seq(S) /\ Len(u) = 2 /\ u[1] = a /\ u[2] = b
          BY <5>1, <5>2, AppendProperties
        <5>4. PICK v : v = <<a, b>>
          OBVIOUS
        <5>5. v \in Seq(S) /\ Len(v) = 2 /\ v[1] = a /\ v[2] = b
          BY <5>4
        <5>6. \A i \in 1..2 : i = 1 \/ i = 2
          OBVIOUS
        <5>7. u = v
          BY <5>3, <5>5, <5>6, SeqEqual
        <5>8. QED
          BY <5>1, <5>4, <5>7
      <4>2. EndRead \in {EndRead, CloseRead} /\ CloseRead \in {EndRead, CloseRead}
        OBVIOUS
      <4>3. QED
        BY <1>12, <2>2, <4>1, <4>2
    <3>2. F \in Endings /\ F \notin {<<>>, <<EndRead>>} /\ E \in Endings
      BY <2>2, <3>1 DEF Endings
    <3>3. QED
      BY <1>1, <1>5, <1>10, <1>14, <3>2 DEF InLine, Delivered, Over
  <2>3. QED
    BY <1>11, <2>1, <2>2
<1>17. Sound(c)
  BY <1>1, <1>5, <1>9, <1>14, <1>16 DEF Sound
<1>18. current # 0 => verdict[current] # "pending"
  <2>1. SUFFICES ASSUME current # 0, verdict[current] = "pending" PROVE FALSE
    OBVIOUS
  <2>2. current \in Request
    BY <2>1, BoundsAssumption DEF IInv, Types, Request
  <2>3. Tunnelled
    BY <1>9, <2>1 DEF HttpAlive, PassedOn
  <2>4. QED
    BY <2>1, <2>2, <2>3 DEF IInv, OneIsPending
<1>19. NothingToWrite(c) /\ Delivered(c) = Delivered(conn)
  BY <1>5, <1>9 DEF HttpAlive, NothingToWrite, Delivered
<1>20. HttpAlive'
  BY <1>5, <1>7, <1>8, <1>9, <1>18, <1>19, HttpKept
<1>21. Closing(c)
  BY <1>1, <1>5 DEF Closing
<1>22. SInv'
  BY <1>5, <1>7, <1>9, <1>17, <1>20, <1>21, QuietStep
<1>23. Promised(conn, c)
  BY <1>5, StillPromised
<1>24. QED
  BY <1>8, <1>22, <1>23

\* They are not: the client closes once its consumer has heard the end.
LEMMA RealClosesUncorked ==
  ASSUME IInv, SInv, RealCloses, Alive(conn), ~conn.corked
  PROVE  SInv' /\ Promised(conn, conn')
<1>1. /\ conn \in Connections(Chunk, Tick) /\ Closing(conn) /\ conn.real = "closing"
  BY ConnTyped DEF SInv, RealCloses
<1>2. PICK d : d = [conn EXCEPT !.real = "gone"]
  OBVIOUS
<1>3. d \in Connections(Chunk, Tick)
  BY <1>1, <1>2 DEF Connections, RealState
<1>4. /\ d.heard = conn.heard /\ d.buffer = conn.buffer /\ d.eof = conn.eof
      /\ d.ended = conn.ended /\ d.destroyed = conn.destroyed /\ d.closes = conn.closes
      /\ d.sent = conn.sent /\ d.corked = conn.corked /\ d.corkedReads = conn.corkedReads
      /\ d.endPushed = conn.endPushed /\ d.real = "gone" /\ d.flowing = conn.flowing
      /\ d.pendingWrites = conn.pendingWrites /\ d.pendingEnd = conn.pendingEnd
      /\ d.backpressured = conn.backpressured /\ d.flushScheduled = conn.flushScheduled
      /\ d.ticks = conn.ticks /\ d.nativeClose = conn.nativeClose /\ d.layers = conn.layers
      /\ d.connecting = conn.connecting /\ d.swapped = conn.swapped
      /\ d.paused = conn.paused
  BY <1>1, <1>2 DEF Connections
<1>5. OnRealClose(conn) = EmitClientClose(d)
  BY <1>2, <1>4 DEF OnRealClose, ClosesByItself, Alive
<1>6. Sound(conn) /\ NothingToWrite(conn)
  BY <1>1, RealWritesNothing DEF SInv, AliveInv
<1>7. /\ conn.corkedReads = <<>> /\ conn.sent = Delivered(conn) \o conn.pendingWrites
      /\ conn.endPushed
  BY <1>1, <1>6, Uncorked DEF Over
<1>8. /\ Becomes(OnRealClose(conn)) /\ events' \subseteq events
      /\ UNCHANGED <<inputVars, current, stage, reached, answering, readyState>>
  BY DEF RealCloses, RealUnchanged, exchangeVars, eventVars
<1>9. CASE conn.ended
  <2>1. PICK c : c = EmitClose(d)
    OBVIOUS
  <2>2. Becomes(c)
    BY <1>4, <1>5, <1>8, <1>9, <2>1 DEF EmitClientClose, CloseMustWait
  <2>3. Closing(d)
    BY <1>1, <1>4 DEF Closing
  <2>4. QED
    BY <1>3, <1>4, <1>8, <1>9, <2>1, <2>2, <2>3, CloseStep
<1>10. CASE ~conn.ended
  <2>1. PICK c : c = [d EXCEPT !.layers = @ \cup {"waits"}]
    OBVIOUS
  <2>2. c \in Connections(Chunk, Tick)
    BY <1>3, <2>1 DEF Connections
  <2>3. /\ c.heard = conn.heard /\ c.buffer = conn.buffer /\ c.eof = conn.eof
        /\ c.ended = conn.ended /\ c.destroyed = conn.destroyed /\ c.closes = conn.closes
        /\ c.sent = conn.sent /\ c.corked = conn.corked /\ c.corkedReads = conn.corkedReads
        /\ c.endPushed = conn.endPushed /\ c.real = "gone" /\ c.flowing = conn.flowing
        /\ c.pendingWrites = conn.pendingWrites /\ c.pendingEnd = conn.pendingEnd
        /\ c.backpressured = conn.backpressured /\ c.flushScheduled = conn.flushScheduled
        /\ c.ticks = conn.ticks /\ c.nativeClose = conn.nativeClose
        /\ c.connecting = conn.connecting /\ c.swapped = conn.swapped
        /\ c.paused = conn.paused
    BY <1>3, <1>4, <2>1 DEF Connections
  <2>4. "waits" \in c.layers
    BY <1>3, <2>1 DEF Connections
  <2>5. Becomes(c)
    BY <1>4, <1>5, <1>7, <1>8, <1>10, <2>1 DEF EmitClientClose, CloseMustWait, Alive
  <2>6. conn' = c /\ verdict' = verdict
    BY <2>3, <2>5, BecomesGives DEF Alive
  <2>7. NothingToWrite(c) /\ Delivered(c) = Delivered(conn)
    BY <1>6, <2>3 DEF NothingToWrite, Delivered
  <2>8. Sound(c)
    <3>1. conn.eof
      BY <1>6, <1>7 DEF Sound
    <3>2. QED
      BY <1>7, <2>2, <2>3, <2>7, <3>1, SoundUncorked DEF NothingToWrite
  <2>9. protocol = "http" => HttpAlive'
    <3>1. SUFFICES ASSUME protocol = "http" PROVE HttpAlive'
      OBVIOUS
    <3>2. HttpAlive
      BY <3>1 DEF SInv, AliveInv
    <3>3. QED
      BY <1>7, <1>8, <1>10, <2>3, <2>4, <2>6, <2>7, <3>2, HttpKept
  <2>10. protocol = "other" => OtherAlive'
    <3>1. SUFFICES ASSUME protocol = "other" PROVE OtherAlive'
      OBVIOUS
    <3>2. OtherAlive
      BY <3>1 DEF SInv, AliveInv
    <3>3. QED
      BY <1>1, <1>7, <1>8, <2>3, <2>6, <2>7, <3>2 DEF OtherAlive
  <2>11. Closing(c)
    BY <1>1, <2>3 DEF Closing
  <2>12. SInv'
    BY <1>8, <2>3, <2>5, <2>8, <2>9, <2>10, <2>11, QuietStep
  <2>13. Promised(conn, c)
    BY <2>3, StillPromised
  <2>14. QED
    BY <2>6, <2>12, <2>13
<1>11. QED
  BY <1>9, <1>10

\* The real connection closes.
LEMMA RealClosesSound ==
  ASSUME IInv, SInv, RealCloses
  PROVE  SInv' /\ Promised(conn, conn')
BY RealClosesDead, RealClosesCorked, RealClosesUncorked

-----------------------------------------------------------------------------
(* A request passes through.                                                 *)

\* What the client has, or was handed, was sent.
LEMMA DeliveredSent ==
  ASSUME NEW c \in Connections(Chunk, Tick), Sound(c)
  PROVE  /\ ToSet(Delivered(c)) \subseteq ToSet(c.sent)
         /\ ToSet(c.heard) \subseteq ToSet(Delivered(c))
         /\ Delivered(c) \in Seq(Chunk)
<1>1. PICK D \in Seq(Chunk), E \in Seq({EndRead, CloseRead}) : InLine(c, D, E)
  BY DEF Sound
<1>2. c.heard \in Seq(Chunk) /\ c.buffer \in Seq(Chunk) /\ c.pendingWrites \in Seq(Chunk)
  BY DEF Connections
<1>3. PICK h, b, w : h = c.heard /\ b = c.buffer /\ w = c.pendingWrites
  OBVIOUS
<1>4. h \in Seq(Chunk) /\ b \in Seq(Chunk) /\ w \in Seq(Chunk)
  BY <1>2, <1>3
<1>5. h \o b \in Seq(Chunk) /\ w \o D \in Seq(Chunk)
  BY <1>4, ConcatProperties
<1>6. /\ ToSet(h \o b) = ToSet(h) \cup ToSet(b)
      /\ ToSet((h \o b) \o (w \o D)) = ToSet(h \o b) \cup ToSet(w \o D)
  <2>1. ToSet(h \o b) = ToSet(h) \cup ToSet(b)
    BY <1>4, ElementsOfConcat
  <2>2. PICK x, y : x = h \o b /\ y = w \o D
    OBVIOUS
  <2>3. x \in Seq(Chunk) /\ y \in Seq(Chunk)
    BY <1>5, <2>2
  <2>4. ToSet(x \o y) = ToSet(x) \cup ToSet(y)
    BY <2>3, ElementsOfConcat
  <2>5. QED
    BY <2>1, <2>2, <2>4
<1>7. Delivered(c) = h \o b /\ c.sent = (h \o b) \o (w \o D)
  BY <1>1, <1>3 DEF InLine, Delivered
<1>8. QED
  BY <1>3, <1>5, <1>6, <1>7

\* The connection the request passes through.
LEMMA PassthroughConn ==
  ASSUME IInv, SInv, NEW r \in Request, Passthrough(r)
  PROVE  \E c : /\ conn' = c /\ verdict' = Decides(r, "passthrough")
                /\ c = [conn EXCEPT !.corked = c.corked, !.real = c.real, !.paused = c.paused]
                /\ c.real = IF Live THEN conn.real ELSE "connecting"
                /\ c \in Connections(Chunk, Tick)
<1>1. conn \in Connections(Chunk, Tick)
  BY ConnTyped
<1>2. PICK b : b = IF Live THEN conn ELSE Dialled(conn)
  OBVIOUS
<1>3. /\ b = [conn EXCEPT !.real = b.real, !.paused = b.paused]
      /\ b.real = IF Live THEN conn.real ELSE "connecting"
      /\ b \in Connections(Chunk, Tick)
  <2>1. CASE Live
    BY <1>1, <1>2, <2>1 DEF Connections
  <2>2. CASE ~Live
    <3>1. b = [conn EXCEPT !.real = "connecting", !.paused = FALSE]
      BY <1>2, <2>2 DEF Dialled
    <3>2. b.real = "connecting" /\ b.paused = FALSE /\ b \in Connections(Chunk, Tick)
      BY <1>1, <3>1 DEF Connections, RealState
    <3>3. QED
      BY <2>2, <3>1, <3>2
  <2>3. QED
    BY <2>1, <2>2
<1>4. PICK c : c = CorkForListeners(b)
  OBVIOUS
<1>5. c = [b EXCEPT !.corked = c.corked] /\ c \in Connections(Chunk, Tick)
  <2>1. CASE listening
    <3>1. c = [b EXCEPT !.corked = TRUE]
      BY <1>4, <2>1 DEF CorkForListeners, Cork
    <3>2. c.corked = TRUE /\ c \in Connections(Chunk, Tick)
      BY <1>3, <3>1 DEF Connections
    <3>3. QED
      BY <3>1, <3>2
  <2>2. CASE ~listening
    BY <1>3, <1>4, <2>2 DEF CorkForListeners, Connections
  <2>3. QED
    BY <2>1, <2>2
<1>6. c.real = b.real /\ c.paused = b.paused
  BY <1>3, <1>5 DEF Connections
<1>7. c = [conn EXCEPT !.corked = c.corked, !.real = c.real, !.paused = c.paused]
  BY <1>1, <1>3, <1>5, <1>6 DEF Connections
<1>8. Turns(c, Decides(r, "passthrough"))
  BY <1>2, <1>4 DEF Passthrough
<1>9. c.destroyed = conn.destroyed
  BY <1>1, <1>7 DEF Connections
<1>10. conn' = c /\ verdict' = Decides(r, "passthrough")
  BY <1>8, <1>9 DEF Turns, AfterHook, HookRuns
<1>11. QED
  BY <1>3, <1>5, <1>6, <1>7, <1>10

\* It passes through.
LEMMA PassthroughSound ==
  ASSUME IInv, SInv, NEW r \in Request, Passthrough(r)
  PROVE  SInv' /\ Promised(conn, conn')
<1>1. PICK c : /\ conn' = c /\ verdict' = Decides(r, "passthrough")
               /\ c = [conn EXCEPT !.corked = c.corked, !.real = c.real, !.paused = c.paused]
               /\ c.real = IF Live THEN conn.real ELSE "connecting"
               /\ c \in Connections(Chunk, Tick)
  BY PassthroughConn
<1>2. conn \in Connections(Chunk, Tick) /\ Closing(conn)
  BY ConnTyped DEF SInv
<1>3. /\ c.heard = conn.heard /\ c.buffer = conn.buffer /\ c.eof = conn.eof
      /\ c.ended = conn.ended /\ c.destroyed = conn.destroyed /\ c.closes = conn.closes
      /\ c.sent = conn.sent /\ c.corkedReads = conn.corkedReads
      /\ c.endPushed = conn.endPushed /\ c.flowing = conn.flowing
      /\ c.pendingWrites = conn.pendingWrites /\ c.pendingEnd = conn.pendingEnd
      /\ c.backpressured = conn.backpressured /\ c.flushScheduled = conn.flushScheduled
      /\ c.ticks = conn.ticks /\ c.nativeClose = conn.nativeClose /\ c.layers = conn.layers
      /\ c.connecting = conn.connecting /\ c.swapped = conn.swapped
  BY <1>1, <1>2 DEF Connections
<1>4. /\ current = r /\ protocol = "http" /\ ~Tunnelled /\ verdict[r] = "pending"
      /\ reached = <<>> /\ "eof" \notin ToSet(conn.ticks)
      /\ \A q \in Request : stage[q] \notin Active
      /\ \A e \in events : e.part # "informational"
      /\ \A part \in {"informational", "head", "fin"} : ~Sent(r, part)
      /\ Alive(conn) => ~conn.corked /\ (conn.eof => conn.endPushed) /\ conn.flowing
  BY UndecidedFacts DEF Passthrough
<1>5. /\ UNCHANGED <<inputVars, current, stage>> /\ events' = events
      /\ conn.real # "closing" /\ ~Settling
  BY DEF Passthrough, eventVars, Undecided
<1>6. reached' \in {<<>>, <<r>>}
  BY <1>4 DEF Passthrough
<1>7. /\ verdict \in [Request -> Verdicts] /\ verdict'[r] = "passthrough"
      /\ \A q \in Request : q # r => verdict'[q] = verdict[q]
  BY <1>1 DEF IInv, Types, Decides
<1>8. 1 \in Request /\ r # 0
  BY BoundsAssumption DEF Request
<1>9. \A q, part : Sent(q, part)' <=> Sent(q, part)
  BY <1>1, <1>3 DEF Sent
<1>10. Reaching'
  BY <1>4, <1>5, <1>6, <1>7, <1>9 DEF Reaching, PassedOn
<1>11. Mocking'
  <2>1. (Tunnelled => \A q \in Request : q > 1 => verdict[q] = "none")'
    <3>1. SUFFICES ASSUME Tunnelled', NEW q \in Request, q > 1 PROVE verdict'[q] = "none"
      OBVIOUS
    <3>2. r = 1
      BY <1>4, <1>5, <1>7, <1>8, <3>1 DEF Tunnelled, inputVars
    <3>3. q > current /\ q # r
      BY <1>4, <3>1, <3>2 DEF Request
    <3>4. QED
      BY <1>7, <3>3 DEF IInv, OneIsPending
  <2>2. QED
    BY <1>1, <1>3, <1>4, <1>5, <2>1 DEF Mocking
<1>12. NoEvents'
  BY <1>5 DEF SInv, NoEvents, inputVars
<1>13. Closing(conn')
  BY <1>1, <1>2, <1>3 DEF Closing
<1>14. Promised(conn, conn')
  BY <1>1, <1>3, StillPromised
<1>15. ASSUME Alive(c) PROVE Sound(c) /\ HttpAlive'
  <2>1. Alive(conn)
    BY <1>3, <1>15 DEF Alive
  <2>2. Sound(conn) /\ HttpAlive
    BY <1>4, <2>1 DEF SInv, AliveInv
  <2>3. /\ conn.corkedReads = <<>> /\ conn.sent = Delivered(conn) \o conn.pendingWrites
        /\ conn.eof => conn.pendingWrites = <<>>
        /\ conn.real \in Over => conn.endPushed
    BY <1>2, <1>4, <2>1, <2>2, Uncorked
  <2>4. NothingToWrite(c) /\ Delivered(c) = Delivered(conn)
    BY <1>3, <2>2 DEF HttpAlive, NothingToWrite, Delivered
  <2>5. conn.endPushed /\ ~Live => "closeUnlessClosed" \in ToSet(conn.ticks) /\ conn.ended
    <3>1. SUFFICES ASSUME conn.endPushed, ~Live
                   PROVE  "closeUnlessClosed" \in ToSet(conn.ticks) /\ conn.ended
      OBVIOUS
    <3>2. conn.eof /\ conn.real = "gone"
      BY <1>2, <1>5, <2>2, <3>1 DEF Sound, Live, Connections, RealState
    <3>3. conn.ended
      BY <1>4, <1>5, <2>1, <3>2 DEF Settling, Alive
    <3>4. QED
      BY <1>4, <1>8, <2>2, <3>1, <3>2, <3>3 DEF HttpAlive
  <2>6. Sound(c)
    <3>1. c.endPushed => c.eof /\ c.real \notin {"open", "none"}
      BY <1>1, <1>3, <2>2 DEF Sound
    <3>2. c.endPushed /\ c.real = "connecting" =>
            "closeUnlessClosed" \in ToSet(c.ticks) /\ c.ended
      BY <1>1, <1>3, <2>2, <2>5 DEF Sound
    <3>3. c.real # "severed" /\ (c.real \in Over => c.endPushed)
      BY <1>1, <1>3, <2>2, <2>3 DEF Sound, Over
    <3>4. c.corkedReads = <<>> /\ c.sent = Delivered(c) \o c.pendingWrites
          /\ (c.eof => c.pendingWrites = <<>>)
      BY <1>3, <2>3, <2>4
    <3>5. QED
      BY <1>1, <3>1, <3>2, <3>3, <3>4, SoundUncorked
  <2>7. Part(r, "fin") \notin ToSet(Delivered(conn))
    BY <1>2, <1>4, <2>2, DeliveredSent DEF Sent
  <2>8. HttpAlive'
    BY <1>1, <1>3, <1>4, <1>5, <1>7, <1>8, <2>1, <2>4, <2>7 DEF HttpAlive, PassedOn
  <2>9. QED
    BY <2>6, <2>8
<1>16. AliveInv'
  BY <1>1, <1>4, <1>5, <1>15 DEF AliveInv, inputVars
<1>17. QED
  BY <1>10, <1>11, <1>12, <1>13, <1>14, <1>16 DEF SInv

-----------------------------------------------------------------------------
(* The client writes its next request.                                       *)

\* Then the exchange before it is over.
LEMMA WritesFacts ==
  ASSUME IInv, SInv, ClientWrites
  PROVE  /\ Alive(conn) /\ protocol = "http" /\ HttpAlive /\ Sound(conn)
         /\ reached = <<>> /\ "eof" \notin ToSet(conn.ticks)
         /\ \A q \in Request : stage[q] \notin Active
         /\ \A e \in events : e.part # "informational"
         /\ ~conn.corked /\ ~conn.eof /\ ~conn.endPushed /\ conn.flowing
         /\ conn.real \notin Over
         /\ current + 1 \in Request /\ current \in Nat
<1>1. /\ current \in Nat /\ current < MaxRequests /\ protocol = "http" /\ ~Settling
      /\ ~conn.destroyed /\ ~conn.ended /\ conn.closes = 0
      /\ current # 0 => Complete(current) /\ current \in Request
  BY BoundsAssumption DEF ClientWrites, IInv, Types, Request
<1>2. Alive(conn) /\ HttpAlive /\ Sound(conn) /\ Reaching /\ Mocking
  BY <1>1 DEF SInv, AliveInv, Alive
<1>3. conn \in Connections(Chunk, Tick)
  BY ConnTyped
<1>4. current # 0 => Sent(current, "fin") /\ Part(current, "fin") \in ToSet(Delivered(conn))
  BY <1>1, <1>2, <1>3, DeliveredSent DEF Complete, Sent
<1>5. reached = <<>>
  <2>1. SUFFICES ASSUME reached # <<>> PROVE FALSE
    OBVIOUS
  <2>2. current \in Request /\ current # 0
    BY <1>2, <2>1, ReachedRequest, BoundsAssumption DEF Request
  <2>3. QED
    BY <1>2, <1>4, <2>1, <2>2 DEF Reaching
<1>6. ~MockOver
  BY <1>4 DEF MockOver
<1>7. "eof" \notin ToSet(conn.ticks)
  BY <1>2, <1>6 DEF Mocking
<1>8. \A q \in Request : stage[q] \notin Active
  <2>1. SUFFICES ASSUME NEW q \in Request, stage[q] \in Active PROVE FALSE
    OBVIOUS
  <2>2. q = current /\ ~Sent(q, "fin") /\ q # 0
    BY <1>2, <2>1, BoundsAssumption DEF Mocking, Request
  <2>3. QED
    BY <1>4, <2>2
<1>9. \A e \in events : e.part # "informational"
  BY <1>2, <1>5 DEF Reaching
<1>10. ~conn.corked /\ conn.flowing /\ (conn.eof => conn.endPushed)
  BY <1>1, <1>2, <1>4, <1>6 DEF HttpAlive, MidResponse
<1>11. ~conn.eof
  BY <1>1, <1>10 DEF Settling
<1>12. ~conn.endPushed
  BY <1>2, <1>11 DEF Sound
<1>13. conn.real \notin Over
  BY <1>2, <1>3, <1>10, <1>12, Uncorked
<1>14. current + 1 \in Request
  BY <1>1, BoundsAssumption DEF Request
<1>15. QED
  BY <1>1, <1>2, <1>5, <1>7, <1>8, <1>9, <1>10, <1>11, <1>12, <1>13, <1>14

\* To the source, which may leave the real connection for the target of a tunnel.
LEMMA ClientRequestsSound ==
  ASSUME IInv, SInv, ClientRequests
  PROVE  SInv' /\ Promised(conn, conn')
<1>1. ClientWrites /\ ~Tunnelled
  BY DEF ClientRequests
<1>2. /\ Alive(conn) /\ protocol = "http" /\ HttpAlive /\ Sound(conn)
      /\ reached = <<>> /\ "eof" \notin ToSet(conn.ticks)
      /\ \A q \in Request : stage[q] \notin Active
      /\ \A e \in events : e.part # "informational"
      /\ ~conn.corked /\ ~conn.eof /\ ~conn.endPushed /\ conn.flowing
      /\ conn.real \notin Over
      /\ current + 1 \in Request /\ current \in Nat
  BY <1>1, WritesFacts
<1>3. conn \in Connections(Chunk, Tick) /\ Closing(conn)
  BY ConnTyped DEF SInv
<1>4. PICK r : r = current + 1
  OBVIOUS
<1>5. /\ UNCHANGED <<inputVars, stage>> /\ events' = events
      /\ verdict' = [verdict EXCEPT ![r] = "pending"] /\ reached' = <<>>
      /\ conn' = conn \/ conn' = Detach(conn)
  BY <1>2, <1>4 DEF ClientRequests, EnterTunnel, eventVars
<1>6. PICK c : c = conn'
  OBVIOUS
<1>7. PICK d : d = Detach(conn)
  OBVIOUS
<1>8. d = [conn EXCEPT !.real = "none", !.swapped = FALSE, !.paused = FALSE]
  BY <1>7 DEF Detach
<1>9. /\ d.heard = conn.heard /\ d.buffer = conn.buffer /\ d.eof = conn.eof
      /\ d.ended = conn.ended /\ d.destroyed = conn.destroyed /\ d.closes = conn.closes
      /\ d.sent = conn.sent /\ d.corked = conn.corked /\ d.corkedReads = conn.corkedReads
      /\ d.endPushed = conn.endPushed /\ d.real = "none" /\ d.flowing = conn.flowing
      /\ d.pendingWrites = conn.pendingWrites /\ d.pendingEnd = conn.pendingEnd
      /\ d.backpressured = conn.backpressured /\ d.flushScheduled = conn.flushScheduled
      /\ d.ticks = conn.ticks /\ d.nativeClose = conn.nativeClose /\ d.layers = conn.layers
      /\ d.connecting = conn.connecting
  BY <1>3, <1>8 DEF Connections
<1>10. d \in Connections(Chunk, Tick)
  BY <1>3, <1>8 DEF Connections, RealState
<1>11. /\ c.heard = conn.heard /\ c.buffer = conn.buffer /\ c.eof = conn.eof
       /\ c.ended = conn.ended /\ c.destroyed = conn.destroyed /\ c.closes = conn.closes
       /\ c.sent = conn.sent /\ c.corked = conn.corked /\ c.corkedReads = conn.corkedReads
       /\ c.endPushed = conn.endPushed /\ c.flowing = conn.flowing
       /\ c.pendingWrites = conn.pendingWrites /\ c.pendingEnd = conn.pendingEnd
       /\ c.backpressured = conn.backpressured /\ c.flushScheduled = conn.flushScheduled
       /\ c.ticks = conn.ticks /\ c.nativeClose = conn.nativeClose /\ c.layers = conn.layers
       /\ c.connecting = conn.connecting
  BY <1>5, <1>6, <1>7, <1>9
<1>12. c \in Connections(Chunk, Tick) /\ c.real \in {conn.real, "none"}
  BY <1>3, <1>5, <1>6, <1>7, <1>9, <1>10
<1>13. Reaching'
  BY <1>2, <1>5 DEF Reaching
<1>14. ~Tunnelled'
  <2>1. 1 \in Request /\ verdict \in [Request -> Verdicts]
    BY BoundsAssumption DEF Request, IInv, Types
  <2>2. verdict'[1] = "passthrough" => verdict[1] = "passthrough"
    BY <1>5, <2>1
  <2>3. QED
    BY <1>1, <1>5, <2>2 DEF Tunnelled, inputVars
<1>15. Mocking'
  BY <1>2, <1>5, <1>6, <1>11, <1>14 DEF Mocking
<1>16. NoEvents'
  BY <1>5 DEF SInv, NoEvents, inputVars
<1>17. Closing(c)
  BY <1>3, <1>11 DEF Closing
<1>18. Sound(c)
  <2>1. conn.corkedReads = <<>> /\ conn.sent = Delivered(conn) \o conn.pendingWrites
        /\ conn.pendingWrites = <<>>
    BY <1>2, <1>3, Uncorked DEF HttpAlive, NothingToWrite
  <2>2. c.real \notin Over /\ c.real # "severed"
    BY <1>2, <1>12 DEF Sound, Over
  <2>3. Delivered(c) = Delivered(conn)
    BY <1>11 DEF Delivered
  <2>4. QED
    BY <1>2, <1>11, <1>12, <2>1, <2>2, <2>3, SoundUncorked
<1>19. NothingToWrite(c)
  BY <1>2, <1>11 DEF HttpAlive, NothingToWrite
<1>20. HttpAlive'
  BY <1>2, <1>6, <1>11, <1>19 DEF HttpAlive
<1>21. AliveInv'
  BY <1>2, <1>5, <1>6, <1>18, <1>20 DEF AliveInv, inputVars
<1>22. Promised(conn, c)
  BY <1>11, StillPromised
<1>23. QED
  BY <1>6, <1>13, <1>15, <1>16, <1>17, <1>21, <1>22 DEF SInv

\* Or through a tunnel that passed through.
LEMMA ClientRequestsThroughTunnelSound ==
  ASSUME IInv, SInv, ClientRequestsThroughTunnel
  PROVE  SInv' /\ Promised(conn, conn')
<1>1. ClientWrites /\ Tunnelled
  BY DEF ClientRequestsThroughTunnel
<1>2. /\ Alive(conn) /\ protocol = "http" /\ HttpAlive /\ Sound(conn)
      /\ reached = <<>> /\ "eof" \notin ToSet(conn.ticks)
      /\ \A q \in Request : stage[q] \notin Active
      /\ \A e \in events : e.part # "informational"
      /\ ~conn.corked /\ ~conn.eof /\ ~conn.endPushed /\ conn.flowing
      /\ current + 1 \in Request /\ current \in Nat
  BY <1>1, WritesFacts
<1>3. PICK r : r = current + 1
  OBVIOUS
<1>4. r \in Request /\ r > current
  BY <1>2, <1>3
<1>5. reached' = <<r>> /\ current' = r
  <2>1. Append(<<>>, r) = <<r>>
    BY <1>4
  <2>2. QED
    BY <1>2, <1>3, <2>1 DEF ClientRequestsThroughTunnel, ClientWrites
<1>6. /\ UNCHANGED <<inputVars, stage, answering, conn, verdict>> /\ events' = events
  BY DEF ClientRequestsThroughTunnel, eventVars
<1>7. ~Sent(r, "head") /\ ~Sent(r, "fin")
  BY <1>4, NothingSent DEF Sent
<1>8. Tunnelled'
  BY <1>1, <1>6 DEF Tunnelled, inputVars
<1>9. Reaching'
  <2>1. PassedOn(current)'
    BY <1>8 DEF PassedOn
  <2>2. ~Sent(current, "head")' /\ ~Sent(current, "fin")'
    BY <1>5, <1>6, <1>7 DEF Sent
  <2>3. QED
    BY <1>2, <1>5, <1>6, <2>1, <2>2 DEF Reaching
<1>10. Mocking'
  BY <1>1, <1>2, <1>6, <1>8 DEF SInv, Mocking
<1>11. NoEvents'
  BY <1>6 DEF SInv, NoEvents, inputVars
<1>12. HttpAlive'
  BY <1>2, <1>6 DEF HttpAlive
<1>13. AliveInv'
  BY <1>2, <1>6, <1>12 DEF AliveInv, inputVars
<1>14. Promised(conn, conn')
  BY <1>6, StillPromised
<1>15. QED
  BY <1>6, <1>9, <1>10, <1>11, <1>13, <1>14 DEF SInv

-----------------------------------------------------------------------------
(* What is pushed.                                                           *)

\* What is sent to a client that takes no more is lost on it.
Sending(c) ==
  {d \in After(c, Chunk, Tick) :
     /\ d.heard = c.heard /\ d.ended = c.ended /\ d.closes = c.closes
     /\ IsPrefix(c.sent, d.sent)
     /\ c.destroyed => d.destroyed
     /\ "eof" \in ToSet(d.ticks) => "eof" \in ToSet(c.ticks)
     /\ Closing(d)}

\* The connection itself is one that nothing was sent to.
LEMMA SendingItself ==
  ASSUME NEW c, c \in After(c, Chunk, Tick), Closing(c)
  PROVE  c \in Sending(c)
<1>1. c.sent \in Seq(Chunk)
  BY DEF After, Connections
<1>2. QED
  BY <1>1, PrefixOfItself DEF Sending

\* A chunk is sent.
LEMMA EmittedSending ==
  ASSUME NEW c \in Connections(Chunk, Tick), NEW d \in Sending(c), NEW x \in Chunk,
         NEW e, e = Emitted(d, x)
  PROVE  /\ e \in Sending(c) /\ e \in Keeping(e) /\ e \in Connections(Chunk, Tick)
         /\ e = [d EXCEPT !.sent = e.sent] /\ e.sent = Append(d.sent, x)
<1>1. d \in After(c, Chunk, Tick) /\ d \in Connections(Chunk, Tick) /\ Closing(d)
  BY DEF Sending, After
<1>2. e = [d EXCEPT !.sent = Append(d.sent, x)]
  BY <1>1 DEF Emitted, Connections
<1>3. /\ e.heard = d.heard /\ e.buffer = d.buffer /\ e.eof = d.eof /\ e.ended = d.ended
      /\ e.destroyed = d.destroyed /\ e.closes = d.closes /\ e.sent = Append(d.sent, x)
      /\ e.corked = d.corked /\ e.corkedReads = d.corkedReads /\ e.endPushed = d.endPushed
      /\ e.real = d.real /\ e.flowing = d.flowing /\ e.pendingWrites = d.pendingWrites
      /\ e.pendingEnd = d.pendingEnd /\ e.backpressured = d.backpressured
      /\ e.flushScheduled = d.flushScheduled /\ e.ticks = d.ticks
      /\ e.nativeClose = d.nativeClose /\ e.layers = d.layers /\ e.connecting = d.connecting
      /\ e.swapped = d.swapped /\ e.paused = d.paused
  BY <1>1, <1>2 DEF Connections
<1>4. e \in After(c, Chunk, Tick)
  BY <1>1, EmittedAfter, OwnIsTick
<1>5. e \in Connections(Chunk, Tick)
  BY <1>4 DEF After
<1>6. c.sent \in Seq(Chunk) /\ d.sent \in Seq(Chunk) /\ IsPrefix(c.sent, d.sent)
  BY <1>1 DEF Connections, Sending
<1>7. IsPrefix(c.sent, e.sent)
  BY <1>3, <1>6, PrefixGrows
<1>8. Closing(e)
  BY <1>1, <1>3 DEF Closing
<1>9. e \in Sending(c)
  BY <1>3, <1>4, <1>7, <1>8 DEF Sending
<1>10. e \in After(e, Chunk, Tick)
  BY <1>4 DEF After, Follows
<1>11. e \in Keeping(e)
  BY <1>8, <1>10, KeepsItself
<1>12. QED
  BY <1>2, <1>3, <1>5, <1>9, <1>11

\* What becomes of such a client when nobody hears it.
LEMMA LostSending ==
  ASSUME NEW c \in Connections(Chunk, Tick), NEW e \in Sending(c), NEW f \in Lost(e),
         f \in After(c, Chunk, Tick)
  PROVE  f \in Sending(c) /\ ~Alive(f) /\ f.sent = e.sent
BY DEF Sending, Lost, Keeping, Kept

\* A part is sent and pushed to a client that takes no more.
LEMMA PushSending ==
  ASSUME NEW c \in Connections(Chunk, Tick), NEW d \in Sending(c), NEW x \in Chunk,
         d.eof \/ ~Alive(d), NEW f, f = Push(Emitted(d, x), x)
  PROVE  f \in Sending(c) /\ ~Alive(f) /\ f.sent = Append(d.sent, x)
<1>1. PICK e : e = Emitted(d, x)
  OBVIOUS
<1>2. /\ e \in Sending(c) /\ e \in Keeping(e) /\ e \in Connections(Chunk, Tick)
      /\ e = [d EXCEPT !.sent = e.sent] /\ e.sent = Append(d.sent, x)
  BY <1>1, EmittedSending
<1>3. d \in Connections(Chunk, Tick) /\ e \in After(c, Chunk, Tick)
  BY <1>2 DEF Sending, After
<1>4. e.eof \/ ~Alive(e)
  BY <1>2, <1>3 DEF Alive, Connections
<1>5. Push(e, x) \in Lost(e)
  BY <1>2, <1>4, PushKeeps DEF Lost
<1>6. Push(e, x) \in After(c, Chunk, Tick)
  BY <1>3, PushAfter, OwnIsTick
<1>7. QED
  BY <1>1, <1>2, <1>5, <1>6, LostSending

\* A read of the real connection is, or is corked.
LEMMA RealDataSending ==
  ASSUME NEW c \in Connections(Chunk, Tick), NEW d \in Sending(c), NEW x \in Chunk,
         ~Alive(d), NEW f, f = OnRealData(d, x)
  PROVE  f \in Sending(c) /\ ~Alive(f) /\ f.sent = Append(d.sent, x)
<1>1. PICK e : e = Emitted(d, x)
  OBVIOUS
<1>2. /\ e \in Sending(c) /\ e \in Keeping(e) /\ e \in Connections(Chunk, Tick)
      /\ e = [d EXCEPT !.sent = e.sent] /\ e.sent = Append(d.sent, x)
  BY <1>1, EmittedSending
<1>3. d \in Connections(Chunk, Tick) /\ e \in After(c, Chunk, Tick) /\ Closing(e)
  BY <1>2 DEF Sending, After
<1>4. ~Alive(e)
  BY <1>2, <1>3 DEF Alive, Connections
<1>5. CASE ~d.corked
  <2>1. PushReal(e, x) \in Lost(e)
    BY <1>2, <1>4, PushRealLost
  <2>2. PushReal(e, x) \in After(c, Chunk, Tick)
    BY <1>3, PushRealAfter, OwnIsTick
  <2>3. f = PushReal(e, x)
    BY <1>1, <1>5 DEF OnRealData
  <2>4. QED
    BY <1>2, <2>1, <2>2, <2>3, LostSending
<1>6. CASE d.corked
  <2>1. f = [e EXCEPT !.corkedReads = Append(@, x)]
    BY <1>1, <1>6 DEF OnRealData
  <2>2. f \in After(c, Chunk, Tick)
    <3>1. x \in Chunk \cup {EndRead, CloseRead}
      OBVIOUS
    <3>2. QED
      BY <1>3, <2>1, <3>1, CorkedAfter, OwnIsTick
  <2>3. /\ f.heard = e.heard /\ f.buffer = e.buffer /\ f.eof = e.eof /\ f.ended = e.ended
        /\ f.destroyed = e.destroyed /\ f.closes = e.closes /\ f.sent = e.sent
        /\ f.corked = e.corked /\ f.endPushed = e.endPushed /\ f.real = e.real
        /\ f.flowing = e.flowing /\ f.pendingWrites = e.pendingWrites
        /\ f.pendingEnd = e.pendingEnd /\ f.backpressured = e.backpressured
        /\ f.flushScheduled = e.flushScheduled /\ f.ticks = e.ticks
        /\ f.nativeClose = e.nativeClose /\ f.layers = e.layers
        /\ f.connecting = e.connecting /\ f.swapped = e.swapped /\ f.paused = e.paused
    BY <1>2, <2>1 DEF Connections
  <2>4. Closing(f) /\ ~Alive(f)
    BY <1>3, <1>4, <2>3 DEF Closing, Alive
  <2>5. f \in Sending(c)
    BY <1>2, <2>2, <2>3, <2>4 DEF Sending
  <2>6. QED
    BY <1>2, <2>3, <2>4, <2>5
<1>7. QED
  BY <1>5, <1>6

\* The step that does it.
LEMMA SendingStep ==
  ASSUME IInv, Reaching', Mocking', NoEvents', NEW c \in Connections(Chunk, Tick), conn' = c,
         c.heard = conn.heard, c.ended = conn.ended, IsPrefix(conn.sent, c.sent),
         conn.destroyed => c.destroyed, c.closes = conn.closes, Closing(c), ~Alive(c)
  PROVE  SInv' /\ Promised(conn, conn')
<1>1. conn \in Connections(Chunk, Tick)
  BY ConnTyped
<1>2. Promised(conn, c)
  BY <1>1, LostPromised
<1>3. QED
  BY <1>2, LostIsSound

-----------------------------------------------------------------------------
(* A client that is handed what is sent.                                     *)

\* More of it, with nothing in between.
Fed(c, d) ==
  /\ d \in Connections(Chunk, Tick)
  /\ d.eof = c.eof /\ d.ended = c.ended /\ d.destroyed = c.destroyed /\ d.closes = c.closes
  /\ d.corked = c.corked /\ d.corkedReads = c.corkedReads /\ d.endPushed = c.endPushed
  /\ d.real = c.real /\ d.flowing = c.flowing /\ d.pendingWrites = c.pendingWrites
  /\ d.pendingEnd = c.pendingEnd /\ d.backpressured = c.backpressured
  /\ d.flushScheduled = c.flushScheduled /\ d.layers = c.layers
  /\ d.nativeClose = c.nativeClose
  /\ IsPrefix(c.heard, d.heard) /\ IsPrefix(c.sent, d.sent)
  /\ d.sent = Delivered(d)
  /\ ~c.flowing => d.heard = c.heard
  /\ c.eof => d.heard = c.heard /\ d.buffer = c.buffer /\ d.sent = c.sent
  /\ ToSet(c.ticks) \subseteq ToSet(d.ticks)
  /\ ToSet(d.ticks) \subseteq ToSet(c.ticks) \cup {"eof"}

\* It has been handed what was sent so far.
LEMMA FedItself ==
  ASSUME NEW c \in Connections(Chunk, Tick), c.sent = Delivered(c)
  PROVE  Fed(c, c)
<1>1. c.sent \in Seq(Chunk) /\ c.heard \in Seq(Chunk)
  BY DEF Connections
<1>2. IsPrefix(c.sent, c.sent) /\ IsPrefix(c.heard, c.heard)
  BY <1>1, PrefixOfItself
<1>3. QED
  BY <1>2 DEF Fed

\* A client that is handed a chunk.
Hands(d, x, e) ==
  /\ e = [d EXCEPT !.heard = e.heard, !.buffer = e.buffer]
  /\ e \in Connections(Chunk, Tick)
  /\ Delivered(e) = Append(Delivered(d), x)
  /\ e.heard = d.heard \/ (d.flowing /\ e.heard = Append(d.heard, x))

\* That is what push() does, while it takes more.
LEMMA PushDelivers ==
  ASSUME NEW d \in Connections(Chunk, Tick), ~d.destroyed, ~d.eof, NEW x \in Chunk,
         NEW e, e = Push(d, x)
  PROVE  Hands(d, x, e)
<1>1. PICK h, b : h = d.heard /\ b = d.buffer
  OBVIOUS
<1>2. h \in Seq(Chunk) /\ b \in Seq(Chunk)
  BY <1>1 DEF Connections
<1>3. Append(h, x) \in Seq(Chunk) /\ Append(b, x) \in Seq(Chunk) /\ <<>> \in Seq(Chunk)
  BY <1>2
<1>4. CASE d.flowing /\ d.buffer = <<>>
  <2>1. e = [d EXCEPT !.heard = Append(h, x)]
    BY <1>1, <1>4 DEF Push
  <2>2. e.heard = Append(h, x) /\ e.buffer = <<>> /\ e \in Connections(Chunk, Tick)
        /\ e = [d EXCEPT !.heard = e.heard, !.buffer = e.buffer]
    BY ZenonT(60), <1>3, <1>4, <2>1 DEF Connections
  <2>3. Append(h, x) \o <<>> = Append(h, x) /\ h \o <<>> = h
    BY <1>2, <1>3, ConcatEmptySeq
  <2>4. QED
    BY <1>1, <1>4, <2>2, <2>3 DEF Delivered, Hands
<1>5. CASE ~(d.flowing /\ d.buffer = <<>>)
  <2>1. e = [d EXCEPT !.buffer = Append(b, x)]
    BY <1>1, <1>5 DEF Push
  <2>2. e.heard = h /\ e.buffer = Append(b, x) /\ e \in Connections(Chunk, Tick)
        /\ e = [d EXCEPT !.heard = e.heard, !.buffer = e.buffer]
    BY <1>1, <1>3, <2>1 DEF Connections
  <2>3. h \o Append(b, x) = Append(h \o b, x)
    BY <1>2, AppendConcat
  <2>4. QED
    BY <1>1, <2>2, <2>3 DEF Delivered, Hands
<1>6. QED
  BY <1>4, <1>5

\* A part is sent and pushed to such a client.
LEMMA PushFed ==
  ASSUME NEW c \in Connections(Chunk, Tick), NEW d, Fed(c, d), ~d.destroyed, ~d.eof,
         NEW x \in Chunk, NEW f, f = Push(Emitted(d, x), x)
  PROVE  Fed(c, f) /\ f.sent = Append(d.sent, x) /\ f.ticks = d.ticks
<1>1. d \in Connections(Chunk, Tick)
  BY DEF Fed
<1>2. PICK e : e = Emitted(d, x)
  OBVIOUS
<1>3. d.sent \in Seq(Chunk) /\ Append(d.sent, x) \in Seq(Chunk)
  BY <1>1 DEF Connections
<1>4. e = [d EXCEPT !.sent = Append(d.sent, x)]
  BY <1>1, <1>2 DEF Emitted, Connections
<1>5. e \in Connections(Chunk, Tick)
  BY <1>1, <1>3, <1>4 DEF Connections
<1>6. /\ e.heard = d.heard /\ e.buffer = d.buffer /\ e.eof = d.eof /\ e.ended = d.ended
      /\ e.destroyed = d.destroyed /\ e.closes = d.closes /\ e.sent = Append(d.sent, x)
      /\ e.corked = d.corked /\ e.corkedReads = d.corkedReads /\ e.endPushed = d.endPushed
      /\ e.real = d.real /\ e.flowing = d.flowing /\ e.pendingWrites = d.pendingWrites
      /\ e.pendingEnd = d.pendingEnd /\ e.backpressured = d.backpressured
      /\ e.flushScheduled = d.flushScheduled /\ e.ticks = d.ticks
      /\ e.nativeClose = d.nativeClose /\ e.layers = d.layers /\ e.connecting = d.connecting
      /\ e.swapped = d.swapped /\ e.paused = d.paused
  BY <1>1, <1>4 DEF Connections
<1>7. /\ f = [e EXCEPT !.heard = f.heard, !.buffer = f.buffer]
      /\ f \in Connections(Chunk, Tick)
      /\ Delivered(f) = Append(Delivered(e), x)
      /\ f.heard = e.heard \/ (e.flowing /\ f.heard = Append(e.heard, x))
  <2>1. f = Push(e, x) /\ ~e.destroyed /\ ~e.eof
    BY <1>2, <1>6
  <2>2. Hands(e, x, f)
    BY <1>5, <2>1, PushDelivers
  <2>3. QED
    BY <2>2 DEF Hands
<1>8. /\ f.eof = d.eof /\ f.ended = d.ended /\ f.destroyed = d.destroyed
      /\ f.closes = d.closes /\ f.sent = Append(d.sent, x) /\ f.corked = d.corked
      /\ f.corkedReads = d.corkedReads /\ f.endPushed = d.endPushed /\ f.real = d.real
      /\ f.flowing = d.flowing /\ f.pendingWrites = d.pendingWrites
      /\ f.pendingEnd = d.pendingEnd /\ f.backpressured = d.backpressured
      /\ f.flushScheduled = d.flushScheduled /\ f.ticks = d.ticks
      /\ f.nativeClose = d.nativeClose /\ f.layers = d.layers /\ f.connecting = d.connecting
      /\ f.swapped = d.swapped /\ f.paused = d.paused
  <2>1. PICK hh, bb : hh = f.heard /\ bb = f.buffer
    OBVIOUS
  <2>2. f = [e EXCEPT !.heard = hh, !.buffer = bb]
    BY <1>7, <2>1
  <2>3. /\ f.eof = e.eof /\ f.ended = e.ended /\ f.destroyed = e.destroyed
        /\ f.closes = e.closes /\ f.sent = e.sent /\ f.corked = e.corked
        /\ f.corkedReads = e.corkedReads /\ f.endPushed = e.endPushed /\ f.real = e.real
        /\ f.flowing = e.flowing /\ f.pendingWrites = e.pendingWrites
        /\ f.pendingEnd = e.pendingEnd /\ f.backpressured = e.backpressured
        /\ f.flushScheduled = e.flushScheduled /\ f.ticks = e.ticks
        /\ f.nativeClose = e.nativeClose /\ f.layers = e.layers
        /\ f.connecting = e.connecting /\ f.swapped = e.swapped /\ f.paused = e.paused
    BY <1>5, <2>2 DEF Connections
  <2>4. QED
    BY <1>6, <2>3
<1>9. /\ c.sent \in Seq(Chunk) /\ c.heard \in Seq(Chunk) /\ d.heard \in Seq(Chunk)
      /\ IsPrefix(c.sent, d.sent) /\ IsPrefix(c.heard, d.heard)
  BY <1>1 DEF Connections, Fed
<1>10. IsPrefix(c.sent, f.sent) /\ IsPrefix(c.heard, f.heard)
  <2>1. PICK S : S = Chunk
    OBVIOUS
  <2>2. PICK s, h, t, u : s = c.sent /\ h = c.heard /\ t = d.sent /\ u = d.heard
    OBVIOUS
  <2>3. /\ s \in Seq(S) /\ h \in Seq(S) /\ t \in Seq(S) /\ u \in Seq(S) /\ x \in S
        /\ IsPrefix(s, t) /\ IsPrefix(h, u)
    BY <1>3, <1>9, <2>1, <2>2
  <2>4. IsPrefix(s, Append(t, x)) /\ IsPrefix(h, Append(u, x))
    BY ONLY <2>3, PrefixGrows
  <2>5. f.sent = Append(t, x) /\ (f.heard = u \/ f.heard = Append(u, x))
    BY <1>6, <1>7, <1>8, <2>2
  <2>6. QED
    BY <2>2, <2>3, <2>4, <2>5
<1>11. f.sent = Delivered(f)
  <2>1. Delivered(e) = Delivered(d) /\ d.sent = Delivered(d)
    BY <1>6 DEF Delivered, Fed
  <2>2. QED
    BY <1>7, <1>8, <2>1
<1>12. QED
  BY <1>6, <1>7, <1>8, <1>10, <1>11 DEF Fed

\* The end of the stream is queued.
LEMMA LaterFed ==
  ASSUME NEW c \in Connections(Chunk, Tick), NEW d, Fed(c, d), NEW f, f = Later(d, "eof")
  PROVE  Fed(c, f) /\ f.sent = d.sent
<1>1. d \in Connections(Chunk, Tick) /\ "eof" \in Tick
  BY DEF Fed, Tick
<1>2. Append(d.ticks, "eof") \in Seq(Tick)
  BY <1>1 DEF Connections
<1>3. f \in Connections(Chunk, Tick)
  BY <1>1, <1>2 DEF Later, Connections
<1>4. /\ Same(d, f) /\ f.nativeClose = d.nativeClose /\ f.layers = d.layers
      /\ ToSet(f.ticks) = ToSet(d.ticks) \cup {"eof"}
  BY <1>1, LaterSame
<1>5. Delivered(f) = Delivered(d)
  BY <1>4 DEF Same, Delivered
<1>6. QED
  BY <1>3, <1>4, <1>5 DEF Same, Fed

\* The real connection is paused.
LEMMA PauseFed ==
  ASSUME NEW c \in Connections(Chunk, Tick), NEW d, Fed(c, d), NEW f,
         f = [d EXCEPT !.paused = TRUE]
  PROVE  Fed(c, f) /\ f.sent = d.sent /\ f.ticks = d.ticks
<1>1. d \in Connections(Chunk, Tick)
  BY DEF Fed
<1>2. f \in Connections(Chunk, Tick)
  BY <1>1 DEF Connections
<1>3. /\ f.heard = d.heard /\ f.buffer = d.buffer /\ f.eof = d.eof /\ f.ended = d.ended
      /\ f.destroyed = d.destroyed /\ f.closes = d.closes /\ f.sent = d.sent
      /\ f.corked = d.corked /\ f.corkedReads = d.corkedReads /\ f.endPushed = d.endPushed
      /\ f.real = d.real /\ f.flowing = d.flowing /\ f.pendingWrites = d.pendingWrites
      /\ f.pendingEnd = d.pendingEnd /\ f.backpressured = d.backpressured
      /\ f.flushScheduled = d.flushScheduled /\ f.ticks = d.ticks
      /\ f.nativeClose = d.nativeClose /\ f.layers = d.layers /\ f.connecting = d.connecting
      /\ f.swapped = d.swapped /\ f.paused = TRUE
  BY <1>1 DEF Connections
<1>4. Delivered(f) = Delivered(d)
  BY <1>3 DEF Delivered
<1>5. QED
  BY <1>2, <1>3, <1>4 DEF Fed

-----------------------------------------------------------------------------
(* The real connection answers.                                              *)

\* The parts of an answer.
Parts == {"informational", "head", "fin"}

\* What is appended is sent as well.
LEMMA AppendedSent ==
  ASSUME NEW c \in Connections(Chunk, Tick), NEW x \in Chunk,
         NEW d, d.sent = Append(c.sent, x)
  PROVE  ToSet(d.sent) = ToSet(c.sent) \cup {x}
<1>1. c.sent \in Seq(Chunk)
  BY DEF Connections
<1>2. QED
  BY <1>1, ElementsOfAppend

\* The parts of a response are chunks, and differ.
LEMMA PartIsChunk ==
  ASSUME NEW r \in Request, NEW part \in Parts
  PROVE  /\ Part(r, part) \in Chunk /\ Part(r, part) # EndRead /\ Part(r, part) # CloseRead
         /\ \A q \in Nat, p \in Parts : Part(q, p) = Part(r, part) => q = r /\ p = part
<1>1. r \in Index
  BY BoundsAssumption DEF Request, Index
<1>2. QED
  BY <1>1 DEF Part, Parts, Chunk, EndRead, CloseRead

\* One of the answers of the real server, and what it makes of the exchange.
AnswersOf(part) ==
  /\ Answers(part)
  /\ part = "informational" => answering = "nothing" /\ answering' = "informational"
  /\ part = "head" => answering # "head" /\ ~Overtakes /\ answering' = "head"
  /\ part = "fin" => answering = "head" /\ answering' = "nothing"
  /\ reached' = IF part = "fin" THEN Tail(reached) ELSE reached

\* It answers the request the client has sent last.
LEMMA AnswersFacts ==
  ASSUME IInv, SInv, NEW part \in Parts, AnswersOf(part)
  PROVE  /\ current \in Request /\ reached = <<current>> /\ PassedOn(current)
         /\ protocol = "http" /\ ~Sent(current, "fin") /\ conn.real = "open"
         /\ (answering # "head" => ~Sent(current, "head"))
         /\ ~MockOver /\ "eof" \notin ToSet(conn.ticks)
         /\ \A q \in Request : stage[q] \notin Active
         /\ (part # "informational" => \A e \in events : e.part # "informational")
         /\ Becomes(OnRealData(conn, Part(current, part)))
         /\ events' = events \cup Parsed(current, part)
         /\ UNCHANGED <<inputVars, current, stage, readyState>>
         /\ reached' = IF part = "fin" THEN <<>> ELSE reached
<1>1. reached # <<>> /\ conn.real = "open"
  BY DEF AnswersOf, Answers
<1>2. current \in Request /\ reached = <<current>>
  BY <1>1, ReachedRequest DEF SInv
<1>3. Head(reached) = current /\ Tail(reached) = <<>>
  BY <1>2
<1>4. /\ Becomes(OnRealData(conn, Part(current, part)))
      /\ events' = events \cup Parsed(current, part)
  BY <1>3 DEF AnswersOf, Answers
<1>5. UNCHANGED <<inputVars, current, stage, readyState>>
  BY DEF AnswersOf, Answers, exchangeVars
<1>6. /\ PassedOn(current) /\ ~Sent(current, "fin")
      /\ (answering # "head" => ~Sent(current, "head"))
  BY <1>1 DEF SInv, Reaching
<1>7. protocol = "http"
  <2>1. protocol # "other"
    BY <1>1, OtherHasNone
  <2>2. QED
    BY <2>1 DEF IInv, Types
<1>8. ~MockOver
  BY <1>6, MockOverNotPassed DEF SInv
<1>9. "eof" \notin ToSet(conn.ticks)
  BY <1>8 DEF SInv, Mocking
<1>10. \A q \in Request : stage[q] \notin Active
  BY <1>6, StagedFacts
<1>11. part # "informational" => \A e \in events : e.part # "informational"
  <2>1. CASE part = "head"
    BY <2>1 DEF AnswersOf, Overtakes
  <2>2. CASE part = "fin"
    BY <2>2 DEF AnswersOf, SInv, Reaching
  <2>3. QED
    BY <2>1, <2>2 DEF Parts
<1>12. reached' = IF part = "fin" THEN <<>> ELSE reached
  BY <1>3 DEF AnswersOf
<1>13. QED
  BY <1>1, <1>2, <1>4, <1>5, <1>6, <1>7, <1>8, <1>9, <1>10, <1>11, <1>12

\* What the exchanges are, after that.
LEMMA AnswersKeep ==
  ASSUME IInv, SInv, NEW part \in Parts, AnswersOf(part), NEW c, conn' = c,
         Given(verdict'), NonePassed,
         c.sent = Append(conn.sent, Part(current, part)),
         "eof" \in ToSet(c.ticks) => "eof" \in ToSet(conn.ticks)
  PROVE  Reaching' /\ Mocking' /\ NoEvents' /\ PassedOn(current)' /\ ~MockOver'
<1>1. /\ current \in Request /\ reached = <<current>> /\ PassedOn(current)
      /\ protocol = "http" /\ ~Sent(current, "fin") /\ conn.real = "open"
      /\ (answering # "head" => ~Sent(current, "head"))
      /\ ~MockOver /\ "eof" \notin ToSet(conn.ticks)
      /\ \A q \in Request : stage[q] \notin Active
      /\ (part # "informational" => \A e \in events : e.part # "informational")
      /\ events' = events \cup Parsed(current, part)
      /\ UNCHANGED <<inputVars, current, stage, readyState>>
      /\ reached' = IF part = "fin" THEN <<>> ELSE reached
  BY AnswersFacts
<1>2. PICK x : x = Part(current, part)
  OBVIOUS
<1>3. /\ x \in Chunk
      /\ Part(current, "fin") = x => part = "fin"
      /\ Part(current, "head") = x => part = "head"
  BY <1>1, <1>2, PartIsChunk DEF Parts, Request
<1>4. ToSet(conn'.sent) = ToSet(conn.sent) \cup {x}
  BY <1>2, <1>3, ConnTyped, AppendedSent
<1>5. /\ part # "fin" => ~Sent(current, "fin")'
      /\ part # "head" /\ ~Sent(current, "head") => ~Sent(current, "head")'
  BY <1>1, <1>3, <1>4 DEF Sent
<1>6. Tunnelled' <=> Tunnelled
  <2>1. 1 \in Request
    BY BoundsAssumption DEF Request
  <2>2. QED
    BY <1>1, <2>1 DEF Tunnelled, Given, NonePassed, inputVars
<1>7. PassedOn(current)'
  BY <1>1, <1>6 DEF PassedOn, Given
<1>8. Reaching'
  <2>1. \A e \in events' : e.part = "informational" =>
          reached' # <<>> /\ answering' = "informational"
    <3>1. CASE part = "informational"
      <4>1. answering' = "informational" /\ reached' # <<>>
        BY <1>1, <3>1 DEF AnswersOf
      <4>2. QED
        BY <4>1
    <3>2. CASE part = "head"
      <4>1. \A e \in Parsed(current, part) : e.part = "head"
        BY <3>2 DEF Parsed
      <4>2. QED
        BY <1>1, <3>2, <4>1
    <3>3. CASE part = "fin"
      <4>1. Parsed(current, part) = {}
        BY <3>3 DEF Parsed
      <4>2. QED
        BY <1>1, <3>3, <4>1
    <3>4. QED
      BY <3>1, <3>2, <3>3 DEF Parts
  <2>2. reached' # <<>> => part # "fin" /\ ~Sent(current, "fin")'
    BY <1>1, <1>5
  <2>3. reached' # <<>> /\ answering' # "head" => ~Sent(current, "head")'
    <3>1. SUFFICES ASSUME reached' # <<>>, answering' # "head" PROVE ~Sent(current, "head")'
      OBVIOUS
    <3>2. part = "informational" /\ answering # "head"
      BY <1>1, <3>1 DEF AnswersOf, Parts
    <3>3. QED
      BY <1>1, <1>5, <3>2
  <2>4. reached' \in {<<>>, <<current'>>}
    BY <1>1
  <2>5. QED
    BY <1>1, <1>7, <2>1, <2>2, <2>3, <2>4 DEF Reaching
<1>9. ~MockOver'
  BY <1>1, <1>6, <1>7
     DEF MockOver, PassedOn, Given, IInv, OneIsPending, Tunnelled, NonePassed, inputVars, Request
<1>10. Mocking'
  <2>1. "eof" \notin ToSet(conn'.ticks)
    BY <1>1
  <2>2. Tunnelled' => \A r \in Request : r > 1 => verdict'[r] = "none"
    <3>1. Tunnelled => \A r \in Request : r > 1 => verdict[r] = "none"
      BY DEF SInv, Mocking
    <3>2. QED
      BY <1>6, <3>1 DEF Given
  <2>3. \A q \in Request : stage'[q] \notin Active
    BY <1>1
  <2>4. QED
    BY <2>1, <2>2, <2>3 DEF Mocking
<1>11. NoEvents'
  BY <1>1 DEF NoEvents, inputVars
<1>12. QED
  BY <1>7, <1>8, <1>9, <1>10, <1>11

\* A connection that is handed more, with nothing corked, is sound.
LEMMA FedSound ==
  ASSUME NEW c \in Connections(Chunk, Tick), Alive(c), Closing(c), Sound(c), ~c.corked,
         NothingToWrite(c), ~c.ended, NEW d, Fed(c, d)
  PROVE  /\ Sound(d) /\ Alive(d) /\ NothingToWrite(d) /\ Promised(c, d)
         /\ ("close" \in ToSet(d.ticks) => "close" \in ToSet(c.ticks)) /\ Closing(d)
<1>1. /\ c.corkedReads = <<>> /\ c.pendingWrites = <<>>
      /\ c.real \in Over => c.endPushed
  BY Uncorked DEF NothingToWrite
<1>2. d \in Connections(Chunk, Tick) /\ d.corkedReads = <<>> /\ d.pendingWrites = <<>>
  BY <1>1 DEF Fed
<1>3. d.heard \in Seq(Chunk) /\ d.buffer \in Seq(Chunk)
  BY <1>2 DEF Connections
<1>4. Delivered(d) \in Seq(Chunk)
  BY <1>3, ConcatProperties DEF Delivered
<1>5. d.sent = Delivered(d) \o d.pendingWrites
  <2>1. PICK S, s : S = Chunk /\ s = Delivered(d)
    OBVIOUS
  <2>2. s \in Seq(S)
    BY <1>4, <2>1
  <2>3. s \o <<>> = s
    BY ONLY <2>2, ConcatEmptySeq
  <2>4. QED
    BY <1>2, <2>1, <2>3 DEF Fed
<1>6. /\ d.endPushed => d.eof /\ d.real \notin {"open", "none"}
      /\ d.endPushed /\ d.real = "connecting" =>
           "closeUnlessClosed" \in ToSet(d.ticks) /\ d.ended
      /\ d.real # "severed"
  BY DEF Sound, Fed
<1>7. Sound(d)
  BY <1>1, <1>2, <1>5, <1>6, SoundUncorked DEF Fed
<1>8. Alive(d)
  BY DEF Alive, Fed
<1>9. Promised(c, d)
  BY <1>2, <1>7, <1>8, TransferPromised DEF Fed
<1>10. Closing(d) /\ ("close" \in ToSet(d.ticks) => "close" \in ToSet(c.ticks))
  BY DEF Closing, Fed
<1>11. QED
  BY <1>2, <1>7, <1>8, <1>9, <1>10 DEF NothingToWrite, Fed

\* A client that is handed more, of an exchange that goes on.
LEMMA FedStep ==
  ASSUME IInv, SInv, Alive(conn), ~conn.corked, ~conn.ended, NothingToWrite(conn),
         Reaching', Mocking', NoEvents', UNCHANGED <<inputVars, current>>,
         NEW d, Fed(conn, d), conn' = d,
         current # 0 => verdict'[current] # "pending",
         conn.eof /\ ~conn.endPushed => protocol = "http" /\ MockOver',
         protocol = "http" /\ ~conn.flowing => MidResponse' \/ conn'.heard = conn.heard,
         protocol = "other" => readyState' = readyState
  PROVE  SInv' /\ Promised(conn, conn')
<1>1. conn \in Connections(Chunk, Tick) /\ Sound(conn) /\ Closing(conn)
  BY ConnTyped DEF SInv, AliveInv
<1>2. /\ Sound(d) /\ Alive(d) /\ NothingToWrite(d) /\ Promised(conn, d) /\ Closing(d)
  BY <1>1, FedSound
<1>3. protocol = "http" => HttpAlive'
  <2>1. SUFFICES ASSUME protocol = "http" PROVE HttpAlive'
    OBVIOUS
  <2>2. HttpAlive
    BY <2>1 DEF SInv, AliveInv
  <2>3. ~conn'.flowing => MidResponse'
    <3>1. SUFFICES ASSUME ~conn'.flowing, conn'.heard = conn.heard PROVE MidResponse'
      BY <2>1 DEF Fed
    <3>2. MidResponse
      BY <2>2, <3>1 DEF HttpAlive, Fed
    <3>3. QED
      BY <3>1, <3>2 DEF MidResponse, Complete
  <2>4. ~conn'.corked
    BY DEF Fed
  <2>5. conn'.eof /\ ~conn'.endPushed => MockOver'
    BY DEF Fed
  <2>6. QED
    BY <1>2, <2>3, <2>4, <2>5 DEF HttpAlive
<1>4. protocol = "other" => OtherAlive'
  <2>1. SUFFICES ASSUME protocol = "other" PROVE OtherAlive'
    OBVIOUS
  <2>2. OtherAlive
    BY <2>1 DEF SInv, AliveInv
  <2>3. QED
    BY <1>2, <2>1, <2>2 DEF OtherAlive, Fed
<1>5. AliveInv'
  BY <1>2, <1>3, <1>4 DEF AliveInv, inputVars
<1>6. QED
  BY <1>2, <1>5 DEF SInv

\* A read of the real connection, for a client that is read and not corked.
LEMMA RealDataFed ==
  ASSUME NEW c \in Connections(Chunk, Tick), Alive(c), Sound(c), ~c.corked, ~c.eof,
         NothingToWrite(c), NEW x \in Chunk, NEW f, f = OnRealData(c, x)
  PROVE  Fed(c, f) /\ f.sent = Append(c.sent, x) /\ f.ticks = c.ticks
<1>1. PICK g : g = Push(Emitted(c, x), x)
  OBVIOUS
<1>2. c.sent = Delivered(c)
  <2>1. c.sent = Delivered(c) \o <<>>
    BY Uncorked DEF NothingToWrite
  <2>2. Delivered(c) \in Seq(Chunk)
    BY DeliveredSent
  <2>3. QED
    BY <2>1, <2>2, ConcatEmptySeq
<1>3. Fed(c, c)
  BY <1>2, FedItself
<1>4. Fed(c, g) /\ g.sent = Append(c.sent, x) /\ g.ticks = c.ticks
  BY <1>1, <1>3, PushFed DEF Alive
<1>5. f = IF TakesMore(g) THEN g ELSE [g EXCEPT !.paused = TRUE]
  <2>1. Emitted(c, x).corked = c.corked
    BY DEF Emitted, Connections
  <2>2. QED
    BY <1>1, <2>1 DEF OnRealData, PushReal
<1>6. CASE TakesMore(g)
  BY <1>4, <1>5, <1>6
<1>7. CASE ~TakesMore(g)
  BY <1>4, <1>5, <1>7, PauseFed
<1>8. QED
  BY <1>6, <1>7

\* A connection with one more read behind its cork.
Behind(c, x, f) ==
  /\ /\ f.heard = c.heard /\ f.buffer = c.buffer /\ f.eof = c.eof /\ f.ended = c.ended
     /\ f.destroyed = c.destroyed /\ f.closes = c.closes /\ f.sent = Append(c.sent, x)
     /\ f.corked = c.corked /\ f.endPushed = c.endPushed /\ f.real = c.real
     /\ f.flowing = c.flowing /\ f.pendingWrites = c.pendingWrites
     /\ f.pendingEnd = c.pendingEnd /\ f.backpressured = c.backpressured
     /\ f.flushScheduled = c.flushScheduled /\ f.ticks = c.ticks
     /\ f.nativeClose = c.nativeClose /\ f.layers = c.layers /\ f.connecting = c.connecting
     /\ f.swapped = c.swapped /\ f.paused = c.paused
  /\ f.corkedReads = Append(c.corkedReads, x)
  /\ f \in Connections(Chunk, Tick) /\ Sound(f) /\ Closing(f) /\ Alive(f)
  /\ Delivered(f) = Delivered(c) /\ Promised(c, f)

\* A read of the real connection behind the cork of an HTTP client.
LEMMA RealDataCorked ==
  ASSUME NEW c \in Connections(Chunk, Tick), Alive(c), Closing(c), Sound(c), c.corked,
         ~c.eof, c.real = "open", NothingToWrite(c), NEW x \in Chunk,
         NEW f, f = OnRealData(c, x)
  PROVE  Behind(c, x, f)
<1>1. PICK D \in Seq(Chunk), E \in Seq({EndRead, CloseRead}) : InLine(c, D, E)
  BY DEF Sound
<1>2. E = <<>> /\ c.corkedReads = D \o <<>> /\ c.pendingWrites = <<>>
  BY <1>1 DEF InLine, Over, NothingToWrite
<1>3. PICK S : S = Chunk
  OBVIOUS
<1>4. PICK w : w = Delivered(c)
  OBVIOUS
<1>5. D \in Seq(S) /\ w \in Seq(S) /\ x \in S /\ <<>> \in Seq(S)
  BY <1>3, <1>4, DeliveredSent
<1>6. D \o <<>> = D /\ <<>> \o D = D /\ <<>> \o Append(D, x) = Append(D, x)
      /\ Append(D, x) \o <<>> = Append(D, x) /\ Append(D, x) \in Seq(S)
  <2>1. Append(D, x) \in Seq(S)
    BY <1>5
  <2>2. QED
    BY ONLY <1>5, <2>1, ConcatEmptySeq
<1>7. c.sent = w \o D /\ c.corkedReads = D
  BY <1>1, <1>2, <1>4, <1>6 DEF InLine
<1>8. w \o Append(D, x) = Append(w \o D, x)
  BY ONLY <1>5, AppendConcat
<1>9. f = [[c EXCEPT !.sent = Append(c.sent, x)] EXCEPT !.corkedReads = Append(c.corkedReads, x)]
  BY DEF OnRealData, Emitted, Connections
<1>10. /\ /\ f.heard = c.heard /\ f.buffer = c.buffer /\ f.eof = c.eof /\ f.ended = c.ended
          /\ f.destroyed = c.destroyed /\ f.closes = c.closes /\ f.sent = Append(c.sent, x)
          /\ f.corked = c.corked /\ f.endPushed = c.endPushed /\ f.real = c.real
          /\ f.flowing = c.flowing /\ f.pendingWrites = c.pendingWrites
          /\ f.pendingEnd = c.pendingEnd /\ f.backpressured = c.backpressured
          /\ f.flushScheduled = c.flushScheduled /\ f.ticks = c.ticks
          /\ f.nativeClose = c.nativeClose /\ f.layers = c.layers
          /\ f.connecting = c.connecting /\ f.swapped = c.swapped /\ f.paused = c.paused
       /\ f.corkedReads = Append(c.corkedReads, x)
  BY <1>9 DEF Connections
<1>11. Delivered(f) = Delivered(c)
  BY <1>10 DEF Delivered
<1>12. InLine(f, Append(D, x), <<>>)
  <2>1. f.corkedReads = Append(D, x) \o <<>>
    BY <1>6, <1>7, <1>10
  <2>2. f.sent = Delivered(f) \o (f.pendingWrites \o Append(D, x))
    BY <1>2, <1>4, <1>6, <1>7, <1>8, <1>10, <1>11
  <2>3. f.real \notin Over /\ ~f.eof
    BY <1>10 DEF Over
  <2>4. QED
    BY <2>1, <2>2, <2>3 DEF InLine
<1>13. Append(D, x) \in Seq(Chunk) /\ <<>> \in Seq({EndRead, CloseRead})
  BY <1>3, <1>6
<1>14. Sound(f)
  <2>1. ~c.endPushed /\ c.real # "severed"
    BY DEF Sound
  <2>2. QED
    BY <1>10, <1>12, <1>13, <2>1 DEF Sound
<1>15. Closing(f) /\ Alive(f)
  BY <1>10 DEF Closing, Alive
<1>16. f \in Connections(Chunk, Tick)
  <2>1. Append(c.sent, x) \in Seq(Chunk)
        /\ Append(c.corkedReads, x) \in Seq(Chunk \cup {EndRead, CloseRead})
    BY DEF Connections
  <2>2. QED
    BY ZenonT(60), <1>9, <2>1 DEF Connections
<1>17. Promised(c, f)
  <2>1. IsPrefix(c.heard, f.heard) /\ IsPrefix(c.sent, f.sent)
    <3>1. c.heard \in Seq(Chunk) /\ c.sent \in Seq(Chunk)
      BY DEF Connections
    <3>2. QED
      BY <1>10, <3>1, PrefixOfItself, PrefixOfAppend
  <2>2. ~c.ended /\ ~f.ended
    BY <1>10 DEF Closing
  <2>3. QED
    BY <1>14, <1>15, <1>16, <2>1, <2>2, TransferPromised
<1>18. QED
  BY <1>10, <1>11, <1>14, <1>15, <1>16, <1>17 DEF Behind

\* The real server answers.
LEMMA AnswersSound ==
  ASSUME IInv, SInv, NEW part \in Parts, AnswersOf(part)
  PROVE  SInv' /\ Promised(conn, conn')
<1>1. /\ current \in Request /\ PassedOn(current)
      /\ protocol = "http" /\ conn.real = "open"
      /\ ~MockOver /\ Becomes(OnRealData(conn, Part(current, part)))
      /\ UNCHANGED <<inputVars, current, stage, readyState>>
  BY AnswersFacts
<1>2. PICK x : x = Part(current, part)
  OBVIOUS
<1>3. PICK c : c = OnRealData(conn, x)
  OBVIOUS
<1>4. x \in Chunk
  BY <1>1, <1>2, PartIsChunk
<1>5. conn \in Connections(Chunk, Tick) /\ conn \in After(conn, Chunk, Tick) /\ Closing(conn)
  BY ConnTyped DEF SInv
<1>6. Given(verdict') /\ NonePassed /\ conn' = c
  BY <1>1, <1>2, <1>3, BecomesGives
<1>7. CASE ~Alive(conn)
  <2>1. conn \in Sending(conn)
    BY <1>5, SendingItself
  <2>2. c \in Sending(conn) /\ ~Alive(c) /\ c.sent = Append(conn.sent, x)
    BY <1>3, <1>4, <1>5, <1>7, <2>1, RealDataSending
  <2>3. Reaching' /\ Mocking' /\ NoEvents'
    BY <1>2, <1>6, <2>2, AnswersKeep DEF Sending
  <2>4. c \in Connections(Chunk, Tick)
    BY <2>2 DEF Sending, After
  <2>5. QED
    BY <1>6, <2>2, <2>3, <2>4, SendingStep DEF Sending
<1>8. CASE Alive(conn)
  <2>1. Sound(conn) /\ HttpAlive /\ NothingToWrite(conn)
    BY <1>1, <1>8 DEF SInv, AliveInv, HttpAlive
  <2>2. ~conn.eof /\ ~conn.ended
    BY <1>1, <1>5, <2>1 DEF HttpAlive, Sound, Closing
  <2>3. CASE conn.corked
    <3>1. /\ /\ c.heard = conn.heard /\ c.buffer = conn.buffer /\ c.eof = conn.eof
             /\ c.ended = conn.ended /\ c.destroyed = conn.destroyed
             /\ c.closes = conn.closes /\ c.sent = Append(conn.sent, x)
             /\ c.corked = conn.corked /\ c.endPushed = conn.endPushed /\ c.real = conn.real
             /\ c.flowing = conn.flowing /\ c.pendingWrites = conn.pendingWrites
             /\ c.pendingEnd = conn.pendingEnd /\ c.backpressured = conn.backpressured
             /\ c.flushScheduled = conn.flushScheduled /\ c.ticks = conn.ticks
             /\ c.nativeClose = conn.nativeClose /\ c.layers = conn.layers
             /\ c.connecting = conn.connecting /\ c.swapped = conn.swapped
             /\ c.paused = conn.paused
          /\ c \in Connections(Chunk, Tick) /\ Sound(c) /\ Closing(c) /\ Alive(c)
          /\ Delivered(c) = Delivered(conn) /\ Promised(conn, c)
      <4>1. /\ conn \in Connections(Chunk, Tick) /\ Alive(conn) /\ Closing(conn) /\ Sound(conn)
            /\ conn.corked /\ ~conn.eof /\ conn.real = "open" /\ NothingToWrite(conn)
            /\ x \in Chunk /\ c = OnRealData(conn, x)
        BY <1>1, <1>3, <1>4, <1>5, <1>8, <2>1, <2>2, <2>3
      <4>2. Behind(conn, x, c)
        BY ONLY <4>1, RealDataCorked
      <4>3. QED
        BY <4>2 DEF Behind
    <3>2. Reaching' /\ Mocking' /\ NoEvents' /\ PassedOn(current)'
      BY <1>2, <1>6, <3>1, AnswersKeep
    <3>3. HttpAlive'
      <4>1. Part(current, "fin") \notin ToSet(Delivered(conn))
        BY <2>1, <2>3 DEF HttpAlive
      <4>2. ~conn.flowing => MidResponse'
        BY <1>1, <1>6, <2>1, <3>1 DEF HttpAlive, MidResponse, Complete
      <4>3. NothingToWrite(c)
        BY <2>1, <3>1 DEF NothingToWrite
      <4>4. QED
        BY <1>1, <1>6, <2>1, <2>2, <3>1, <3>2, <4>1, <4>2, <4>3 DEF HttpAlive, Request
    <3>4. QED
      BY <1>1, <1>6, <3>1, <3>2, <3>3 DEF SInv, AliveInv, inputVars
  <2>4. CASE ~conn.corked
    <3>1. Fed(conn, c) /\ c.sent = Append(conn.sent, x) /\ c.ticks = conn.ticks
      BY <1>3, <1>4, <1>5, <1>8, <2>1, <2>2, <2>4, RealDataFed
    <3>2. Reaching' /\ Mocking' /\ NoEvents' /\ PassedOn(current)'
      BY <1>2, <1>6, <3>1, AnswersKeep
    <3>3. ~conn.flowing => c.heard = conn.heard
      BY <3>1 DEF Fed
    <3>4. current # 0 => verdict'[current] # "pending"
      <4>1. verdict[current] # "pending"
        <5>1. current # 0 /\ (verdict[current] = "pending" => hook = current)
              /\ (Tunnelled => hook = 0)
          BY <1>1 DEF IInv, OneIsPending, Request
        <5>2. QED
          BY <1>1, <5>1 DEF PassedOn
      <4>2. QED
        BY <1>1, <1>6, <4>1 DEF Given
    <3>5. QED
      BY <1>1, <1>6, <1>8, <2>1, <2>2, <2>4, <3>1, <3>2, <3>3, <3>4, FedStep
  <2>5. QED
    BY <2>3, <2>4
<1>9. QED
  BY <1>7, <1>8

\* With an informational response, with the head of the final one, or with its end.
LEMMA ServerAnswersSound ==
  ASSUME IInv, SInv, ~hurried, RealInforms \/ RealResponds \/ RealCompletes
  PROVE  SInv' /\ Promised(conn, conn')
<1>1. CASE RealInforms
  <2>1. AnswersOf("informational")
    BY <1>1 DEF RealInforms, AnswersOf
  <2>2. QED
    BY <2>1, AnswersSound DEF Parts
<1>2. CASE RealResponds
  <2>1. AnswersOf("head")
    BY <1>2 DEF RealResponds, AnswersOf
  <2>2. QED
    BY <2>1, AnswersSound DEF Parts
<1>3. CASE RealCompletes
  <2>1. AnswersOf("fin")
    BY <1>3 DEF RealCompletes, AnswersOf
  <2>2. QED
    BY <2>1, AnswersSound DEF Parts
<1>4. QED
  BY <1>1, <1>2, <1>3

\* The real connection of another protocol sends.
LEMMA RealSendsSound ==
  ASSUME IInv, SInv, RealSends
  PROVE  SInv' /\ Promised(conn, conn')
<1>1. PICK x : x = NextChunk
  OBVIOUS
<1>2. PICK c : c = OnRealData(conn, x)
  OBVIOUS
<1>3. /\ protocol = "other" /\ conn.real = "open" /\ OnlyConn(c)
  BY <1>1, <1>2 DEF RealSends
<1>4. x \in Chunk /\ x.part = "data"
  <2>1. Len(conn.sent) \in Nat /\ Len(conn.sent) < MaxChunks
    BY ConnTyped DEF RealSends, Connections
  <2>2. Len(conn.sent) + 1 \in Index
    BY <2>1, BoundsAssumption DEF Index
  <2>3. QED
    BY <1>1, <2>2 DEF NextChunk, Part, Chunk
<1>5. conn \in Connections(Chunk, Tick) /\ conn \in After(conn, Chunk, Tick) /\ Closing(conn)
  BY ConnTyped DEF SInv
<1>6. /\ Becomes(c) /\ UNCHANGED <<inputVars, current, stage, reached, answering>>
      /\ events' = events
  BY <1>3, OnlyConnQuiet
<1>7. Given(verdict') /\ NonePassed /\ conn' = c
  BY <1>6, BecomesGives
<1>8. ASSUME c.sent = Append(conn.sent, x),
             "eof" \in ToSet(c.ticks) => "eof" \in ToSet(conn.ticks)
      PROVE  Reaching' /\ Mocking' /\ NoEvents'
  <2>1. ToSet(c.sent) = ToSet(conn.sent) \cup {x}
    BY <1>4, <1>5, <1>8, AppendedSent
  <2>2. \A q \in Nat : Part(q, "head") # x /\ Part(q, "fin") # x
    BY <1>4 DEF Part
  <2>3. \A q \in Nat : (Sent(q, "head")' => Sent(q, "head")) /\ (Sent(q, "fin")' => Sent(q, "fin"))
    BY <1>7, <2>1, <2>2 DEF Sent
  <2>4. Quiet
    BY <1>6, <1>7, <1>8, <2>3 DEF Quiet
  <2>5. QED
    BY <1>7, <2>4, QuietKeeps
<1>9. CASE ~Alive(conn)
  <2>1. conn \in Sending(conn)
    BY <1>5, SendingItself
  <2>2. c \in Sending(conn) /\ ~Alive(c) /\ c.sent = Append(conn.sent, x)
    BY <1>2, <1>4, <1>5, <1>9, <2>1, RealDataSending
  <2>3. Reaching' /\ Mocking' /\ NoEvents'
    BY <1>8, <2>2 DEF Sending
  <2>4. c \in Connections(Chunk, Tick)
    BY <2>2 DEF Sending, After
  <2>5. QED
    BY <1>7, <2>2, <2>3, <2>4, SendingStep DEF Sending
<1>10. CASE Alive(conn)
  <2>1. Sound(conn) /\ OtherAlive
    BY <1>3, <1>10 DEF SInv, AliveInv
  <2>2. readyState = "PASSTHROUGH" /\ ~conn.corked /\ NothingToWrite(conn) /\ ~conn.eof
    BY <1>3, <2>1 DEF OtherAlive, Sound
  <2>3. ~conn.ended
    BY <1>5, <2>2 DEF Closing
  <2>4. Fed(conn, c) /\ c.sent = Append(conn.sent, x) /\ c.ticks = conn.ticks
    BY <1>2, <1>4, <1>5, <1>10, <2>1, <2>2, RealDataFed
  <2>5. Reaching' /\ Mocking' /\ NoEvents'
    BY <1>8, <2>4
  <2>6. current = 0
    BY <1>3, OtherHasNone
  <2>7. readyState' = readyState
    BY <1>3 DEF OnlyConn, exchangeVars
  <2>8. QED
    BY <1>3, <1>6, <1>7, <1>10, <2>2, <2>3, <2>4, <2>5, <2>6, <2>7, FedStep
<1>11. QED
  BY <1>9, <1>10

-----------------------------------------------------------------------------
(* Mocked responses are written.                                             *)

\* What the exchanges are, after that.
LEMMA MockedKeeps ==
  ASSUME IInv, SInv, NEW r \in Request, stage[r] \in Active, Given(verdict'), NonePassed,
         UNCHANGED <<inputVars, current, reached, answering>>, events' = events,
         \A q \in Request : stage'[q] \in Active => stage[q] \in Active /\ ~Sent(q, "fin")',
         "eof" \in ToSet(conn'.ticks) => MockOver'
  PROVE  Reaching' /\ Mocking' /\ NoEvents'
<1>1. reached = <<>>
  BY StagedFacts
<1>2. \A e \in events : e.part # "informational"
  BY <1>1 DEF SInv, Reaching
<1>3. Reaching'
  BY <1>1, <1>2 DEF Reaching
<1>4. Tunnelled' => Tunnelled
  <2>1. 1 \in Request
    BY BoundsAssumption DEF Request
  <2>2. QED
    BY <2>1 DEF Tunnelled, NonePassed, inputVars
<1>5. Tunnelled' => \A q \in Request : q > 1 => verdict'[q] = "none"
  BY <1>4 DEF SInv, Mocking, Given
<1>6. \A q \in Request : stage'[q] \in Active => q = current' /\ ~Sent(q, "fin")'
  BY DEF SInv, Mocking
<1>7. Mocking'
  BY <1>5, <1>6 DEF Mocking
<1>8. NoEvents'
  BY DEF SInv, NoEvents, inputVars
<1>9. QED
  BY <1>3, <1>7, <1>8

\* A client that is read, and may be handed a mocked response.
LEMMA MockedAlive ==
  ASSUME IInv, SInv, NEW r \in Request, stage[r] \in Active, Alive(conn)
  PROVE  /\ Sound(conn) /\ ~conn.corked /\ NothingToWrite(conn)
         /\ (~conn.eof => ~conn.ended /\ Fed(conn, conn))
<1>1. protocol = "http" /\ ~conn.corked /\ NothingToWrite(conn)
  BY StagedFacts
<1>2. Sound(conn) /\ Closing(conn) /\ conn \in Connections(Chunk, Tick)
  BY ConnTyped DEF SInv, AliveInv
<1>3. conn.sent = Delivered(conn)
  <2>1. conn.sent = Delivered(conn) \o <<>>
    BY <1>1, <1>2, Uncorked DEF NothingToWrite
  <2>2. Delivered(conn) \in Seq(Chunk)
    BY <1>2, DeliveredSent
  <2>3. QED
    BY <2>1, <2>2, ConcatEmptySeq
<1>4. QED
  BY <1>1, <1>2, <1>3, FedItself DEF Closing

\* A chunk of a mocked body is written, with the head.
LEMMA MockedBodyWritesSound ==
  ASSUME IInv, SInv, NEW r \in Request, MockedBodyWrites(r)
  PROVE  SInv' /\ Promised(conn, conn')
<1>1. stage[r] \in Active
  BY DEF MockedBodyWrites, Active
<1>2. /\ current = r /\ verdict[r] = "mock" /\ protocol = "http"
      /\ ~Sent(r, "fin") /\ "eof" \notin ToSet(conn.ticks)
  BY <1>1, StagedFacts
<1>3. PICK x : x = Part(r, "head")
  OBVIOUS
<1>4. PICK c : c = Push(Emitted(conn, x), x)
  OBVIOUS
<1>5. x \in Chunk /\ Part(r, "fin") # x
  BY <1>3, PartIsChunk DEF Parts, Request
<1>6. OnlyConn(c)
  BY <1>3, <1>4 DEF MockedBodyWrites, PushPart
<1>7. /\ Becomes(c) /\ UNCHANGED <<inputVars, current, stage, reached, answering>>
      /\ events' = events
  BY <1>6, OnlyConnQuiet
<1>8. Given(verdict') /\ NonePassed /\ conn' = c
  BY <1>7, BecomesGives
<1>9. conn \in Connections(Chunk, Tick) /\ conn \in After(conn, Chunk, Tick) /\ Closing(conn)
  BY ConnTyped DEF SInv
<1>10. ASSUME c.sent = Append(conn.sent, x),
              "eof" \in ToSet(c.ticks) => "eof" \in ToSet(conn.ticks)
       PROVE  Reaching' /\ Mocking' /\ NoEvents'
  <2>1. ToSet(c.sent) = ToSet(conn.sent) \cup {x}
    BY <1>5, <1>9, <1>10, AppendedSent
  <2>2. ~Sent(r, "fin")'
    BY <1>2, <1>5, <1>8, <2>1 DEF Sent
  <2>3. \A q \in Request : stage'[q] \in Active => stage[q] \in Active /\ ~Sent(q, "fin")'
    BY <1>2, <1>7, <2>2, StagedFacts
  <2>4. QED
    BY <1>1, <1>2, <1>7, <1>8, <1>10, <2>3, MockedKeeps
<1>11. CASE ~Alive(conn) \/ conn.eof
  <2>1. conn \in Sending(conn)
    BY <1>9, SendingItself
  <2>2. c \in Sending(conn) /\ ~Alive(c) /\ c.sent = Append(conn.sent, x)
    BY <1>4, <1>5, <1>9, <1>11, <2>1, PushSending
  <2>3. Reaching' /\ Mocking' /\ NoEvents'
    BY <1>10, <2>2 DEF Sending
  <2>4. c \in Connections(Chunk, Tick)
    BY <2>2 DEF Sending, After
  <2>5. QED
    BY <1>8, <2>2, <2>3, <2>4, SendingStep DEF Sending
<1>12. CASE Alive(conn) /\ ~conn.eof
  <2>1. /\ ~conn.corked /\ NothingToWrite(conn) /\ ~conn.ended /\ Fed(conn, conn)
    BY <1>1, <1>12, MockedAlive
  <2>2. Fed(conn, c) /\ c.sent = Append(conn.sent, x) /\ c.ticks = conn.ticks
    BY <1>4, <1>5, <1>9, <1>12, <2>1, PushFed DEF Alive
  <2>3. Reaching' /\ Mocking' /\ NoEvents'
    BY <1>10, <2>2
  <2>4. ~conn.flowing => c.heard = conn.heard
    BY <2>2 DEF Fed
  <2>5. verdict'[current] # "pending"
    BY <1>2, <1>8 DEF Given
  <2>6. QED
    BY <1>2, <1>7, <1>8, <1>12, <2>1, <2>2, <2>3, <2>4, <2>5, FedStep
<1>13. QED
  BY <1>11, <1>12

\* The head is written, unless it was.
LEMMA WithHeadFacts ==
  ASSUME IInv, SInv, NEW r \in Request, stage[r] \in Active, NEW b, b = WithHead(r)
  PROVE  /\ b \in Connections(Chunk, Tick)
         /\ ToSet(b.sent) \subseteq ToSet(conn.sent) \cup {Part(r, "head")}
         /\ (~Alive(conn) \/ conn.eof => b \in Sending(conn) /\ (b.eof \/ ~Alive(b)))
         /\ (~Alive(b) \/ (Alive(conn) /\ ~conn.eof) \/ b = conn)
         /\ (Alive(conn) /\ ~conn.eof => Fed(conn, b) /\ b.ticks = conn.ticks)
<1>1. conn \in Connections(Chunk, Tick) /\ conn \in After(conn, Chunk, Tick) /\ Closing(conn)
  BY ConnTyped DEF SInv
<1>2. conn \in Sending(conn)
  BY <1>1, SendingItself
<1>3. Alive(conn) /\ ~conn.eof => Fed(conn, conn)
  BY MockedAlive
<1>4. CASE HeadWritten(r)
  <2>1. b = conn
    BY <1>4 DEF WithHead
  <2>2. QED
    BY <1>1, <1>2, <1>3, <2>1
<1>5. CASE ~HeadWritten(r)
  <2>1. PICK x : x = Part(r, "head")
    OBVIOUS
  <2>2. b = Push(Emitted(conn, x), x)
    BY <1>5, <2>1 DEF WithHead, PushPart
  <2>3. x \in Chunk
    BY <2>1, PartIsChunk DEF Parts
  <2>4. CASE ~Alive(conn) \/ conn.eof
    <3>1. b \in Sending(conn) /\ ~Alive(b) /\ b.sent = Append(conn.sent, x)
      BY <1>1, <1>2, <2>2, <2>3, <2>4, PushSending
    <3>2. b \in Connections(Chunk, Tick)
      BY <3>1 DEF Sending, After
    <3>3. ToSet(b.sent) = ToSet(conn.sent) \cup {x}
      BY <1>1, <2>3, <3>1, AppendedSent
    <3>4. QED
      BY <2>1, <2>4, <3>1, <3>2, <3>3
  <2>5. CASE Alive(conn) /\ ~conn.eof
    <3>1. Fed(conn, b) /\ b.sent = Append(conn.sent, x) /\ b.ticks = conn.ticks
      BY <1>1, <1>3, <2>2, <2>3, <2>5, PushFed DEF Alive
    <3>2. b \in Connections(Chunk, Tick)
      BY <3>1 DEF Fed
    <3>3. ToSet(b.sent) = ToSet(conn.sent) \cup {x}
      BY <1>1, <2>3, <3>1, AppendedSent
    <3>4. QED
      BY <2>1, <2>5, <3>1, <3>2, <3>3
  <2>6. QED
    BY <2>4, <2>5
<1>6. QED
  BY <1>4, <1>5

\* The step, when the connection it makes is known.
LEMMA MockedEndStep ==
  ASSUME IInv, SInv, NEW r \in Request, stage[r] \in Active, NEW c, Becomes(c),
         stage' = Stage(r, "done"), events' = events,
         UNCHANGED <<inputVars, readyState, current, reached, answering>>,
         "eof" \in ToSet(c.ticks) => ~Sent(r, "fin")',
         \/ Fed(conn, c) /\ Alive(conn) /\ ~conn.eof
         \/ /\ c \in Connections(Chunk, Tick) /\ c.heard = conn.heard /\ c.ended = conn.ended
            /\ IsPrefix(conn.sent, c.sent) /\ (conn.destroyed => c.destroyed)
            /\ c.closes = conn.closes /\ Closing(c) /\ ~Alive(c)
  PROVE  SInv' /\ Promised(conn, conn')
<1>1. /\ current = r /\ verdict[r] = "mock" /\ protocol = "http"
      /\ ~Sent(r, "fin") /\ "eof" \notin ToSet(conn.ticks)
  BY StagedFacts
<1>2. Given(verdict') /\ NonePassed /\ conn' = c
  BY BecomesGives
<1>3. stage'[r] = "done" /\ \A q \in Request : q # r => stage'[q] = stage[q]
  BY DEF Stage, IInv, Types, OtherTypes
<1>4. \A q \in Request : stage'[q] \notin Active
  BY <1>1, <1>3, StagedFacts DEF Active
<1>5. verdict'[current] = "mock"
  BY <1>1, <1>2 DEF Given
<1>6. "eof" \in ToSet(c.ticks) => MockOver'
  BY <1>1, <1>4, <1>5 DEF MockOver, Request
<1>7. Reaching' /\ Mocking' /\ NoEvents'
  BY <1>2, <1>4, <1>6, MockedKeeps
<1>8. CASE Fed(conn, c) /\ Alive(conn) /\ ~conn.eof
  <2>1. /\ ~conn.corked /\ NothingToWrite(conn) /\ ~conn.ended
    BY <1>8, MockedAlive
  <2>2. ~conn.flowing => c.heard = conn.heard
    BY <1>8 DEF Fed
  <2>3. verdict'[current] # "pending"
    BY <1>5
  <2>4. QED
    BY <1>1, <1>2, <1>7, <1>8, <2>1, <2>2, <2>3, FedStep
<1>9. CASE /\ c \in Connections(Chunk, Tick) /\ c.heard = conn.heard /\ c.ended = conn.ended
           /\ IsPrefix(conn.sent, c.sent) /\ (conn.destroyed => c.destroyed)
           /\ c.closes = conn.closes /\ Closing(c) /\ ~Alive(c)
  BY <1>2, <1>7, <1>9, SendingStep
<1>10. QED
  BY <1>8, <1>9

\* A mocked body ends: with its last chunk, or the end of the stream.
LEMMA MockedBodyEndsSound ==
  ASSUME IInv, SInv, NEW r \in Request, NEW framed \in BOOLEAN, MockedBodyEnds(r, framed)
  PROVE  SInv' /\ Promised(conn, conn')
<1>1. stage[r] \in Active
  BY DEF MockedBodyEnds, Active
<1>2. /\ current = r /\ verdict[r] = "mock" /\ protocol = "http"
      /\ ~Sent(r, "fin") /\ "eof" \notin ToSet(conn.ticks)
  BY <1>1, StagedFacts
<1>3. PICK b : b = WithHead(r)
  OBVIOUS
<1>4. /\ b \in Connections(Chunk, Tick)
      /\ ToSet(b.sent) \subseteq ToSet(conn.sent) \cup {Part(r, "head")}
      /\ (~Alive(conn) \/ conn.eof => b \in Sending(conn) /\ (b.eof \/ ~Alive(b)))
      /\ (~Alive(b) \/ (Alive(conn) /\ ~conn.eof) \/ b = conn)
      /\ (Alive(conn) /\ ~conn.eof => Fed(conn, b) /\ b.ticks = conn.ticks)
  BY <1>1, <1>3, WithHeadFacts
<1>5. /\ stage' = Stage(r, "done") /\ events' = events
      /\ UNCHANGED <<inputVars, readyState, current, reached, answering>>
  BY DEF MockedBodyEnds, realVars, eventVars
<1>6. conn \in Connections(Chunk, Tick) /\ Closing(conn)
  BY ConnTyped DEF SInv
<1>7. PICK y : y = Part(r, "fin")
  OBVIOUS
<1>8. y \in Chunk /\ y # Part(r, "head") /\ y \notin ToSet(conn.sent)
  BY <1>2, <1>7, PartIsChunk DEF Parts, Request, Sent
<1>9. EndsStream(r, framed) <=> ~Delimited(r, framed)
  BY DEF EndsStream, Delimited
<1>10. CASE Delimited(r, framed)
  <2>1. PICK c : c = Push(Emitted(b, y), y)
    OBVIOUS
  <2>2. Becomes(c)
    BY <1>3, <1>7, <1>9, <1>10, <2>1 DEF MockedBodyEnds, PushPart
  <2>3. CASE ~Alive(conn) \/ conn.eof
    <3>1. c \in Sending(conn) /\ ~Alive(c)
      BY <1>4, <1>6, <1>8, <2>1, <2>3, PushSending
    <3>2. "eof" \notin ToSet(c.ticks)
      BY <1>2, <3>1 DEF Sending
    <3>3. c \in Connections(Chunk, Tick)
      BY <3>1 DEF Sending, After
    <3>4. QED
      BY <1>1, <1>5, <2>2, <3>1, <3>2, <3>3, MockedEndStep DEF Sending
  <2>4. CASE Alive(conn) /\ ~conn.eof
    <3>1. Fed(conn, b) /\ ~b.destroyed /\ ~b.eof
      BY <1>4, <2>4 DEF Fed, Alive
    <3>2. Fed(conn, c) /\ c.ticks = conn.ticks
      BY <1>4, <1>6, <1>8, <2>1, <2>4, <3>1, PushFed
    <3>3. QED
      BY <1>1, <1>2, <1>5, <2>2, <2>4, <3>2, MockedEndStep
  <2>5. QED
    BY <2>3, <2>4
<1>11. CASE ~Delimited(r, framed)
  <2>1. PICK c : c = Later(b, "eof")
    OBVIOUS
  <2>2. Becomes(c)
    BY <1>3, <1>9, <1>11, <2>1 DEF MockedBodyEnds
  <2>3. conn' = c
    BY <2>2, BecomesGives
  <2>4. /\ Same(b, c) /\ c.nativeClose = b.nativeClose /\ c.layers = b.layers
        /\ ToSet(c.ticks) = ToSet(b.ticks) \cup {"eof"}
    BY <1>4, <2>1, LaterSame DEF Tick
  <2>5. ~Sent(r, "fin")'
    BY <1>4, <1>7, <1>8, <2>3, <2>4 DEF Sent, Same
  <2>6. CASE Alive(conn) /\ ~conn.eof
    <3>1. Fed(conn, c)
      BY <1>4, <1>6, <2>1, <2>6, LaterFed
    <3>2. QED
      BY <1>1, <1>5, <2>2, <2>5, <2>6, <3>1, MockedEndStep
  <2>7. CASE ~Alive(b) /\ (~Alive(conn) \/ conn.eof)
    <3>1. b \in Sending(conn)
      BY <1>4, <2>7
    <3>2. c \in Connections(Chunk, Tick)
      <4>1. Append(b.ticks, "eof") \in Seq(Tick)
        BY <1>4 DEF Connections, Tick
      <4>2. QED
        BY <1>4, <2>1, <4>1 DEF Later, Connections
    <3>3. Closing(c)
      BY <2>4, <3>1, SameClosing DEF Sending
    <3>4. ~Alive(c)
      BY <2>4, <2>7 DEF Same, Alive
    <3>5. /\ c.heard = conn.heard /\ c.ended = conn.ended
          /\ IsPrefix(conn.sent, c.sent) /\ (conn.destroyed => c.destroyed)
          /\ c.closes = conn.closes
      BY <2>4, <3>1 DEF Sending, Same
    <3>6. QED
      BY <1>1, <1>5, <2>2, <2>5, <3>2, <3>3, <3>4, <3>5, MockedEndStep
  <2>8. CASE b = conn
    <3>1. Same(conn, c) /\ Closing(c)
      BY <1>6, <2>4, <2>8, SameClosing
    <3>2. stage'[r] = "done" /\ \A q \in Request : q # r => stage'[q] = stage[q]
      BY <1>5 DEF Stage, IInv, Types, OtherTypes
    <3>3. \A q \in Request : stage'[q] \in Active => stage[q] \in Active
      BY <3>2 DEF Active
    <3>4. MockOver'
      <4>1. verdict'[r] = "mock"
        BY <1>2, <2>2, BecomesGives DEF Given
      <4>2. QED
        BY <1>2, <1>5, <2>5, <3>2, <4>1 DEF MockOver, Active, Request
    <3>5. events' \subseteq events /\ protocol # "other"
          /\ (current # 0 /\ verdict[current] = "pending" /\ "waits" \in conn.layers =>
                "waits" \in c.layers)
      BY <1>2, <1>5
    <3>6. QED
      BY <1>5, <2>2, <3>1, <3>3, <3>4, <3>5, SameStep
  <2>9. QED
    BY <1>4, <2>6, <2>7, <2>8
<1>12. QED
  BY <1>10, <1>11

-----------------------------------------------------------------------------
(* The cork is let go.                                                       *)

\* The first elements of a sequence, none of them, one more, and all.
LEMMA FirstElements ==
  ASSUME NEW S, NEW s \in Seq(S)
  PROVE  /\ SubSeq(s, 1, 0) = <<>> /\ SubSeq(s, 1, Len(s)) = s
         /\ \A i \in 0..Len(s) - 1 :
              /\ SubSeq(s, 1, i + 1) = Append(SubSeq(s, 1, i), s[i + 1])
              /\ SubSeq(s, 1, i) \in Seq(S) /\ s[i + 1] \in S /\ i + 1 \in 1..Len(s)
<1>1. SubSeq(s, 1, 0) = <<>> /\ SubSeq(s, 1, Len(s)) = s
  BY SubSeqEmpty, SubSeqFull
<1>2. ASSUME NEW i \in 0..Len(s) - 1
      PROVE  /\ SubSeq(s, 1, i + 1) = Append(SubSeq(s, 1, i), s[i + 1])
             /\ SubSeq(s, 1, i) \in Seq(S) /\ s[i + 1] \in S /\ i + 1 \in 1..Len(s)
  <2>1. i + 1 \in 1..Len(s) /\ i \in Int /\ (i + 1) - 1 = i /\ 1 \in 1..Len(s)
        /\ i + 1 \in 1..Len(s) /\ (\A j \in 1..i : j \in 1..Len(s))
    OBVIOUS
  <2>2. SubSeq(s, 1, i + 1) = SubSeq(s, 1, i) \o <<s[i + 1]>>
    BY <2>1, SubSeqRecursiveSecond
  <2>3. SubSeq(s, 1, i) \in Seq(S)
    <3>1. \A j \in 1..i : s[j] \in S
      BY <2>1
    <3>2. QED
      BY <2>1, <3>1, SubSeqProperties
  <2>4. s[i + 1] \in S
    BY <2>1
  <2>5. SubSeq(s, 1, i) \o <<s[i + 1]>> = Append(SubSeq(s, 1, i), s[i + 1])
    <3>1. PICK t, x : t = SubSeq(s, 1, i) /\ x = s[i + 1]
      OBVIOUS
    <3>2. t \in Seq(S) /\ x \in S
      BY <2>3, <2>4, <3>1
    <3>3. t \o <<x>> = Append(t, x)
      BY ONLY <3>2
    <3>4. QED
      BY <3>1, <3>3
  <2>6. QED
    BY <2>1, <2>2, <2>3, <2>4, <2>5
<1>3. QED
  BY <1>1, <1>2

\* A client to which the chunks t that were corked have been handed.
Handed(c, t, d) ==
  /\ d \in Connections(Chunk, Tick)
  /\ /\ d.eof = c.eof /\ d.ended = c.ended /\ d.destroyed = c.destroyed
     /\ d.closes = c.closes /\ d.sent = c.sent /\ d.corked = FALSE /\ d.corkedReads = <<>>
     /\ d.endPushed = c.endPushed /\ d.real = c.real /\ d.flowing = c.flowing
     /\ d.pendingWrites = c.pendingWrites /\ d.pendingEnd = c.pendingEnd
     /\ d.backpressured = c.backpressured /\ d.flushScheduled = c.flushScheduled
     /\ d.ticks = c.ticks /\ d.nativeClose = c.nativeClose /\ d.layers = c.layers
     /\ d.connecting = c.connecting /\ d.swapped = c.swapped
  /\ IsPrefix(c.heard, d.heard) /\ (~c.flowing => d.heard = c.heard)
  /\ Delivered(d) = Delivered(c) \o t

\* One more is.
LEMMA HandedOne ==
  ASSUME NEW c \in Connections(Chunk, Tick), ~c.destroyed, ~c.eof, NEW t \in Seq(Chunk),
         NEW d, Handed(c, t, d), NEW x \in Chunk, NEW f, f = PushReal(d, x)
  PROVE  Handed(c, Append(t, x), f)
<1>1. d \in Connections(Chunk, Tick) /\ ~d.destroyed /\ ~d.eof
  BY DEF Handed
<1>2. PICK e : e = Push(d, x)
  OBVIOUS
<1>3. /\ e = [d EXCEPT !.heard = e.heard, !.buffer = e.buffer]
      /\ e \in Connections(Chunk, Tick)
      /\ Delivered(e) = Append(Delivered(d), x)
      /\ e.heard = d.heard \/ (d.flowing /\ e.heard = Append(d.heard, x))
  <2>1. d \in Connections(Chunk, Tick)
    BY <1>1
  <2>2. e = Push(d, x) /\ ~d.destroyed /\ ~d.eof
    BY <1>1, <1>2
  <2>3. Hands(d, x, e)
    BY <2>1, <2>2, PushDelivers
  <2>4. QED
    BY <2>3 DEF Hands
<1>4. /\ e.eof = d.eof /\ e.ended = d.ended /\ e.destroyed = d.destroyed
      /\ e.closes = d.closes /\ e.sent = d.sent /\ e.corked = d.corked
      /\ e.corkedReads = d.corkedReads /\ e.endPushed = d.endPushed /\ e.real = d.real
      /\ e.flowing = d.flowing /\ e.pendingWrites = d.pendingWrites
      /\ e.pendingEnd = d.pendingEnd /\ e.backpressured = d.backpressured
      /\ e.flushScheduled = d.flushScheduled /\ e.ticks = d.ticks
      /\ e.nativeClose = d.nativeClose /\ e.layers = d.layers /\ e.connecting = d.connecting
      /\ e.swapped = d.swapped /\ e.paused = d.paused
  <2>1. PICK hh, bb : hh = e.heard /\ bb = e.buffer
    OBVIOUS
  <2>2. e = [d EXCEPT !.heard = hh, !.buffer = bb]
    BY <1>3, <2>1
  <2>3. QED
    BY <1>1, <2>2 DEF Connections
<1>5. IsPrefix(c.heard, e.heard)
  <2>1. PICK S, h, u : S = Chunk /\ h = c.heard /\ u = d.heard
    OBVIOUS
  <2>2. h \in Seq(S) /\ u \in Seq(S) /\ IsPrefix(h, u) /\ x \in S
    BY <1>1, <2>1 DEF Connections, Handed
  <2>3. IsPrefix(h, Append(u, x))
    BY ONLY <2>2, PrefixGrows
  <2>4. QED
    BY <1>3, <2>1, <2>2, <2>3
<1>6. Delivered(e) = Delivered(c) \o Append(t, x)
  <2>1. PICK S, w : S = Chunk /\ w = Delivered(c)
    OBVIOUS
  <2>2. c.heard \in Seq(Chunk) /\ c.buffer \in Seq(Chunk)
    BY DEF Connections
  <2>3. w \in Seq(S) /\ t \in Seq(S) /\ x \in S
    BY <2>1, <2>2, ConcatProperties DEF Delivered
  <2>4. w \o Append(t, x) = Append(w \o t, x)
    BY ONLY <2>3, AppendConcat
  <2>5. QED
    BY <1>3, <2>1, <2>4 DEF Handed
<1>7. ~c.flowing => e.heard = c.heard
  BY <1>3 DEF Handed
<1>8. Handed(c, Append(t, x), e)
  BY <1>3, <1>4, <1>5, <1>6, <1>7 DEF Handed
<1>9. Handed(c, Append(t, x), [e EXCEPT !.paused = TRUE])
  <2>1. PICK g : g = [e EXCEPT !.paused = TRUE]
    OBVIOUS
  <2>2. g \in Connections(Chunk, Tick)
    BY <1>3, <2>1 DEF Connections
  <2>3. /\ g.heard = e.heard /\ g.buffer = e.buffer /\ g.eof = e.eof /\ g.ended = e.ended
        /\ g.destroyed = e.destroyed /\ g.closes = e.closes /\ g.sent = e.sent
        /\ g.corked = e.corked /\ g.corkedReads = e.corkedReads /\ g.endPushed = e.endPushed
        /\ g.real = e.real /\ g.flowing = e.flowing /\ g.pendingWrites = e.pendingWrites
        /\ g.pendingEnd = e.pendingEnd /\ g.backpressured = e.backpressured
        /\ g.flushScheduled = e.flushScheduled /\ g.ticks = e.ticks
        /\ g.nativeClose = e.nativeClose /\ g.layers = e.layers
        /\ g.connecting = e.connecting /\ g.swapped = e.swapped
    BY <1>3, <2>1 DEF Connections
  <2>4. Delivered(g) = Delivered(e)
    BY <2>3 DEF Delivered
  <2>5. QED
    BY <1>8, <2>1, <2>2, <2>3, <2>4 DEF Handed
<1>10. QED
  BY <1>2, <1>8, <1>9 DEF PushReal

\* The same, and nothing if there is none.
HandedAs(c, D, g) == Handed(c, D, g) /\ (D = <<>> => g.heard = c.heard)

\* A sequence that starts with another.
StartsWith(s, t) ==
  Len(s) \in Nat /\ Len(t) <= Len(s) /\ \A i \in 1..Len(t) : s[i] = t[i]

\* All that were corked are.
LEMMA HandedAll ==
  ASSUME NEW c \in Connections(Chunk, Tick), ~c.destroyed, NEW D \in Seq(Chunk),
         NEW s, StartsWith(s, D),
         c.eof => D = <<>>,
         NEW e, e = [c EXCEPT !.corked = FALSE, !.corkedReads = <<>>],
         NEW f, ReplayRun(f, e, s), NEW g, g = f[Len(D)]
  PROVE  HandedAs(c, D, g)
<1>1. e = [c EXCEPT !.corked = FALSE, !.corkedReads = <<>>]
  OBVIOUS
<1>2. /\ f[0] = e
      /\ \A i \in 0..Len(s) - 1 : f[i + 1] = Replay(f[i], s[i + 1])
  BY DEF ReplayRun
<1>3. e \in Connections(Chunk, Tick)
  <2>1. <<>> \in Seq(Chunk \cup {EndRead, CloseRead})
    OBVIOUS
  <2>2. QED
    BY <1>1, <2>1 DEF Connections
<1>4. /\ e.heard = c.heard /\ e.buffer = c.buffer /\ e.eof = c.eof /\ e.ended = c.ended
      /\ e.destroyed = c.destroyed /\ e.closes = c.closes /\ e.sent = c.sent
      /\ e.corked = FALSE /\ e.corkedReads = <<>> /\ e.endPushed = c.endPushed
      /\ e.real = c.real /\ e.flowing = c.flowing /\ e.pendingWrites = c.pendingWrites
      /\ e.pendingEnd = c.pendingEnd /\ e.backpressured = c.backpressured
      /\ e.flushScheduled = c.flushScheduled /\ e.ticks = c.ticks
      /\ e.nativeClose = c.nativeClose /\ e.layers = c.layers /\ e.connecting = c.connecting
      /\ e.swapped = c.swapped /\ e.paused = c.paused
  BY <1>1 DEF Connections
<1>5. Handed(c, <<>>, e)
  <2>1. c.heard \in Seq(Chunk) /\ c.buffer \in Seq(Chunk)
    BY DEF Connections
  <2>2. Delivered(c) \in Seq(Chunk) /\ Delivered(e) = Delivered(c)
    BY <1>4, <2>1, ConcatProperties DEF Delivered
  <2>3. Delivered(c) \o <<>> = Delivered(c)
    BY <2>2, ConcatEmptySeq
  <2>4. IsPrefix(c.heard, e.heard)
    BY <1>4, <2>1, PrefixOfItself
  <2>5. QED
    BY <1>3, <1>4, <2>2, <2>3, <2>4 DEF Handed
<1>6. Len(D) \in Nat /\ Len(s) \in Nat /\ Len(D) <= Len(s) /\ \A i \in 1..Len(D) : s[i] = D[i]
  BY DEF StartsWith
<1>7. CASE D = <<>>
  BY <1>2, <1>4, <1>5, <1>7 DEF HandedAs
<1>8. CASE D # <<>>
  <2>1. PICK I : I = {i \in 0..Len(D) : Handed(c, SubSeq(D, 1, i), f[i])}
    OBVIOUS
  <2>2. /\ SubSeq(D, 1, 0) = <<>> /\ SubSeq(D, 1, Len(D)) = D
        /\ \A i \in 0..Len(D) - 1 :
             /\ SubSeq(D, 1, i + 1) = Append(SubSeq(D, 1, i), D[i + 1])
             /\ SubSeq(D, 1, i) \in Seq(Chunk) /\ D[i + 1] \in Chunk /\ i + 1 \in 1..Len(D)
    BY FirstElements
  <2>3. 0 \in I
    <3>1. Handed(c, SubSeq(D, 1, 0), f[0])
      BY <1>2, <1>5, <2>2
    <3>2. 0 \in 0..Len(D)
      BY <1>6
    <3>3. QED
      BY <2>1, <3>1, <3>2
  <2>4. ASSUME NEW i \in 0..Len(D) - 1, i \in I PROVE i + 1 \in I
    <3>1. Handed(c, SubSeq(D, 1, i), f[i])
      BY <2>1, <2>4
    <3>2. s[i + 1] = D[i + 1] /\ i \in 0..Len(s) - 1 /\ i + 1 \in 0..Len(D)
      BY <1>6, <2>2
    <3>3. f[i + 1] = Replay(f[i], D[i + 1])
      BY <1>2, <3>2
    <3>4. D[i + 1] \in Chunk
      BY <2>2
    <3>5. D[i + 1] # EndRead /\ D[i + 1] # CloseRead
      BY <3>4 DEF Chunk, EndRead, CloseRead, Part
    <3>6. f[i + 1] = PushReal(f[i], D[i + 1])
      BY <3>3, <3>5 DEF Replay
    <3>7. Handed(c, Append(SubSeq(D, 1, i), D[i + 1]), f[i + 1])
      BY <1>8, <2>2, <3>1, <3>4, <3>6, HandedOne
    <3>8. QED
      BY <2>1, <2>2, <3>2, <3>7
  <2>5. 0..Len(D) \subseteq I
    BY <1>6, <2>3, <2>4, Induction
  <2>6. Len(D) \in I
    BY <1>6, <2>5
  <2>7. QED
    BY <1>8, <2>1, <2>2, <2>6 DEF HandedAs
<1>9. QED
  BY <1>7, <1>8

\* The client that is read hears what was corked.
LetGo(c, u) ==
  /\ u \in Connections(Chunk, Tick) /\ Alive(u) /\ Closing(u) /\ Sound(u) /\ NothingToWrite(u)
  /\ ~u.corked /\ u.sent = c.sent /\ u.ended = c.ended /\ u.destroyed = c.destroyed
  /\ u.closes = c.closes /\ u.ticks = c.ticks /\ u.flowing = c.flowing /\ u.real = c.real
  /\ IsPrefix(c.heard, u.heard)
  /\ ~c.flowing \/ c.ended => u.heard = c.heard
  /\ u.eof /\ ~u.endPushed => c.eof /\ ~c.endPushed

\* It closes, as it has ended already.
LetClose(c, u) ==
  /\ u \in Connections(Chunk, Tick) /\ ~Alive(u) /\ Closing(u) /\ c.ended
  /\ u.sent = c.sent /\ u.heard = c.heard /\ u.ended = c.ended
  /\ u.destroyed = c.destroyed /\ u.closes = c.closes + 1 /\ u.ticks = c.ticks
  /\ NothingToWrite(u)

\* What was handed to it is what was sent.
LEMMA HandedLetsGo ==
  ASSUME NEW c \in Connections(Chunk, Tick), Alive(c), Closing(c), Sound(c),
         NothingToWrite(c), NEW D \in Seq(Chunk), c.sent = Delivered(c) \o (c.pendingWrites \o D),
         c.eof => D = <<>>, NEW g, Handed(c, D, g), D = <<>> => g.heard = c.heard,
         NEW u \in Connections(Chunk, Tick), u.heard = g.heard, u.buffer = g.buffer,
         u.sent = c.sent, u.ended = c.ended, u.destroyed = c.destroyed, u.closes = c.closes,
         u.ticks = c.ticks, u.flowing = c.flowing, u.real = c.real, ~u.corked,
         u.corkedReads = <<>>, u.pendingWrites = c.pendingWrites, u.nativeClose = c.nativeClose,
         u.pendingEnd = c.pendingEnd, u.backpressured = c.backpressured,
         u.flushScheduled = c.flushScheduled,
         \/ u.eof = c.eof /\ u.endPushed = c.endPushed
         \/ u.eof /\ u.endPushed /\ ~c.eof /\ c.real \in Over,
         u.real \in Over => u.endPushed
  PROVE  LetGo(c, u)
<1>1. c.pendingWrites = <<>> /\ u.pendingWrites = <<>> /\ NothingToWrite(u)
  BY DEF NothingToWrite
<1>2. <<>> \o D = D
  BY ConcatEmptySeq
<1>3. u.sent = Delivered(u)
  <2>1. Delivered(u) = Delivered(g)
    BY DEF Delivered
  <2>2. QED
    BY <1>1, <1>2, <2>1 DEF Handed
<1>4. u.heard \in Seq(Chunk) /\ u.buffer \in Seq(Chunk)
  BY DEF Connections
<1>5. Delivered(u) \in Seq(Chunk)
  BY <1>4, ConcatProperties DEF Delivered
<1>6. Delivered(u) \o <<>> = Delivered(u)
  BY <1>5, ConcatEmptySeq
<1>7. u.sent = Delivered(u) \o u.pendingWrites
  BY <1>1, <1>3, <1>6
<1>8. u.endPushed => u.eof /\ u.real \notin {"open", "none"}
  BY DEF Sound, Over
<1>9. u.endPushed /\ u.real = "connecting" => "closeUnlessClosed" \in ToSet(u.ticks) /\ u.ended
  BY DEF Sound, Over
<1>10. u.real # "severed"
  BY DEF Sound
<1>11. Sound(u)
  BY <1>1, <1>7, <1>8, <1>9, <1>10, SoundUncorked
<1>12. c.ended => D = <<>>
  BY DEF Closing
<1>13. c.ended => u.eof /\ u.buffer = <<>>
  <2>1. SUFFICES ASSUME c.ended PROVE u.eof /\ u.buffer = <<>>
    OBVIOUS
  <2>2. c.eof /\ c.buffer = <<>> /\ D = <<>> /\ u.heard = c.heard
    BY <1>12, <2>1 DEF Closing
  <2>3. u.eof
    BY <2>2
  <2>4. u.heard \o u.buffer = c.heard \o <<>>
    <3>1. u.sent = c.heard \o <<>>
      <4>1. c.heard \in Seq(Chunk)
        BY DEF Connections
      <4>2. Delivered(c) \o <<>> = Delivered(c)
        BY <2>2, <4>1, ConcatEmptySeq DEF Delivered
      <4>3. QED
        BY <1>1, <1>2, <2>2, <4>2 DEF Delivered
    <3>2. QED
      BY <1>3, <3>1 DEF Delivered
  <2>5. u.buffer = <<>>
    <3>1. PICK h, b : h = c.heard /\ b = u.buffer
      OBVIOUS
    <3>2. h \in Seq(Chunk) /\ b \in Seq(Chunk) /\ h \o b = h \o <<>>
      BY <1>4, <2>2, <2>4, <3>1
    <3>3. Len(b) = 0
      <4>1. Len(h \o b) = Len(h) + Len(b) /\ Len(h \o <<>>) = Len(h) + 0
        BY <3>2
      <4>2. QED
        BY <3>2, <4>1
    <3>4. QED
      BY <3>1, <3>2, <3>3
  <2>6. QED
    BY <2>3, <2>5
<1>14. Closing(u)
  BY <1>13 DEF Closing
<1>15. Alive(u)
  BY DEF Alive
<1>16. IsPrefix(c.heard, u.heard) /\ (~c.flowing \/ c.ended => u.heard = c.heard)
  BY <1>12 DEF Handed
<1>17. u.eof /\ ~u.endPushed => c.eof /\ ~c.endPushed
  OBVIOUS
<1>18. QED
  BY <1>1, <1>11, <1>14, <1>15, <1>16, <1>17 DEF LetGo

\* uncorkReads() of a client that is read.
LEMMA UncorkAlive ==
  ASSUME NEW c \in Connections(Chunk, Tick), Alive(c), Closing(c), Sound(c), c.corked,
         NothingToWrite(c), NEW u, u = Uncork(c)
  PROVE  LetGo(c, u) \/ LetClose(c, u)
<1>1. PICK D \in Seq(Chunk), E \in Seq({EndRead, CloseRead}) : InLine(c, D, E)
  BY DEF Sound
<1>2. /\ E \in Endings \cup {<<>>, <<CloseRead>>}
      /\ c.corkedReads = D \o E
      /\ c.sent = Delivered(c) \o (c.pendingWrites \o D)
      /\ c.eof => D = <<>> /\ c.pendingWrites = <<>> /\ E \notin Endings
      /\ c.real \in Over => c.endPushed \/ E \in Endings
      /\ E # <<>> => c.real \in Over
      /\ E \notin {<<>>, <<EndRead>>} => c.real = "gone"
  BY <1>1 DEF InLine
<1>3. PICK e : e = [c EXCEPT !.corked = FALSE, !.corkedReads = <<>>]
  OBVIOUS
<1>4. PICK s : s = D \o E
  OBVIOUS
<1>5. u = Iterate(Replay, e, s)
  BY <1>2, <1>3, <1>4 DEF Uncork
<1>6. /\ Len(s) = Len(D) + Len(E) /\ Len(D) \in Nat /\ Len(E) \in Nat /\ Len(s) \in Nat
      /\ \A i \in 1..Len(D) : s[i] = D[i]
      /\ \A i \in 1..Len(E) : s[Len(D) + i] = E[i]
  <2>1. PICK R : R = Chunk \cup {EndRead, CloseRead}
    OBVIOUS
  <2>2. D \in Seq(R) /\ E \in Seq(R)
    BY <2>1
  <2>3. QED
    BY <1>4, <2>2
<1>7. PICK f : ReplayRun(f, e, s)
  BY <1>6, ReplaySteps
<1>8. /\ f[Len(s)] = u
      /\ \A i \in 0..Len(s) - 1 : f[i + 1] = Replay(f[i], s[i + 1])
  BY <1>5, <1>7 DEF ReplayRun
<1>9. PICK g : g = f[Len(D)]
  OBVIOUS
<1>10. Handed(c, D, g) /\ (D = <<>> => g.heard = c.heard)
  <2>1. ~c.destroyed /\ Len(D) <= Len(s) /\ (c.eof => D = <<>>)
    BY <1>2, <1>6 DEF Alive
  <2>2. QED
    <3>1. ReplayRun(f, e, s) /\ e = [c EXCEPT !.corked = FALSE, !.corkedReads = <<>>]
      BY <1>3, <1>7
    <3>2. StartsWith(s, D)
      BY <1>6, <2>1 DEF StartsWith
    <3>3. HandedAs(c, D, g)
      BY <1>9, <2>1, <3>1, <3>2, HandedAll
    <3>4. QED
      BY <3>3 DEF HandedAs
<1>11. g \in Connections(Chunk, Tick)
       /\ /\ g.eof = c.eof /\ g.ended = c.ended /\ g.destroyed = c.destroyed
          /\ g.closes = c.closes /\ g.sent = c.sent /\ g.corked = FALSE
          /\ g.corkedReads = <<>> /\ g.endPushed = c.endPushed /\ g.real = c.real
          /\ g.flowing = c.flowing /\ g.pendingWrites = c.pendingWrites
          /\ g.pendingEnd = c.pendingEnd /\ g.backpressured = c.backpressured
          /\ g.flushScheduled = c.flushScheduled /\ g.ticks = c.ticks
          /\ g.nativeClose = c.nativeClose /\ g.layers = c.layers
          /\ g.connecting = c.connecting /\ g.swapped = c.swapped
  BY <1>10 DEF Handed
<1>12. ASSUME E \in Endings
       PROVE  /\ f[Len(D) + 1] = [g EXCEPT !.endPushed = TRUE, !.eof = TRUE]
              /\ ~c.eof /\ c.real \in Over /\ Len(E) >= 1
  <2>1. Len(E) >= 1 /\ E[1] = EndRead /\ E # <<>>
    <3>1. CASE E = <<EndRead>>
      BY <3>1
    <3>2. CASE E = <<EndRead, CloseRead>>
      BY <3>2
    <3>3. QED
      BY <1>12, <3>1, <3>2 DEF Endings
  <2>2. Len(D) \in 0..Len(s) - 1 /\ s[Len(D) + 1] = EndRead
    BY <1>6, <2>1
  <2>3. f[Len(D) + 1] = Replay(g, EndRead)
    BY <1>8, <1>9, <2>2
  <2>4. Replay(g, EndRead) = PushRealEnd(g)
    BY DEF Replay, EndRead, CloseRead, Part
  <2>5. PushRealEnd(g) = [g EXCEPT !.endPushed = TRUE, !.eof = TRUE]
    <3>1. PICK k : k = [g EXCEPT !.endPushed = TRUE]
      OBVIOUS
    <3>2. ~k.destroyed
      BY <1>11, <3>1 DEF Connections, Alive
    <3>3. QED
      BY <1>11, <3>1, <3>2 DEF PushRealEnd, PushEnd, Connections
  <2>6. QED
    BY <1>2, <1>12, <2>1, <2>3, <2>4, <2>5
<1>13. CASE E = <<>>
  <2>1. u = g
    BY <1>6, <1>8, <1>9, <1>13
  <2>2. c.real \in Over => c.endPushed
    BY <1>2, <1>13 DEF Endings
  <2>3. LetGo(c, g)
    BY <1>2, <1>10, <1>11, <2>2, HandedLetsGo
  <2>4. QED
    BY <2>1, <2>3
<1>14. CASE E = <<EndRead>>
  <2>1. u = [g EXCEPT !.endPushed = TRUE, !.eof = TRUE] /\ ~c.eof /\ c.real \in Over
    BY <1>6, <1>8, <1>12, <1>14 DEF Endings
  <2>2. u \in Connections(Chunk, Tick) /\ /\ u.heard = g.heard /\ u.buffer = g.buffer
                                          /\ u.eof = TRUE /\ u.ended = g.ended
                                          /\ u.destroyed = g.destroyed
                                          /\ u.closes = g.closes /\ u.sent = g.sent
                                          /\ u.corked = g.corked
                                          /\ u.corkedReads = g.corkedReads
                                          /\ u.endPushed = TRUE /\ u.real = g.real
                                          /\ u.flowing = g.flowing
                                          /\ u.pendingWrites = g.pendingWrites
                                          /\ u.pendingEnd = g.pendingEnd
                                          /\ u.backpressured = g.backpressured
                                          /\ u.flushScheduled = g.flushScheduled
                                          /\ u.ticks = g.ticks
                                          /\ u.nativeClose = g.nativeClose
                                          /\ u.layers = g.layers
                                          /\ u.connecting = g.connecting
                                          /\ u.swapped = g.swapped /\ u.paused = g.paused
    BY ZenonT(90), <1>11, <2>1 DEF Connections
  <2>3. /\ /\ u.eof = TRUE /\ u.ended = c.ended /\ u.destroyed = c.destroyed
           /\ u.closes = c.closes /\ u.sent = c.sent /\ u.corked = FALSE
           /\ u.corkedReads = <<>> /\ u.endPushed = TRUE /\ u.real = c.real
           /\ u.flowing = c.flowing /\ u.pendingWrites = c.pendingWrites
           /\ u.pendingEnd = c.pendingEnd /\ u.backpressured = c.backpressured
           /\ u.flushScheduled = c.flushScheduled /\ u.ticks = c.ticks
           /\ u.nativeClose = c.nativeClose /\ u.connecting = c.connecting
           /\ u.swapped = c.swapped
        /\ u.heard = g.heard /\ u.buffer = g.buffer
    BY <1>11, <2>2
  <2>4. LetGo(c, u)
    <3>1. u \in Connections(Chunk, Tick)
      BY <2>2
    <3>2. ~c.eof /\ c.real \in Over
      BY <2>1
    <3>3. QED
      BY <1>2, <1>10, <2>3, <3>1, <3>2, HandedLetsGo
  <2>5. QED
    BY <2>4
<1>15. CASE E = <<EndRead, CloseRead>>
  <2>1. PICK k : k = [g EXCEPT !.endPushed = TRUE, !.eof = TRUE]
    OBVIOUS
  <2>2. f[Len(D) + 1] = k /\ ~c.eof /\ c.real \in Over
    BY <1>12, <1>15, <2>1 DEF Endings
  <2>3. k \in Connections(Chunk, Tick) /\ /\ k.heard = g.heard /\ k.buffer = g.buffer
                                          /\ k.eof = TRUE /\ k.ended = g.ended
                                          /\ k.destroyed = g.destroyed
                                          /\ k.closes = g.closes /\ k.sent = g.sent
                                          /\ k.corked = g.corked
                                          /\ k.corkedReads = g.corkedReads
                                          /\ k.endPushed = TRUE /\ k.real = g.real
                                          /\ k.flowing = g.flowing
                                          /\ k.pendingWrites = g.pendingWrites
                                          /\ k.pendingEnd = g.pendingEnd
                                          /\ k.backpressured = g.backpressured
                                          /\ k.flushScheduled = g.flushScheduled
                                          /\ k.ticks = g.ticks
                                          /\ k.nativeClose = g.nativeClose
                                          /\ k.layers = g.layers
                                          /\ k.connecting = g.connecting
                                          /\ k.swapped = g.swapped /\ k.paused = g.paused
    BY <1>11, <2>1 DEF Connections
  <2>4. Len(E) = 2 /\ E[2] = CloseRead
    BY <1>15
  <2>5. Len(D) + 1 \in 0..Len(s) - 1 /\ (Len(D) + 1) + 1 = Len(s) /\ s[(Len(D) + 1) + 1] = CloseRead
    BY <1>6, <2>4
  <2>6. u = Replay(k, CloseRead)
    BY <1>8, <2>2, <2>5
  <2>7. Replay(k, CloseRead) = EmitClientClose(k)
    BY DEF Replay, EndRead, CloseRead, Part
  <2>8. ~k.ended /\ ~k.destroyed
    BY <1>11, <2>2, <2>3 DEF Closing, Alive
  <2>9. u = [k EXCEPT !.layers = @ \cup {"waits"}]
    BY <2>3, <2>6, <2>7, <2>8 DEF EmitClientClose, CloseMustWait
  <2>10. /\ u.heard = k.heard /\ u.buffer = k.buffer /\ u.eof = k.eof /\ u.ended = k.ended
         /\ u.destroyed = k.destroyed /\ u.closes = k.closes /\ u.sent = k.sent
         /\ u.corked = k.corked /\ u.corkedReads = k.corkedReads
         /\ u.endPushed = k.endPushed /\ u.real = k.real /\ u.flowing = k.flowing
         /\ u.pendingWrites = k.pendingWrites /\ u.pendingEnd = k.pendingEnd
         /\ u.backpressured = k.backpressured /\ u.flushScheduled = k.flushScheduled
         /\ u.ticks = k.ticks /\ u.nativeClose = k.nativeClose
         /\ u.connecting = k.connecting /\ u.swapped = k.swapped /\ u.paused = k.paused
    BY <2>3, <2>9 DEF Connections
  <2>11. LetGo(c, u)
    <3>1. u \in Connections(Chunk, Tick)
      BY ZenonT(60), <2>3, <2>9 DEF Connections
    <3>2. /\ /\ u.eof = TRUE /\ u.ended = c.ended /\ u.destroyed = c.destroyed
             /\ u.closes = c.closes /\ u.sent = c.sent /\ u.corked = FALSE
             /\ u.corkedReads = <<>> /\ u.endPushed = TRUE /\ u.real = c.real
             /\ u.flowing = c.flowing /\ u.pendingWrites = c.pendingWrites
             /\ u.pendingEnd = c.pendingEnd /\ u.backpressured = c.backpressured
             /\ u.flushScheduled = c.flushScheduled /\ u.ticks = c.ticks
             /\ u.nativeClose = c.nativeClose /\ u.connecting = c.connecting
             /\ u.swapped = c.swapped
          /\ u.heard = g.heard /\ u.buffer = g.buffer
      BY <1>11, <2>3, <2>10
    <3>3. ~c.eof /\ c.real \in Over
      BY <2>2
    <3>4. QED
      BY <1>2, <1>10, <3>1, <3>2, <3>3, HandedLetsGo
  <2>12. QED
    BY <2>11
<1>16. CASE E = <<CloseRead>>
  <2>1. Len(E) = 1 /\ E[1] = CloseRead
    BY <1>16
  <2>2. Len(D) \in 0..Len(s) - 1 /\ Len(D) + 1 = Len(s) /\ s[Len(D) + 1] = CloseRead
    BY <1>6, <2>1
  <2>3. u = Replay(g, CloseRead)
    BY <1>8, <1>9, <2>2
  <2>4. Replay(g, CloseRead) = EmitClientClose(g)
    BY DEF Replay, EndRead, CloseRead, Part
  <2>5. <<CloseRead>> # <<EndRead>> /\ <<CloseRead>> # <<>> /\ <<CloseRead>> # <<EndRead, CloseRead>>
    <3>1. CloseRead # EndRead /\ Len(<<CloseRead>>) = 1 /\ Len(<<EndRead, CloseRead>>) = 2
      BY DEF CloseRead, EndRead, Part
    <3>2. <<CloseRead>>[1] = CloseRead /\ <<EndRead>>[1] = EndRead
      OBVIOUS
    <3>3. QED
      BY <3>1, <3>2
  <2>6. c.real = "gone" /\ c.endPushed /\ E \notin Endings
    BY <1>2, <1>16, <2>5 DEF Endings, Over
  <2>7. CASE ~g.ended
    <3>1. u = [g EXCEPT !.layers = @ \cup {"waits"}]
      BY <1>11, <2>3, <2>4, <2>6, <2>7 DEF EmitClientClose, CloseMustWait, Alive
    <3>2. /\ u.heard = g.heard /\ u.buffer = g.buffer /\ u.eof = g.eof /\ u.ended = g.ended
          /\ u.destroyed = g.destroyed /\ u.closes = g.closes /\ u.sent = g.sent
          /\ u.corked = g.corked /\ u.corkedReads = g.corkedReads
          /\ u.endPushed = g.endPushed /\ u.real = g.real /\ u.flowing = g.flowing
          /\ u.pendingWrites = g.pendingWrites /\ u.pendingEnd = g.pendingEnd
          /\ u.backpressured = g.backpressured /\ u.flushScheduled = g.flushScheduled
          /\ u.ticks = g.ticks /\ u.nativeClose = g.nativeClose
          /\ u.connecting = g.connecting /\ u.swapped = g.swapped /\ u.paused = g.paused
      BY <1>11, <3>1 DEF Connections
    <3>3. LetGo(c, u)
      <4>1. u \in Connections(Chunk, Tick)
        BY ZenonT(60), <1>11, <3>1 DEF Connections
      <4>2. /\ /\ u.eof = c.eof /\ u.ended = c.ended /\ u.destroyed = c.destroyed
               /\ u.closes = c.closes /\ u.sent = c.sent /\ u.corked = FALSE
               /\ u.corkedReads = <<>> /\ u.endPushed = c.endPushed /\ u.real = c.real
               /\ u.flowing = c.flowing /\ u.pendingWrites = c.pendingWrites
               /\ u.pendingEnd = c.pendingEnd /\ u.backpressured = c.backpressured
               /\ u.flushScheduled = c.flushScheduled /\ u.ticks = c.ticks
               /\ u.nativeClose = c.nativeClose /\ u.connecting = c.connecting
               /\ u.swapped = c.swapped
            /\ u.heard = g.heard /\ u.buffer = g.buffer
        BY <1>11, <3>2
      <4>3. QED
        BY <1>2, <1>10, <2>6, <4>1, <4>2, HandedLetsGo
    <3>4. QED
      BY <3>3
  <2>8. CASE g.ended
    <3>1. u = EmitClose(g)
      BY <1>11, <2>3, <2>4, <2>8 DEF EmitClientClose, CloseMustWait
    <3>2. c.ended /\ D = <<>> /\ g.heard = c.heard /\ c.eof /\ c.buffer = <<>>
      BY <1>2, <1>10, <1>11, <2>8 DEF Closing
    <3>3. LetGo(c, g)
      BY <1>2, <1>10, <1>11, <2>6, HandedLetsGo
    <3>4. /\ u.heard = g.heard /\ u.ended = g.ended /\ u.sent = g.sent
          /\ u.destroyed = g.destroyed /\ u.ticks = g.ticks /\ u.closes = g.closes + 1
          /\ Closing(u) /\ ~Alive(u)
      BY <1>11, <2>8, <3>1, <3>3, EmitCloseFields DEF LetGo
    <3>5. u \in Connections(Chunk, Tick)
      <4>1. g \in After(g, Chunk, Tick) \/ ~(("abort" \in g.layers \/ "mock" \in g.layers))
        BY <1>11 DEF After, Follows
      <4>2. PICK k : k = [g EXCEPT !.closes = @ + 1, !.real = RealAfterClose(g), !.corked = FALSE]
        OBVIOUS
      <4>3. g.closes + 1 \in Nat /\ RealAfterClose(g) \in RealState
        BY <1>11 DEF Connections, RealAfterClose, RealState
      <4>4. k \in Connections(Chunk, Tick)
        BY <1>11, <4>2, <4>3 DEF Connections
      <4>5. <<>> \in Seq(Chunk \cup {EndRead, CloseRead})
        OBVIOUS
      <4>6. [k EXCEPT !.corkedReads = <<>>] \in Connections(Chunk, Tick)
        BY <4>4, <4>5 DEF Connections
      <4>7. u = [k EXCEPT !.corkedReads = <<>>]
        BY <1>11, <3>1, <4>2 DEF EmitClose, Connections
      <4>8. QED
        BY <4>6, <4>7
    <3>6. NothingToWrite(u)
      BY <1>11, <3>1, <3>3 DEF EmitClose, NothingToWrite, LetGo, Connections
    <3>7. QED
      BY <1>11, <3>2, <3>4, <3>5, <3>6 DEF LetClose
  <2>9. QED
    BY <2>7, <2>8
<1>17. QED
  BY <1>2, <1>13, <1>14, <1>15, <1>16 DEF Endings

\* A connection that is corked, and the same otherwise.
Corks(c, d) ==
  /\ /\ d.heard = c.heard /\ d.buffer = c.buffer /\ d.eof = c.eof /\ d.ended = c.ended
     /\ d.destroyed = c.destroyed /\ d.closes = c.closes /\ d.sent = c.sent
     /\ d.corked = TRUE /\ d.corkedReads = c.corkedReads /\ d.endPushed = c.endPushed
     /\ d.real = c.real /\ d.flowing = c.flowing /\ d.pendingWrites = c.pendingWrites
     /\ d.pendingEnd = c.pendingEnd /\ d.backpressured = c.backpressured
     /\ d.flushScheduled = c.flushScheduled /\ d.ticks = c.ticks
     /\ d.nativeClose = c.nativeClose /\ d.layers = c.layers /\ d.connecting = c.connecting
     /\ d.swapped = c.swapped /\ d.paused = c.paused
  /\ d \in Connections(Chunk, Tick)
  /\ (Closing(c) => Closing(d)) /\ (Alive(d) <=> Alive(c))
  /\ (Sound(c) => Sound(d)) /\ Delivered(d) = Delivered(c)

\* Corking keeps what is in line, and what the stream is.
LEMMA CorkKeeps ==
  ASSUME NEW c \in Connections(Chunk, Tick), NEW d, d = Cork(c)
  PROVE  Corks(c, d)
<1>1. /\ d.heard = c.heard /\ d.buffer = c.buffer /\ d.eof = c.eof /\ d.ended = c.ended
      /\ d.destroyed = c.destroyed /\ d.closes = c.closes /\ d.sent = c.sent
      /\ d.corked = TRUE /\ d.corkedReads = c.corkedReads /\ d.endPushed = c.endPushed
      /\ d.real = c.real /\ d.flowing = c.flowing /\ d.pendingWrites = c.pendingWrites
      /\ d.pendingEnd = c.pendingEnd /\ d.backpressured = c.backpressured
      /\ d.flushScheduled = c.flushScheduled /\ d.ticks = c.ticks
      /\ d.nativeClose = c.nativeClose /\ d.layers = c.layers /\ d.connecting = c.connecting
      /\ d.swapped = c.swapped /\ d.paused = c.paused
  BY DEF Cork, Connections
<1>2. d \in Connections(Chunk, Tick)
  BY DEF Cork, Connections
<1>3. Delivered(d) = Delivered(c)
  BY <1>1 DEF Delivered
<1>4. ASSUME Sound(c) PROVE Sound(d)
  <2>1. PICK D \in Seq(Chunk), E \in Seq({EndRead, CloseRead}) : InLine(c, D, E)
    BY <1>4 DEF Sound
  <2>2. InLine(d, D, E)
    BY <1>1, <1>3, <2>1 DEF InLine
  <2>3. QED
    BY <1>1, <1>4, <2>2 DEF Sound
<1>5. (Closing(c) => Closing(d)) /\ (Alive(d) <=> Alive(c))
  BY <1>1 DEF Closing, Alive
<1>6. QED
  BY <1>1, <1>2, <1>3, <1>4, <1>5 DEF Corks

\* What a "response" event, once its listeners have settled, is about.
LEMMA SettlesFacts ==
  ASSUME IInv, SInv, NEW e \in events, ResponseListenersSettle(e)
  PROVE  /\ protocol = "http" /\ events' \subseteq events
         /\ UNCHANGED <<inputVars, current, stage, reached, answering>>
         /\ (e.part = "informational" =>
              current \in Request /\ PassedOn(current) /\ ~Sent(current, "fin"))
<1>1. protocol # "other"
  BY DEF SInv, NoEvents
<1>2. protocol = "http"
  BY <1>1 DEF IInv, Types
<1>3. events' \subseteq events /\ UNCHANGED <<inputVars, current, stage, reached, answering>>
  BY DEF ResponseListenersSettle, exchangeVars, realVars
<1>4. e.part = "informational" => current \in Request /\ PassedOn(current) /\ ~Sent(current, "fin")
  BY ReachedRequest DEF SInv, Reaching
<1>5. QED
  BY <1>2, <1>3, <1>4

\* The client was lost.
LEMMA SettlesDead ==
  ASSUME IInv, SInv, NEW e \in events, ResponseListenersSettle(e), ~Alive(conn)
  PROVE  SInv' /\ Promised(conn, conn')
<1>1. conn \in Connections(Chunk, Tick) /\ conn \in After(conn, Chunk, Tick) /\ Closing(conn)
  BY ConnTyped DEF SInv
<1>2. PICK u : u = Uncork(conn)
  OBVIOUS
<1>3. u \in Silent(conn)
  BY <1>1, <1>2, UncorkSilent
<1>4. u \in Connections(Chunk, Tick) /\ u \in After(conn, Chunk, Tick)
  BY <1>3 DEF Silent, After
<1>5. Cork(u) \in Silent(conn)
  <2>1. PICK d : d = Cork(u)
    OBVIOUS
  <2>2. d \in After(conn, Chunk, Tick)
    BY <1>4, <2>1, CorkAfter, OwnIsTick
  <2>3. /\ /\ d.heard = u.heard /\ d.buffer = u.buffer /\ d.eof = u.eof /\ d.ended = u.ended
           /\ d.destroyed = u.destroyed /\ d.closes = u.closes /\ d.sent = u.sent
           /\ d.corked = TRUE /\ d.corkedReads = u.corkedReads /\ d.endPushed = u.endPushed
           /\ d.real = u.real /\ d.flowing = u.flowing /\ d.pendingWrites = u.pendingWrites
           /\ d.pendingEnd = u.pendingEnd /\ d.backpressured = u.backpressured
           /\ d.flushScheduled = u.flushScheduled /\ d.ticks = u.ticks
           /\ d.nativeClose = u.nativeClose /\ d.layers = u.layers
           /\ d.connecting = u.connecting /\ d.swapped = u.swapped /\ d.paused = u.paused
        /\ (Closing(u) => Closing(d)) /\ (Alive(d) <=> Alive(u))
    <3>1. Corks(u, d)
      BY <1>4, <2>1, CorkKeeps
    <3>2. QED
      BY <3>1 DEF Corks
  <2>4. d \in Silent(conn)
    BY <1>3, <2>2, <2>3 DEF Silent
  <2>5. QED
    BY <2>1, <2>4
<1>6. PICK c : c = UncorkFor(e)
  OBVIOUS
<1>7. c \in Silent(conn)
  BY <1>2, <1>3, <1>5, <1>6 DEF UncorkFor
<1>8. Becomes(c)
  BY <1>6 DEF ResponseListenersSettle
<1>9. QED
  BY <1>7, <1>8, SettlesFacts, SilentStep

\* The client is read, and hears what was corked.
LEMMA SettlesAlive ==
  ASSUME IInv, SInv, NEW e \in events, ResponseListenersSettle(e), Alive(conn),
         NEW u, u = Uncork(conn), LetGo(conn, u),
         current # 0 /\ verdict[current] = "pending" => u = conn
  PROVE  SInv' /\ Promised(conn, conn')
<1>1. /\ protocol = "http" /\ events' \subseteq events
      /\ UNCHANGED <<inputVars, current, stage, reached, answering>>
      /\ (e.part = "informational" =>
            current \in Request /\ PassedOn(current) /\ ~Sent(current, "fin"))
  BY SettlesFacts
<1>2. conn \in Connections(Chunk, Tick) /\ Closing(conn) /\ HttpAlive
  BY <1>1, ConnTyped DEF SInv, AliveInv
<1>3. PICK c : c = UncorkFor(e)
  OBVIOUS
<1>4. Becomes(c)
  BY <1>3 DEF ResponseListenersSettle
<1>5. CASE e.part # "informational"
  <2>1. c = u
    BY <1>3, <1>5 DEF UncorkFor
  <2>2. conn' = u /\ verdict' = verdict
    BY <1>4, <2>1, BecomesGives DEF LetGo, Alive
  <2>3. HttpAlive'
    <3>1. ~u.flowing => MidResponse'
      BY <1>1, <1>2, <2>2 DEF LetGo, HttpAlive, MidResponse, Complete
    <3>2. u.eof /\ ~u.endPushed => MockOver'
      <4>1. SUFFICES ASSUME u.eof, ~u.endPushed PROVE MockOver'
        OBVIOUS
      <4>2. MockOver /\ u.sent = conn.sent
        BY <1>2, <4>1 DEF LetGo, HttpAlive
      <4>3. QED
        BY <1>1, <2>2, <4>2 DEF MockOver, Sent
    <3>3. current # 0 /\ verdict[current] = "pending" => u = conn
      OBVIOUS
    <3>4. QED
      BY <1>1, <1>2, <2>2, <3>1, <3>2, <3>3 DEF LetGo, HttpAlive
  <2>4. SInv'
    <3>1. /\ u.sent = conn.sent /\ Closing(u) /\ Sound(u) /\ u.ticks = conn.ticks
      BY DEF LetGo
    <3>2. Becomes(u) /\ protocol # "other"
      BY <1>1, <1>4, <2>1
    <3>3. QED
      BY <1>1, <2>3, <3>1, <3>2, QuietStep
  <2>5. Promised(conn, u)
    <3>1. CASE conn.ended
      BY <3>1, StillPromised DEF LetGo
    <3>2. CASE ~conn.ended
      <4>1. IsPrefix(conn.sent, u.sent)
        BY <1>2, PrefixOfItself DEF LetGo, Connections
      <4>2. QED
        BY <1>2, <3>2, <4>1, TransferPromised DEF LetGo
    <3>3. QED
      BY <3>1, <3>2
  <2>6. QED
    BY <2>2, <2>4, <2>5
<1>6. CASE e.part = "informational"
  <2>1. c = Cork(u)
    BY <1>3, <1>6 DEF UncorkFor
  <2>2. u \in Connections(Chunk, Tick) /\ Alive(u) /\ Closing(u) /\ Sound(u)
    BY DEF LetGo
  <2>3. /\ /\ c.heard = u.heard /\ c.buffer = u.buffer /\ c.eof = u.eof /\ c.ended = u.ended
           /\ c.destroyed = u.destroyed /\ c.closes = u.closes /\ c.sent = u.sent
           /\ c.corked = TRUE /\ c.corkedReads = u.corkedReads /\ c.endPushed = u.endPushed
           /\ c.real = u.real /\ c.flowing = u.flowing /\ c.pendingWrites = u.pendingWrites
           /\ c.pendingEnd = u.pendingEnd /\ c.backpressured = u.backpressured
           /\ c.flushScheduled = u.flushScheduled /\ c.ticks = u.ticks
           /\ c.nativeClose = u.nativeClose /\ c.layers = u.layers
           /\ c.connecting = u.connecting /\ c.swapped = u.swapped /\ c.paused = u.paused
        /\ c \in Connections(Chunk, Tick) /\ Closing(c) /\ Alive(c)
        /\ Sound(c) /\ Delivered(c) = Delivered(u)
    <3>1. Corks(u, c)
      BY <2>1, <2>2, CorkKeeps
    <3>2. QED
      BY <2>2, <3>1 DEF Corks
  <2>4. conn' = c /\ verdict' = verdict
    BY <1>4, <2>3, BecomesGives DEF Alive
  <2>5. current \in Request /\ PassedOn(current) /\ ~Sent(current, "fin")
    BY <1>1, <1>6
  <2>6. verdict[current] # "pending"
    <3>1. current # 0 /\ (verdict[current] = "pending" => hook = current)
          /\ (Tunnelled => hook = 0)
      BY <2>5 DEF IInv, OneIsPending, Request
    <3>2. QED
      BY <2>5, <3>1 DEF PassedOn
  <2>7. HttpAlive'
    <3>1. ~c.flowing => MidResponse'
      BY <1>1, <1>2, <2>3, <2>4 DEF LetGo, HttpAlive, MidResponse, Complete
    <3>2. c.eof /\ ~c.endPushed => MockOver'
      <4>1. SUFFICES ASSUME c.eof, ~c.endPushed PROVE MockOver'
        OBVIOUS
      <4>2. MockOver /\ c.sent = conn.sent
        BY <1>2, <2>3, <4>1 DEF LetGo, HttpAlive
      <4>3. QED
        BY <1>1, <2>4, <4>2 DEF MockOver, Sent
    <3>3. Part(current, "fin") \notin ToSet(Delivered(c))
      <4>1. ToSet(Delivered(u)) \subseteq ToSet(u.sent)
        BY <2>2, DeliveredSent
      <4>2. QED
        BY <2>3, <2>5, <4>1 DEF Sent, LetGo
    <3>4. PassedOn(current)' /\ current' # 0
      BY <1>1, <2>4, <2>5 DEF PassedOn, Tunnelled, inputVars, Request
    <3>5. NothingToWrite(c)
      BY <2>3 DEF LetGo, NothingToWrite
    <3>6. QED
      BY <1>1, <2>4, <2>6, <3>1, <3>2, <3>3, <3>4, <3>5 DEF HttpAlive
  <2>8. SInv'
    <3>1. /\ c.sent = conn.sent /\ c.ticks = conn.ticks /\ protocol # "other"
      BY <1>1, <2>3 DEF LetGo
    <3>2. QED
      BY <1>1, <1>4, <2>3, <2>7, <3>1, QuietStep
  <2>9. Promised(conn, c)
    <3>1. c.sent = conn.sent /\ c.ended = conn.ended /\ c.destroyed = conn.destroyed
          /\ c.closes = conn.closes /\ IsPrefix(conn.heard, c.heard)
          /\ (conn.ended => c.heard = conn.heard)
      BY <2>3 DEF LetGo
    <3>2. CASE conn.ended
      BY <3>1, <3>2, StillPromised
    <3>3. CASE ~conn.ended
      <4>1. IsPrefix(conn.sent, c.sent)
        BY <1>2, <3>1, PrefixOfItself DEF Connections
      <4>2. QED
        BY <1>2, <2>3, <3>1, <3>3, <4>1, TransferPromised
    <3>4. QED
      BY <3>2, <3>3
  <2>10. QED
    BY <2>4, <2>8, <2>9
<1>7. QED
  BY <1>5, <1>6

\* The client closes, as it has ended.
LEMMA SettlesClose ==
  ASSUME IInv, SInv, NEW e \in events, ResponseListenersSettle(e), Alive(conn),
         LetClose(conn, Uncork(conn))
  PROVE  SInv' /\ Promised(conn, conn')
<1>1. /\ events' \subseteq events
      /\ UNCHANGED <<inputVars, current, stage, reached, answering>>
  BY SettlesFacts
<1>2. conn \in Connections(Chunk, Tick)
  BY ConnTyped
<1>3. PICK u : u = Uncork(conn)
  OBVIOUS
<1>4. PICK c : c = UncorkFor(e)
  OBVIOUS
<1>5. Becomes(c) /\ conn' = c
  BY <1>4 DEF ResponseListenersSettle, Becomes, Turns
<1>6. LetClose(conn, u)
  BY <1>3
<1>7. LetClose(conn, c)
  <2>1. CASE e.part # "informational"
    BY <1>3, <1>4, <1>6, <2>1 DEF UncorkFor
  <2>2. CASE e.part = "informational"
    <3>1. c = Cork(u) /\ u \in Connections(Chunk, Tick)
      BY <1>3, <1>4, <1>6, <2>2 DEF UncorkFor, LetClose
    <3>2. /\ /\ c.heard = u.heard /\ c.buffer = u.buffer /\ c.eof = u.eof
             /\ c.ended = u.ended /\ c.destroyed = u.destroyed /\ c.closes = u.closes
             /\ c.sent = u.sent /\ c.corked = TRUE /\ c.corkedReads = u.corkedReads
             /\ c.endPushed = u.endPushed /\ c.real = u.real /\ c.flowing = u.flowing
             /\ c.pendingWrites = u.pendingWrites /\ c.pendingEnd = u.pendingEnd
             /\ c.backpressured = u.backpressured /\ c.flushScheduled = u.flushScheduled
             /\ c.ticks = u.ticks /\ c.nativeClose = u.nativeClose /\ c.layers = u.layers
             /\ c.connecting = u.connecting /\ c.swapped = u.swapped /\ c.paused = u.paused
          /\ c \in Connections(Chunk, Tick)
          /\ (Closing(u) => Closing(c)) /\ (Alive(c) <=> Alive(u))
      <4>1. Corks(u, c)
        BY <3>1, CorkKeeps
      <4>2. QED
        BY <4>1 DEF Corks
    <3>3. QED
      BY <1>6, <3>2 DEF LetClose, NothingToWrite
  <2>3. QED
    BY <2>1, <2>2
<1>8. SInv'
  BY <1>1, <1>5, <1>7, QuietLost DEF LetClose
<1>9. Promised(conn, c)
  BY <1>2, <1>7, EmitClosePromised DEF LetClose
<1>10. QED
  BY <1>5, <1>8, <1>9

\* The "response" listeners of an original response settle.
LEMMA ResponseListenersSettleSound ==
  ASSUME IInv, SInv, NEW e \in events, ResponseListenersSettle(e)
  PROVE  SInv' /\ Promised(conn, conn')
<1>1. conn \in Connections(Chunk, Tick) /\ Closing(conn)
  BY ConnTyped DEF SInv
<1>2. CASE ~Alive(conn)
  BY <1>2, SettlesDead
<1>3. CASE Alive(conn)
  <2>1. Sound(conn) /\ HttpAlive /\ NothingToWrite(conn)
    BY <1>3, SettlesFacts DEF SInv, AliveInv, HttpAlive
  <2>2. PICK u : u = Uncork(conn)
    OBVIOUS
  <2>3. CASE ~conn.corked
    <3>1. u = conn
      BY <2>2, <2>3 DEF Uncork
    <3>2. IsPrefix(conn.heard, conn.heard)
      BY <1>1, PrefixOfItself DEF Connections
    <3>3. LetGo(conn, u)
      BY <1>1, <1>3, <2>1, <2>3, <3>1, <3>2 DEF LetGo
    <3>4. QED
      BY <1>3, <2>2, <3>1, <3>3, SettlesAlive
  <2>4. CASE conn.corked
    <3>1. LetGo(conn, u) \/ LetClose(conn, u)
      BY <1>1, <1>3, <2>1, <2>2, <2>4, UncorkAlive
    <3>2. ~(current # 0 /\ verdict[current] = "pending")
      <4>1. current # 0 /\ PassedOn(current)
        BY <2>1, <2>4 DEF HttpAlive
      <4>2. current \in Request
        BY <4>1 DEF IInv, Types, Request
      <4>3. (verdict[current] = "pending" => hook = current) /\ (Tunnelled => hook = 0)
        BY <4>2 DEF IInv, OneIsPending
      <4>4. QED
        BY <4>1, <4>3 DEF PassedOn
    <3>3. QED
      BY <1>3, <2>2, <3>1, <3>2, SettlesAlive, SettlesClose
  <2>5. QED
    BY <2>3, <2>4
<1>4. QED
  BY <1>2, <1>3

-----------------------------------------------------------------------------
(* The server socket writes.                                                 *)

\* A client that is read and uncorked, to which the server socket has written.
Written(c, d) ==
  /\ d \in Connections(Chunk, Tick)
  /\ /\ d.ended = c.ended /\ d.destroyed = c.destroyed /\ d.closes = c.closes
     /\ d.corked = c.corked /\ d.corkedReads = c.corkedReads /\ d.endPushed = c.endPushed
     /\ d.real = c.real /\ d.flowing = c.flowing /\ d.ticks = c.ticks
     /\ d.nativeClose = c.nativeClose /\ d.layers = c.layers /\ d.swapped = c.swapped
  /\ IsPrefix(c.heard, d.heard) /\ IsPrefix(c.sent, d.sent)
  /\ d.sent = Delivered(d) \o d.pendingWrites
  /\ d.eof => d.pendingWrites = <<>>
  /\ c.buffer # <<>> => d.buffer # <<>>
  /\ c.eof => d.eof /\ d.heard = c.heard /\ d.buffer = c.buffer

\* At first it has written nothing.
LEMMA WrittenItself ==
  ASSUME NEW c \in Connections(Chunk, Tick), Sound(c), ~c.corked
  PROVE  Written(c, c)
<1>1. IsPrefix(c.heard, c.heard) /\ IsPrefix(c.sent, c.sent)
  <2>1. c.heard \in Seq(Chunk) /\ c.sent \in Seq(Chunk)
    BY DEF Connections
  <2>2. QED
    BY <2>1, PrefixOfItself
<1>2. c.sent = Delivered(c) \o c.pendingWrites /\ (c.eof => c.pendingWrites = <<>>)
  BY Uncorked
<1>3. QED
  BY <1>1, <1>2 DEF Written

\* What it has yet to do may change.
LEMMA WrittenFlags ==
  ASSUME NEW c, NEW d, Written(c, d), NEW e \in Connections(Chunk, Tick),
         /\ e.heard = d.heard /\ e.buffer = d.buffer /\ e.eof = d.eof /\ e.ended = d.ended
         /\ e.destroyed = d.destroyed /\ e.closes = d.closes /\ e.sent = d.sent
         /\ e.corked = d.corked /\ e.corkedReads = d.corkedReads
         /\ e.endPushed = d.endPushed /\ e.real = d.real /\ e.flowing = d.flowing
         /\ e.pendingWrites = d.pendingWrites /\ e.ticks = d.ticks
         /\ e.nativeClose = d.nativeClose /\ e.layers = d.layers /\ e.swapped = d.swapped
  PROVE  Written(c, e)
<1>1. Delivered(e) = Delivered(d)
  BY DEF Delivered
<1>2. QED
  BY <1>1 DEF Written

\* A chunk more is written.
LEMMA WrittenMore ==
  ASSUME NEW c \in Connections(Chunk, Tick), NEW d, Written(c, d), ~d.eof, NEW x \in Chunk,
         NEW e, e = Emitted([d EXCEPT !.pendingWrites = Append(@, x)], x)
  PROVE  /\ Written(c, e) /\ e.sent = Append(d.sent, x)
         /\ /\ e.heard = d.heard /\ e.buffer = d.buffer /\ e.eof = d.eof
            /\ e.ended = d.ended /\ e.destroyed = d.destroyed /\ e.closes = d.closes
            /\ e.corked = d.corked /\ e.corkedReads = d.corkedReads
            /\ e.endPushed = d.endPushed /\ e.real = d.real /\ e.flowing = d.flowing
            /\ e.pendingEnd = d.pendingEnd /\ e.backpressured = d.backpressured
            /\ e.flushScheduled = d.flushScheduled /\ e.ticks = d.ticks
            /\ e.nativeClose = d.nativeClose /\ e.layers = d.layers
            /\ e.connecting = d.connecting /\ e.swapped = d.swapped /\ e.paused = d.paused
<1>1. d \in Connections(Chunk, Tick)
  BY DEF Written
<1>2. d.heard \in Seq(Chunk) /\ d.buffer \in Seq(Chunk) /\ d.sent \in Seq(Chunk)
      /\ d.pendingWrites \in Seq(Chunk)
  BY <1>1 DEF Connections
<1>3. Append(d.pendingWrites, x) \in Seq(Chunk) /\ Append(d.sent, x) \in Seq(Chunk)
  BY <1>2
<1>4. e = [d EXCEPT !.pendingWrites = Append(d.pendingWrites, x), !.sent = Append(d.sent, x)]
  BY <1>1 DEF Emitted, Connections
<1>5. e \in Connections(Chunk, Tick)
  BY <1>1, <1>3, <1>4 DEF Connections
<1>6. /\ e.heard = d.heard /\ e.buffer = d.buffer /\ e.eof = d.eof /\ e.ended = d.ended
      /\ e.destroyed = d.destroyed /\ e.closes = d.closes /\ e.sent = Append(d.sent, x)
      /\ e.corked = d.corked /\ e.corkedReads = d.corkedReads /\ e.endPushed = d.endPushed
      /\ e.real = d.real /\ e.flowing = d.flowing
      /\ e.pendingWrites = Append(d.pendingWrites, x) /\ e.pendingEnd = d.pendingEnd
      /\ e.backpressured = d.backpressured /\ e.flushScheduled = d.flushScheduled
      /\ e.ticks = d.ticks /\ e.nativeClose = d.nativeClose /\ e.layers = d.layers
      /\ e.connecting = d.connecting /\ e.swapped = d.swapped /\ e.paused = d.paused
  BY <1>1, <1>4 DEF Connections
<1>7. Delivered(e) = Delivered(d)
  BY <1>6 DEF Delivered
<1>8. e.sent = Delivered(e) \o e.pendingWrites
  <2>1. PICK S, w, p : S = Chunk /\ w = Delivered(d) /\ p = d.pendingWrites
    OBVIOUS
  <2>2. w \in Seq(S) /\ p \in Seq(S) /\ x \in S
    BY <1>2, <2>1, ConcatProperties DEF Delivered
  <2>3. w \o Append(p, x) = Append(w \o p, x)
    BY ONLY <2>2, AppendConcat
  <2>4. QED
    BY <1>6, <1>7, <2>1, <2>3 DEF Written
<1>9. IsPrefix(c.sent, e.sent)
  <2>1. PICK S, s, t : S = Chunk /\ s = c.sent /\ t = d.sent
    OBVIOUS
  <2>2. s \in Seq(S) /\ t \in Seq(S) /\ IsPrefix(s, t) /\ x \in S
    BY <1>2, <2>1 DEF Connections, Written
  <2>3. IsPrefix(s, Append(t, x))
    BY ONLY <2>2, PrefixGrows
  <2>4. QED
    BY <1>6, <2>1, <2>3
<1>10. Written(c, e)
  BY <1>5, <1>6, <1>7, <1>8, <1>9 DEF Written
<1>11. QED
  BY <1>6, <1>10

\* The pending writes from index i on.
Pending(d, s, i) == d.backpressured \/ d.pendingWrites = SubSeq(s, i + 1, Len(s))

\* One of them is pushed, unless the client is full.
LEMMA WrittenFlush ==
  ASSUME NEW c \in Connections(Chunk, Tick), ~c.destroyed, NEW d, Written(c, d),
         NEW s \in Seq(Chunk), NEW i \in 0..Len(s) - 1, Pending(d, s, i),
         NEW f, f = FlushWrite(d, s[i + 1])
  PROVE  Written(c, f) /\ Pending(f, s, i + 1)
<1>1. d \in Connections(Chunk, Tick) /\ ~d.destroyed
  BY DEF Written
<1>2. CASE d.backpressured
  BY <1>2 DEF FlushWrite, Pending
<1>3. CASE ~d.backpressured
  <2>1. PICK p, x : p = d.pendingWrites /\ x = s[i + 1]
    OBVIOUS
  <2>2. i + 1 \in 1..Len(s) /\ Len(s) \in i + 1..Len(s) /\ x \in Chunk
    BY <2>1
  <2>3. p = SubSeq(s, i + 1, Len(s))
    BY <1>3, <2>1 DEF Pending
  <2>4. Head(p) = x /\ Tail(p) = SubSeq(s, (i + 1) + 1, Len(s))
    BY <2>1, <2>2, <2>3, HeadTailOfSubSeq
  <2>5. p \in Seq(Chunk)
    BY <1>1, <2>1 DEF Connections
  <2>6. p # <<>>
    <3>1. p = <<s[i + 1]>> \o SubSeq(s, (i + 1) + 1, Len(s))
      BY <2>2, <2>3, SubSeqRecursiveFirst
    <3>2. PICK q : q = SubSeq(s, (i + 1) + 1, Len(s))
      OBVIOUS
    <3>3. q \in Seq(Chunk)
      <4>1. \A j \in (i + 1) + 1..Len(s) : s[j] \in Chunk
        BY <2>2
      <4>2. QED
        BY <3>2, <4>1, SubSeqProperties
    <3>4. Len(p) = 1 + Len(q) /\ Len(q) \in Nat
      BY <2>1, <2>2, <3>1, <3>2, <3>3
    <3>5. QED
      BY <3>4
  <2>7. ~d.eof
    BY <2>1, <2>6 DEF Written
  <2>8. Tail(p) \in Seq(Chunk)
    BY <2>5, <2>6
  <2>9. PICK e : e = [d EXCEPT !.pendingWrites = Tail(p)]
    OBVIOUS
  <2>10. e \in Connections(Chunk, Tick)
    BY <1>1, <2>8, <2>9 DEF Connections
  <2>11. /\ e.heard = d.heard /\ e.buffer = d.buffer /\ e.eof = d.eof /\ e.ended = d.ended
         /\ e.destroyed = d.destroyed /\ e.closes = d.closes /\ e.sent = d.sent
         /\ e.corked = d.corked /\ e.corkedReads = d.corkedReads
         /\ e.endPushed = d.endPushed /\ e.real = d.real /\ e.flowing = d.flowing
         /\ e.pendingWrites = Tail(p) /\ e.pendingEnd = d.pendingEnd
         /\ e.backpressured = d.backpressured /\ e.flushScheduled = d.flushScheduled
         /\ e.ticks = d.ticks /\ e.nativeClose = d.nativeClose /\ e.layers = d.layers
         /\ e.connecting = d.connecting /\ e.swapped = d.swapped /\ e.paused = d.paused
    BY <1>1, <2>9 DEF Connections
  <2>12. PICK g : g = Push(e, x)
    OBVIOUS
  <2>13. /\ g = [e EXCEPT !.heard = g.heard, !.buffer = g.buffer]
         /\ g \in Connections(Chunk, Tick)
         /\ Delivered(g) = Append(Delivered(e), x)
         /\ g.heard = e.heard \/ (e.flowing /\ g.heard = Append(e.heard, x))
    <3>1. g = Push(e, x) /\ ~e.destroyed /\ ~e.eof
      BY <1>1, <2>7, <2>11, <2>12
    <3>2. x \in Chunk
      BY <2>2
    <3>3. Hands(e, x, g)
      BY <2>10, <3>1, <3>2, PushDelivers
    <3>4. QED
      BY <3>3 DEF Hands
  <2>14. /\ g.eof = d.eof /\ g.ended = d.ended /\ g.destroyed = d.destroyed
         /\ g.closes = d.closes /\ g.sent = d.sent /\ g.corked = d.corked
         /\ g.corkedReads = d.corkedReads /\ g.endPushed = d.endPushed /\ g.real = d.real
         /\ g.flowing = d.flowing /\ g.pendingWrites = Tail(p)
         /\ g.pendingEnd = d.pendingEnd /\ g.backpressured = d.backpressured
         /\ g.flushScheduled = d.flushScheduled /\ g.ticks = d.ticks
         /\ g.nativeClose = d.nativeClose /\ g.layers = d.layers
         /\ g.connecting = d.connecting /\ g.swapped = d.swapped /\ g.paused = d.paused
    <3>1. PICK hh, bb : hh = g.heard /\ bb = g.buffer
      OBVIOUS
    <3>2. g = [e EXCEPT !.heard = hh, !.buffer = bb]
      BY <2>13, <3>1
    <3>3. /\ g.eof = e.eof /\ g.ended = e.ended /\ g.destroyed = e.destroyed
          /\ g.closes = e.closes /\ g.sent = e.sent /\ g.corked = e.corked
          /\ g.corkedReads = e.corkedReads /\ g.endPushed = e.endPushed /\ g.real = e.real
          /\ g.flowing = e.flowing /\ g.pendingWrites = e.pendingWrites
          /\ g.pendingEnd = e.pendingEnd /\ g.backpressured = e.backpressured
          /\ g.flushScheduled = e.flushScheduled /\ g.ticks = e.ticks
          /\ g.nativeClose = e.nativeClose /\ g.layers = e.layers
          /\ g.connecting = e.connecting /\ g.swapped = e.swapped /\ g.paused = e.paused
      BY <2>10, <3>2 DEF Connections
    <3>4. QED
      BY <2>11, <3>3
  <2>15. c.buffer # <<>> => g.buffer # <<>>
    <3>1. SUFFICES ASSUME c.buffer # <<>> PROVE g.buffer # <<>>
      OBVIOUS
    <3>2. e.buffer # <<>> /\ e.buffer \in Seq(Chunk)
      BY <2>10, <2>11, <3>1 DEF Written, Connections
    <3>3. g = [e EXCEPT !.buffer = Append(e.buffer, x)]
      BY <1>1, <2>7, <2>11, <2>12, <3>2 DEF Push
    <3>4. g.buffer = Append(e.buffer, x)
      BY <2>10, <3>3 DEF Connections
    <3>5. Append(e.buffer, x) # <<>>
      BY <2>2, <3>2
    <3>6. QED
      BY <3>4, <3>5
  <2>16. IsPrefix(c.heard, g.heard)
    <3>1. PICK S, h, u : S = Chunk /\ h = c.heard /\ u = e.heard
      OBVIOUS
    <3>2. h \in Seq(S) /\ u \in Seq(S) /\ IsPrefix(h, u) /\ x \in S
      BY <2>2, <2>10, <2>11, <3>1 DEF Connections, Written
    <3>3. IsPrefix(h, Append(u, x))
      BY ONLY <3>2, PrefixGrows
    <3>4. QED
      BY <2>13, <3>1, <3>2, <3>3
  <2>17. g.sent = Delivered(g) \o g.pendingWrites
    <3>1. PICK S, w : S = Chunk /\ w = Delivered(d)
      OBVIOUS
    <3>2. d.heard \in Seq(Chunk) /\ d.buffer \in Seq(Chunk)
      BY <1>1 DEF Connections
    <3>3. w \in Seq(S) /\ p \in Seq(S) /\ p # <<>>
      BY <2>5, <2>6, <3>1, <3>2, ConcatProperties DEF Delivered
    <3>4. Append(w, Head(p)) \o Tail(p) = w \o p
      BY ONLY <3>3, MoveHead
    <3>5. Delivered(e) = Delivered(d)
      BY <2>11 DEF Delivered
    <3>6. d.sent = w \o p
      BY <2>1, <3>1 DEF Written
    <3>7. QED
      BY <2>4, <2>13, <2>14, <3>1, <3>4, <3>5, <3>6
  <2>18. ~c.eof
    BY <2>7 DEF Written
  <2>19. Written(c, g)
    BY <2>7, <2>13, <2>14, <2>15, <2>16, <2>17, <2>18 DEF Written
  <2>20. PICK b : b = ~TakesMore(g)
    OBVIOUS
  <2>21. b \in BOOLEAN
    BY <2>20
  <2>22. f = [g EXCEPT !.backpressured = b]
    BY <1>3, <2>1, <2>4, <2>9, <2>12, <2>20 DEF FlushWrite
  <2>23. f \in Connections(Chunk, Tick)
    BY ZenonT(60), <2>13, <2>21, <2>22 DEF Connections
  <2>24. /\ f.heard = g.heard /\ f.buffer = g.buffer /\ f.eof = g.eof /\ f.ended = g.ended
         /\ f.destroyed = g.destroyed /\ f.closes = g.closes /\ f.sent = g.sent
         /\ f.corked = g.corked /\ f.corkedReads = g.corkedReads
         /\ f.endPushed = g.endPushed /\ f.real = g.real /\ f.flowing = g.flowing
         /\ f.pendingWrites = g.pendingWrites /\ f.pendingEnd = g.pendingEnd
         /\ f.flushScheduled = g.flushScheduled /\ f.ticks = g.ticks
         /\ f.nativeClose = g.nativeClose /\ f.layers = g.layers
         /\ f.connecting = g.connecting /\ f.swapped = g.swapped /\ f.paused = g.paused
    BY <2>13, <2>22 DEF Connections
  <2>25. Written(c, f)
    BY <2>19, <2>23, <2>24, WrittenFlags
  <2>26. Pending(f, s, i + 1)
    BY <2>4, <2>14, <2>24 DEF Pending
  <2>27. QED
    BY <2>25, <2>26
<1>4. QED
  BY <1>2, <1>3

\* Whatever waits is pushed, until the client is full.
LEMMA WrittenRun ==
  ASSUME NEW c \in Connections(Chunk, Tick), ~c.destroyed, NEW d, Written(c, d), ~d.backpressured,
         NEW s, s = d.pendingWrites, NEW f, FlushRun(f, d, s),
         NEW e, e = Iterate(FlushWrite, d, s)
  PROVE  Written(c, e) /\ (e.backpressured \/ e.pendingWrites = <<>>)
<1>1. s \in Seq(Chunk) /\ Len(s) \in Nat
  BY DEF Written, Connections
<1>2. /\ f[0] = d /\ f[Len(s)] = e
      /\ \A i \in 0..Len(s) - 1 : f[i + 1] = FlushWrite(f[i], s[i + 1])
  BY DEF FlushRun
<1>3. PICK I : I = {i \in 0..Len(s) : Written(c, f[i]) /\ Pending(f[i], s, i)}
  OBVIOUS
<1>4. 0 \in I
  <2>1. SubSeq(s, 1, Len(s)) = s
    BY <1>1, SubSeqFull
  <2>2. SubSeq(s, 0 + 1, Len(s)) = s
    BY <2>1
  <2>3. Pending(d, s, 0)
    BY <2>2 DEF Pending
  <2>4. 0 \in 0..Len(s)
    BY <1>1
  <2>5. QED
    BY <1>2, <1>3, <2>3, <2>4
<1>5. ASSUME NEW i \in 0..Len(s) - 1, i \in I PROVE i + 1 \in I
  <2>1. PICK d1, e1 : d1 = f[i] /\ e1 = f[i + 1]
    OBVIOUS
  <2>2. Written(c, d1) /\ Pending(d1, s, i)
    BY <1>3, <1>5, <2>1
  <2>3. e1 = FlushWrite(d1, s[i + 1])
    BY <1>2, <1>5, <2>1
  <2>4. Written(c, e1) /\ Pending(e1, s, i + 1)
    BY <1>1, <1>5, <2>2, <2>3, WrittenFlush
  <2>5. i + 1 \in 0..Len(s)
    BY <1>1, <1>5
  <2>6. QED
    BY <1>3, <2>1, <2>4, <2>5
<1>6. Len(s) \in I
  <2>1. 0..Len(s) \subseteq I
    BY <1>1, <1>4, <1>5, Induction
  <2>2. Len(s) \in 0..Len(s)
    BY <1>1
  <2>3. QED
    BY <2>1, <2>2
<1>7. Written(c, e) /\ Pending(e, s, Len(s))
  BY <1>2, <1>3, <1>6
<1>8. SubSeq(s, Len(s) + 1, Len(s)) = <<>>
  BY <1>1, SubSeqEmpty
<1>9. QED
  BY <1>7, <1>8 DEF Pending

\* The end comes behind the last of the writes.
LEMMA WrittenEnd ==
  ASSUME NEW c \in Connections(Chunk, Tick), ~c.destroyed, NEW d, Written(c, d),
         d.backpressured \/ d.pendingWrites = <<>>, NEW e, e = FlushEndLast(d)
  PROVE  Written(c, e)
<1>1. d \in Connections(Chunk, Tick) /\ ~d.destroyed
  BY DEF Written
<1>2. CASE d.backpressured \/ ~d.pendingEnd
  BY <1>2 DEF FlushEndLast, FlushEnd
<1>3. CASE ~d.backpressured /\ d.pendingEnd
  <2>1. e = [d EXCEPT !.pendingEnd = FALSE, !.eof = TRUE]
    BY <1>1, <1>3 DEF FlushEndLast, FlushEnd, PushEnd, Connections
  <2>2. e \in Connections(Chunk, Tick)
    BY ZenonT(60), <1>1, <2>1 DEF Connections
  <2>3. /\ e.heard = d.heard /\ e.buffer = d.buffer /\ e.eof = TRUE /\ e.ended = d.ended
        /\ e.destroyed = d.destroyed /\ e.closes = d.closes /\ e.sent = d.sent
        /\ e.corked = d.corked /\ e.corkedReads = d.corkedReads /\ e.endPushed = d.endPushed
        /\ e.real = d.real /\ e.flowing = d.flowing /\ e.pendingWrites = d.pendingWrites
        /\ e.pendingEnd = FALSE /\ e.backpressured = d.backpressured
        /\ e.flushScheduled = d.flushScheduled /\ e.ticks = d.ticks
        /\ e.nativeClose = d.nativeClose /\ e.layers = d.layers
        /\ e.connecting = d.connecting /\ e.swapped = d.swapped /\ e.paused = d.paused
    BY <1>1, <2>1 DEF Connections
  <2>4. Delivered(e) = Delivered(d)
    BY <2>3 DEF Delivered
  <2>5. QED
    BY <1>3, <2>2, <2>3, <2>4 DEF Written
<1>4. QED
  BY <1>2, <1>3

\* flushPendingWrites().
LEMMA ServerFlushes ==
  ASSUME NEW c \in Connections(Chunk, Tick), ~c.destroyed, NEW d, Written(c, d),
         NEW e, e = FlushServer(d)
  PROVE  Written(c, e)
<1>1. d \in Connections(Chunk, Tick)
  BY DEF Written
<1>2. CASE d.connecting
  <2>1. e = [d EXCEPT !.backpressured = TRUE, !.flushScheduled = TRUE]
    BY <1>2 DEF FlushServer
  <2>2. e \in Connections(Chunk, Tick)
    BY <1>1, <2>1 DEF Connections
  <2>3. /\ e.heard = d.heard /\ e.buffer = d.buffer /\ e.eof = d.eof /\ e.ended = d.ended
        /\ e.destroyed = d.destroyed /\ e.closes = d.closes /\ e.sent = d.sent
        /\ e.corked = d.corked /\ e.corkedReads = d.corkedReads /\ e.endPushed = d.endPushed
        /\ e.real = d.real /\ e.flowing = d.flowing /\ e.pendingWrites = d.pendingWrites
        /\ e.pendingEnd = d.pendingEnd /\ e.backpressured = TRUE /\ e.flushScheduled = TRUE
        /\ e.ticks = d.ticks /\ e.nativeClose = d.nativeClose /\ e.layers = d.layers
        /\ e.connecting = d.connecting /\ e.swapped = d.swapped /\ e.paused = d.paused
    BY <1>1, <2>1 DEF Connections
  <2>4. QED
    BY <2>2, <2>3, WrittenFlags
<1>3. CASE ~d.connecting
  <2>1. PICK b : b = [d EXCEPT !.backpressured = FALSE]
    OBVIOUS
  <2>2. b \in Connections(Chunk, Tick)
    BY <1>1, <2>1 DEF Connections
  <2>3. /\ b.heard = d.heard /\ b.buffer = d.buffer /\ b.eof = d.eof /\ b.ended = d.ended
        /\ b.destroyed = d.destroyed /\ b.closes = d.closes /\ b.sent = d.sent
        /\ b.corked = d.corked /\ b.corkedReads = d.corkedReads /\ b.endPushed = d.endPushed
        /\ b.real = d.real /\ b.flowing = d.flowing /\ b.pendingWrites = d.pendingWrites
        /\ b.pendingEnd = d.pendingEnd /\ b.backpressured = FALSE
        /\ b.flushScheduled = d.flushScheduled /\ b.ticks = d.ticks
        /\ b.nativeClose = d.nativeClose /\ b.layers = d.layers
        /\ b.connecting = d.connecting /\ b.swapped = d.swapped /\ b.paused = d.paused
    BY <1>1, <2>1 DEF Connections
  <2>4. b.connecting = d.connecting /\ b.swapped = d.swapped /\ b.paused = d.paused
    BY <1>1, <2>1 DEF Connections
  <2>5. Written(c, b)
    BY <2>2, <2>3, <2>4, WrittenFlags
  <2>6. PICK s : s = d.pendingWrites
    OBVIOUS
  <2>7. Len(s) \in Nat
    BY <1>1, <2>6 DEF Connections
  <2>8. PICK f : FlushRun(f, b, s)
    BY <2>7, FlushSteps
  <2>9. PICK g : g = Iterate(FlushWrite, b, s)
    OBVIOUS
  <2>10. s = b.pendingWrites /\ ~b.backpressured
    BY <2>3, <2>6
  <2>11. Written(c, g) /\ (g.backpressured \/ g.pendingWrites = <<>>)
    BY <2>5, <2>8, <2>9, <2>10, WrittenRun
  <2>12. e = FlushEndLast(g)
    BY <1>3, <2>1, <2>6, <2>9 DEF FlushServer
  <2>13. QED
    BY <2>11, <2>12, WrittenEnd
<1>4. QED
  BY <1>2, <1>3

\* Its "connect".
LEMMA WrittenConnect ==
  ASSUME NEW c \in Connections(Chunk, Tick), ~c.destroyed, Sound(c), ~c.corked,
         NEW e, e = Connect(c)
  PROVE  Written(c, e)
<1>1. PICK d : d = [c EXCEPT !.connecting = FALSE, !.flushScheduled = FALSE]
  OBVIOUS
<1>2. d \in Connections(Chunk, Tick)
  BY <1>1 DEF Connections
<1>3. /\ d.heard = c.heard /\ d.buffer = c.buffer /\ d.eof = c.eof /\ d.ended = c.ended
      /\ d.destroyed = c.destroyed /\ d.closes = c.closes /\ d.sent = c.sent
      /\ d.corked = c.corked /\ d.corkedReads = c.corkedReads /\ d.endPushed = c.endPushed
      /\ d.real = c.real /\ d.flowing = c.flowing /\ d.pendingWrites = c.pendingWrites
      /\ d.pendingEnd = c.pendingEnd /\ d.backpressured = c.backpressured
      /\ d.flushScheduled = FALSE /\ d.ticks = c.ticks /\ d.nativeClose = c.nativeClose
      /\ d.layers = c.layers /\ d.connecting = FALSE /\ d.swapped = c.swapped
      /\ d.paused = c.paused
  BY <1>1 DEF Connections
<1>4. Written(c, d)
  BY <1>2, <1>3, WrittenItself, WrittenFlags
<1>5. e = IF c.flushScheduled THEN FlushServer(d) ELSE d
  BY <1>1 DEF Connect
<1>6. PICK f : f = FlushServer(d)
  OBVIOUS
<1>7. Written(c, f)
  BY <1>4, <1>6, ServerFlushes
<1>8. QED
  BY <1>4, <1>5, <1>6, <1>7

\* The consumer wants more.
LEMMA WrittenOnRead ==
  ASSUME NEW c \in Connections(Chunk, Tick), ~c.destroyed, Sound(c), ~c.corked,
         NEW e, e = OnRead(c)
  PROVE  Written(c, e)
<1>1. PICK d : d = [c EXCEPT !.paused = FALSE]
  OBVIOUS
<1>2. d \in Connections(Chunk, Tick)
  BY <1>1 DEF Connections
<1>3. /\ d.heard = c.heard /\ d.buffer = c.buffer /\ d.eof = c.eof /\ d.ended = c.ended
      /\ d.destroyed = c.destroyed /\ d.closes = c.closes /\ d.sent = c.sent
      /\ d.corked = c.corked /\ d.corkedReads = c.corkedReads /\ d.endPushed = c.endPushed
      /\ d.real = c.real /\ d.flowing = c.flowing /\ d.pendingWrites = c.pendingWrites
      /\ d.pendingEnd = c.pendingEnd /\ d.backpressured = c.backpressured
      /\ d.flushScheduled = c.flushScheduled /\ d.ticks = c.ticks
      /\ d.nativeClose = c.nativeClose /\ d.layers = c.layers /\ d.connecting = c.connecting
      /\ d.swapped = c.swapped /\ d.paused = FALSE
  BY <1>1 DEF Connections
<1>4. Written(c, d)
  BY <1>2, <1>3, WrittenItself, WrittenFlags
<1>5. PICK f : f = FlushServer(d)
  OBVIOUS
<1>6. e = f \/ e = d
  BY <1>1, <1>5 DEF OnRead
<1>7. Written(c, f)
  BY <1>4, <1>5, ServerFlushes
<1>8. QED
  BY <1>4, <1>6, <1>7

\* write() of the server socket.
LEMMA WrittenWrite ==
  ASSUME NEW c \in Connections(Chunk, Tick), ~c.destroyed, Sound(c), ~c.corked, ~c.eof,
         NEW x \in Chunk, NEW e, e = ServerWrite(c, x)
  PROVE  Written(c, e)
<1>1. PICK d : d = Emitted([c EXCEPT !.pendingWrites = Append(@, x)], x)
  OBVIOUS
<1>2. Written(c, c)
  BY WrittenItself
<1>3. Written(c, d)
  BY <1>1, <1>2, WrittenMore
<1>4. PICK f : f = FlushServer(d)
  OBVIOUS
<1>5. e = d \/ e = f
  BY <1>1, <1>4 DEF ServerWrite
<1>6. Written(c, f)
  BY <1>3, <1>4, ServerFlushes
<1>7. QED
  BY <1>3, <1>5, <1>6

\* end() of the server socket.
LEMMA WrittenByEnd ==
  ASSUME NEW c \in Connections(Chunk, Tick), ~c.destroyed, Sound(c), ~c.corked,
         NEW e, e = ServerEnd(c)
  PROVE  Written(c, e)
<1>1. PICK d : d = [c EXCEPT !.pendingEnd = TRUE]
  OBVIOUS
<1>2. d \in Connections(Chunk, Tick)
  BY <1>1 DEF Connections
<1>3. /\ d.heard = c.heard /\ d.buffer = c.buffer /\ d.eof = c.eof /\ d.ended = c.ended
      /\ d.destroyed = c.destroyed /\ d.closes = c.closes /\ d.sent = c.sent
      /\ d.corked = c.corked /\ d.corkedReads = c.corkedReads /\ d.endPushed = c.endPushed
      /\ d.real = c.real /\ d.flowing = c.flowing /\ d.pendingWrites = c.pendingWrites
      /\ d.pendingEnd = TRUE /\ d.backpressured = c.backpressured
      /\ d.flushScheduled = c.flushScheduled /\ d.ticks = c.ticks
      /\ d.nativeClose = c.nativeClose /\ d.layers = c.layers /\ d.connecting = c.connecting
      /\ d.swapped = c.swapped /\ d.paused = c.paused
  BY <1>1 DEF Connections
<1>4. Written(c, d)
  BY <1>2, <1>3, WrittenItself, WrittenFlags
<1>5. e = FlushServer(d)
  BY <1>1 DEF ServerEnd
<1>6. QED
  BY <1>4, <1>5, ServerFlushes

\* A client of another protocol that was handed more, or heard more of it.
Ahead(c, d) ==
  /\ d \in Connections(Chunk, Tick)
  /\ d.ended = c.ended /\ d.destroyed = c.destroyed /\ d.closes = c.closes
  /\ d.corked = c.corked /\ d.corkedReads = c.corkedReads /\ d.endPushed = c.endPushed
  /\ d.real = c.real /\ d.ticks = c.ticks /\ d.nativeClose = c.nativeClose
  /\ IsPrefix(c.heard, d.heard) /\ IsPrefix(c.sent, d.sent)
  /\ d.sent = Delivered(d) \o d.pendingWrites
  /\ d.eof => d.pendingWrites = <<>>
  /\ c.eof => d.eof
  /\ c.ended => d.heard = c.heard /\ d.buffer = c.buffer

\* By the server socket.
LEMMA WrittenAhead ==
  ASSUME NEW c, NEW d, Written(c, d), c.ended => c.eof
  PROVE  Ahead(c, d)
BY DEF Written, Ahead

\* Such a connection has no requests.
LEMMA OtherKeeps ==
  ASSUME IInv, SInv, protocol = "other", NEW c, Becomes(c),
         UNCHANGED <<inputVars, current, reached, answering>>, events' = events,
         \A r \in Request : stage'[r] = stage[r],
         "eof" \in ToSet(c.ticks) => "eof" \in ToSet(conn.ticks)
  PROVE  Reaching' /\ Mocking' /\ NoEvents' /\ conn' = c /\ "eof" \notin ToSet(c.ticks)
<1>1. /\ current = 0 /\ reached = <<>> /\ ~listening /\ events = {}
      /\ \A r \in Request : verdict[r] = "none" /\ stage[r] = "none"
  BY OtherHasNone
<1>2. Given(verdict') /\ NonePassed /\ conn' = c
  BY BecomesGives
<1>3. ~Tunnelled'
  <2>1. 1 \in Request
    BY BoundsAssumption DEF Request
  <2>2. QED
    BY <1>1, <1>2, <2>1 DEF Tunnelled, NonePassed
<1>4. "eof" \notin ToSet(conn.ticks)
  BY <1>1 DEF SInv, Mocking, MockOver
<1>5. Reaching'
  BY <1>1 DEF Reaching
<1>6. \A r \in Request : stage'[r] \notin Active
  BY <1>1 DEF Active
<1>7. Mocking'
  BY <1>2, <1>3, <1>4, <1>6 DEF Mocking
<1>8. NoEvents'
  BY <1>1 DEF NoEvents, inputVars
<1>9. QED
  BY <1>2, <1>4, <1>5, <1>7, <1>8

\* The step that hands it more.
LEMMA AheadStep ==
  ASSUME IInv, SInv, protocol = "other", Alive(conn), NEW c, Ahead(conn, c), Becomes(c),
         UNCHANGED <<inputVars, current, reached, answering>>, events' = events,
         \A r \in Request : stage'[r] = stage[r], readyState' = readyState,
         readyState # "CLAIMED" => NothingToWrite(c) /\ (c.eof => conn.eof)
  PROVE  SInv' /\ Promised(conn, conn')
<1>1. conn \in Connections(Chunk, Tick) /\ Closing(conn) /\ Sound(conn) /\ OtherAlive
  BY ConnTyped DEF SInv, AliveInv
<1>2. Reaching' /\ Mocking' /\ NoEvents' /\ conn' = c
  BY OtherKeeps DEF Ahead
<1>3. ~conn.corked
  BY <1>1 DEF OtherAlive
<1>4. /\ c \in Connections(Chunk, Tick) /\ Alive(c)
      /\ IsPrefix(conn.sent, c.sent) /\ IsPrefix(conn.heard, c.heard)
  BY DEF Ahead, Alive
<1>5. Closing(c)
  BY <1>1 DEF Closing, Ahead
<1>6. Sound(c)
  <2>1. c.corkedReads = <<>> /\ (c.real \in Over => c.endPushed)
    BY <1>1, <1>3, Uncorked DEF Ahead
  <2>2. /\ c.endPushed => c.eof /\ c.real \notin {"open", "none"}
        /\ c.endPushed /\ c.real = "connecting" =>
             "closeUnlessClosed" \in ToSet(c.ticks) /\ c.ended
        /\ c.real # "severed"
    BY <1>1 DEF Ahead, Sound
  <2>3. c.sent = Delivered(c) \o c.pendingWrites /\ (c.eof => c.pendingWrites = <<>>)
    BY DEF Ahead
  <2>4. QED
    BY <1>4, <2>1, <2>2, <2>3, SoundUncorked
<1>7. OtherAlive'
  BY <1>1, <1>2 DEF OtherAlive, Ahead
<1>8. SInv'
  BY <1>2, <1>5, <1>6, <1>7 DEF SInv, AliveInv, inputVars
<1>9. Promised(conn, c)
  <2>1. CASE ~conn.ended
    BY <1>1, <1>4, <1>6, <2>1, TransferPromised DEF Ahead
  <2>2. CASE conn.ended
    <3>1. c.heard = conn.heard /\ c.buffer = conn.buffer /\ conn.eof /\ c.eof
      BY <1>1, <2>2 DEF Ahead, Closing
    <3>2. Delivered(c) = Delivered(conn) /\ c.pendingWrites = <<>> /\ conn.pendingWrites = <<>>
      BY <1>1, <1>3, <3>1, Uncorked DEF Ahead, Delivered
    <3>3. c.sent = conn.sent
      BY <1>1, <1>3, <3>2, Uncorked DEF Ahead
    <3>4. QED
      BY <3>1, <3>3, StillPromised DEF Ahead
  <2>3. QED
    BY <2>1, <2>2 DEF Connections
<1>10. QED
  BY <1>2, <1>8, <1>9

\* The server socket writes.
LEMMA ServerSendsSound ==
  ASSUME IInv, SInv, ServerSends
  PROVE  SInv' /\ Promised(conn, conn')
<1>1. PICK x : x = NextChunk
  OBVIOUS
<1>2. PICK c : c = ServerWrite(conn, x)
  OBVIOUS
<1>3. protocol = "other" /\ readyState = "CLAIMED" /\ ~conn.eof /\ OnlyConn(c)
  BY <1>1, <1>2 DEF ServerSends
<1>4. x \in Chunk
  <2>1. Len(conn.sent) \in Nat /\ Len(conn.sent) < MaxChunks
    BY ConnTyped DEF ServerSends, Connections
  <2>2. Len(conn.sent) + 1 \in Index
    BY <2>1, BoundsAssumption DEF Index
  <2>3. QED
    BY <1>1, <2>2 DEF NextChunk, Part, Chunk
<1>5. conn \in Connections(Chunk, Tick) /\ conn \in After(conn, Chunk, Tick) /\ Closing(conn)
  BY ConnTyped DEF SInv
<1>6. /\ Becomes(c) /\ UNCHANGED <<inputVars, current, stage, reached, answering>>
      /\ events' = events
  BY <1>3, OnlyConnQuiet
<1>7. CASE Alive(conn)
  <2>1. Sound(conn) /\ ~conn.corked /\ ~conn.destroyed
    BY <1>3, <1>7 DEF SInv, AliveInv, OtherAlive, Alive
  <2>2. Written(conn, c)
    BY <1>2, <1>3, <1>4, <1>5, <2>1, WrittenWrite
  <2>3. Ahead(conn, c)
    BY <1>5, <2>2, WrittenAhead DEF Closing
  <2>4. readyState' = readyState
    BY <1>3 DEF OnlyConn, exchangeVars
  <2>5. QED
    BY <1>3, <1>6, <1>7, <2>3, <2>4, AheadStep
<1>8. CASE ~Alive(conn)
  <2>1. PICK d : d = [conn EXCEPT !.pendingWrites = Append(conn.pendingWrites, x)]
    OBVIOUS
  <2>2. PICK e : e = Emitted(d, x)
    OBVIOUS
  <2>3. conn.pendingWrites \in Seq(Chunk) /\ conn.sent \in Seq(Chunk)
    BY <1>5 DEF Connections
  <2>4. /\ Append(conn.pendingWrites, x) \in Seq(Chunk) /\ Append(conn.sent, x) \in Seq(Chunk)
        /\ IsPrefix(conn.sent, Append(conn.sent, x))
    BY <1>4, <2>3, PrefixOfAppend
  <2>5. e = [conn EXCEPT !.pendingWrites = Append(conn.pendingWrites, x),
                         !.sent = Append(conn.sent, x)]
    BY <1>5, <2>1, <2>2 DEF Emitted, Connections
  <2>6. e \in Connections(Chunk, Tick)
    BY <1>5, <2>4, <2>5 DEF Connections
  <2>7. /\ e.heard = conn.heard /\ e.buffer = conn.buffer /\ e.eof = conn.eof
        /\ e.ended = conn.ended /\ e.destroyed = conn.destroyed /\ e.closes = conn.closes
        /\ e.sent = Append(conn.sent, x) /\ e.corked = conn.corked
        /\ e.corkedReads = conn.corkedReads /\ e.endPushed = conn.endPushed
        /\ e.real = conn.real /\ e.flowing = conn.flowing
        /\ e.pendingWrites = Append(conn.pendingWrites, x) /\ e.pendingEnd = conn.pendingEnd
        /\ e.backpressured = conn.backpressured /\ e.flushScheduled = conn.flushScheduled
        /\ e.ticks = conn.ticks /\ e.nativeClose = conn.nativeClose
        /\ e.layers = conn.layers /\ e.connecting = conn.connecting
        /\ e.swapped = conn.swapped /\ e.paused = conn.paused
    BY <1>5, <2>5 DEF Connections
  <2>8. Closing(e) /\ ~Alive(e)
    BY <1>5, <1>8, <2>7 DEF Closing, Alive
  <2>9. e \in After(e, Chunk, Tick)
    BY <1>5, <2>6, <2>7 DEF After, Follows
  <2>10. e \in Lost(e)
    BY <2>8, <2>9, KeepsItself DEF Lost
  <2>11. PICK g : g = FlushServer(e)
    OBVIOUS
  <2>12. g \in Lost(e)
    BY <2>10, <2>11, FlushServerLost
  <2>13. c = e \/ c = g
    BY <1>2, <2>1, <2>2, <2>11 DEF ServerWrite
  <2>14. c \in Lost(e)
    BY <2>10, <2>12, <2>13
  <2>15. /\ c \in Connections(Chunk, Tick) /\ Closing(c) /\ ~Alive(c) /\ c.heard = e.heard
         /\ c.ended = e.ended /\ c.closes = e.closes /\ c.sent = e.sent
         /\ (e.destroyed => c.destroyed)
         /\ ("eof" \in ToSet(c.ticks) => "eof" \in ToSet(e.ticks))
    BY <2>14 DEF Lost, Keeping, Kept, After
  <2>16. Reaching' /\ Mocking' /\ NoEvents' /\ conn' = c
    BY <1>3, <1>6, <2>7, <2>15, OtherKeeps
  <2>17. QED
    BY <2>4, <2>7, <2>15, <2>16, SendingStep
<1>9. QED
  BY <1>7, <1>8

\* It ends.
LEMMA ServerEndsSound ==
  ASSUME IInv, SInv, ServerEnds
  PROVE  SInv' /\ Promised(conn, conn')
<1>1. PICK c : c = ServerEnd(conn)
  OBVIOUS
<1>2. protocol = "other" /\ readyState = "CLAIMED" /\ OnlyConn(c)
  BY <1>1 DEF ServerEnds
<1>3. conn \in Connections(Chunk, Tick) /\ conn \in After(conn, Chunk, Tick) /\ Closing(conn)
  BY ConnTyped DEF SInv
<1>4. /\ Becomes(c) /\ UNCHANGED <<inputVars, current, stage, reached, answering>>
      /\ events' = events
  BY <1>2, OnlyConnQuiet
<1>5. CASE Alive(conn)
  <2>1. Sound(conn) /\ ~conn.corked /\ ~conn.destroyed
    BY <1>2, <1>5 DEF SInv, AliveInv, OtherAlive, Alive
  <2>2. Written(conn, c)
    BY <1>1, <1>3, <2>1, WrittenByEnd
  <2>3. Ahead(conn, c)
    BY <1>3, <2>2, WrittenAhead DEF Closing
  <2>4. readyState' = readyState
    BY <1>2 DEF OnlyConn, exchangeVars
  <2>5. QED
    BY <1>2, <1>4, <1>5, <2>3, <2>4, AheadStep
<1>6. CASE ~Alive(conn)
  <2>1. PICK e : e = [conn EXCEPT !.pendingEnd = TRUE]
    OBVIOUS
  <2>2. e \in Connections(Chunk, Tick)
    BY <1>3, <2>1 DEF Connections
  <2>3. /\ e.heard = conn.heard /\ e.buffer = conn.buffer /\ e.eof = conn.eof
        /\ e.ended = conn.ended /\ e.destroyed = conn.destroyed /\ e.closes = conn.closes
        /\ e.sent = conn.sent /\ e.corked = conn.corked /\ e.corkedReads = conn.corkedReads
        /\ e.endPushed = conn.endPushed /\ e.real = conn.real /\ e.flowing = conn.flowing
        /\ e.pendingWrites = conn.pendingWrites /\ e.pendingEnd = TRUE
        /\ e.backpressured = conn.backpressured /\ e.flushScheduled = conn.flushScheduled
        /\ e.ticks = conn.ticks /\ e.nativeClose = conn.nativeClose
        /\ e.layers = conn.layers /\ e.connecting = conn.connecting
        /\ e.swapped = conn.swapped /\ e.paused = conn.paused
    BY <1>3, <2>1 DEF Connections
  <2>4. e \in After(conn, Chunk, Tick)
    BY <1>3, <2>2, <2>3 DEF After, Follows
  <2>5. conn \in Lost(conn)
    BY <1>3, <1>6, KeepsItself DEF Lost
  <2>6. e \in Lost(conn)
    BY <1>3, <2>3, <2>4, <2>5, ChangeLost DEF Closing
  <2>7. c = FlushServer(e)
    BY <1>1, <2>1 DEF ServerEnd
  <2>8. c \in Lost(conn)
    BY <2>6, <2>7, FlushServerLost
  <2>9. QED
    BY <1>2, <2>8, LostStep
<1>7. QED
  BY <1>5, <1>6

\* A quiet step after which the client is lost.
LEMMA LostBecomes ==
  ASSUME IInv, SInv, NEW c \in Lost(conn), Becomes(c),
         UNCHANGED <<inputVars, current, reached, answering>>, events' = events,
         \A r \in Request : stage'[r] \in Active => stage[r] \in Active
  PROVE  SInv' /\ Promised(conn, conn')
<1>1. Given(verdict') /\ NonePassed /\ conn' = c
  BY BecomesGives
<1>2. conn \in Connections(Chunk, Tick)
  BY ConnTyped
<1>3. /\ c \in Connections(Chunk, Tick) /\ Closing(c) /\ ~Alive(c) /\ c.heard = conn.heard
      /\ c.ended = conn.ended /\ c.closes = conn.closes /\ c.sent = conn.sent
      /\ (conn.destroyed => c.destroyed)
      /\ ("eof" \in ToSet(c.ticks) => "eof" \in ToSet(conn.ticks))
  BY DEF Lost, Keeping, Kept, After
<1>4. \A r \in Nat : (Sent(r, "head")' => Sent(r, "head")) /\ (Sent(r, "fin")' => Sent(r, "fin"))
  BY <1>1, <1>3 DEF Sent
<1>5. Quiet
  BY <1>1, <1>3, <1>4 DEF Quiet
<1>6. Reaching' /\ Mocking' /\ NoEvents'
  BY <1>1, <1>5, QuietKeeps
<1>7. IsPrefix(conn.sent, c.sent)
  <2>1. conn.sent \in Seq(Chunk)
    BY <1>2 DEF Connections
  <2>2. QED
    BY <1>3, <2>1, PrefixOfItself
<1>8. QED
  BY <1>1, <1>2, <1>3, <1>6, <1>7, SendingStep

\* "connect" of a client that is lost.
LEMMA ConnectLost ==
  ASSUME NEW c \in Connections(Chunk, Tick), c \in After(c, Chunk, Tick), Closing(c), ~Alive(c),
         NEW d, d = Connect(c)
  PROVE  d \in Lost(c)
<1>1. PICK e : e = [c EXCEPT !.connecting = FALSE, !.flushScheduled = FALSE]
  OBVIOUS
<1>2. e \in Connections(Chunk, Tick)
  BY <1>1 DEF Connections
<1>3. /\ e.heard = c.heard /\ e.buffer = c.buffer /\ e.eof = c.eof /\ e.ended = c.ended
      /\ e.destroyed = c.destroyed /\ e.closes = c.closes /\ e.sent = c.sent
      /\ e.corked = c.corked /\ e.corkedReads = c.corkedReads /\ e.endPushed = c.endPushed
      /\ e.real = c.real /\ e.flowing = c.flowing /\ e.pendingWrites = c.pendingWrites
      /\ e.pendingEnd = c.pendingEnd /\ e.backpressured = c.backpressured
      /\ e.flushScheduled = FALSE /\ e.ticks = c.ticks /\ e.nativeClose = c.nativeClose
      /\ e.layers = c.layers /\ e.connecting = FALSE /\ e.swapped = c.swapped
      /\ e.paused = c.paused
  BY <1>1 DEF Connections
<1>4. e \in After(c, Chunk, Tick)
  BY <1>2, <1>3 DEF After, Follows
<1>5. c \in Lost(c)
  BY KeepsItself DEF Lost
<1>6. e \in Lost(c)
  BY <1>3, <1>4, <1>5, ChangeLost DEF Closing
<1>7. PICK f : f = FlushServer(e)
  OBVIOUS
<1>8. f \in Lost(c)
  BY <1>6, <1>7, FlushServerLost
<1>9. d = f \/ d = e
  BY <1>1, <1>7 DEF Connect
<1>10. QED
  BY <1>6, <1>8, <1>9

\* "connect" of a client to which the server socket has nothing to write.
LEMMA ConnectSame ==
  ASSUME NEW c \in Connections(Chunk, Tick), NothingToWrite(c), NEW d, d = Connect(c)
  PROVE  /\ d \in Connections(Chunk, Tick) /\ Same(c, d) /\ NothingToWrite(d)
         /\ d.ticks = c.ticks /\ d.nativeClose = c.nativeClose /\ d.layers = c.layers
         /\ d = [c EXCEPT !.connecting = FALSE, !.flushScheduled = FALSE]
<1>1. d = [c EXCEPT !.connecting = FALSE, !.flushScheduled = FALSE]
  BY DEF Connect, NothingToWrite
<1>2. d \in Connections(Chunk, Tick)
  BY <1>1 DEF Connections
<1>3. /\ d.heard = c.heard /\ d.buffer = c.buffer /\ d.eof = c.eof /\ d.ended = c.ended
      /\ d.destroyed = c.destroyed /\ d.closes = c.closes /\ d.sent = c.sent
      /\ d.corked = c.corked /\ d.corkedReads = c.corkedReads /\ d.endPushed = c.endPushed
      /\ d.real = c.real /\ d.flowing = c.flowing /\ d.pendingWrites = c.pendingWrites
      /\ d.pendingEnd = c.pendingEnd /\ d.backpressured = c.backpressured
      /\ d.flushScheduled = FALSE /\ d.ticks = c.ticks /\ d.nativeClose = c.nativeClose
      /\ d.layers = c.layers /\ d.connecting = FALSE /\ d.swapped = c.swapped
      /\ d.paused = c.paused
  BY <1>1 DEF Connections
<1>4. Same(c, d)
  <2>1. c.flushScheduled = FALSE
    BY DEF NothingToWrite, Connections
  <2>2. QED
    BY <1>3, <2>1 DEF Same
<1>5. NothingToWrite(d)
  BY <1>3 DEF NothingToWrite
<1>6. QED
  BY <1>1, <1>2, <1>3, <1>4, <1>5

\* The override of _destroy() changes nothing for a client that is lost.
LEMMA OverrideLost ==
  ASSUME NEW c, NEW d \in Lost(c), NEW e, e = Override(d)
  PROVE  e \in Lost(c)
<1>1. d \in Connections(Chunk, Tick) /\ d \in After(c, Chunk, Tick) /\ Closing(d)
  BY DEF Lost, Keeping, After
<1>2. CASE d.destroyed
  BY <1>2 DEF Override
<1>3. CASE ~d.destroyed
  <2>1. e = [d EXCEPT !.layers = {"mock"}]
    BY <1>3 DEF Override
  <2>2. e \in Connections(Chunk, Tick)
    BY <1>1, <2>1 DEF Connections
  <2>3. /\ e.heard = d.heard /\ e.buffer = d.buffer /\ e.eof = d.eof /\ e.ended = d.ended
        /\ e.destroyed = d.destroyed /\ e.closes = d.closes /\ e.sent = d.sent
        /\ e.corked = d.corked /\ e.corkedReads = d.corkedReads /\ e.endPushed = d.endPushed
        /\ e.real = d.real /\ e.flowing = d.flowing /\ e.pendingWrites = d.pendingWrites
        /\ e.pendingEnd = d.pendingEnd /\ e.backpressured = d.backpressured
        /\ e.flushScheduled = d.flushScheduled /\ e.ticks = d.ticks
        /\ e.nativeClose = d.nativeClose /\ e.layers = {"mock"}
        /\ e.connecting = d.connecting /\ e.swapped = d.swapped /\ e.paused = d.paused
    BY <1>1, <2>1 DEF Connections
  <2>4. e \in After(c, Chunk, Tick)
    BY <1>1, <2>2, <2>3 DEF After, Follows
  <2>5. QED
    BY <1>1, <2>3, <2>4, ChangeLost DEF Closing
<1>4. QED
  BY <1>2, <1>3

\* What is claimed is connected: the responses that wait for it go on.
LEMMA ClaimCompletesSound ==
  ASSUME IInv, SInv, ClaimCompletes
  PROVE  SInv' /\ Promised(conn, conn')
<1>1. /\ conn \in Connections(Chunk, Tick) /\ conn \in After(conn, Chunk, Tick)
      /\ Closing(conn)
  BY ConnTyped DEF SInv
<1>2. PICK c : c = Connect(conn)
  OBVIOUS
<1>3. PICK waiting, refused : waiting = {r \in Request : stage[r] = "connecting"}
                              /\ refused = {r \in Request : stage[r] = "refused"}
  OBVIOUS
<1>4. PICK d, o : d = Destroy(c) /\ o = Override(c)
  OBVIOUS
<1>5. /\ UNCHANGED <<inputVars, current, reached, answering>> /\ events' = events
      /\ readyState' = readyState
  BY DEF ClaimCompletes, realVars, eventVars
<1>6. CASE conn.destroyed
  <2>1. Becomes(conn) /\ UNCHANGED stage
    BY <1>6 DEF ClaimCompletes
  <2>2. ~Alive(conn) /\ conn \in Lost(conn)
    BY <1>1, <1>6, KeepsItself DEF Lost, Alive
  <2>3. QED
    BY <1>5, <2>1, <2>2, LostBecomes
<1>7. CASE ~conn.destroyed
  <2>1. /\ Becomes(IF refused # {} THEN d ELSE IF waiting # {} THEN o ELSE c)
        /\ stage' = [r \in Request |->
                       CASE r \in waiting -> "streaming"
                         [] r \in refused -> "done"
                         [] OTHER -> stage[r]]
    BY <1>2, <1>3, <1>4, <1>7 DEF ClaimCompletes
  <2>2. \A r \in Request : /\ r \in waiting => stage'[r] = "streaming" /\ stage[r] = "connecting"
                           /\ r \in refused => r \in waiting \/ stage'[r] = "done"
                           /\ r \notin waiting /\ r \notin refused => stage'[r] = stage[r]
    BY <1>3, <2>1
  <2>3. \A r \in Request : stage'[r] \in Active => stage[r] \in Active
    BY <1>3, <2>2 DEF Active
  <2>4. CASE ~Alive(conn)
    <3>1. c \in Lost(conn)
      BY <1>1, <1>2, <2>4, ConnectLost
    <3>2. d \in Lost(conn)
      BY <1>4, <3>1, DestroyKeeps DEF Lost, Alive
    <3>3. o \in Lost(conn)
      BY <1>4, <3>1, OverrideLost
    <3>4. PICK e : e = IF refused # {} THEN d ELSE IF waiting # {} THEN o ELSE c
      OBVIOUS
    <3>5. e \in Lost(conn)
      BY <3>1, <3>2, <3>3, <3>4
    <3>6. QED
      BY <1>5, <2>1, <2>3, <3>4, <3>5, LostBecomes
  <2>5. CASE Alive(conn) /\ protocol = "http"
    <3>1. NothingToWrite(conn)
      BY <2>5 DEF SInv, AliveInv, HttpAlive
    <3>2. /\ c \in Connections(Chunk, Tick) /\ Same(conn, c)
          /\ c.ticks = conn.ticks /\ c.nativeClose = conn.nativeClose
          /\ c.layers = conn.layers
      BY <1>1, <1>2, <3>1, ConnectSame
    <3>3. Closing(c)
      BY <1>1, <3>2 DEF Closing, Same
    <3>4. CASE refused # {}
      <4>1. c = [conn EXCEPT !.connecting = FALSE, !.flushScheduled = FALSE]
        BY <1>1, <1>2, <3>1, ConnectSame
      <4>2. c.connecting = FALSE /\ c.swapped = conn.swapped /\ c.paused = conn.paused
        BY <1>1, <4>1 DEF Connections
      <4>3. c \in After(conn, Chunk, Tick)
        BY <1>1, <3>2, <4>2 DEF After, Follows, Same
      <4>4. conn \in Keeping(conn)
        BY <1>1, KeepsItself
      <4>5. c \in Keeping(conn)
        BY <1>1, <3>2, <3>3, <4>3, <4>4, ChangeKeeps DEF Same, Closing
      <4>6. d \in Lost(conn)
        BY <1>4, <4>5, DestroyKeeps DEF Lost, Alive
      <4>7. Becomes(d)
        BY <2>1, <3>4
      <4>8. QED
        BY <1>5, <2>3, <4>6, <4>7, LostBecomes
    <3>5. CASE refused = {} /\ waiting # {}
      <4>1. PICK r \in Request : stage[r] = "connecting"
        BY <1>3, <3>5
      <4>2. current = r /\ verdict[r] = "mock"
        BY <4>1, StagedFacts DEF Active
      <4>3. Same(c, o) /\ Closing(o) /\ o.ticks = c.ticks
        BY <1>4, <3>2, <3>3, OverrideSame
      <4>4. Same(conn, o)
        BY <3>2, <4>3 DEF Same
      <4>5. Becomes(o)
        BY <2>1, <3>5
      <4>6. QED
        BY <1>5, <2>3, <2>5, <3>2, <4>2, <4>3, <4>4, <4>5, SameStep
    <3>6. CASE refused = {} /\ waiting = {}
      <4>1. Becomes(c)
        BY <2>1, <3>6
      <4>2. QED
        BY <1>5, <2>3, <2>5, <3>2, <3>3, <4>1, SameStep
    <3>7. QED
      BY <3>4, <3>5, <3>6
  <2>6. CASE Alive(conn) /\ protocol = "other"
    <3>1. \A r \in Request : stage[r] = "none"
      BY <2>6, OtherHasNone
    <3>2. refused = {} /\ waiting = {}
      BY <1>3, <3>1
    <3>3. Becomes(c) /\ \A r \in Request : stage'[r] = stage[r]
      BY <2>1, <2>2, <3>2
    <3>4. Sound(conn) /\ OtherAlive /\ ~conn.corked
      BY <2>6 DEF SInv, AliveInv, OtherAlive
    <3>5. Written(conn, c)
      BY <1>1, <1>2, <1>7, <3>4, WrittenConnect
    <3>6. Ahead(conn, c)
      BY <1>1, <3>5, WrittenAhead DEF Closing
    <3>7. readyState # "CLAIMED" => NothingToWrite(c) /\ (c.eof => conn.eof)
      <4>1. SUFFICES ASSUME readyState # "CLAIMED" PROVE NothingToWrite(c) /\ c.eof = conn.eof
        OBVIOUS
      <4>2. NothingToWrite(conn)
        BY <3>4, <4>1 DEF OtherAlive
      <4>3. Same(conn, c) /\ NothingToWrite(c)
        BY <1>1, <1>2, <4>2, ConnectSame
      <4>4. QED
        BY <4>3 DEF Same
    <3>8. QED
      BY <1>5, <2>6, <3>3, <3>6, <3>7, AheadStep
  <2>7. protocol = "http" \/ protocol = "other"
    BY DEF IInv, Types
  <2>8. QED
    BY <2>4, <2>5, <2>6, <2>7
<1>8. QED
  BY <1>6, <1>7

\* A chunk is moved from the buffer to what is heard.
Moved(d, e) ==
  /\ e \in Connections(Chunk, Tick)
  /\ /\ e.eof = d.eof /\ e.ended = d.ended /\ e.destroyed = d.destroyed
     /\ e.closes = d.closes /\ e.sent = d.sent /\ e.corked = d.corked
     /\ e.corkedReads = d.corkedReads /\ e.endPushed = d.endPushed /\ e.real = d.real
     /\ e.flowing = d.flowing /\ e.pendingWrites = d.pendingWrites
     /\ e.pendingEnd = d.pendingEnd /\ e.backpressured = d.backpressured
     /\ e.flushScheduled = d.flushScheduled /\ e.ticks = d.ticks
     /\ e.nativeClose = d.nativeClose /\ e.layers = d.layers /\ e.connecting = d.connecting
     /\ e.swapped = d.swapped /\ e.paused = d.paused
  /\ Delivered(e) = Delivered(d)
  /\ IsPrefix(d.heard, e.heard)

\* That is what reading one does.
LEMMA MoveMoves ==
  ASSUME NEW d \in Connections(Chunk, Tick), d.buffer # <<>>,
         NEW e, e = [d EXCEPT !.heard = Append(@, Head(d.buffer)), !.buffer = Tail(@)]
  PROVE  Moved(d, e)
<1>1. PICK h, b, x : h = d.heard /\ b = d.buffer /\ x = Head(d.buffer)
  OBVIOUS
<1>2. h \in Seq(Chunk) /\ b \in Seq(Chunk) /\ b # <<>> /\ x = Head(b)
  BY <1>1 DEF Connections
<1>3. x \in Chunk /\ Tail(b) \in Seq(Chunk)
  BY <1>2
<1>4. Append(h, x) \in Seq(Chunk) /\ IsPrefix(h, Append(h, x))
  BY <1>2, <1>3, PrefixOfAppend
<1>5. e = [d EXCEPT !.heard = Append(h, x), !.buffer = Tail(b)]
  BY <1>1
<1>6. e \in Connections(Chunk, Tick)
  BY <1>3, <1>4, <1>5 DEF Connections
<1>7. /\ e.heard = Append(h, x) /\ e.buffer = Tail(b) /\ e.eof = d.eof /\ e.ended = d.ended
      /\ e.destroyed = d.destroyed /\ e.closes = d.closes /\ e.sent = d.sent
      /\ e.corked = d.corked /\ e.corkedReads = d.corkedReads /\ e.endPushed = d.endPushed
      /\ e.real = d.real /\ e.flowing = d.flowing /\ e.pendingWrites = d.pendingWrites
      /\ e.pendingEnd = d.pendingEnd /\ e.backpressured = d.backpressured
      /\ e.flushScheduled = d.flushScheduled /\ e.ticks = d.ticks
      /\ e.nativeClose = d.nativeClose /\ e.layers = d.layers /\ e.connecting = d.connecting
      /\ e.swapped = d.swapped /\ e.paused = d.paused
  BY <1>5 DEF Connections
<1>8. Append(h, x) \o Tail(b) = h \o b
  BY <1>2, MoveHead
<1>9. Delivered(e) = Delivered(d)
  BY <1>1, <1>7, <1>8 DEF Delivered
<1>10. QED
  BY <1>1, <1>4, <1>6, <1>7, <1>9 DEF Moved

\* The same, but for what is asked of the real connection.
ReadOn(c, d) ==
  /\ d \in Connections(Chunk, Tick)
  /\ /\ d.eof = c.eof /\ d.ended = c.ended /\ d.destroyed = c.destroyed
     /\ d.closes = c.closes /\ d.sent = c.sent /\ d.corked = c.corked
     /\ d.corkedReads = c.corkedReads /\ d.endPushed = c.endPushed /\ d.real = c.real
     /\ d.flowing = c.flowing /\ d.pendingWrites = c.pendingWrites
     /\ d.pendingEnd = c.pendingEnd /\ d.backpressured = c.backpressured
     /\ d.flushScheduled = c.flushScheduled /\ d.ticks = c.ticks
     /\ d.nativeClose = c.nativeClose /\ d.layers = c.layers /\ d.connecting = c.connecting
     /\ d.swapped = c.swapped
  /\ Delivered(d) = Delivered(c) /\ IsPrefix(c.heard, d.heard)

\* A chunk that the consumer of an HTTP connection reads is handed over.
LEMMA HttpReads ==
  ASSUME IInv, SInv, ConsumerReads, protocol = "http"
  PROVE  \E c : ReadOn(conn, c) /\ OnlyConn(c) /\ conn.flowing
<1>1. /\ conn \in Connections(Chunk, Tick) /\ Closing(conn)
  BY ConnTyped DEF SInv
<1>2. ~conn.ended /\ Alive(conn)
  BY <1>1 DEF ConsumerReads, Closing, Alive, Connections
<1>3. Sound(conn) /\ HttpAlive
  BY <1>2 DEF SInv, AliveInv
<1>4. NothingToWrite(conn)
  BY <1>3 DEF HttpAlive
<1>5. PICK d : d = IF Len(conn.buffer) - 1 < HighWaterMark /\ ~conn.eof THEN OnRead(conn) ELSE conn
  OBVIOUS
<1>6. PICK p : p = d.paused
  OBVIOUS
<1>7. d = [conn EXCEPT !.paused = p] /\ p \in BOOLEAN
  <2>1. PICK q : q = [conn EXCEPT !.paused = FALSE]
    OBVIOUS
  <2>2. /\ q.heard = conn.heard /\ q.buffer = conn.buffer /\ q.eof = conn.eof
        /\ q.ended = conn.ended /\ q.destroyed = conn.destroyed /\ q.closes = conn.closes
        /\ q.sent = conn.sent /\ q.corked = conn.corked /\ q.corkedReads = conn.corkedReads
        /\ q.endPushed = conn.endPushed /\ q.real = conn.real /\ q.flowing = conn.flowing
        /\ q.pendingWrites = conn.pendingWrites /\ q.pendingEnd = conn.pendingEnd
        /\ q.backpressured = conn.backpressured /\ q.flushScheduled = conn.flushScheduled
        /\ q.ticks = conn.ticks /\ q.nativeClose = conn.nativeClose
        /\ q.layers = conn.layers /\ q.connecting = conn.connecting
        /\ q.swapped = conn.swapped /\ q.paused = FALSE
    BY <1>1, <2>1 DEF Connections
  <2>3. ~ServerWaits(q)
    BY <1>4, <2>2 DEF ServerWaits, NothingToWrite
  <2>4. OnRead(conn) = q
    BY <2>1, <2>3 DEF OnRead
  <2>5. d = q \/ d = conn
    BY <1>5, <2>4
  <2>6. CASE d = q
    BY <1>6, <2>1, <2>2, <2>6
  <2>7. CASE d = conn
    BY <1>1, <1>6, <2>7 DEF Connections
  <2>8. QED
    BY <2>5, <2>6, <2>7
<1>8. d \in Connections(Chunk, Tick)
  BY <1>1, <1>7 DEF Connections
<1>9. /\ d.heard = conn.heard /\ d.buffer = conn.buffer /\ d.eof = conn.eof
      /\ d.ended = conn.ended /\ d.destroyed = conn.destroyed /\ d.closes = conn.closes
      /\ d.sent = conn.sent /\ d.corked = conn.corked /\ d.corkedReads = conn.corkedReads
      /\ d.endPushed = conn.endPushed /\ d.real = conn.real /\ d.flowing = conn.flowing
      /\ d.pendingWrites = conn.pendingWrites /\ d.pendingEnd = conn.pendingEnd
      /\ d.backpressured = conn.backpressured /\ d.flushScheduled = conn.flushScheduled
      /\ d.ticks = conn.ticks /\ d.nativeClose = conn.nativeClose /\ d.layers = conn.layers
      /\ d.connecting = conn.connecting /\ d.swapped = conn.swapped /\ d.paused = p
  BY <1>1, <1>7 DEF Connections
<1>10. PICK c : c = [d EXCEPT !.heard = Append(@, Head(d.buffer)), !.buffer = Tail(@)]
  OBVIOUS
<1>11. Moved(d, c)
  BY <1>8, <1>9, <1>10, MoveMoves DEF ConsumerReads
<1>12. /\ /\ c.eof = conn.eof /\ c.ended = conn.ended /\ c.destroyed = conn.destroyed
          /\ c.closes = conn.closes /\ c.sent = conn.sent /\ c.corked = conn.corked
          /\ c.corkedReads = conn.corkedReads /\ c.endPushed = conn.endPushed
          /\ c.real = conn.real /\ c.flowing = conn.flowing
          /\ c.pendingWrites = conn.pendingWrites /\ c.pendingEnd = conn.pendingEnd
          /\ c.backpressured = conn.backpressured /\ c.flushScheduled = conn.flushScheduled
          /\ c.ticks = conn.ticks /\ c.nativeClose = conn.nativeClose
          /\ c.layers = conn.layers /\ c.connecting = conn.connecting
          /\ c.swapped = conn.swapped /\ c.paused = p
       /\ c \in Connections(Chunk, Tick) /\ IsPrefix(conn.heard, c.heard)
  BY <1>9, <1>11 DEF Moved
<1>13. Delivered(d) = Delivered(conn)
  BY <1>9 DEF Delivered
<1>14. Delivered(c) = Delivered(conn)
  BY <1>11, <1>13 DEF Moved
<1>15. OnlyConn(c) /\ conn.flowing
  BY <1>5, <1>10 DEF ConsumerReads, ReadChunk
<1>16. ReadOn(conn, c)
  BY <1>12, <1>14 DEF ReadOn
<1>17. QED
  BY <1>15, <1>16

\* The consumer reads on: of an HTTP client.
LEMMA HttpReadSound ==
  ASSUME IInv, SInv, ConsumerReads, protocol = "http"
  PROVE  SInv' /\ Promised(conn, conn')
<1>1. /\ conn \in Connections(Chunk, Tick) /\ Closing(conn)
  BY ConnTyped DEF SInv
<1>2. ~conn.ended /\ Alive(conn)
  BY <1>1 DEF ConsumerReads, Closing, Alive, Connections
<1>3. Sound(conn) /\ HttpAlive
  BY <1>2 DEF SInv, AliveInv
<1>4. NothingToWrite(conn)
  BY <1>3 DEF HttpAlive
<1>5. PICK c : ReadOn(conn, c) /\ OnlyConn(c) /\ conn.flowing
  BY HttpReads
<1>6. /\ /\ c.eof = conn.eof /\ c.ended = conn.ended /\ c.destroyed = conn.destroyed
         /\ c.closes = conn.closes /\ c.sent = conn.sent /\ c.corked = conn.corked
         /\ c.corkedReads = conn.corkedReads /\ c.endPushed = conn.endPushed
         /\ c.real = conn.real /\ c.flowing = conn.flowing
         /\ c.pendingWrites = conn.pendingWrites /\ c.pendingEnd = conn.pendingEnd
         /\ c.backpressured = conn.backpressured /\ c.flushScheduled = conn.flushScheduled
         /\ c.ticks = conn.ticks /\ c.nativeClose = conn.nativeClose
         /\ c.layers = conn.layers /\ c.connecting = conn.connecting
         /\ c.swapped = conn.swapped
       /\ c \in Connections(Chunk, Tick) /\ IsPrefix(conn.heard, c.heard)
  BY <1>5 DEF ReadOn
<1>7. Delivered(c) = Delivered(conn)
  BY <1>5 DEF ReadOn
<1>8. conn.flowing
  BY <1>5
<1>9. /\ Becomes(c) /\ UNCHANGED <<inputVars, current, stage, reached, answering>>
       /\ events' = events
  BY <1>5, OnlyConnQuiet
<1>10. conn' = c /\ verdict' = verdict
  <2>1. ~c.destroyed
    BY <1>2, <1>6 DEF Alive
  <2>2. QED
    BY <1>9, <2>1, BecomesGives
<1>11. Closing(c) /\ Alive(c) /\ NothingToWrite(c)
  BY <1>1, <1>2, <1>4, <1>6 DEF Closing, Alive, NothingToWrite
<1>12. Sound(c)
  <2>1. PICK D \in Seq(Chunk), E \in Seq({EndRead, CloseRead}) : InLine(conn, D, E)
    BY <1>3 DEF Sound
  <2>2. InLine(c, D, E)
    BY <1>6, <1>7, <2>1 DEF InLine
  <2>3. QED
    BY <1>3, <1>6, <2>2 DEF Sound
<1>13. HttpAlive'
  <2>1. /\ conn'.sent = conn.sent /\ NothingToWrite(conn')
        /\ conn'.corked = conn.corked /\ Delivered(conn') = Delivered(conn)
        /\ conn'.eof = conn.eof /\ conn'.endPushed = conn.endPushed /\ conn'.flowing
        /\ conn'.real = conn.real /\ conn'.layers = conn.layers /\ conn'.ended = conn.ended
        /\ conn'.ticks = conn.ticks
    BY <1>6, <1>7, <1>8, <1>10, <1>11
  <2>2. UNCHANGED <<inputVars, current, stage, verdict>>
    BY <1>9, <1>10
  <2>3. QED
    BY <1>3, <2>1, <2>2, HttpKept
<1>14. SInv'
  BY <1>6, <1>9, <1>11, <1>12, <1>13, QuietStep
<1>15. Promised(conn, c)
  <2>1. conn.sent \in Seq(Chunk)
    BY <1>1 DEF Connections
  <2>2. IsPrefix(conn.sent, c.sent)
    BY <1>6, <2>1, PrefixOfItself
  <2>3. QED
    BY <1>1, <1>2, <1>6, <1>11, <1>12, <2>2, TransferPromised
<1>16. QED
  BY <1>10, <1>14, <1>15

\* Of another one, where the server socket may have more to write.
LEMMA OtherReadSound ==
  ASSUME IInv, SInv, ConsumerReads, protocol = "other"
  PROVE  SInv' /\ Promised(conn, conn')
<1>1. /\ conn \in Connections(Chunk, Tick) /\ Closing(conn)
  BY ConnTyped DEF SInv
<1>2. ~conn.ended /\ Alive(conn) /\ ~conn.destroyed
  BY <1>1 DEF ConsumerReads, Closing, Alive, Connections
<1>3. Sound(conn) /\ OtherAlive /\ ~conn.corked
  BY <1>2 DEF SInv, AliveInv, OtherAlive
<1>4. PICK d : d = IF Len(conn.buffer) - 1 < HighWaterMark /\ ~conn.eof THEN OnRead(conn) ELSE conn
  OBVIOUS
<1>5. Written(conn, d)
  <2>1. PICK e : e = OnRead(conn)
    OBVIOUS
  <2>2. Written(conn, e)
    BY <1>1, <1>2, <1>3, <2>1, WrittenOnRead
  <2>3. Written(conn, conn)
    BY <1>1, <1>3, WrittenItself
  <2>4. d = e \/ d = conn
    BY <1>4, <2>1
  <2>5. QED
    BY <2>2, <2>3, <2>4
<1>6. d \in Connections(Chunk, Tick) /\ d.buffer # <<>>
  BY <1>5 DEF Written, ConsumerReads
<1>7. PICK c : c = [d EXCEPT !.heard = Append(@, Head(d.buffer)), !.buffer = Tail(@)]
  OBVIOUS
<1>8. Moved(d, c)
  BY <1>6, <1>7, MoveMoves
<1>9. Ahead(conn, d)
  BY <1>1, <1>5, WrittenAhead DEF Closing
<1>10. IsPrefix(conn.heard, c.heard)
  <2>1. PICK S, s, t, u : S = Chunk /\ s = conn.heard /\ t = d.heard /\ u = c.heard
    OBVIOUS
  <2>2. s \in Seq(S) /\ t \in Seq(S) /\ u \in Seq(S) /\ IsPrefix(s, t) /\ IsPrefix(t, u)
    BY <1>1, <1>6, <1>8, <1>9, <2>1 DEF Ahead, Moved, Connections
  <2>3. IsPrefix(s, u)
    BY ONLY <2>2 DEF IsPrefix
  <2>4. QED
    BY <2>1, <2>3
<1>11. Ahead(conn, c)
  BY <1>2, <1>8, <1>9, <1>10 DEF Ahead, Moved
<1>12. OnlyConn(c)
  BY <1>4, <1>7 DEF ConsumerReads, ReadChunk
<1>13. /\ Becomes(c) /\ UNCHANGED <<inputVars, current, stage, reached, answering>>
       /\ events' = events
  BY <1>12, OnlyConnQuiet
<1>14. readyState' = readyState
  BY <1>12 DEF OnlyConn, exchangeVars
<1>15. readyState # "CLAIMED" => NothingToWrite(c) /\ (c.eof => conn.eof)
  <2>1. SUFFICES ASSUME readyState # "CLAIMED"
                 PROVE  NothingToWrite(c) /\ (c.eof => conn.eof)
    OBVIOUS
  <2>2. NothingToWrite(conn)
    BY <1>3, <2>1 DEF OtherAlive
  <2>3. PICK q : q = [conn EXCEPT !.paused = FALSE]
    OBVIOUS
  <2>4. /\ q.heard = conn.heard /\ q.buffer = conn.buffer /\ q.eof = conn.eof
        /\ q.ended = conn.ended /\ q.destroyed = conn.destroyed /\ q.closes = conn.closes
        /\ q.sent = conn.sent /\ q.corked = conn.corked /\ q.corkedReads = conn.corkedReads
        /\ q.endPushed = conn.endPushed /\ q.real = conn.real /\ q.flowing = conn.flowing
        /\ q.pendingWrites = conn.pendingWrites /\ q.pendingEnd = conn.pendingEnd
        /\ q.backpressured = conn.backpressured /\ q.flushScheduled = conn.flushScheduled
        /\ q.ticks = conn.ticks /\ q.nativeClose = conn.nativeClose
        /\ q.layers = conn.layers /\ q.connecting = conn.connecting
        /\ q.swapped = conn.swapped /\ q.paused = FALSE
    BY <1>1, <2>3 DEF Connections
  <2>5. ~ServerWaits(q)
    BY <2>2, <2>4 DEF ServerWaits, NothingToWrite
  <2>6. OnRead(conn) = q
    BY <2>3, <2>5 DEF OnRead
  <2>7. d = q \/ d = conn
    BY <1>4, <2>6
  <2>8. NothingToWrite(d) /\ d.eof = conn.eof
    BY <2>2, <2>4, <2>7 DEF NothingToWrite
  <2>9. QED
    BY <1>8, <2>8 DEF Moved, NothingToWrite
<1>16. QED
  BY <1>2, <1>11, <1>13, <1>14, <1>15, AheadStep

\* The consumer reads on.
LEMMA ConsumerReadsSound ==
  ASSUME IInv, SInv, ConsumerReads
  PROVE  SInv' /\ Promised(conn, conn')
<1>1. protocol = "http" \/ protocol = "other"
  BY DEF IInv, Types
<1>2. QED
  BY <1>1, HttpReadSound, OtherReadSound

-----------------------------------------------------------------------------
(* Every step.                                                               *)

\* What a run begins with stays.
LEMMA InputsStay ==
  ASSUME [Next]_vars
  PROVE  UNCHANGED inputVars
<1>1. CASE ClientRequests \/ ClientRequestsThroughTunnel
  BY <1>1 DEF ClientRequests, ClientRequestsThroughTunnel
<1>2. CASE Listeners
  BY <1>2 DEF Listeners, RespondInVain, RespondWith, RespondWithNetworkError, ErrorWith, Passthrough
<1>3. CASE \E r \in Request :
             MockedListenersThrow(r) \/ MockedBodyWrites(r) \/ MockedBodyBreaks(r)
  BY <1>3 DEF MockedListenersThrow, MockedBodyWrites, MockedBodyBreaks, OnlyConn
<1>4. CASE MockProceeds \/ SettleEvent
  BY <1>4 DEF MockProceeds, SettleEvent, MockedListenersSettle, MockedBodyEnds,
     ResponseListenersSettle
<1>5. CASE Server
  BY <1>5 DEF Server, RealInforms, RealResponds, RealCompletes, Answers, RealSends, RealEnds,
     RealFails, OnlyConn
<1>6. CASE EventLoop
  BY <1>6 DEF EventLoop, ClaimCompletes, RealConnects, RealFinishes, RealCloses, RealUnchanged,
     NativeClose, Ticks, TickClose, TickDeliverClose, TickEnd, TickDestroy, TickPassthrough,
     OnlyConn
<1>7. CASE OtherSubscriberClaims \/ SourceDeclines \/ ServerSends \/ ServerEnds
  BY <1>7 DEF OtherSubscriberClaims, SourceDeclines, ServerSends, ServerEnds, OnlyConn
<1>8. CASE ConsumerPauses \/ Consumer \/ ClientDestroys
  BY <1>8 DEF ConsumerPauses, Consumer, ConsumerResumes, ConsumerReads, ConsumerHearsEnd,
     ClientTearsDown, ClientDestroys, OnlyConn
<1>9. CASE UNCHANGED vars
  BY <1>9 DEF vars
<1>10. QED
  BY <1>1, <1>2, <1>3, <1>4, <1>5, <1>6, <1>7, <1>8, <1>9 DEF Next

\* A step that is none.
LEMMA StutterSound ==
  ASSUME IInv, SInv, UNCHANGED vars
  PROVE  SInv' /\ Promised(conn, conn')
<1>1. /\ conn' = conn /\ verdict' = verdict /\ UNCHANGED inputVars
      /\ UNCHANGED <<readyState, current, stage>> /\ UNCHANGED <<reached, answering>>
      /\ UNCHANGED events
  BY DEF vars, exchangeVars, realVars, eventVars
<1>2. Promised(conn, conn')
  BY <1>1 DEF Promised
<1>3. Reaching' /\ Mocking' /\ NoEvents'
  BY <1>1 DEF SInv, Reaching, Mocking, NoEvents, PassedOn, Sent, MockOver, Tunnelled, inputVars
<1>4. Closing(conn')
  BY <1>1 DEF SInv
<1>5. AliveInv'
  BY <1>1 DEF SInv, AliveInv, HttpAlive, OtherAlive, PassedOn, Sent, MockOver, Tunnelled,
     MidResponse, Complete, inputVars
<1>6. QED
  BY <1>1, <1>2, <1>3, <1>4, <1>5 DEF SInv

\* What is known of the stream holds after every step, and every step is one of the
\* abstract stream's.
LEMMA NextSInv ==
  ASSUME IInv, SInv, ~hurried, [Next]_vars
  PROVE  SInv' /\ Promised(conn, conn')
<1>1. CASE ClientRequests \/ ClientRequestsThroughTunnel
  BY <1>1, ClientRequestsSound, ClientRequestsThroughTunnelSound
<1>2. CASE Listeners
  <2>1. PICK r \in Request :
          \/ RespondInVain(r)
          \/ \E ok \in BOOLEAN : RespondWith(r, ok)
          \/ RespondWithNetworkError(r)
          \/ \E isError \in BOOLEAN : ErrorWith(r, isError)
          \/ Passthrough(r)
    BY <1>2 DEF Listeners
  <2>2. CASE Passthrough(r)
    BY <2>2, PassthroughSound
  <2>3. CASE ~Passthrough(r)
    BY <2>1, <2>3, DecisionsSound
  <2>4. QED
    BY <2>2, <2>3
<1>3. CASE \E r \in Request :
             MockedListenersThrow(r) \/ MockedBodyWrites(r) \/ MockedBodyBreaks(r)
  BY <1>3, MockedListenersThrowSound, MockedBodyWritesSound, MockedBodyBreaksSound
<1>4. CASE MockProceeds
  BY <1>4, MockedListenersSettleSound, MockedBodyEndsSound DEF MockProceeds
<1>5. CASE SettleEvent
  BY <1>5, ResponseListenersSettleSound DEF SettleEvent
<1>6. CASE Server
  BY <1>6, ServerAnswersSound, RealSendsSound, RealEndsSound, RealFailsSound DEF Server
<1>7. CASE EventLoop
  BY <1>7, ClaimCompletesSound, RealConnectsSound, RealFinishesSound, RealClosesSound,
     TickCloseSound, TickDeliverCloseSound, TickEndSound, DestroySound, TickPassthroughSound
     DEF EventLoop, Ticks
<1>8. CASE OtherSubscriberClaims \/ SourceDeclines \/ ServerSends \/ ServerEnds
  BY <1>8, OtherSubscriberClaimsSound, SourceDeclinesSound, ServerSendsSound, ServerEndsSound
<1>9. CASE ConsumerPauses \/ Consumer \/ ClientDestroys
  BY <1>9, ConsumerFlowsSound, ConsumerReadsSound, ConsumerHearsEndSound, DestroySound
     DEF Consumer
<1>10. CASE UNCHANGED vars
  BY <1>10, StutterSound
<1>11. QED
  BY <1>1, <1>2, <1>3, <1>4, <1>5, <1>6, <1>7, <1>8, <1>9, <1>10 DEF Next

\* The stream's prefixes are ours.
LEMMA SamePrefix ==
  ASSUME NEW s, NEW t, IsPrefix(s, t)
  PROVE  Reads!IsPrefix(s, t)
BY DEF IsPrefix, Reads!IsPrefix

\* So a step of the connection is one of the stream, or none.
LEMMA PromisedStep ==
  ASSUME ~hurried, UNCHANGED inputVars, Promised(conn, conn')
  PROVE  [Reads!Next]_Reads!vars
<1>1. ~hurried'
  BY DEF inputVars
<1>2. PICK s, h, e, x, k : /\ s = conn.sent /\ h = conn.heard /\ e = conn.ended
                           /\ x = conn.destroyed /\ k = (conn.closes > 0)
  OBVIOUS
<1>3. PICK s1, h1, e1, x1, k1 : /\ s1 = conn'.sent /\ h1 = conn'.heard /\ e1 = conn'.ended
                                /\ x1 = conn'.destroyed /\ k1 = (conn'.closes > 0)
  OBVIOUS
<1>4. /\ Judged(conn.sent, <<>>) = s /\ Judged(conn.heard, <<>>) = h
      /\ Judged(conn.ended, FALSE) = e /\ Judged(conn.destroyed, FALSE) = x
      /\ Judged(conn.closes > 0, FALSE) = k
  BY <1>2 DEF Judged
<1>5. /\ Judged(conn.sent, <<>>)' = s1 /\ Judged(conn.heard, <<>>)' = h1
      /\ Judged(conn.ended, FALSE)' = e1 /\ Judged(conn.destroyed, FALSE)' = x1
      /\ Judged(conn.closes > 0, FALSE)' = k1
  BY <1>1, <1>3 DEF Judged
<1>6. (conn'.closes > 0 <=> conn.closes > 0) => k1 = k
  BY <1>2, <1>3
<1>7. k <=> conn.closes > 0
  BY <1>2
<1>8. CASE s1 = s /\ h1 = h /\ e1 = e /\ x1 = x /\ k1 = k
  BY <1>4, <1>5, <1>8 DEF Reads!vars
<1>9. CASE /\ ~e /\ IsPrefix(s, s1) /\ IsPrefix(h, h1) /\ IsPrefix(h1, s1)
           /\ e1 = e /\ x1 = x /\ k1 = k
  BY <1>4, <1>5, <1>9, SamePrefix DEF Reads!Next, Reads!Transfer
<1>10. CASE (x \/ k) /\ IsPrefix(s, s1) /\ h1 = h /\ e1 = e /\ x1 = x /\ k1 = k
  BY <1>4, <1>5, <1>10, SamePrefix DEF Reads!Next, Reads!Lose
<1>11. CASE ~e /\ ~x /\ h = s /\ e1 = TRUE /\ s1 = s /\ h1 = h /\ x1 = x /\ k1 = k
  BY <1>4, <1>5, <1>11 DEF Reads!Next, Reads!End
<1>12. CASE ~x /\ x1 = TRUE /\ h1 = h /\ e1 = e /\ k1 = k /\ IsPrefix(s, s1)
  BY <1>4, <1>5, <1>12, SamePrefix DEF Reads!Next, Reads!Cut
<1>13. CASE ~k /\ (e \/ x) /\ k1 = TRUE /\ s1 = s /\ h1 = h /\ e1 = e /\ x1 = x
  BY <1>4, <1>5, <1>13 DEF Reads!Next, Reads!Close
<1>14. CASE /\ conn.closes = 0 /\ (conn.ended \/ conn.destroyed) /\ conn'.closes > 0
            /\ conn'.sent = conn.sent /\ conn'.heard = conn.heard /\ conn'.ended = conn.ended
            /\ conn'.destroyed = conn.destroyed
  <2>1. (conn'.closes > 0) = TRUE /\ ~(conn.closes > 0)
    BY <1>14
  <2>2. k1 = TRUE /\ ~k
    BY <1>2, <1>3, <2>1
  <2>3. QED
    BY <1>2, <1>3, <1>13, <1>14, <2>2
<1>15. CASE conn'.closes > 0 <=> conn.closes > 0
  <2>1. k1 = k
    BY <1>6, <1>15
  <2>2. \/ s1 = s /\ h1 = h /\ e1 = e /\ x1 = x
        \/ /\ ~e /\ IsPrefix(s, s1) /\ IsPrefix(h, h1) /\ IsPrefix(h1, s1)
           /\ e1 = e /\ x1 = x
        \/ (x \/ k) /\ IsPrefix(s, s1) /\ h1 = h /\ e1 = e /\ x1 = x
        \/ ~e /\ ~x /\ h = s /\ e1 = TRUE /\ s1 = s /\ h1 = h /\ x1 = x
        \/ ~x /\ x1 = TRUE /\ h1 = h /\ e1 = e /\ IsPrefix(s, s1)
        \/ conn.closes = 0 /\ conn'.closes > 0
    BY <1>2, <1>3, <1>7 DEF Promised
  <2>3. ~(conn.closes = 0 /\ conn'.closes > 0)
    BY <1>15
  <2>4. QED
    BY <1>8, <1>9, <1>10, <1>11, <1>12, <2>1, <2>2, <2>3
<1>16. QED
  BY <1>14, <1>15 DEF Promised

\* A run that is not judged is a stream that nothing is sent on.
LEMMA HurriedStep ==
  ASSUME hurried, UNCHANGED inputVars
  PROVE  [Reads!Next]_Reads!vars
<1>1. hurried'
  BY DEF inputVars
<1>2. UNCHANGED Reads!vars
  BY <1>1 DEF Reads!vars, Judged
<1>3. QED
  BY <1>2

\* What the server sends, the consumer hears in its order; "end" only after all of it,
\* and "close" only after that or once the socket is destroyed.
THEOREM ReadsKeepTheirPromise == Spec => ReadsAsPromised
<1>1. Init => (hurried \/ SInv) /\ Reads!Init
  <2>1. SUFFICES ASSUME Init PROVE (hurried \/ SInv) /\ Reads!Init
    OBVIOUS
  <2>2. SInv
    BY <2>1, InitSInv
  <2>3. /\ conn.sent = <<>> /\ conn.heard = <<>> /\ conn.ended = FALSE
        /\ conn.destroyed = FALSE /\ conn.closes = 0
    BY <2>1 DEF Init, NewConnection
  <2>4. Reads!Init
    BY <2>3 DEF Reads!Init, Judged
  <2>5. QED
    BY <2>2, <2>4
<1>2. IInv /\ (hurried \/ SInv) /\ [Next]_vars =>
        (hurried \/ SInv)' /\ [Reads!Next]_Reads!vars
  <2>1. SUFFICES ASSUME IInv, hurried \/ SInv, [Next]_vars
                 PROVE  (hurried \/ SInv)' /\ [Reads!Next]_Reads!vars
    OBVIOUS
  <2>2. UNCHANGED inputVars
    BY <2>1, InputsStay
  <2>3. CASE hurried
    BY <2>2, <2>3, HurriedStep DEF inputVars
  <2>4. CASE ~hurried
    <3>1. SInv' /\ Promised(conn, conn')
      BY <2>1, <2>4, NextSInv
    <3>2. QED
      BY <2>2, <2>4, <3>1, PromisedStep
  <2>5. QED
    BY <2>3, <2>4
<1>3. QED
  BY <1>1, <1>2, Invariance, PTL DEF Spec, ReadsAsPromised, Reads!Spec
=============================================================================
