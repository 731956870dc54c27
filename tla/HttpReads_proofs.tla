--------------------------- MODULE HttpReads_proofs --------------------------
(***************************************************************************)
(* Two invariants of HttpExchanges that rest on what is in line between the  *)
(* server and the consumer: with "response" listeners the client hears of    *)
(* an original response only once they have settled on it, and a client      *)
(* whose _destroy() no mocked response has replaced emits "close" at most    *)
(* once.                                                                     *)
(***************************************************************************)
EXTENDS HttpExchanges_proofs

-----------------------------------------------------------------------------
(* What "response" listeners have not seen is not read.                      *)

\* The listeners have settled on the final response to the request.
ParsedHead(r) == \E e \in settled : e.request = r /\ e.part = "head"

\* Only what was sent is reported.
KnownHeads == \A e \in events \cup settled : e.part = "head" => Sent(e.request, "head")

\* Whoever parses the answer that is due, the real connection has the request.
Parsing ==
  /\ \A p \in parsers : p <= current
  /\ reached # <<>> /\ current \in parsers =>
       \E target \in Targets : <<current, target>> \in served

\* While the client can be read, the final response to what a real connection received
\* is behind the cork, or parsed; and what the listeners run for is behind the cork.
ReadGated ==
  Alive(conn) =>
    /\ \A r \in Request, target \in Targets :
         /\ <<r, target>> \in served
         /\ r = current \/ Sent(r, "head")
         /\ r # current \/ ~conn.corked
         => ParsedHead(r)
    /\ conn.corked => Part(current, "head") \notin ToSet(Delivered(conn))
    /\ \A e \in events : e.parser = e.request => e.request = current /\ conn.corked

\* What the client has heard is parsed.
HeardGated ==
  \A r \in Request, target \in Targets :
    <<r, target>> \in served /\ Part(r, "head") \in ToSet(conn.heard) => ParsedHead(r)

\* That no head is heard early, and what keeps it so.
Gates == KnownHeads /\ Parsing /\ ReadGated /\ HeardGated

\* A step of what is known so far.
Stepping ==
  /\ IInv /\ SInv /\ Gates /\ listening
  /\ IInv' /\ SInv' /\ Promised(conn, conn')

\* A client that can be read after a step could be read before it.
LEMMA PromisedAlive ==
  ASSUME IInv, IInv', Promised(conn, conn'), Alive(conn')
  PROVE  Alive(conn)
<1>1. conn \in Connections(Chunk, Tick)
  BY ConnTyped
<1>2. conn.closes \in Nat /\ conn.destroyed \in BOOLEAN
  BY <1>1 DEF Connections
<1>3. ~conn'.destroyed /\ conn'.closes = 0
  BY DEF Alive
<1>4. ~(conn'.closes > 0)
  BY <1>3
<1>5. CASE conn'.destroyed = conn.destroyed /\ (conn'.closes > 0 <=> conn.closes > 0)
  BY <1>2, <1>3, <1>4, <1>5 DEF Alive
<1>6. QED
  BY <1>3, <1>4, <1>5 DEF Promised

\* The elements of a prefix.
LEMMA ElementsOfPrefix ==
  ASSUME NEW S, NEW s \in Seq(S), NEW t \in Seq(S), IsPrefix(s, t)
  PROVE  ToSet(s) \subseteq ToSet(t)
<1>1. Len(s) <= Len(t) /\ \A i \in 1..Len(s) : s[i] = t[i]
  BY DEF IsPrefix
<1>2. Len(s) \in Nat /\ Len(t) \in Nat
  OBVIOUS
<1>3. \A i \in 1..Len(s) : i \in 1..Len(t)
  BY <1>1, <1>2
<1>4. ASSUME NEW x \in ToSet(s)
      PROVE  x \in ToSet(t)
  <2>1. PICK i \in 1..Len(s) : x = s[i]
    BY DEF ToSet
  <2>2. QED
    BY <1>1, <1>3, <2>1 DEF ToSet
<1>5. QED
  BY <1>4

\* The connection as a step leaves it.
LEMMA NextConnTyped ==
  ASSUME IInv'
  PROVE  conn' \in Connections(Chunk, Tick)
<1>1. conn' \in Connections(Sendable', DueTicks')
  BY DEF IInv, AnswersOnly
<1>2. PICK C, T, c : C = Sendable' /\ T = DueTicks' /\ c = conn'
  OBVIOUS
<1>3. C \subseteq Chunk /\ T \subseteq Tick
  BY <1>2 DEF Sendable, DueTicks, OwnTicks, Tick
<1>4. c \in Connections(C, T)
  BY <1>1, <1>2
<1>5. c \in Connections(Chunk, T)
  BY <1>3, <1>4, Widening
<1>6. Seq(T) \subseteq Seq(Tick)
  BY <1>3
<1>7. QED
  BY <1>2, <1>5, <1>6 DEF Connections

\* What was sent stays sent.
LEMMA PromisedSent ==
  ASSUME IInv, IInv', Promised(conn, conn')
  PROVE  ToSet(conn.sent) \subseteq ToSet(conn'.sent)
<1>1. conn \in Connections(Chunk, Tick)
  BY ConnTyped
<1>2. conn' \in Connections(Chunk, Tick)
  BY NextConnTyped
<1>3. conn.sent \in Seq(Chunk) /\ conn'.sent \in Seq(Chunk)
  BY <1>1, <1>2 DEF Connections
<1>4. conn'.sent = conn.sent \/ IsPrefix(conn.sent, conn'.sent)
  BY DEF Promised
<1>5. QED
  BY <1>3, <1>4, ElementsOfPrefix

\* Listeners that have settled have settled.
LEMMA ParsedStays ==
  ASSUME settled \subseteq settled', NEW r, ParsedHead(r)
  PROVE  ParsedHead(r)'
BY DEF ParsedHead

\* The gates hold after a step that keeps what is read behind them, if all it reports
\* and serves is known.
LEMMA GateStep ==
  ASSUME Stepping, settled \subseteq settled', Parsing', ReadGated', current' \in Nat,
         \A e \in events' \cup settled' :
           e.part = "head" => e \in events \cup settled \/ Sent(e.request, "head")',
         \A r \in Request, target \in Targets :
           /\ <<r, target>> \in served' /\ <<r, target>> \notin served
           => Part(r, "head") \notin ToSet(conn.heard)
  PROVE  Gates'
<1>1. ToSet(conn.sent) \subseteq ToSet(conn'.sent)
  BY PromisedSent DEF Stepping
<1>2. KnownHeads'
  <2>1. ASSUME NEW e \in events' \cup settled', e.part = "head"
        PROVE  Sent(e.request, "head")'
    <3>1. CASE e \in events \cup settled
      BY <1>1, <2>1, <3>1 DEF Stepping, Gates, KnownHeads, Sent
    <3>2. CASE e \notin events \cup settled
      BY <2>1, <3>2
    <3>3. QED
      BY <3>1, <3>2
  <2>2. QED
    BY <2>1 DEF KnownHeads
<1>3. HeardGated'
  <2>1. SUFFICES ASSUME NEW r \in Request, NEW target \in Targets, <<r, target>> \in served',
                        Part(r, "head") \in ToSet(conn'.heard)
                 PROVE  ParsedHead(r)'
    BY DEF HeardGated
  <2>2. CASE conn'.heard = conn.heard
    <3>1. <<r, target>> \in served /\ Part(r, "head") \in ToSet(conn.heard)
      BY <2>1, <2>2
    <3>2. ParsedHead(r)
      BY <3>1 DEF Stepping, Gates, HeardGated
    <3>3. QED
      BY <3>2, ParsedStays
  <2>3. CASE conn'.heard # conn.heard
    <3>1. Alive(conn')
      BY <2>3 DEF Stepping, Promised
    <3>2. PICK c : c = conn'
      OBVIOUS
    <3>3. c \in Connections(Chunk, Tick) /\ Sound(c)
      BY <3>1, <3>2, NextConnTyped DEF Stepping, SInv, AliveInv
    <3>4. Part(r, "head") \in ToSet(Delivered(c)) /\ Part(r, "head") \in ToSet(c.sent)
      BY <2>1, <3>2, <3>3, DeliveredSent
    <3>5. r # current' \/ ~conn'.corked
      BY <3>1, <3>2, <3>4 DEF ReadGated
    <3>6. Sent(r, "head")'
      BY <3>2, <3>4 DEF Sent
    <3>7. QED
      BY <2>1, <3>1, <3>5, <3>6 DEF ReadGated
  <2>4. QED
    BY <2>2, <2>3
<1>4. QED
  BY <1>2, <1>3 DEF Gates

\* What a step leaves aside.
Aside ==
  /\ UNCHANGED <<current, reached, served, events, settled>>
  /\ parsers' \subseteq parsers

\* The gates hold after a step that sends no original response.
LEMMA SteadyStep ==
  ASSUME Stepping, Aside,
         Alive(conn) /\ Alive(conn') =>
           /\ conn'.corked = conn.corked
           /\ conn.corked => Delivered(conn') = Delivered(conn)
           /\ \A r \in Request :
                verdict[r] = "passthrough" /\ Sent(r, "head")' => Sent(r, "head")
  PROVE  Gates'
<1>1. /\ current' = current /\ served' = served /\ events' = events /\ settled' = settled
      /\ reached' = reached /\ parsers' \subseteq parsers
  BY DEF Aside
<1>2. Parsing'
  BY <1>1 DEF Stepping, Gates, Parsing
<1>3. ReadGated'
  <2>1. SUFFICES ASSUME Alive(conn') PROVE ReadGated'
    BY DEF ReadGated
  <2>2. Alive(conn)
    BY <2>1, PromisedAlive DEF Stepping
  <2>3. /\ conn'.corked = conn.corked
        /\ conn.corked => Delivered(conn') = Delivered(conn)
    BY <2>1, <2>2
  <2>4. ASSUME NEW r \in Request, NEW target \in Targets, <<r, target>> \in served',
               r = current' \/ Sent(r, "head")', r # current' \/ ~conn'.corked
        PROVE  ParsedHead(r)'
    <3>1. verdict[r] = "passthrough"
      BY <1>1, <2>4 DEF Stepping, IInv, ServedRight
    <3>2. r = current \/ Sent(r, "head")
      BY <1>1, <2>1, <2>2, <2>4, <3>1
    <3>3. ParsedHead(r)
      BY <1>1, <2>2, <2>3, <2>4, <3>2 DEF Stepping, Gates, ReadGated
    <3>4. QED
      BY <1>1, <3>3 DEF ParsedHead
  <2>5. conn'.corked => Part(current', "head") \notin ToSet(Delivered(conn'))
    BY <1>1, <2>2, <2>3 DEF Stepping, Gates, ReadGated
  <2>6. \A e \in events' : e.parser = e.request => e.request = current' /\ conn'.corked
    BY <1>1, <2>2, <2>3 DEF Stepping, Gates, ReadGated
  <2>7. QED
    BY <2>4, <2>5, <2>6 DEF ReadGated
<1>4. current' \in Nat
  BY BoundsAssumption DEF Stepping, IInv, Types
<1>5. QED
  BY <1>1, <1>2, <1>3, <1>4, GateStep

\* Nothing of what the gates are about is different.
Level(c, d) ==
  d.heard = c.heard /\ d.buffer = c.buffer /\ d.sent = c.sent /\ d.corked = c.corked

\* The gates hold after a step that leaves that alone, or the client dead.
LEMMA LevelStep ==
  ASSUME Stepping, Aside, NEW c, conn' = c, Alive(conn) /\ Alive(c) => Level(conn, c)
  PROVE  Gates'
<1>1. ASSUME Alive(conn), Alive(conn')
      PROVE  /\ conn'.corked = conn.corked
             /\ conn.corked => Delivered(conn') = Delivered(conn)
             /\ \A r \in Request :
                  verdict[r] = "passthrough" /\ Sent(r, "head")' => Sent(r, "head")
  BY <1>1 DEF Level, Delivered, Sent
<1>2. QED
  BY <1>1, SteadyStep

-----------------------------------------------------------------------------
(* Steps that leave the gates as they are.                                   *)

\* Nothing but the connection changes.
LEMMA OnlyConnAside ==
  ASSUME NEW c, OnlyConn(c)
  PROVE  Aside /\ conn' = c
BY DEF OnlyConn, Becomes, Turns, Aside, exchangeVars, realVars, eventVars

\* The connection as the gates find it.
LEMMA SteppingConn ==
  ASSUME Stepping
  PROVE  /\ conn \in Connections(Chunk, Tick) /\ conn \in After(conn, Chunk, Tick)
         /\ conn \in Keeping(conn) /\ Closing(conn)
         /\ protocol = "http" /\ (Alive(conn) => HttpAlive /\ Sound(conn))
<1>1. conn \in Connections(Chunk, Tick) /\ conn \in After(conn, Chunk, Tick) /\ Closing(conn)
  BY ConnTyped DEF Stepping, SInv
<1>2. protocol = "http"
  BY DEF Stepping, SInv, NoEvents, IInv, Types
<1>3. QED
  BY <1>1, <1>2, KeepsItself DEF Stepping, SInv, AliveInv

\* Another stream that is level with it.
LEMMA SameLevel ==
  ASSUME NEW c, NEW d, Same(c, d)
  PROVE  Level(c, d)
BY DEF Same, Level

\* A destroyed client is dead.
LEMMA DestroyDestroys ==
  ASSUME NEW c, NEW d \in After(c, Chunk, Tick)
  PROVE  /\ Destroy(d) \in After(c, Chunk, Tick) /\ Destroy(d) \in Connections(Chunk, Tick)
         /\ Destroy(d).destroyed /\ ~Alive(Destroy(d))
<1>1. Destroy(d) \in After(c, Chunk, Tick)
  BY DestroyAfter, OwnIsTick
<1>2. Destroy(d).destroyed
  <2>1. CASE d.destroyed
    BY <2>1 DEF Destroy
  <2>2. CASE ~d.destroyed
    <3>1. PICK a : a = [d EXCEPT !.destroyed = TRUE]
      OBVIOUS
    <3>2. d \in Connections(Chunk, Tick) /\ ("abort" \in d.layers \/ "mock" \in d.layers)
      BY DEF After, Follows
    <3>3. a \in Connections(Chunk, Tick) /\ a.destroyed = TRUE /\ a.layers = d.layers
      BY <3>1, <3>2 DEF Connections
    <3>4. a \in After(a, Chunk, Tick)
      BY <3>2, <3>3 DEF After, Follows
    <3>5. PICK b : b = DeliverClose(a)
      OBVIOUS
    <3>6. b \in After(a, Chunk, Tick)
      BY <3>4, <3>5, DeliverCloseAfter, OwnIsTick
    <3>7. Later(b, "close") \in After(a, Chunk, Tick) /\ CloseHandle(b) \in After(a, Chunk, Tick)
      BY <3>6, LaterAfter, CloseHandleAfter DEF Tick
    <3>8. Destroy(d) \in After(a, Chunk, Tick)
      BY <2>2, <3>1, <3>5, <3>7 DEF Destroy
    <3>9. QED
      BY <3>3, <3>8 DEF After, Follows
  <2>3. QED
    BY <2>1, <2>2
<1>3. QED
  BY <1>1, <1>2 DEF After, Alive

\* A closed one too.
LEMMA EmitCloseDies ==
  ASSUME NEW d \in Connections(Chunk, Tick)
  PROVE  ~Alive(EmitClose(d))
<1>1. PICK e : e = EmitClose(d)
  OBVIOUS
<1>2. d.closes \in Nat /\ e.closes = d.closes + 1
  BY <1>1 DEF EmitClose, Connections
<1>3. QED
  BY <1>1, <1>2 DEF Alive

\* Verdicts that are no passthrough.
LEMMA DecisionsGated ==
  ASSUME Stepping, NEW r \in Request,
         \/ RespondInVain(r)
         \/ \E ok \in BOOLEAN : RespondWith(r, ok)
         \/ RespondWithNetworkError(r)
         \/ \E isError \in BOOLEAN : ErrorWith(r, isError)
  PROVE  Gates'
<1>1. conn' = conn \/ conn' = Destroy(conn)
  BY DEF RespondInVain, RespondWith, RespondWithNetworkError, ErrorWith, Turns
<1>2. Aside
  BY DEF RespondInVain, RespondWith, RespondWithNetworkError, ErrorWith, Aside, exchangeVars,
     realVars, eventVars
<1>3. ~Alive(Destroy(conn))
  BY SteppingConn, DestroyDestroys
<1>4. QED
  BY <1>1, <1>2, <1>3, LevelStep DEF Level

\* A mocked response before its body, and one that breaks.
LEMMA MockedQuietGated ==
  ASSUME Stepping, NEW r \in Request,
         \/ MockedListenersSettle(r) \/ MockedListenersThrow(r) \/ MockedBodyBreaks(r)
  PROVE  Gates'
<1>1. conn \in Connections(Chunk, Tick)
  BY SteppingConn
<1>2. PICK c : conn' = c /\ c \in {conn, Override(conn), Later(conn, "destroy")}
  BY DEF MockedListenersSettle, MockedListenersThrow, MockedBodyBreaks, Becomes, Turns
<1>3. Aside
  BY DEF MockedListenersSettle, MockedListenersThrow, MockedBodyBreaks, Aside, realVars,
     eventVars
<1>4. Level(conn, c)
  BY <1>1, <1>2, OverrideSame, LaterSame, SameItself, SameLevel DEF Tick
<1>5. QED
  BY <1>2, <1>3, <1>4, LevelStep

\* The claimed connection completes.
LEMMA ClaimCompletesGated ==
  ASSUME Stepping, ClaimCompletes
  PROVE  Gates'
<1>1. conn \in Connections(Chunk, Tick) /\ conn \in After(conn, Chunk, Tick)
  BY SteppingConn
<1>2. PICK c : c = Connect(conn)
  OBVIOUS
<1>3. conn' \in {conn, Destroy(c), Override(c), c}
  BY <1>2 DEF ClaimCompletes, Becomes, Turns
<1>4. Aside
  BY DEF ClaimCompletes, Aside, realVars, eventVars
<1>5. ~Alive(Destroy(c))
  BY <1>1, <1>2, ConnectAfter, OwnIsTick, DestroyDestroys
<1>6. ASSUME Alive(conn)
      PROVE  Level(conn, c) /\ Level(conn, Override(c))
  <2>1. c \in Connections(Chunk, Tick) /\ Same(conn, c)
    BY <1>1, <1>2, <1>6, SteppingConn, ConnectSame DEF HttpAlive
  <2>2. QED
    BY <2>1, OverrideSame DEF Same, Level
<1>7. Level(conn, conn)
  BY DEF Level
<1>8. QED
  BY <1>3, <1>4, <1>5, <1>6, <1>7, LevelStep

\* The real connection opens.
LEMMA RealConnectsGated ==
  ASSUME Stepping, RealConnects
  PROVE  Gates'
<1>1. Aside /\ conn' = OnRealConnect(conn)
  BY OnlyConnAside DEF RealConnects
<1>2. ASSUME Alive(conn)
      PROVE  Level(conn, OnRealConnect(conn))
  <2>1. PICK a : a = [conn EXCEPT !.real = "open", !.swapped = TRUE]
    OBVIOUS
  <2>2. conn \in Connections(Chunk, Tick) /\ NothingToWrite(conn)
    BY <1>2, SteppingConn DEF HttpAlive
  <2>3. a \in Connections(Chunk, Tick)
    BY <2>1, <2>2 DEF Connections, RealState
  <2>4. /\ a.heard = conn.heard /\ a.buffer = conn.buffer /\ a.eof = conn.eof
        /\ a.ended = conn.ended /\ a.destroyed = conn.destroyed /\ a.closes = conn.closes
        /\ a.sent = conn.sent /\ a.corked = conn.corked /\ a.corkedReads = conn.corkedReads
        /\ a.endPushed = conn.endPushed /\ a.real = "open" /\ a.flowing = conn.flowing
        /\ a.pendingWrites = conn.pendingWrites /\ a.pendingEnd = conn.pendingEnd
        /\ a.backpressured = conn.backpressured /\ a.flushScheduled = conn.flushScheduled
        /\ a.ticks = conn.ticks /\ a.nativeClose = conn.nativeClose
        /\ a.layers = conn.layers /\ a.connecting = conn.connecting /\ a.swapped = TRUE
        /\ a.paused = conn.paused
    BY <2>1, <2>2 DEF Connections
  <2>5. NothingToWrite(a)
    BY <2>2, <2>4 DEF NothingToWrite
  <2>6. PICK d : d = Connect(a)
    OBVIOUS
  <2>7. Same(a, d)
    BY <2>3, <2>5, <2>6, ConnectSame
  <2>8. Level(conn, d)
    BY <2>4, <2>7 DEF Same, Level
  <2>9. QED
    BY <1>2, <2>1, <2>6, <2>8 DEF OnRealConnect, Alive
<1>3. QED
  BY <1>1, <1>2, LevelStep

\* It ends, and closes its handle.
LEMMA RealEndsGated ==
  ASSUME Stepping, RealEnds \/ RealFinishes
  PROVE  Gates'
<1>1. conn \in Connections(Chunk, Tick)
  BY SteppingConn
<1>2. CASE RealFinishes
  <2>1. PICK c : c = [conn EXCEPT !.real = "closing"]
    OBVIOUS
  <2>2. Aside /\ conn' = c
    BY <1>2, <2>1, OnlyConnAside DEF RealFinishes
  <2>3. Level(conn, c)
    BY <1>1, <2>1 DEF Level, Connections
  <2>4. QED
    BY <2>2, <2>3, LevelStep
<1>3. CASE RealEnds
  <2>1. PICK c : c = OnRealEnd(conn)
    OBVIOUS
  <2>2. Aside /\ conn' = c
    BY <1>3, <2>1, OnlyConnAside DEF RealEnds
  <2>3. PICK d : d = [conn EXCEPT !.real = "finished"]
    OBVIOUS
  <2>4. d \in Connections(Chunk, Tick) /\ Level(conn, d)
    BY <1>1, <2>3 DEF Level, Connections, RealState
  <2>5. Level(d, c)
    BY <2>1, <2>3, <2>4 DEF OnRealEnd, PushRealEnd, PushEnd, Level, Connections
  <2>6. QED
    BY <2>2, <2>4, <2>5, LevelStep DEF Level
<1>4. QED
  BY <1>2, <1>3

\* It fails.
LEMMA RealFailsGated ==
  ASSUME Stepping, RealFails
  PROVE  Gates'
<1>1. conn \in Connections(Chunk, Tick) /\ conn \in After(conn, Chunk, Tick)
  BY SteppingConn
<1>2. PICK d : d = [conn EXCEPT !.real = "closing"]
  OBVIOUS
<1>3. d \in Connections(Chunk, Tick) /\ d.destroyed = conn.destroyed /\ d.layers = conn.layers
      /\ d.real = "closing" /\ d.buffer = conn.buffer
  BY <1>1, <1>2 DEF Connections, RealState
<1>4. d \in After(conn, Chunk, Tick)
  BY <1>1, <1>3 DEF After, Follows, LiveStates
<1>5. PICK e : e = Destroy(d)
  OBVIOUS
<1>6. e \in Connections(Chunk, Tick) /\ e.destroyed
  BY <1>4, <1>5, DestroyDestroys
<1>7. Same(e, Later(e, "close"))
  BY <1>6, LaterSame DEF Tick
<1>8. ~Alive(e) /\ ~Alive(Later(e, "close"))
  BY <1>6, <1>7 DEF Same, Alive
<1>9. Aside /\ conn' \in {d, e, Later(e, "close")} /\ (conn' = d => conn.destroyed \/ ~Alive(d))
  BY <1>2, <1>5, <1>8, OnlyConnAside DEF RealFails, OnRealError
<1>10. QED
  BY <1>8, <1>9, LevelStep DEF Alive

\* It closes.
LEMMA RealClosesGated ==
  ASSUME Stepping, RealCloses
  PROVE  Gates'
<1>1. conn \in Connections(Chunk, Tick)
  BY SteppingConn
<1>2. PICK c : c = OnRealClose(conn)
  OBVIOUS
<1>3. Aside /\ conn' = c
  BY <1>2 DEF RealCloses, RealUnchanged, Becomes, Turns, Aside, exchangeVars, eventVars
<1>4. PICK d : d = [conn EXCEPT !.real = "gone"]
  OBVIOUS
<1>5. d \in Connections(Chunk, Tick) /\ Level(conn, d)
  BY <1>1, <1>4 DEF Level, Connections, RealState
<1>6. CASE c = EmitClose(d)
  BY <1>3, <1>5, <1>6, EmitCloseDies, LevelStep
<1>7. CASE c # EmitClose(d)
  <2>1. Level(d, c)
    BY <1>2, <1>4, <1>5, <1>7 DEF OnRealClose, EmitClientClose, Level, Connections
  <2>2. QED
    BY <1>3, <1>5, <2>1, LevelStep DEF Level
<1>8. QED
  BY <1>6, <1>7

\* The client closes.
LEMMA ClosesGated ==
  ASSUME Stepping, NativeClose \/ TickClose \/ TickDeliverClose
  PROVE  Gates'
<1>1. conn \in Connections(Chunk, Tick)
  BY SteppingConn
<1>2. CASE NativeClose
  <2>1. PICK b : b = [conn EXCEPT !.nativeClose = FALSE]
    OBVIOUS
  <2>2. b \in Connections(Chunk, Tick)
    BY <1>1, <2>1 DEF Connections
  <2>3. Aside /\ conn' = EmitClose(b)
    BY <1>2, <2>1, OnlyConnAside DEF NativeClose
  <2>4. QED
    BY <2>2, <2>3, EmitCloseDies, LevelStep
<1>3. CASE TickClose \/ TickDeliverClose
  <2>1. PICK b : b = Ticked
    OBVIOUS
  <2>2. conn.ticks # <<>>
    BY <1>3 DEF TickClose, TickDeliverClose, NextTick
  <2>3. b \in Connections(Chunk, Tick) /\ b = [conn EXCEPT !.ticks = b.ticks]
    BY <2>1, <2>2, TickedKeeps DEF Stepping, Keeping, After
  <2>4. Aside /\ (conn' = EmitClose(b) \/ conn' = b)
    BY <1>3, <2>1, OnlyConnAside DEF TickClose, TickDeliverClose, CloseOnce
  <2>5. Level(conn, b)
    BY <1>1, <2>3 DEF Level, Connections
  <2>6. QED
    BY <2>3, <2>4, <2>5, EmitCloseDies, LevelStep
<1>4. QED
  BY <1>2, <1>3

\* The other ticks.
LEMMA TicksGated ==
  ASSUME Stepping, TickEnd \/ TickDestroy \/ TickPassthrough
  PROVE  Gates'
<1>1. conn \in Connections(Chunk, Tick)
  BY SteppingConn
<1>2. PICK b : b = Ticked
  OBVIOUS
<1>3. conn.ticks # <<>>
  BY DEF TickEnd, TickDestroy, TickPassthrough, NextTick
<1>4. /\ b \in Connections(Chunk, Tick) /\ b \in After(conn, Chunk, Tick)
      /\ b = [conn EXCEPT !.ticks = b.ticks] /\ Head(conn.ticks) \in ToSet(conn.ticks)
  BY <1>2, <1>3, TickedKeeps DEF Stepping, Keeping, After
<1>5. ~TickPassthrough
  BY <1>4, DeclinedIsOther, SteppingConn DEF TickPassthrough, NextTick, Stepping
<1>6. Level(conn, b)
  BY <1>1, <1>4 DEF Level, Connections
<1>7. CASE TickDestroy
  <2>1. Aside /\ conn' = Destroy(b)
    BY <1>2, <1>7, OnlyConnAside DEF TickDestroy
  <2>2. QED
    BY <1>4, <2>1, DestroyDestroys, LevelStep
<1>8. CASE TickEnd
  <2>1. PICK c : c = PushEnd(b)
    OBVIOUS
  <2>2. Aside /\ conn' = c
    BY <1>2, <1>8, <2>1, OnlyConnAside DEF TickEnd
  <2>3. Level(b, c)
    BY <1>4, <2>1 DEF PushEnd, Level, Connections
  <2>4. QED
    BY <1>6, <2>2, <2>3, LevelStep DEF Level
<1>9. QED
  BY <1>5, <1>7, <1>8

\* The consumer, and the client that destroys its socket.
LEMMA ConsumerGated ==
  ASSUME Stepping, ConsumerPauses \/ Consumer \/ ClientDestroys
  PROVE  Gates'
<1>1. conn \in Connections(Chunk, Tick) /\ conn \in After(conn, Chunk, Tick) /\ protocol = "http"
  BY SteppingConn
<1>2. CASE ClientDestroys \/ ClientTearsDown
  <2>1. Aside /\ conn' = Destroy(conn)
    BY <1>2, OnlyConnAside DEF ClientDestroys, ClientTearsDown
  <2>2. QED
    BY <1>1, <2>1, DestroyDestroys, LevelStep
<1>3. CASE ConsumerPauses \/ ConsumerResumes
  <2>1. PICK p : Aside /\ conn' = [conn EXCEPT !.flowing = p]
    BY <1>3, OnlyConnAside DEF ConsumerPauses, ConsumerResumes, Becomes, Turns, Aside,
       exchangeVars, realVars, eventVars
  <2>2. Level(conn, [conn EXCEPT !.flowing = p])
    BY <1>1 DEF Level, Connections
  <2>3. QED
    BY <2>1, <2>2, LevelStep
<1>4. CASE ConsumerReads
  <2>1. PICK c : ReadOn(conn, c) /\ OnlyConn(c)
    BY <1>1, <1>4, HttpReads DEF Stepping
  <2>2. Aside /\ conn' = c
    BY <2>1, OnlyConnAside
  <2>3. QED
    BY <2>1, <2>2, SteadyStep DEF ReadOn, Sent
<1>5. CASE ConsumerHearsEnd
  <2>1. PICK c : c = EmitEnd(conn)
    OBVIOUS
  <2>2. Aside /\ conn' = c
    BY <1>5, <2>1, OnlyConnAside DEF ConsumerHearsEnd
  <2>3. PICK d : d = [conn EXCEPT !.ended = TRUE]
    OBVIOUS
  <2>4. d \in Connections(Chunk, Tick) /\ Level(conn, d)
    BY <1>1, <2>3 DEF Level, Connections
  <2>5. c = DeliverClose(d)
    BY <2>1, <2>3 DEF EmitEnd
  <2>6. Level(d, c)
    BY <2>4, <2>5 DEF DeliverClose, Later, Level, Connections
  <2>7. QED
    BY <2>2, <2>4, <2>6, LevelStep DEF Level
<1>6. QED
  BY <1>2, <1>3, <1>4, <1>5 DEF Consumer

\* A connection of another protocol has no listeners.
LEMMA OtherGated ==
  ASSUME Stepping,
         OtherSubscriberClaims \/ SourceDeclines \/ ServerSends \/ ServerEnds \/ RealSends
  PROVE  Gates'
BY SteppingConn DEF OtherSubscriberClaims, SourceDeclines, ServerSends, ServerEnds, RealSends

-----------------------------------------------------------------------------
(* Mocked responses are not gated.                                           *)

\* A part of a mocked response is written, or its end.
LEMMA MockedGated ==
  ASSUME Stepping, NEW r \in Request, stage[r] \in Active, Aside, NEW c, Becomes(c),
         UNCHANGED inputVars,
         Alive(conn) /\ Alive(c) =>
           ToSet(c.sent) \subseteq ToSet(conn.sent) \cup {Part(r, "head"), Part(r, "fin")}
  PROVE  Gates'
<1>1. /\ current = r /\ verdict[r] = "mock" /\ r # 0 /\ ~PassedOn(r)
      /\ Alive(conn) => ~conn.corked
  BY StagedFacts DEF Stepping
<1>2. Given(verdict') /\ NonePassed /\ conn' = c
  BY BecomesGives DEF Stepping
<1>3. current' = current
  BY DEF Aside
<1>4. ~PassedOn(current)'
  <2>1. 1 \in Request
    BY BoundsAssumption DEF Request
  <2>2. QED
    BY <1>1, <1>2, <1>3, <2>1 DEF PassedOn, Tunnelled, NonePassed, inputVars
<1>5. protocol' = "http"
  BY SteppingConn DEF inputVars
<1>6. Alive(conn') => ~conn'.corked
  BY <1>4, <1>5 DEF Stepping, SInv, AliveInv, HttpAlive
<1>7. ASSUME NEW q \in Request, verdict[q] = "passthrough", Sent(q, "head")',
             Alive(conn), Alive(conn')
      PROVE  Sent(q, "head")
  <2>1. q # r
    BY <1>1, <1>7
  <2>2. Part(q, "head") # Part(r, "head") /\ Part(q, "head") # Part(r, "fin")
    BY <2>1 DEF Part
  <2>3. QED
    BY <1>2, <1>7, <2>2 DEF Sent
<1>8. ASSUME Alive(conn), Alive(conn')
      PROVE  conn'.corked = conn.corked /\ ~conn.corked
  <2>1. conn.corked \in BOOLEAN
    BY SteppingConn DEF Connections
  <2>2. conn'.corked \in BOOLEAN
    BY NextConnTyped DEF Stepping, Connections
  <2>3. QED
    BY <1>1, <1>6, <1>8, <2>1, <2>2
<1>9. QED
  BY <1>7, <1>8, SteadyStep

\* A chunk of a mocked body is written.
LEMMA MockedBodyWritesGated ==
  ASSUME Stepping, NEW r \in Request, MockedBodyWrites(r)
  PROVE  Gates'
<1>1. stage[r] \in Active
  BY DEF MockedBodyWrites, Active
<1>2. PICK x : x = Part(r, "head")
  OBVIOUS
<1>3. PICK c : c = Push(Emitted(conn, x), x)
  OBVIOUS
<1>4. x \in Chunk
  BY <1>2, PartIsChunk DEF Parts
<1>5. OnlyConn(c)
  BY <1>2, <1>3 DEF MockedBodyWrites, PushPart
<1>6. Aside /\ Becomes(c) /\ UNCHANGED inputVars
  BY <1>5, OnlyConnAside DEF OnlyConn
<1>7. conn \in Connections(Chunk, Tick) /\ conn \in After(conn, Chunk, Tick) /\ Closing(conn)
  BY SteppingConn
<1>8. ASSUME Alive(conn), Alive(c)
      PROVE  ToSet(c.sent) \subseteq ToSet(conn.sent) \cup {Part(r, "head"), Part(r, "fin")}
  <2>1. ~conn.eof
    <3>1. conn \in Sending(conn)
      BY <1>7, SendingItself
    <3>2. QED
      BY <1>3, <1>4, <1>7, <1>8, <3>1, PushSending
  <2>2. Fed(conn, conn)
    BY <1>1, <1>8, <2>1, MockedAlive DEF Stepping
  <2>3. c.sent = Append(conn.sent, x)
    BY <1>3, <1>4, <1>7, <1>8, <2>1, <2>2, PushFed DEF Alive
  <2>4. ToSet(c.sent) = ToSet(conn.sent) \cup {x}
    BY <1>4, <1>7, <2>3, AppendedSent
  <2>5. QED
    BY <1>2, <2>4
<1>9. QED
  BY <1>1, <1>6, <1>8, MockedGated

\* It ends.
LEMMA MockedBodyEndsGated ==
  ASSUME Stepping, NEW r \in Request, NEW framed \in BOOLEAN, MockedBodyEnds(r, framed)
  PROVE  Gates'
<1>1. stage[r] \in Active
  BY DEF MockedBodyEnds, Active
<1>2. PICK b : b = WithHead(r)
  OBVIOUS
<1>3. /\ b \in Connections(Chunk, Tick)
      /\ ToSet(b.sent) \subseteq ToSet(conn.sent) \cup {Part(r, "head")}
      /\ (~Alive(conn) \/ conn.eof => b \in Sending(conn) /\ (b.eof \/ ~Alive(b)))
      /\ (Alive(conn) /\ ~conn.eof => Fed(conn, b))
  BY <1>1, <1>2, WithHeadFacts DEF Stepping
<1>4. PICK y : y = Part(r, "fin")
  OBVIOUS
<1>5. y \in Chunk
  BY <1>4, PartIsChunk DEF Parts
<1>6. conn \in Connections(Chunk, Tick)
  BY SteppingConn
<1>7. PICK d : d = IF Delimited(r, framed) THEN Push(Emitted(b, y), y) ELSE b
  OBVIOUS
<1>8. PICK c : c = IF EndsStream(r, framed) THEN Later(d, "eof") ELSE d
  OBVIOUS
<1>9. Aside /\ Becomes(c) /\ UNCHANGED inputVars
  BY <1>2, <1>4, <1>7, <1>8 DEF MockedBodyEnds, PushPart, Aside, realVars, eventVars
<1>10. EndsStream(r, framed) <=> ~Delimited(r, framed)
  BY DEF EndsStream, Delimited
<1>11. ASSUME Alive(conn), Alive(c)
       PROVE  ToSet(c.sent) \subseteq ToSet(conn.sent) \cup {Part(r, "head"), Part(r, "fin")}
  <2>1. CASE Delimited(r, framed)
    <3>1. c = Push(Emitted(b, y), y)
      BY <1>7, <1>8, <1>10, <2>1
    <3>2. ~conn.eof
      BY <1>3, <1>5, <1>6, <1>11, <3>1, PushSending
    <3>3. Fed(conn, b) /\ ~b.destroyed /\ ~b.eof
      BY <1>3, <1>11, <3>2 DEF Fed, Alive
    <3>4. c.sent = Append(b.sent, y)
      BY <1>5, <1>6, <3>1, <3>3, PushFed
    <3>5. ToSet(c.sent) = ToSet(b.sent) \cup {y}
      BY <1>3, <1>5, <3>4, AppendedSent
    <3>6. QED
      BY <1>3, <1>4, <3>5
  <2>2. CASE ~Delimited(r, framed)
    <3>1. c = Later(b, "eof")
      BY <1>7, <1>8, <1>10, <2>2
    <3>2. c.sent = b.sent
      BY <1>3, <3>1, LaterSame DEF Same, Tick
    <3>3. QED
      BY <1>3, <3>2
  <2>3. QED
    BY <2>1, <2>2
<1>12. QED
  BY <1>1, <1>9, <1>11, MockedGated

-----------------------------------------------------------------------------
(* Requests and passing them through.                                        *)

\* The client sends a request.
LEMMA ClientWritesGated ==
  ASSUME Stepping, ClientRequests \/ ClientRequestsThroughTunnel
  PROVE  Gates'
<1>1. ClientWrites
  BY DEF ClientRequests, ClientRequestsThroughTunnel
<1>2. /\ Alive(conn) /\ reached = <<>> /\ ~conn.corked
      /\ current + 1 \in Request /\ current \in Nat
  BY <1>1, WritesFacts DEF Stepping
<1>3. conn \in Connections(Chunk, Tick)
  BY SteppingConn
<1>4. PICK r : r = current + 1
  OBVIOUS
<1>5. /\ current' = r /\ r \in Request /\ r \in Nat /\ r > current /\ r # current
      /\ UNCHANGED <<served, events, settled>> /\ parsers' \subseteq parsers
      /\ conn' = conn \/ conn' = Detach(conn)
      /\ ClientRequests => reached' = <<>>
  BY <1>1, <1>2, <1>4 DEF ClientWrites, ClientRequests, ClientRequestsThroughTunnel, EnterTunnel,
     tunnelVars, eventVars
<1>6. conn'.corked = conn.corked /\ conn'.sent = conn.sent
  BY <1>3, <1>5 DEF Detach, Connections
<1>7. \A p \in parsers : p <= current /\ p \in Request
  BY DEF Stepping, Gates, Parsing, IInv, Types, OtherTypes
<1>8. r \notin parsers
  BY <1>2, <1>5, <1>7 DEF Request
<1>9. Parsing'
  <2>1. \A p \in parsers' : p <= current'
    BY <1>2, <1>5, <1>7 DEF Request
  <2>2. QED
    BY <1>5, <1>8, <2>1 DEF Parsing
<1>10. \A q \in Request, target \in Targets : <<q, target>> \in served => q # r
  BY <1>2, <1>5 DEF Stepping, IInv, ServedRight, Request
<1>11. ReadGated'
  <2>1. ASSUME NEW q \in Request, NEW target \in Targets, <<q, target>> \in served',
               q = current' \/ Sent(q, "head")'
        PROVE  ParsedHead(q)'
    <3>1. q # current' /\ <<q, target>> \in served
      BY <1>5, <1>10, <2>1
    <3>2. Sent(q, "head")
      BY <1>6, <2>1, <3>1 DEF Sent
    <3>3. ParsedHead(q)
      BY <1>2, <3>1, <3>2 DEF Stepping, Gates, ReadGated
    <3>4. QED
      BY <1>5, <3>3 DEF ParsedHead
  <2>2. \A e \in events : e.parser # e.request
    BY <1>2 DEF Stepping, Gates, ReadGated
  <2>3. QED
    BY <1>2, <1>5, <1>6, <2>1, <2>2 DEF ReadGated
<1>12. QED
  BY <1>2, <1>5, <1>9, <1>11, GateStep

\* The request passes through, and the reads are corked for its answer.
LEMMA PassthroughGated ==
  ASSUME Stepping, NEW r \in Request, Passthrough(r)
  PROVE  Gates'
<1>1. PICK c : /\ conn' = c
               /\ c = [conn EXCEPT !.corked = c.corked, !.real = c.real, !.paused = c.paused]
               /\ c \in Connections(Chunk, Tick)
  BY PassthroughConn DEF Stepping
<1>2. conn \in Connections(Chunk, Tick)
  BY SteppingConn
<1>3. /\ c.heard = conn.heard /\ c.buffer = conn.buffer /\ c.sent = conn.sent
      /\ c.destroyed = conn.destroyed /\ c.closes = conn.closes
  BY <1>1, <1>2 DEF Connections
<1>4. /\ current = r /\ reached = <<>> /\ ~Sent(r, "head") /\ ~Tunnelled
      /\ verdict[r] = "pending"
      /\ Alive(conn) => ~conn.corked
  BY UndecidedFacts DEF Stepping, Passthrough
<1>5. c.corked
  <2>1. PICK b : b = IF Live THEN conn ELSE Dialled(conn)
    OBVIOUS
  <2>2. c = [b EXCEPT !.corked = TRUE]
    BY <1>1, <2>1 DEF Passthrough, CorkForListeners, Cork, Turns, Stepping
  <2>3. "corked" \in DOMAIN b
    BY <1>2, <2>1 DEF Dialled, Connections
  <2>4. QED
    BY <2>2, <2>3
<1>6. /\ UNCHANGED <<current, events, settled>>
      /\ parsers' \subseteq parsers \cup {r}
      /\ served \subseteq served' /\ served' \subseteq served \cup {<<r, dialled'>>}
      /\ reached' # reached => served' = served \cup {<<r, dialled'>>}
  BY DEF Passthrough, eventVars
<1>7. dialled' \in Targets
  BY DEF Stepping, IInv, Types
<1>8. Parsing'
  <2>1. r <= r
    BY DEF Request
  <2>2. \A p \in parsers' : p <= current'
    BY <1>4, <1>6, <2>1 DEF Stepping, Gates, Parsing
  <2>3. reached' # <<>> => <<current', dialled'>> \in served'
    BY <1>4, <1>6
  <2>4. QED
    BY <1>7, <2>2, <2>3 DEF Parsing
<1>9. ReadGated'
  <2>1. SUFFICES ASSUME Alive(conn') PROVE ReadGated'
    BY DEF ReadGated
  <2>2. Alive(conn)
    BY <1>1, <1>3, <2>1 DEF Alive
  <2>3. ASSUME NEW q \in Request, NEW target \in Targets, <<q, target>> \in served',
               q = current' \/ Sent(q, "head")', q # current' \/ ~conn'.corked
        PROVE  ParsedHead(q)'
    <3>1. q # current /\ <<q, target>> \in served
      BY <1>1, <1>4, <1>5, <1>6, <2>3
    <3>2. Sent(q, "head")
      BY <1>1, <1>3, <1>6, <2>3, <3>1 DEF Sent
    <3>3. ParsedHead(q)
      BY <2>2, <3>1, <3>2 DEF Stepping, Gates, ReadGated
    <3>4. QED
      BY <1>6, <3>3 DEF ParsedHead
  <2>4. Part(current', "head") \notin ToSet(Delivered(conn'))
    <3>1. Sound(conn)
      BY <2>2, SteppingConn
    <3>2. Part(r, "head") \notin ToSet(Delivered(conn))
      BY <1>2, <1>4, <3>1, DeliveredSent DEF Sent
    <3>3. QED
      BY <1>1, <1>3, <1>4, <1>6, <3>2 DEF Delivered
  <2>5. \A e \in events : e.parser # e.request
    BY <1>4, <2>2 DEF Stepping, Gates, ReadGated
  <2>6. QED
    BY <1>6, <2>3, <2>4, <2>5 DEF ReadGated
<1>10. Part(r, "head") \notin ToSet(conn.heard)
  BY <1>4, NothingSent DEF Stepping
<1>11. current' \in Nat
  BY <1>4, <1>6 DEF Request
<1>12. QED
  BY <1>6, <1>8, <1>9, <1>10, <1>11, GateStep

-----------------------------------------------------------------------------
(* Answers, and the listeners they are held back for.                        *)

\* What a part of an answer leaves of the connection.
LEMMA AnswersConn ==
  ASSUME Stepping, NEW part \in Parts, AnswersOf(part),
         NEW x, x = Part(current, part), NEW c, c = OnRealData(conn, x)
  PROVE  /\ c.sent = Append(conn.sent, x) /\ conn' = c
         /\ (Alive(conn) => c.corked = conn.corked)
         /\ (Alive(conn) /\ conn.corked => Delivered(c) = Delivered(conn))
<1>1. /\ current \in Request /\ conn.real = "open" /\ ~MockOver
      /\ Becomes(OnRealData(conn, Part(current, part)))
  BY AnswersFacts DEF Stepping
<1>2. conn' = c
  BY <1>1 DEF Becomes, Turns
<1>3. x \in Chunk
  BY <1>1, PartIsChunk
<1>4. conn \in Connections(Chunk, Tick) /\ conn \in After(conn, Chunk, Tick) /\ Closing(conn)
      /\ (Alive(conn) => HttpAlive /\ Sound(conn))
  BY SteppingConn
<1>5. CASE ~Alive(conn)
  <2>1. conn \in Sending(conn)
    BY <1>4, SendingItself
  <2>2. c.sent = Append(conn.sent, x)
    BY <1>3, <1>4, <1>5, <2>1, RealDataSending
  <2>3. QED
    BY <1>2, <1>5, <2>2
<1>6. CASE Alive(conn)
  <2>1. NothingToWrite(conn) /\ ~conn.eof
    BY <1>1, <1>4, <1>6 DEF HttpAlive, Sound
  <2>2. CASE conn.corked
    <3>1. Behind(conn, x, c)
      BY <1>1, <1>3, <1>4, <1>6, <2>1, <2>2, RealDataCorked
    <3>2. QED
      BY <1>2, <3>1 DEF Behind
  <2>3. CASE ~conn.corked
    <3>1. Fed(conn, c) /\ c.sent = Append(conn.sent, x)
      BY <1>3, <1>4, <1>6, <2>1, <2>3, RealDataFed
    <3>2. QED
      BY <1>2, <2>3, <3>1 DEF Fed
  <2>4. QED
    BY <2>2, <2>3
<1>7. QED
  BY <1>5, <1>6

\* A real server answers.
LEMMA AnswersGated ==
  ASSUME Stepping, NEW part \in Parts, AnswersOf(part)
  PROVE  Gates'
<1>1. /\ current \in Request /\ reached = <<current>>
      /\ (answering # "head" => ~Sent(current, "head"))
      /\ events' = events \cup Parsed(current, part)
      /\ current' = current
      /\ reached' = IF part = "fin" THEN <<>> ELSE reached
  BY AnswersFacts DEF Stepping
<1>2. UNCHANGED <<parsers, served, settled>>
  BY DEF AnswersOf, Answers
<1>3. PICK x : x = Part(current, part)
  OBVIOUS
<1>4. PICK c : c = OnRealData(conn, x)
  OBVIOUS
<1>5. /\ c.sent = Append(conn.sent, x) /\ conn' = c
      /\ (Alive(conn) => c.corked = conn.corked)
      /\ (Alive(conn) /\ conn.corked => Delivered(c) = Delivered(conn))
  BY <1>3, <1>4, AnswersConn
<1>6. conn \in Connections(Chunk, Tick) /\ x \in Chunk
  BY <1>1, <1>3, SteppingConn, PartIsChunk
<1>7. ToSet(c.sent) = ToSet(conn.sent) \cup {x}
  BY <1>5, <1>6, AppendedSent
<1>8. \A f \in Parsed(current, part) :
        f.request = current /\ f.part = part /\ f.parser \in parsers /\ part # "fin"
  BY DEF Parsed
<1>9. part # "fin" => ~Sent(current, "head")
  BY <1>1 DEF AnswersOf, Parts
<1>10. Parsing'
  BY <1>1, <1>2 DEF Stepping, Gates, Parsing
<1>11. ASSUME NEW q \in Request, NEW target \in Targets, <<q, target>> \in served,
              q = current \/ Sent(q, "head")', q # current \/ ~conn.corked, Alive(conn)
       PROVE  ParsedHead(q)
  <2>1. q # current => Part(q, "head") # x
    BY <1>3 DEF Part
  <2>2. q = current \/ Sent(q, "head")
    BY <1>5, <1>7, <1>11, <2>1 DEF Sent
  <2>3. QED
    BY <1>11, <2>2 DEF Stepping, Gates, ReadGated
<1>12. ASSUME NEW f \in Parsed(current, part), f.parser = f.request, Alive(conn)
       PROVE  conn.corked
  <2>1. SUFFICES ASSUME ~conn.corked PROVE FALSE
    OBVIOUS
  <2>2. current \in parsers /\ reached # <<>>
    BY <1>1, <1>8, <1>12
  <2>3. PICK target \in Targets : <<current, target>> \in served
    BY <2>2 DEF Stepping, Gates, Parsing
  <2>4. ParsedHead(current)
    BY <1>1, <1>12, <2>1, <2>3 DEF Stepping, Gates, ReadGated
  <2>5. Sent(current, "head")
    BY <2>4 DEF ParsedHead, Stepping, Gates, KnownHeads
  <2>6. QED
    BY <1>8, <1>9, <2>5
<1>13. ReadGated'
  <2>1. SUFFICES ASSUME Alive(conn') PROVE ReadGated'
    BY DEF ReadGated
  <2>2. Alive(conn) /\ conn'.corked = conn.corked
    BY <1>5, <2>1, PromisedAlive DEF Stepping
  <2>3. \A q \in Request, target \in Targets :
          /\ <<q, target>> \in served'
          /\ q = current' \/ Sent(q, "head")'
          /\ q # current' \/ ~conn'.corked
          => ParsedHead(q)'
    BY <1>1, <1>2, <1>11, <2>2 DEF ParsedHead
  <2>4. conn'.corked => Part(current', "head") \notin ToSet(Delivered(conn'))
    BY <1>1, <1>5, <2>2 DEF Stepping, Gates, ReadGated
  <2>5. \A f \in events' : f.parser = f.request => f.request = current' /\ conn'.corked
    <3>1. SUFFICES ASSUME NEW f \in events', f.parser = f.request
                   PROVE  f.request = current' /\ conn'.corked
      OBVIOUS
    <3>2. CASE f \in events
      BY <1>1, <2>2, <3>1, <3>2 DEF Stepping, Gates, ReadGated
    <3>3. CASE f \in Parsed(current, part)
      BY <1>1, <1>8, <1>12, <2>2, <3>1, <3>3
    <3>4. QED
      BY <1>1, <3>2, <3>3
  <2>6. QED
    BY <2>3, <2>4, <2>5 DEF ReadGated
<1>14. \A f \in events' \cup settled' :
         f.part = "head" => f \in events \cup settled \/ Sent(f.request, "head")'
  <2>1. SUFFICES ASSUME NEW f \in Parsed(current, part), f.part = "head"
                 PROVE  Sent(f.request, "head")'
    BY <1>1, <1>2
  <2>2. f.request = current /\ x = Part(current, "head")
    BY <1>3, <1>8, <2>1
  <2>3. QED
    BY <1>5, <1>7, <2>2 DEF Sent
<1>15. current' \in Nat
  BY <1>1 DEF Request
<1>16. QED
  BY <1>2, <1>10, <1>13, <1>14, <1>15, GateStep

\* The listeners settle, and the reads go on.
LEMMA SettlesGated ==
  ASSUME Stepping, ~Stale', NEW e \in events, ResponseListenersSettle(e)
  PROVE  Gates'
<1>1. /\ events' = events \ {e} /\ settled' = settled \cup {e}
      /\ UNCHANGED <<current, reached, parsers, served>> /\ conn' = UncorkFor(e)
  BY DEF ResponseListenersSettle, Becomes, Turns, exchangeVars, realVars
<1>2. e.parser = e.request
  BY <1>1 DEF Stale
<1>3. PICK u : u = Uncork(conn)
  OBVIOUS
<1>4. PICK c : c = UncorkFor(e)
  OBVIOUS
<1>5. conn \in Connections(Chunk, Tick) /\ Closing(conn) /\ (Alive(conn) => HttpAlive /\ Sound(conn))
  BY SteppingConn
<1>6. current \in Nat /\ settled \subseteq settled'
  BY <1>1 DEF Stepping, IInv, Types
<1>7. Parsing'
  BY <1>1 DEF Stepping, Gates, Parsing
<1>8. ReadGated'
  <2>1. SUFFICES ASSUME Alive(conn') PROVE ReadGated'
    BY DEF ReadGated
  <2>2. Alive(conn)
    BY <2>1, PromisedAlive DEF Stepping
  <2>3. e.request = current /\ conn.corked
    BY <1>2, <2>2 DEF Stepping, Gates, ReadGated
  <2>4. LetGo(conn, u) \/ LetClose(conn, u)
    BY <1>3, <1>5, <2>2, <2>3, UncorkAlive DEF HttpAlive
  <2>5. u \in Connections(Chunk, Tick) /\ u.sent = conn.sent
    BY <2>4 DEF LetGo, LetClose
  <2>6. /\ c = IF e.part = "informational" THEN Cork(u) ELSE u
        /\ Corks(u, Cork(u))
    BY <1>3, <1>4, <2>5, CorkKeeps DEF UncorkFor
  <2>7. Alive(u) /\ c.sent = conn.sent
    BY <1>1, <1>4, <2>1, <2>5, <2>6 DEF Corks
  <2>8. LetGo(conn, u)
    BY <2>4, <2>7 DEF LetClose
  <2>9. ~u.corked /\ Sound(u)
    BY <2>8 DEF LetGo
  <2>10. \A q \in Nat : Sent(q, "head")' <=> Sent(q, "head")
    BY <1>1, <1>4, <2>7 DEF Sent
  <2>11. ASSUME NEW q \in Request, NEW target \in Targets, <<q, target>> \in served,
                q # current, Sent(q, "head")
         PROVE  ParsedHead(q)'
    <3>1. ParsedHead(q)
      BY <2>2, <2>11 DEF Stepping, Gates, ReadGated
    <3>2. QED
      BY <1>6, <3>1, ParsedStays
  <2>12. CASE e.part = "informational"
    <3>1. ~Sent(current, "head")
      BY <2>12 DEF Stepping, SInv, Reaching
    <3>2. c.corked = TRUE /\ Delivered(c) = Delivered(u)
      BY <2>6, <2>12 DEF Corks
    <3>3. ToSet(Delivered(u)) \subseteq ToSet(u.sent)
      BY <2>5, <2>9, DeliveredSent
    <3>4. Part(current, "head") \notin ToSet(Delivered(c))
      BY <2>5, <3>1, <3>2, <3>3 DEF Sent
    <3>5. \A f \in events' : f.parser = f.request => f.request = current' /\ conn'.corked
      BY <1>1, <1>4, <2>2, <3>2 DEF Stepping, Gates, ReadGated
    <3>6. \A q \in Request, target \in Targets :
            /\ <<q, target>> \in served'
            /\ q = current' \/ Sent(q, "head")'
            /\ q # current' \/ ~conn'.corked
            => ParsedHead(q)'
      BY <1>1, <1>4, <2>10, <2>11, <3>2 DEF Request
    <3>7. QED
      BY <1>1, <1>4, <3>4, <3>5, <3>6 DEF ReadGated
  <2>13. CASE e.part # "informational"
    <3>1. c = u
      BY <2>6, <2>13
    <3>2. e.part = "head" /\ e \in Event
      BY <2>13 DEF Stepping, IInv, Types, OtherTypes, Event
    <3>3. ParsedHead(current)'
      BY <1>1, <2>3, <3>2 DEF ParsedHead
    <3>4. Sent(current, "head")
      BY <2>3, <3>2 DEF Stepping, Gates, KnownHeads
    <3>5. \A f \in events : f.part # "informational"
      BY <3>4 DEF Stepping, SInv, Reaching
    <3>6. ASSUME NEW f \in events', f.parser = f.request
          PROVE  FALSE
      <4>1. f \in Event /\ f.part = "head" /\ f # e
        BY <1>1, <3>5 DEF Stepping, IInv, Types, OtherTypes, Event
      <4>2. f.request = current /\ f.parser = current
        BY <1>1, <2>2, <3>6 DEF Stepping, Gates, ReadGated
      <4>3. f = e
        BY <1>2, <2>3, <3>2, <4>1, <4>2 DEF Event
      <4>4. QED
        BY <4>1, <4>3
    <3>7. \A q \in Request, target \in Targets :
            <<q, target>> \in served' /\ (q = current' \/ Sent(q, "head")') => ParsedHead(q)'
      BY <1>1, <2>10, <2>11, <3>3 DEF Request
    <3>8. QED
      BY <1>1, <1>4, <2>9, <3>1, <3>6, <3>7 DEF ReadGated
  <2>14. QED
    BY <2>12, <2>13
<1>9. QED
  BY <1>1, <1>6, <1>7, <1>8, GateStep

-----------------------------------------------------------------------------
(* Every step.                                                               *)

\* Whoever has settled has settled, whatever the step.
LEMMA SettledStays ==
  ASSUME [Next]_vars
  PROVE  settled \subseteq settled'
<1>1. CASE ClientRequests \/ ClientRequestsThroughTunnel
  BY <1>1 DEF ClientRequests, ClientRequestsThroughTunnel, eventVars
<1>2. CASE Listeners
  BY <1>2 DEF Listeners, RespondInVain, RespondWith, RespondWithNetworkError, ErrorWith,
     Passthrough, eventVars
<1>3. CASE \E r \in Request :
             MockedListenersThrow(r) \/ MockedBodyWrites(r) \/ MockedBodyBreaks(r)
  BY <1>3 DEF MockedListenersThrow, MockedBodyWrites, MockedBodyBreaks, OnlyConn, eventVars
<1>4. CASE MockProceeds \/ SettleEvent
  BY <1>4 DEF MockProceeds, SettleEvent, MockedListenersSettle, MockedBodyEnds,
     ResponseListenersSettle, eventVars
<1>5. CASE Server
  BY <1>5 DEF Server, RealInforms, RealResponds, RealCompletes, Answers, RealSends, RealEnds,
     RealFails, OnlyConn, eventVars
<1>6. CASE EventLoop
  BY <1>6 DEF EventLoop, ClaimCompletes, RealConnects, RealFinishes, RealCloses, RealUnchanged,
     NativeClose, Ticks, TickClose, TickDeliverClose, TickEnd, TickDestroy, TickPassthrough,
     OnlyConn, eventVars
<1>7. CASE OtherSubscriberClaims \/ SourceDeclines \/ ServerSends \/ ServerEnds
  BY <1>7 DEF OtherSubscriberClaims, SourceDeclines, ServerSends, ServerEnds, OnlyConn, eventVars
<1>8. CASE ConsumerPauses \/ Consumer \/ ClientDestroys
  BY <1>8 DEF ConsumerPauses, Consumer, ConsumerResumes, ConsumerReads, ConsumerHearsEnd,
     ClientTearsDown, ClientDestroys, OnlyConn, eventVars
<1>9. CASE UNCHANGED vars
  BY <1>9 DEF vars, eventVars
<1>10. QED
  BY <1>1, <1>2, <1>3, <1>4, <1>5, <1>6, <1>7, <1>8, <1>9 DEF Next

\* The gates hold after every step.
LEMMA NextGates ==
  ASSUME Stepping, ~hurried, ~Stale', [Next]_vars
  PROVE  Gates'
<1>1. CASE ClientRequests \/ ClientRequestsThroughTunnel
  BY <1>1, ClientWritesGated
<1>2. CASE Listeners
  <2>1. PICK r \in Request :
          \/ RespondInVain(r)
          \/ \E ok \in BOOLEAN : RespondWith(r, ok)
          \/ RespondWithNetworkError(r)
          \/ \E isError \in BOOLEAN : ErrorWith(r, isError)
          \/ Passthrough(r)
    BY <1>2 DEF Listeners
  <2>2. CASE Passthrough(r)
    BY <2>2, PassthroughGated
  <2>3. CASE ~Passthrough(r)
    BY <2>1, <2>3, DecisionsGated
  <2>4. QED
    BY <2>2, <2>3
<1>3. CASE \E r \in Request :
             MockedListenersThrow(r) \/ MockedBodyWrites(r) \/ MockedBodyBreaks(r)
  BY <1>3, MockedQuietGated, MockedBodyWritesGated
<1>4. CASE MockProceeds
  BY <1>4, MockedQuietGated, MockedBodyEndsGated DEF MockProceeds
<1>5. CASE SettleEvent
  BY <1>5, SettlesGated DEF SettleEvent
<1>6. CASE RealInforms \/ RealResponds \/ RealCompletes
  <2>1. PICK part \in Parts : AnswersOf(part)
    BY <1>6 DEF RealInforms, RealResponds, RealCompletes, AnswersOf, Parts
  <2>2. QED
    BY <2>1, AnswersGated
<1>7. CASE RealSends \/ RealEnds \/ RealFails
  BY <1>7, OtherGated, RealEndsGated, RealFailsGated
<1>8. CASE EventLoop
  BY <1>8, ClaimCompletesGated, RealConnectsGated, RealEndsGated, RealClosesGated, ClosesGated,
     TicksGated DEF EventLoop, Ticks
<1>9. CASE OtherSubscriberClaims \/ SourceDeclines \/ ServerSends \/ ServerEnds
  BY <1>9, OtherGated
<1>10. CASE ConsumerPauses \/ Consumer \/ ClientDestroys
  BY <1>10, ConsumerGated
<1>11. CASE UNCHANGED vars
  <2>1. Aside /\ conn' = conn
    BY <1>11 DEF vars, Aside, exchangeVars, realVars, eventVars
  <2>2. QED
    BY <2>1, LevelStep DEF Level
<1>12. QED
  BY <1>1, <1>2, <1>3, <1>4, <1>5, <1>6, <1>7, <1>8, <1>9, <1>10, <1>11 DEF Next, Server

\* With "response" listeners the client hears of an original response only after they
\* have settled on it, unless a parser an earlier exchange left reported it once more.
THEOREM HeadGating == Spec => []HeadGated
<1> DEFINE Gated == hurried \/ (SInv /\ (listening /\ ~Stale => Gates))
<1>1. Init => Gated
  <2>1. SUFFICES ASSUME Init PROVE SInv /\ Gates
    OBVIOUS
  <2>2. /\ parsers = {} /\ events = {} /\ settled = {} /\ served = {} /\ conn.corked = FALSE
    BY <2>1 DEF Init, NewConnection
  <2>3. Gates
    BY <2>2 DEF Gates, KnownHeads, Parsing, ReadGated, HeardGated
  <2>4. QED
    BY <2>1, <2>3, InitSInv
<1>2. IInv /\ IInv' /\ Gated /\ [Next]_vars => Gated'
  <2>1. SUFFICES ASSUME IInv, IInv', Gated, [Next]_vars PROVE Gated'
    OBVIOUS
  <2>2. UNCHANGED inputVars /\ settled \subseteq settled'
    BY <2>1, InputsStay, SettledStays
  <2>3. CASE hurried
    BY <2>2, <2>3 DEF inputVars
  <2>4. CASE ~hurried
    <3>1. SInv
      BY <2>1, <2>4
    <3>2. SInv' /\ Promised(conn, conn')
      BY <2>1, <2>4, <3>1, NextSInv
    <3>3. ASSUME listening', ~Stale'
          PROVE  Gates'
      <4>1. listening /\ ~Stale
        BY <2>2, <3>3 DEF Stale, inputVars
      <4>2. Stepping
        BY <2>1, <2>4, <3>2, <4>1 DEF Stepping
      <4>3. QED
        BY <2>1, <2>4, <3>3, <4>2, NextGates
    <3>4. QED
      BY <3>2, <3>3
  <2>5. QED
    BY <2>3, <2>4
<1>3. Gated => HeadGated
  BY DEF HeadGated, Gates, HeardGated, ParsedHead
<1>4. QED
  BY <1>1, <1>2, <1>3, Invariance, PTL DEF Spec

-----------------------------------------------------------------------------
(* A client closes once.                                                     *)

\* What the cork can hold before the close of the real connection, and with it.
Unclosed == Chunk \cup {EndRead}
CloseCorked(c) == \E D \in Seq(Unclosed) : c.corkedReads = Append(D, CloseRead)

\* A tick that emits "close", and one that does unless it was emitted.
CloseDue(c) == "close" \in ToSet(c.ticks)
CloseIfNone(c) == "closeUnlessClosed" \in ToSet(c.ticks)

\* Unless a mocked response replaced _destroy(), at most one is due to close a client
\* that has not closed, and nobody one that has: the client's own handle, a tick, the
\* real connection or, behind the cork, the close of that.
Steady(c) ==
  /\ c.closes \in {0, 1}
  /\ c.closes = 1 =>
       /\ ~c.nativeClose /\ ~CloseDue(c) /\ c.real \in {"gone", "none"}
       /\ c.corkedReads = <<>> /\ (c.swapped \/ c.destroyed)
  /\ CloseDue(c) =>
       c.ticks = <<"close">> /\ ~c.nativeClose /\ c.real = "closing" /\ c.swapped /\ c.destroyed
  /\ "waits" \in c.layers =>
       c.swapped /\ c.real = "gone" /\ c.corkedReads \in Seq(Unclosed) /\ c.endPushed /\ ~c.ended
  /\ CloseIfNone(c) /\ c.closes = 0 =>
       c.swapped /\ c.real \in {"gone", "connecting"} /\ c.corkedReads \in Seq(Unclosed)
  /\ \/ c.corkedReads \in Seq(Unclosed)
     \/ CloseCorked(c) /\ c.real = "gone" /\ (c.nativeClose <=> ~c.swapped)
  /\ c.nativeClose => c.destroyed /\ (c.swapped => c.real = "severed")
  /\ c.real \in {"open", "finished"} => ~c.destroyed /\ c.swapped
  /\ c.real = "closing" /\ ~c.swapped => c.nativeClose
  /\ c.real = "connecting" /\ c.swapped => CloseIfNone(c)
  /\ c.real = "none" => ~c.swapped
  /\ c.destroyed /\ ~c.swapped /\ c.closes = 0 => c.nativeClose

\* And while it is read, the close of a real connection that is gone will reach it.
Followed(c) ==
  c.real = "gone" /\ ~c.destroyed /\ c.closes = 0 =>
    CloseIfNone(c) \/ "waits" \in c.layers \/ CloseCorked(c)
Once(c) == Steady(c) /\ Followed(c)

\* Nothing that closes a client changes.
SameEnds(c, d) ==
  /\ d.closes = c.closes /\ d.destroyed = c.destroyed /\ d.layers = c.layers
  /\ d.nativeClose = c.nativeClose /\ d.swapped = c.swapped /\ d.real = c.real
  /\ d.ticks = c.ticks /\ d.corkedReads = c.corkedReads
  /\ d.ended = c.ended /\ (c.endPushed => d.endPushed) /\ d.sent = c.sent

\* Then it still closes once.
LEMMA SameOnce ==
  ASSUME NEW c, NEW d, SameEnds(c, d)
  PROVE  (Steady(c) => Steady(d)) /\ (Followed(c) => Followed(d))
<1>1. /\ CloseDue(d) <=> CloseDue(c)
      /\ CloseIfNone(d) <=> CloseIfNone(c)
      /\ CloseCorked(d) <=> CloseCorked(c)
  BY DEF SameEnds, CloseDue, CloseIfNone, CloseCorked
<1>2. Steady(c) => Steady(d)
  BY <1>1 DEF SameEnds, Steady
<1>3. Followed(c) => Followed(d)
  BY <1>1 DEF SameEnds, Followed
<1>4. QED
  BY <1>2, <1>3

\* What destroy() leaves of a client.
Leaves(c, d) ==
  /\ d.destroyed /\ d.closes = c.closes /\ d.swapped = c.swapped /\ d.sent = c.sent
  /\ d.corkedReads = c.corkedReads /\ d.endPushed = c.endPushed /\ d.ended = c.ended
  /\ d.layers = c.layers \ {"waits"}
  /\ d.ticks = IF "waits" \in c.layers THEN Append(c.ticks, "closeUnlessClosed")
               ELSE c.ticks
  /\ IF c.swapped /\ c.real \notin {"open", "finished"}
     THEN d.nativeClose = c.nativeClose /\ d.real = c.real
     ELSE d.nativeClose /\ d.real = IF c.swapped THEN "severed" ELSE c.real

\* That is what it does, unless a mocked response replaced _destroy().
LEMMA DestroyLeaves ==
  ASSUME NEW b, NEW c \in After(b, Chunk, Tick), ~c.destroyed, "mock" \notin c.layers,
         NEW d, d = Destroy(c)
  PROVE  Leaves(c, d)
<1>1. c \in Connections(Chunk, Tick)
  BY DEF After
<1>2. PICK e : e = [c EXCEPT !.destroyed = TRUE]
  OBVIOUS
<1>3. e \in Connections(Chunk, Tick)
  BY <1>1, <1>2 DEF Connections
<1>4. /\ e.heard = c.heard /\ e.buffer = c.buffer /\ e.eof = c.eof /\ e.ended = c.ended
      /\ e.destroyed = TRUE /\ e.closes = c.closes /\ e.sent = c.sent /\ e.corked = c.corked
      /\ e.corkedReads = c.corkedReads /\ e.endPushed = c.endPushed /\ e.real = c.real
      /\ e.flowing = c.flowing /\ e.pendingWrites = c.pendingWrites
      /\ e.pendingEnd = c.pendingEnd /\ e.backpressured = c.backpressured
      /\ e.flushScheduled = c.flushScheduled /\ e.ticks = c.ticks
      /\ e.nativeClose = c.nativeClose /\ e.layers = c.layers /\ e.connecting = c.connecting
      /\ e.swapped = c.swapped /\ e.paused = c.paused
  BY <1>1, <1>2 DEF Connections
<1>5. PICK f : f = DeliverClose(e)
  OBVIOUS
<1>6. /\ f \in Connections(Chunk, Tick)
      /\ f.layers = e.layers \ {"waits"}
      /\ f.ticks = IF "waits" \in e.layers THEN Append(e.ticks, "closeUnlessClosed") ELSE e.ticks
      /\ f.sent = e.sent /\ f.destroyed = e.destroyed /\ f.closes = e.closes /\ f.swapped = e.swapped
      /\ f.corkedReads = e.corkedReads /\ f.endPushed = e.endPushed /\ f.ended = e.ended
      /\ f.nativeClose = e.nativeClose /\ f.real = e.real
  <2>1. CASE "waits" \in e.layers
    <3>1. PICK g : g = [e EXCEPT !.layers = e.layers \ {"waits"}]
      OBVIOUS
    <3>2. g \in Connections(Chunk, Tick)
      BY <1>3, <3>1 DEF Connections
    <3>3. /\ g.heard = e.heard /\ g.buffer = e.buffer /\ g.eof = e.eof /\ g.ended = e.ended
          /\ g.destroyed = e.destroyed /\ g.closes = e.closes /\ g.sent = e.sent
          /\ g.corked = e.corked /\ g.corkedReads = e.corkedReads
          /\ g.endPushed = e.endPushed /\ g.real = e.real /\ g.flowing = e.flowing
          /\ g.pendingWrites = e.pendingWrites /\ g.pendingEnd = e.pendingEnd
          /\ g.backpressured = e.backpressured /\ g.flushScheduled = e.flushScheduled
          /\ g.ticks = e.ticks /\ g.nativeClose = e.nativeClose
          /\ g.layers = e.layers \ {"waits"} /\ g.connecting = e.connecting
          /\ g.swapped = e.swapped /\ g.paused = e.paused
      BY <1>3, <3>1 DEF Connections
    <3>4. PICK t : t = Append(g.ticks, "closeUnlessClosed")
      OBVIOUS
    <3>5. t \in Seq(Tick)
      BY <3>2, <3>4 DEF Connections, Tick
    <3>6. f = [g EXCEPT !.ticks = t]
      BY <1>5, <2>1, <3>1, <3>4 DEF DeliverClose, Later
    <3>7. f \in Connections(Chunk, Tick)
      BY <3>2, <3>5, <3>6 DEF Connections
    <3>8. /\ f.heard = g.heard /\ f.buffer = g.buffer /\ f.eof = g.eof /\ f.ended = g.ended
          /\ f.destroyed = g.destroyed /\ f.closes = g.closes /\ f.sent = g.sent
          /\ f.corked = g.corked /\ f.corkedReads = g.corkedReads
          /\ f.endPushed = g.endPushed /\ f.real = g.real /\ f.flowing = g.flowing
          /\ f.pendingWrites = g.pendingWrites /\ f.pendingEnd = g.pendingEnd
          /\ f.backpressured = g.backpressured /\ f.flushScheduled = g.flushScheduled
          /\ f.ticks = t /\ f.nativeClose = g.nativeClose /\ f.layers = g.layers
          /\ f.connecting = g.connecting /\ f.swapped = g.swapped /\ f.paused = g.paused
      BY <3>2, <3>6 DEF Connections
    <3>9. QED
      BY <2>1, <3>3, <3>4, <3>7, <3>8
  <2>2. CASE "waits" \notin e.layers
    BY <1>3, <1>5, <2>2 DEF DeliverClose
  <2>3. QED
    BY <2>1, <2>2
<1>7. d = CloseHandle(f)
  BY <1>2, <1>4, <1>5 DEF Destroy
<1>8. /\ d.destroyed = f.destroyed /\ d.closes = f.closes /\ d.swapped = f.swapped
      /\ d.sent = f.sent
      /\ d.corkedReads = f.corkedReads /\ d.endPushed = f.endPushed /\ d.ended = f.ended
      /\ d.layers = f.layers /\ d.ticks = f.ticks
      /\ IF f.swapped /\ f.real \notin {"open", "finished"}
         THEN d.nativeClose = f.nativeClose /\ d.real = f.real
         ELSE d.nativeClose /\ d.real = IF f.swapped THEN "severed" ELSE f.real
  <2>1. CASE ~f.swapped
    <3>1. d = [f EXCEPT !.nativeClose = TRUE]
      BY <1>7, <2>1 DEF CloseHandle
    <3>2. /\ d.heard = f.heard /\ d.buffer = f.buffer /\ d.eof = f.eof /\ d.ended = f.ended
          /\ d.destroyed = f.destroyed /\ d.closes = f.closes /\ d.sent = f.sent
          /\ d.corked = f.corked /\ d.corkedReads = f.corkedReads
          /\ d.endPushed = f.endPushed /\ d.real = f.real /\ d.flowing = f.flowing
          /\ d.pendingWrites = f.pendingWrites /\ d.pendingEnd = f.pendingEnd
          /\ d.backpressured = f.backpressured /\ d.flushScheduled = f.flushScheduled
          /\ d.ticks = f.ticks /\ d.nativeClose = TRUE /\ d.layers = f.layers
          /\ d.connecting = f.connecting /\ d.swapped = f.swapped /\ d.paused = f.paused
      BY <1>6, <3>1 DEF Connections
    <3>3. QED
      BY <2>1, <3>2
  <2>2. CASE f.swapped /\ f.real \in {"open", "finished"}
    <3>1. d = [f EXCEPT !.nativeClose = TRUE, !.real = "severed"]
      BY <1>7, <2>2 DEF CloseHandle
    <3>2. /\ d.heard = f.heard /\ d.buffer = f.buffer /\ d.eof = f.eof /\ d.ended = f.ended
          /\ d.destroyed = f.destroyed /\ d.closes = f.closes /\ d.sent = f.sent
          /\ d.corked = f.corked /\ d.corkedReads = f.corkedReads
          /\ d.endPushed = f.endPushed /\ d.real = "severed" /\ d.flowing = f.flowing
          /\ d.pendingWrites = f.pendingWrites /\ d.pendingEnd = f.pendingEnd
          /\ d.backpressured = f.backpressured /\ d.flushScheduled = f.flushScheduled
          /\ d.ticks = f.ticks /\ d.nativeClose = TRUE /\ d.layers = f.layers
          /\ d.connecting = f.connecting /\ d.swapped = f.swapped /\ d.paused = f.paused
      BY <1>6, <3>1 DEF Connections
    <3>3. QED
      BY <2>2, <3>2
  <2>3. CASE f.swapped /\ f.real \notin {"open", "finished"}
    BY <1>7, <2>3 DEF CloseHandle
  <2>4. QED
    BY <2>1, <2>2, <2>3
<1>9. QED
  BY <1>4, <1>6, <1>8 DEF Leaves

\* What closes it is still one, if anything.
LEMMA DestroyOnce ==
  ASSUME NEW b, NEW c \in After(b, Chunk, Tick), "mock" \notin c.layers,
         NEW d, d = Destroy(c), Steady(c)
  PROVE  /\ Steady(d) /\ (Followed(c) => Followed(d)) /\ "mock" \notin d.layers
         /\ d.destroyed /\ d.closes = c.closes /\ d.swapped = c.swapped /\ d.sent = c.sent
         /\ d.corkedReads = c.corkedReads
         /\ c.swapped /\ c.real \notin {"open", "finished"} => d.real = c.real
<1>1. CASE c.destroyed
  BY <1>1 DEF Destroy
<1>2. CASE ~c.destroyed
  <2>1. /\ d.destroyed /\ d.closes = c.closes /\ d.swapped = c.swapped /\ d.sent = c.sent
        /\ d.corkedReads = c.corkedReads /\ d.endPushed = c.endPushed /\ d.ended = c.ended
        /\ d.layers = c.layers \ {"waits"}
        /\ d.ticks = IF "waits" \in c.layers THEN Append(c.ticks, "closeUnlessClosed")
                     ELSE c.ticks
        /\ IF c.swapped /\ c.real \notin {"open", "finished"}
           THEN d.nativeClose = c.nativeClose /\ d.real = c.real
           ELSE d.nativeClose /\ d.real = IF c.swapped THEN "severed" ELSE c.real
    BY <1>2, DestroyLeaves DEF Leaves
  <2>2. c.ticks \in Seq(Tick) /\ c.real \in RealState
    BY DEF After, Connections
  <2>3. ToSet(d.ticks) = IF "waits" \in c.layers THEN ToSet(c.ticks) \cup {"closeUnlessClosed"}
                         ELSE ToSet(c.ticks)
    <3>1. PICK S, s : S = Tick /\ s = c.ticks
      OBVIOUS
    <3>2. s \in Seq(S) /\ "closeUnlessClosed" \in S
      BY <2>2, <3>1 DEF Tick
    <3>3. ToSet(Append(s, "closeUnlessClosed")) = ToSet(s) \cup {"closeUnlessClosed"}
      BY ONLY <3>2, ElementsOfAppend
    <3>4. QED
      BY <2>1, <3>1, <3>3
  <2>4. /\ CloseDue(d) <=> CloseDue(c)
        /\ CloseIfNone(d) <=> CloseIfNone(c) \/ "waits" \in c.layers
        /\ CloseCorked(d) <=> CloseCorked(c)
    BY <2>1, <2>3 DEF CloseDue, CloseIfNone, CloseCorked
  <2>5. ~CloseDue(c) /\ ~c.nativeClose
    BY <1>2 DEF Steady
  <2>6. Steady(d)
    <3>1. CASE c.swapped /\ c.real \notin {"open", "finished"}
      BY <1>2, <2>1, <2>2, <2>4, <2>5, <3>1 DEF Steady
    <3>2. CASE c.swapped /\ c.real \in {"open", "finished"}
      BY <1>2, <2>1, <2>2, <2>4, <2>5, <3>2 DEF Steady
    <3>3. CASE ~c.swapped
      BY <1>2, <2>1, <2>2, <2>4, <2>5, <3>3 DEF Steady
    <3>4. QED
      BY <3>1, <3>2, <3>3
  <2>7. Followed(d)
    BY <2>1 DEF Followed
  <2>8. QED
    BY <2>1, <2>6, <2>7
<1>3. QED
  BY <1>1, <1>2

\* What a client becomes by what is pushed to it and read from it.
Holding(c) ==
  {d \in After(c, Chunk, Tick) :
     /\ Steady(d) /\ (Followed(c) => Followed(d)) /\ "mock" \notin d.layers
     /\ d.closes = c.closes /\ d.swapped = c.swapped /\ d.corkedReads = c.corkedReads
     /\ d.sent = c.sent
     /\ c.swapped /\ c.real \notin {"open", "finished"} => d.real = c.real}

\* At first that is the client itself.
LEMMA HoldsItself ==
  ASSUME NEW c, c \in After(c, Chunk, Tick), Steady(c), "mock" \notin c.layers
  PROVE  c \in Holding(c)
BY DEF Holding

\* Nothing is closed.
LEMMA SameHolds ==
  ASSUME NEW c, NEW d \in Holding(c), NEW e \in After(c, Chunk, Tick), SameEnds(d, e)
  PROVE  e \in Holding(c)
<1>1. Steady(e) /\ (Followed(d) => Followed(e))
  BY SameOnce DEF Holding
<1>2. QED
  BY <1>1 DEF Holding, SameEnds

\* The client is destroyed.
LEMMA DestroyHolds ==
  ASSUME NEW c, NEW d \in Holding(c)
  PROVE  Destroy(d) \in Holding(c)
<1>1. d \in After(c, Chunk, Tick) /\ Steady(d) /\ "mock" \notin d.layers
  BY DEF Holding
<1>2. PICK e : e = Destroy(d)
  OBVIOUS
<1>3. e \in After(c, Chunk, Tick)
  BY <1>1, <1>2, DestroyAfter, OwnIsTick
<1>4. /\ Steady(e) /\ (Followed(d) => Followed(e)) /\ "mock" \notin e.layers
      /\ e.closes = d.closes /\ e.swapped = d.swapped /\ e.corkedReads = d.corkedReads
      /\ e.sent = d.sent
      /\ d.swapped /\ d.real \notin {"open", "finished"} => e.real = d.real
  BY <1>1, <1>2, DestroyOnce
<1>5. QED
  BY <1>2, <1>3, <1>4 DEF Holding

\* A chunk is pushed.
LEMMA PushHolds ==
  ASSUME NEW c, NEW d \in Holding(c), NEW x \in Chunk
  PROVE  Push(d, x) \in Holding(c)
<1>1. d \in After(c, Chunk, Tick) /\ d \in Connections(Chunk, Tick)
  BY DEF Holding, After
<1>2. PICK e : e = Push(d, x)
  OBVIOUS
<1>3. e \in After(c, Chunk, Tick)
  BY <1>1, <1>2, PushAfter, OwnIsTick
<1>4. CASE d.destroyed
  BY <1>2, <1>4 DEF Push
<1>5. CASE ~d.destroyed /\ d.eof
  BY <1>5, DestroyHolds DEF Push
<1>6. CASE ~d.destroyed /\ ~d.eof
  <2>1. SameEnds(d, e)
    BY <1>1, <1>2, <1>6 DEF Push, SameEnds, Connections
  <2>2. QED
    BY <1>2, <1>3, <2>1, SameHolds
<1>7. QED
  BY <1>4, <1>5, <1>6

\* The end is.
LEMMA PushEndHolds ==
  ASSUME NEW c, NEW d \in Holding(c)
  PROVE  PushEnd(d) \in Holding(c) /\ PushRealEnd(d) \in Holding(c)
<1>1. d \in After(c, Chunk, Tick) /\ d \in Connections(Chunk, Tick)
  BY DEF Holding, After
<1>2. PushEnd(d) \in After(c, Chunk, Tick) /\ PushRealEnd(d) \in After(c, Chunk, Tick)
  BY <1>1, PushEndAfter, PushRealEndAfter, OwnIsTick
<1>3. SameEnds(d, PushEnd(d))
  BY <1>1 DEF PushEnd, SameEnds, Connections
<1>4. SameEnds(d, PushRealEnd(d))
  BY <1>1 DEF PushRealEnd, PushEnd, SameEnds, Connections
<1>5. QED
  BY <1>2, <1>3, <1>4, SameHolds

\* A chunk of the real connection is.
LEMMA PushRealHolds ==
  ASSUME NEW c, NEW d \in Holding(c), NEW x \in Chunk
  PROVE  PushReal(d, x) \in Holding(c)
<1>1. PICK e : e = Push(d, x)
  OBVIOUS
<1>2. e \in Holding(c) /\ e \in After(c, Chunk, Tick) /\ e \in Connections(Chunk, Tick)
  BY <1>1, PushHolds DEF Holding, After
<1>3. PICK f : f = [e EXCEPT !.paused = TRUE]
  OBVIOUS
<1>4. f \in After(c, Chunk, Tick) /\ SameEnds(e, f)
  <2>1. f \in Connections(Chunk, Tick)
    BY <1>2, <1>3 DEF Connections
  <2>2. Follows(c, f) /\ f.buffer = e.buffer /\ SameEnds(e, f)
    BY <1>2, <1>3 DEF After, Follows, Connections, SameEnds
  <2>3. QED
    BY <1>2, <2>1, <2>2 DEF After
<1>5. PushReal(d, x) = e \/ PushReal(d, x) = f
  BY <1>1, <1>3 DEF PushReal
<1>6. QED
  BY <1>2, <1>4, <1>5, SameHolds

\* A pending write is.
LEMMA FlushWriteHolds ==
  ASSUME NEW c, NEW d \in Holding(c), NEW n \in Nat,
         d \in Flushing(c, Chunk, Tick, n + 1), NEW x \in Chunk
  PROVE  FlushWrite(d, x) \in Holding(c) /\ FlushWrite(d, x) \in Flushing(c, Chunk, Tick, n)
<1>1. d \in After(c, Chunk, Tick) /\ d \in Connections(Chunk, Tick)
      /\ d.pendingWrites \in Seq(Chunk)
  BY DEF Holding, After, Connections
<1>2. FlushWrite(d, x) \in Flushing(c, Chunk, Tick, n)
  BY FlushWriteAfter, OwnIsTick
<1>3. CASE d.backpressured
  BY <1>2, <1>3 DEF FlushWrite
<1>4. CASE ~d.backpressured
  <2>1. Tail(d.pendingWrites) \in Seq(Chunk)
    <3>1. Len(d.pendingWrites) = n + 1
      BY <1>4 DEF Flushing
    <3>2. QED
      BY <1>1, <3>1
  <2>2. PICK e : e = [d EXCEPT !.pendingWrites = Tail(@)]
    OBVIOUS
  <2>3. e \in Connections(Chunk, Tick)
    BY <1>1, <2>1, <2>2 DEF Connections
  <2>4. Follows(c, e) /\ e.buffer = d.buffer /\ SameEnds(d, e)
    BY <1>1, <2>2 DEF After, Follows, Connections, SameEnds
  <2>5. e \in Holding(c)
    BY <1>1, <2>3, <2>4, SameHolds DEF After
  <2>6. PICK g : g = Push(e, x)
    OBVIOUS
  <2>7. g \in Holding(c) /\ g \in Connections(Chunk, Tick)
    BY <2>5, <2>6, PushHolds DEF Holding, After
  <2>8. FlushWrite(d, x) = [g EXCEPT !.backpressured = ~TakesMore(g)]
    BY <1>4, <2>2, <2>6 DEF FlushWrite
  <2>9. SameEnds(g, FlushWrite(d, x))
    BY <2>7, <2>8 DEF SameEnds, Connections
  <2>10. QED
    BY <1>2, <2>7, <2>9, SameHolds DEF Flushing
<1>5. QED
  BY <1>3, <1>4

\* All of them are.
LEMMA FlushRunHolds ==
  ASSUME NEW c, NEW d \in Holding(c), NEW s, s = d.pendingWrites
  PROVE  Iterate(FlushWrite, d, s) \in Holding(c)
<1>1. s \in Seq(Chunk) /\ Len(s) \in Nat /\ \A i \in 1..Len(s) : s[i] \in Chunk
  <2>1. s \in Seq(Chunk)
    BY DEF Holding, After, Connections
  <2>2. QED
    BY <2>1
<1>2. PICK f : FlushRun(f, d, s)
  BY <1>1, FlushSteps
<1>3. PICK I : I = {i \in 0..Len(s) :
                      f[i] \in Holding(c) /\ f[i] \in Flushing(c, Chunk, Tick, Len(s) - i)}
  OBVIOUS
<1>4. 0 \in I
  <2>1. f[0] = d /\ Len(s) - 0 = Len(s) /\ 0 \in 0..Len(s)
    BY <1>1, <1>2 DEF FlushRun
  <2>2. d \in Flushing(c, Chunk, Tick, Len(s))
    BY DEF Flushing, Holding
  <2>3. QED
    BY <1>3, <2>1, <2>2
<1>5. ASSUME NEW i \in 0..Len(s) - 1, i \in I PROVE i + 1 \in I
  <2>1. PICK n, g, h, x : n = Len(s) - (i + 1) /\ g = f[i] /\ h = f[i + 1] /\ x = s[i + 1]
    OBVIOUS
  <2>2. n \in Nat /\ n + 1 = Len(s) - i /\ i + 1 \in 0..Len(s) /\ x \in Chunk
    BY <1>1, <2>1
  <2>3. g \in Holding(c) /\ g \in Flushing(c, Chunk, Tick, n + 1)
    BY <1>3, <1>5, <2>1, <2>2
  <2>4. h = FlushWrite(g, x)
    BY <1>2, <2>1 DEF FlushRun
  <2>5. h \in Holding(c) /\ h \in Flushing(c, Chunk, Tick, n)
    BY <2>2, <2>3, <2>4, FlushWriteHolds
  <2>6. QED
    BY <1>3, <2>1, <2>2, <2>5
<1>6. Len(s) \in I
  <2>1. 0..Len(s) \subseteq I
    BY <1>1, <1>4, <1>5, Induction
  <2>2. Len(s) \in 0..Len(s)
    BY <1>1
  <2>3. QED
    BY <2>1, <2>2
<1>7. QED
  BY <1>2, <1>3, <1>6 DEF FlushRun

\* flushPendingWrites().
LEMMA FlushServerHolds ==
  ASSUME NEW c, NEW d \in Holding(c)
  PROVE  FlushServer(d) \in Holding(c)
<1>1. d \in After(c, Chunk, Tick) /\ d \in Connections(Chunk, Tick)
  BY DEF Holding, After
<1>2. PICK e : e = FlushServer(d)
  OBVIOUS
<1>3. e \in After(c, Chunk, Tick)
  BY <1>1, <1>2, FlushServerAfter, OwnIsTick
<1>4. CASE d.connecting
  <2>1. SameEnds(d, e)
    BY <1>1, <1>2, <1>4 DEF FlushServer, SameEnds, Connections
  <2>2. QED
    BY <1>2, <1>3, <2>1, SameHolds
<1>5. CASE ~d.connecting
  <2>1. PICK b : b = [d EXCEPT !.backpressured = FALSE]
    OBVIOUS
  <2>2. b \in Connections(Chunk, Tick)
    BY <1>1, <2>1 DEF Connections
  <2>3. Follows(c, b) /\ b.buffer = d.buffer /\ SameEnds(d, b) /\ b.pendingWrites = d.pendingWrites
    BY <1>1, <2>1 DEF After, Follows, Connections, SameEnds
  <2>4. b \in Holding(c)
    BY <1>1, <2>2, <2>3, SameHolds DEF After
  <2>5. PICK g : g = Iterate(FlushWrite, b, b.pendingWrites)
    OBVIOUS
  <2>6. g \in Holding(c) /\ g \in After(c, Chunk, Tick) /\ g \in Connections(Chunk, Tick)
    BY <2>4, <2>5, FlushRunHolds DEF Holding, After
  <2>7. e = FlushEndLast(g)
    BY <1>2, <1>5, <2>1, <2>3, <2>5 DEF FlushServer
  <2>8. SameEnds(g, e)
    BY <2>6, <2>7 DEF FlushEndLast, FlushEnd, PushEnd, SameEnds, Connections
  <2>9. QED
    BY <1>2, <1>3, <2>6, <2>8, SameHolds
<1>6. QED
  BY <1>4, <1>5

\* A change of the flags of the server socket, after which it may flush.
LEMMA FlagsHold ==
  ASSUME NEW c, NEW d \in Holding(c), NEW e \in Connections(Chunk, Tick),
         Follows(c, e), e.buffer = d.buffer, SameEnds(d, e)
  PROVE  e \in Holding(c) /\ FlushServer(e) \in Holding(c)
<1>1. e \in Holding(c)
  BY SameHolds DEF Holding, After
<1>2. QED
  BY <1>1, FlushServerHolds

\* The consumer wants more, "connect", and the server socket's end().
LEMMA ServerHolds ==
  ASSUME NEW c, NEW d \in Holding(c)
  PROVE  OnRead(d) \in Holding(c) /\ Connect(d) \in Holding(c) /\ ServerEnd(d) \in Holding(c)
<1>1. d \in After(c, Chunk, Tick) /\ d \in Connections(Chunk, Tick)
  BY DEF Holding, After
<1>2. OnRead(d) \in Holding(c)
  <2>1. PICK e : e = [d EXCEPT !.paused = FALSE]
    OBVIOUS
  <2>2. e \in Connections(Chunk, Tick)
    BY <1>1, <2>1 DEF Connections
  <2>3. Follows(c, e) /\ e.buffer = d.buffer /\ SameEnds(d, e)
    BY <1>1, <2>1 DEF After, Follows, Connections, SameEnds
  <2>4. QED
    BY <2>1, <2>2, <2>3, FlagsHold DEF OnRead
<1>3. Connect(d) \in Holding(c)
  <2>1. PICK e : e = [d EXCEPT !.connecting = FALSE, !.flushScheduled = FALSE]
    OBVIOUS
  <2>2. e \in Connections(Chunk, Tick)
    BY <1>1, <2>1 DEF Connections
  <2>3. Follows(c, e) /\ e.buffer = d.buffer /\ SameEnds(d, e)
    BY <1>1, <2>1 DEF After, Follows, Connections, SameEnds
  <2>4. QED
    BY <2>1, <2>2, <2>3, FlagsHold DEF Connect
<1>4. ServerEnd(d) \in Holding(c)
  <2>1. PICK e : e = [d EXCEPT !.pendingEnd = TRUE]
    OBVIOUS
  <2>2. e \in Connections(Chunk, Tick)
    BY <1>1, <2>1 DEF Connections
  <2>3. Follows(c, e) /\ e.buffer = d.buffer /\ SameEnds(d, e)
    BY <1>1, <2>1 DEF After, Follows, Connections, SameEnds
  <2>4. QED
    BY <2>1, <2>2, <2>3, FlagsHold DEF ServerEnd
<1>5. QED
  BY <1>2, <1>3, <1>4

\* A chunk is sent.
LEMMA EmittedOnce ==
  ASSUME NEW c, c \in After(c, Chunk, Tick), Once(c), "mock" \notin c.layers,
         NEW x \in Chunk, NEW e, e = Emitted(c, x)
  PROVE  /\ e \in After(e, Chunk, Tick) /\ e \in Connections(Chunk, Tick) /\ Once(e)
         /\ e \in Holding(e) /\ "mock" \notin e.layers
         /\ e.sent = Append(c.sent, x) /\ e.closes = c.closes /\ e.swapped = c.swapped
         /\ e.real = c.real /\ e.corked = c.corked /\ e.corkedReads = c.corkedReads
         /\ e.backpressured = c.backpressured
<1>1. c \in Connections(Chunk, Tick) /\ ("abort" \in c.layers \/ "mock" \in c.layers)
  BY DEF After, Follows
<1>2. PICK s : s = Append(c.sent, x)
  OBVIOUS
<1>3. e = [c EXCEPT !.sent = s]
  BY <1>1, <1>2 DEF Emitted, Connections
<1>4. /\ e.heard = c.heard /\ e.buffer = c.buffer /\ e.eof = c.eof /\ e.ended = c.ended
      /\ e.destroyed = c.destroyed /\ e.closes = c.closes /\ e.sent = s
      /\ e.corked = c.corked /\ e.corkedReads = c.corkedReads /\ e.endPushed = c.endPushed
      /\ e.real = c.real /\ e.flowing = c.flowing /\ e.pendingWrites = c.pendingWrites
      /\ e.pendingEnd = c.pendingEnd /\ e.backpressured = c.backpressured
      /\ e.flushScheduled = c.flushScheduled /\ e.ticks = c.ticks
      /\ e.nativeClose = c.nativeClose /\ e.layers = c.layers /\ e.connecting = c.connecting
      /\ e.swapped = c.swapped /\ e.paused = c.paused
  BY <1>1, <1>3 DEF Connections
<1>5. e \in Connections(Chunk, Tick)
  <2>1. s \in Seq(Chunk)
    BY <1>1, <1>2 DEF Connections
  <2>2. QED
    BY <1>1, <1>3, <2>1 DEF Connections
<1>6. e \in After(e, Chunk, Tick)
  BY <1>1, <1>4, <1>5 DEF After, Follows
<1>7. (CloseDue(e) <=> CloseDue(c)) /\ (CloseIfNone(e) <=> CloseIfNone(c))
      /\ (CloseCorked(e) <=> CloseCorked(c))
  BY <1>4 DEF CloseDue, CloseIfNone, CloseCorked
<1>8. Steady(e) /\ Followed(e)
  BY <1>4, <1>7 DEF Once, Steady, Followed
<1>9. e \in Holding(e)
  BY <1>4, <1>6, <1>8, HoldsItself
<1>10. QED
  BY <1>2, <1>4, <1>5, <1>6, <1>8, <1>9 DEF Once

\* The server socket writes.
LEMMA ServerWriteOnce ==
  ASSUME NEW c, c \in After(c, Chunk, Tick), Once(c), "mock" \notin c.layers,
         NEW x \in Chunk, NEW e, e = ServerWrite(c, x)
  PROVE  /\ Once(e) /\ "mock" \notin e.layers /\ e.swapped = c.swapped
         /\ e.sent = Append(c.sent, x)
<1>1. c \in Connections(Chunk, Tick) /\ ("abort" \in c.layers \/ "mock" \in c.layers)
  BY DEF After, Follows
<1>2. PICK s : s = Append(c.pendingWrites, x)
  OBVIOUS
<1>3. PICK b : b = [c EXCEPT !.pendingWrites = s]
  OBVIOUS
<1>4. /\ b.heard = c.heard /\ b.buffer = c.buffer /\ b.eof = c.eof /\ b.ended = c.ended
      /\ b.destroyed = c.destroyed /\ b.closes = c.closes /\ b.sent = c.sent
      /\ b.corked = c.corked /\ b.corkedReads = c.corkedReads /\ b.endPushed = c.endPushed
      /\ b.real = c.real /\ b.flowing = c.flowing /\ b.pendingWrites = s
      /\ b.pendingEnd = c.pendingEnd /\ b.backpressured = c.backpressured
      /\ b.flushScheduled = c.flushScheduled /\ b.ticks = c.ticks
      /\ b.nativeClose = c.nativeClose /\ b.layers = c.layers /\ b.connecting = c.connecting
      /\ b.swapped = c.swapped /\ b.paused = c.paused
  BY <1>1, <1>3 DEF Connections
<1>5. b \in Connections(Chunk, Tick)
  <2>1. s \in Seq(Chunk)
    BY <1>1, <1>2 DEF Connections
  <2>2. QED
    BY <1>1, <1>3, <2>1 DEF Connections
<1>6. b \in After(b, Chunk, Tick)
  BY <1>1, <1>4, <1>5 DEF After, Follows
<1>7. Once(b)
  BY <1>4, SameOnce DEF Once, SameEnds
<1>8. PICK d : d = Emitted(b, x)
  OBVIOUS
<1>9. /\ Once(d) /\ d \in Holding(d) /\ "mock" \notin d.layers
      /\ d.sent = Append(b.sent, x) /\ d.closes = b.closes /\ d.swapped = b.swapped
  BY <1>4, <1>6, <1>7, <1>8, EmittedOnce
<1>10. e = IF c.backpressured THEN d ELSE FlushServer(d)
  BY <1>1, <1>2, <1>3, <1>8 DEF ServerWrite, Emitted, Connections
<1>11. e \in Holding(d)
  BY <1>9, <1>10, FlushServerHolds
<1>12. QED
  BY <1>4, <1>9, <1>11 DEF Holding, Once

\* A read is corked that is no close.
LEMMA CorkedOnce ==
  ASSUME NEW c \in Connections(Chunk, Tick), Once(c), c.real # "gone", c.closes = 0,
         NEW x \in Unclosed, NEW e \in Connections(Chunk, Tick),
         e.corkedReads = Append(c.corkedReads, x),
         SameEnds(c, [e EXCEPT !.corkedReads = c.corkedReads])
  PROVE  Once(e)
<1>1. c.corkedReads \in Seq(Unclosed)
  BY DEF Once, Steady
<1>2. e.corkedReads \in Seq(Unclosed)
  BY <1>1
<1>3. /\ e.closes = c.closes /\ e.destroyed = c.destroyed /\ e.layers = c.layers
      /\ e.nativeClose = c.nativeClose /\ e.swapped = c.swapped /\ e.real = c.real
      /\ e.ticks = c.ticks /\ e.ended = c.ended /\ (c.endPushed => e.endPushed)
  BY DEF SameEnds, Connections
<1>4. (CloseDue(e) <=> CloseDue(c)) /\ (CloseIfNone(e) <=> CloseIfNone(c))
  BY <1>3 DEF CloseDue, CloseIfNone
<1>5. QED
  BY <1>2, <1>3, <1>4 DEF Once, Steady, Followed

\* "close" is emitted, where it was due.
LEMMA EmitCloseOnce ==
  ASSUME NEW c \in Connections(Chunk, Tick), c.closes = 0, ~c.nativeClose, ~CloseDue(c),
         c.swapped \/ c.destroyed, c.real = "none" => ~c.swapped,
         "waits" \in c.layers => c.swapped /\ c.endPushed /\ ~c.ended,
         NEW e, e = EmitClose(c)
  PROVE  /\ Once(e) /\ e.layers = c.layers /\ e.swapped = c.swapped /\ e.sent = c.sent
         /\ e.destroyed = c.destroyed /\ (NothingToWrite(c) => NothingToWrite(e))
<1>1. /\ e.sent = c.sent /\ e.closes = 1 /\ e.real = RealAfterClose(c) /\ e.corkedReads = <<>>
      /\ e.destroyed = c.destroyed /\ e.layers = c.layers /\ e.nativeClose = c.nativeClose
      /\ e.swapped = c.swapped /\ e.ticks = c.ticks /\ e.ended = c.ended
      /\ e.endPushed = c.endPushed
  BY DEF EmitClose, Connections
<1>2. e.real \in {"gone", "none"} /\ (e.real = "none" <=> c.real = "none")
  BY <1>1 DEF RealAfterClose
<1>3. e.corkedReads \in Seq(Unclosed)
  BY <1>1
<1>4. (CloseDue(e) <=> CloseDue(c)) /\ (CloseIfNone(e) <=> CloseIfNone(c))
  BY <1>1 DEF CloseDue, CloseIfNone
<1>5. Steady(e)
  BY <1>1, <1>2, <1>3, <1>4 DEF Steady
<1>6. Followed(e)
  BY <1>1 DEF Followed
<1>7. NothingToWrite(c) => NothingToWrite(e)
  BY DEF EmitClose, NothingToWrite, Connections
<1>8. QED
  BY <1>1, <1>5, <1>6, <1>7 DEF Once

\* It is, or it waits for the consumer, once the real connection has closed.
LEMMA EmitClientCloseOnce ==
  ASSUME NEW c \in Connections(Chunk, Tick), Steady(c), c.closes = 0, c.swapped, c.real = "gone",
         c.corkedReads \in Seq(Unclosed), "mock" \notin c.layers, NEW e, e = EmitClientClose(c)
  PROVE  /\ Once(e) /\ "mock" \notin e.layers /\ e.swapped = c.swapped
         /\ e.sent = c.sent
<1>1. ~c.nativeClose /\ ~CloseDue(c)
  BY DEF Steady
<1>2. CASE CloseMustWait(c)
  <2>1. e = [c EXCEPT !.layers = c.layers \cup {"waits"}]
    BY <1>2 DEF EmitClientClose
  <2>2. /\ e.heard = c.heard /\ e.buffer = c.buffer /\ e.eof = c.eof /\ e.ended = c.ended
        /\ e.destroyed = c.destroyed /\ e.closes = c.closes /\ e.sent = c.sent
        /\ e.corked = c.corked /\ e.corkedReads = c.corkedReads /\ e.endPushed = c.endPushed
        /\ e.real = c.real /\ e.flowing = c.flowing /\ e.pendingWrites = c.pendingWrites
        /\ e.pendingEnd = c.pendingEnd /\ e.backpressured = c.backpressured
        /\ e.flushScheduled = c.flushScheduled /\ e.ticks = c.ticks
        /\ e.nativeClose = c.nativeClose /\ e.layers = c.layers \cup {"waits"}
        /\ e.connecting = c.connecting /\ e.swapped = c.swapped /\ e.paused = c.paused
    BY <2>1 DEF Connections
  <2>3. (CloseDue(e) <=> CloseDue(c)) /\ (CloseIfNone(e) <=> CloseIfNone(c))
    BY <2>2 DEF CloseDue, CloseIfNone
  <2>4. c.endPushed /\ ~c.ended
    BY <1>2 DEF CloseMustWait
  <2>5. Steady(e)
    BY <2>2, <2>3, <2>4 DEF Steady
  <2>6. Followed(e)
    BY <2>2 DEF Followed
  <2>7. QED
    BY <2>2, <2>5, <2>6 DEF Once
<1>3. CASE ~CloseMustWait(c)
  <2>1. e = EmitClose(c)
    BY <1>3 DEF EmitClientClose
  <2>2. QED
    BY <1>1, <2>1, EmitCloseOnce DEF Steady
<1>4. QED
  BY <1>2, <1>3

\* A real connection that connects finds no other handle in use.
LEMMA OnRealConnectOnce ==
  ASSUME NEW c, c \in After(c, Chunk, Tick), Once(c), "mock" \notin c.layers,
         c.real = "connecting", c.ticks = <<>>, NEW e, e = OnRealConnect(c)
  PROVE  /\ Once(e) /\ "mock" \notin e.layers /\ (c.swapped => e.swapped)
         /\ e.sent = c.sent /\ e.closes = c.closes
<1>1. c \in Connections(Chunk, Tick) /\ ("abort" \in c.layers \/ "mock" \in c.layers)
  BY DEF After, Follows
<1>2. ~CloseDue(c) /\ ~CloseIfNone(c)
  BY DEF CloseDue, CloseIfNone, ToSet
<1>3. ~c.swapped /\ c.closes = 0 /\ c.corkedReads \in Seq(Unclosed) /\ "waits" \notin c.layers
  BY <1>2 DEF Once, Steady
<1>4. CASE c.destroyed
  <2>1. e = [c EXCEPT !.real = "gone"]
    BY <1>4 DEF OnRealConnect
  <2>2. /\ e.heard = c.heard /\ e.buffer = c.buffer /\ e.eof = c.eof /\ e.ended = c.ended
        /\ e.destroyed = c.destroyed /\ e.closes = c.closes /\ e.sent = c.sent
        /\ e.corked = c.corked /\ e.corkedReads = c.corkedReads /\ e.endPushed = c.endPushed
        /\ e.real = "gone" /\ e.flowing = c.flowing /\ e.pendingWrites = c.pendingWrites
        /\ e.pendingEnd = c.pendingEnd /\ e.backpressured = c.backpressured
        /\ e.flushScheduled = c.flushScheduled /\ e.ticks = c.ticks
        /\ e.nativeClose = c.nativeClose /\ e.layers = c.layers
        /\ e.connecting = c.connecting /\ e.swapped = c.swapped /\ e.paused = c.paused
    BY <1>1, <2>1 DEF Connections
  <2>3. ~CloseDue(e) /\ ~CloseIfNone(e)
    BY <1>2, <2>2 DEF CloseDue, CloseIfNone
  <2>4. QED
    BY <1>2, <1>3, <1>4, <2>2, <2>3 DEF Once, Steady, Followed
<1>5. CASE ~c.destroyed
  <2>1. PICK d : d = [c EXCEPT !.real = "open", !.swapped = TRUE]
    OBVIOUS
  <2>2. /\ d.heard = c.heard /\ d.buffer = c.buffer /\ d.eof = c.eof /\ d.ended = c.ended
        /\ d.destroyed = c.destroyed /\ d.closes = c.closes /\ d.sent = c.sent
        /\ d.corked = c.corked /\ d.corkedReads = c.corkedReads /\ d.endPushed = c.endPushed
        /\ d.real = "open" /\ d.flowing = c.flowing /\ d.pendingWrites = c.pendingWrites
        /\ d.pendingEnd = c.pendingEnd /\ d.backpressured = c.backpressured
        /\ d.flushScheduled = c.flushScheduled /\ d.ticks = c.ticks
        /\ d.nativeClose = c.nativeClose /\ d.layers = c.layers
        /\ d.connecting = c.connecting /\ d.swapped = TRUE /\ d.paused = c.paused
    BY <1>1, <2>1 DEF Connections
  <2>3. d \in Connections(Chunk, Tick)
    BY <1>1, <2>1 DEF Connections, RealState
  <2>4. ~CloseDue(d) /\ ~CloseIfNone(d)
    BY <1>2, <2>2 DEF CloseDue, CloseIfNone
  <2>5. Steady(d) /\ Followed(d)
    BY <1>2, <1>3, <1>5, <2>2, <2>4 DEF Once, Steady, Followed
  <2>6. d \in Holding(d)
    <3>1. d \in After(d, Chunk, Tick)
      BY <1>1, <2>2, <2>3 DEF After, Follows
    <3>2. QED
      BY <2>2, <2>5, <3>1, HoldsItself
  <2>7. e = Connect(d)
    BY <1>5, <2>1 DEF OnRealConnect
  <2>8. e \in Holding(d)
    BY <2>6, <2>7, ServerHolds
  <2>9. QED
    BY <1>3, <2>2, <2>5, <2>8 DEF Holding, Once
<1>6. QED
  BY <1>4, <1>5

\* Its data is pushed or corked.
LEMMA OnRealDataOnce ==
  ASSUME NEW c, c \in After(c, Chunk, Tick), Once(c), "mock" \notin c.layers,
         c.real = "open", NEW x \in Chunk, NEW e, e = OnRealData(c, x)
  PROVE  /\ Once(e) /\ "mock" \notin e.layers /\ e.swapped = c.swapped
         /\ e.sent = Append(c.sent, x) /\ e.closes = c.closes
<1>1. PICK d : d = Emitted(c, x)
  OBVIOUS
<1>2. /\ d \in After(d, Chunk, Tick) /\ d \in Connections(Chunk, Tick) /\ Once(d)
      /\ d \in Holding(d) /\ "mock" \notin d.layers
      /\ d.sent = Append(c.sent, x) /\ d.closes = c.closes /\ d.swapped = c.swapped
      /\ d.real = c.real /\ d.corked = c.corked
  BY <1>1, EmittedOnce
<1>3. CASE c.corked
  <2>1. PICK s : s = Append(d.corkedReads, x)
    OBVIOUS
  <2>2. e = [d EXCEPT !.corkedReads = s]
    BY <1>1, <1>3, <2>1 DEF OnRealData
  <2>3. /\ e.heard = d.heard /\ e.buffer = d.buffer /\ e.eof = d.eof /\ e.ended = d.ended
        /\ e.destroyed = d.destroyed /\ e.closes = d.closes /\ e.sent = d.sent
        /\ e.corked = d.corked /\ e.corkedReads = s /\ e.endPushed = d.endPushed
        /\ e.real = d.real /\ e.flowing = d.flowing /\ e.pendingWrites = d.pendingWrites
        /\ e.pendingEnd = d.pendingEnd /\ e.backpressured = d.backpressured
        /\ e.flushScheduled = d.flushScheduled /\ e.ticks = d.ticks
        /\ e.nativeClose = d.nativeClose /\ e.layers = d.layers
        /\ e.connecting = d.connecting /\ e.swapped = d.swapped /\ e.paused = d.paused
    BY <1>2, <2>2 DEF Connections
  <2>4. e = [d EXCEPT !.corkedReads = Append(@, x)]
    BY <1>2, <2>1, <2>2 DEF Connections
  <2>5. e \in Connections(Chunk, Tick)
    <3>1. x \in Chunk \cup {EndRead, CloseRead}
      OBVIOUS
    <3>2. e \in After(d, Chunk, Tick)
      BY <1>2, <2>4, <3>1, CorkedAfter, OwnIsTick
    <3>3. QED
      BY <3>2 DEF After
  <2>6. SameEnds(d, [e EXCEPT !.corkedReads = d.corkedReads])
    BY <2>3, <2>5 DEF SameEnds, Connections
  <2>7. d.closes = 0 /\ x \in Unclosed
    BY <1>2 DEF Once, Steady, Unclosed
  <2>8. Once(e)
    BY <1>2, <2>1, <2>3, <2>5, <2>6, <2>7, CorkedOnce
  <2>9. QED
    BY <1>2, <2>3, <2>8
<1>4. CASE ~c.corked
  <2>1. e = PushReal(d, x)
    BY <1>1, <1>4 DEF OnRealData
  <2>2. e \in Holding(d)
    BY <1>2, <2>1, PushRealHolds
  <2>3. QED
    BY <1>2, <2>2 DEF Holding, Once
<1>5. QED
  BY <1>3, <1>4

\* Its end too.
LEMMA OnRealEndOnce ==
  ASSUME NEW c, c \in After(c, Chunk, Tick), Once(c), "mock" \notin c.layers,
         c.real = "open", NEW e, e = OnRealEnd(c)
  PROVE  /\ Once(e) /\ "mock" \notin e.layers /\ e.swapped = c.swapped
         /\ e.sent = c.sent /\ e.closes = c.closes
<1>1. c \in Connections(Chunk, Tick)
  BY DEF After
<1>2. PICK d : d = [c EXCEPT !.real = "finished"]
  OBVIOUS
<1>3. d \in Connections(Chunk, Tick)
  BY <1>1, <1>2 DEF Connections, RealState
<1>4. /\ d.heard = c.heard /\ d.buffer = c.buffer /\ d.eof = c.eof /\ d.ended = c.ended
      /\ d.destroyed = c.destroyed /\ d.closes = c.closes /\ d.sent = c.sent
      /\ d.corked = c.corked /\ d.corkedReads = c.corkedReads /\ d.endPushed = c.endPushed
      /\ d.real = "finished" /\ d.flowing = c.flowing /\ d.pendingWrites = c.pendingWrites
      /\ d.pendingEnd = c.pendingEnd /\ d.backpressured = c.backpressured
      /\ d.flushScheduled = c.flushScheduled /\ d.ticks = c.ticks
      /\ d.nativeClose = c.nativeClose /\ d.layers = c.layers /\ d.connecting = c.connecting
      /\ d.swapped = c.swapped /\ d.paused = c.paused
  BY <1>1, <1>2 DEF Connections
<1>5. (CloseDue(d) <=> CloseDue(c)) /\ (CloseIfNone(d) <=> CloseIfNone(c))
  BY <1>4 DEF CloseDue, CloseIfNone
<1>6. c.closes = 0 /\ c.corkedReads \in Seq(Unclosed)
  BY DEF Once, Steady
<1>7. Once(d)
  BY <1>4, <1>5, <1>6 DEF Once, Steady, Followed
<1>8. CASE c.corked
  <2>1. PICK s : s = Append(d.corkedReads, EndRead)
    OBVIOUS
  <2>2. e = [d EXCEPT !.corkedReads = s]
    BY <1>2, <1>8, <2>1 DEF OnRealEnd
  <2>3. /\ e.heard = d.heard /\ e.buffer = d.buffer /\ e.eof = d.eof /\ e.ended = d.ended
        /\ e.destroyed = d.destroyed /\ e.closes = d.closes /\ e.sent = d.sent
        /\ e.corked = d.corked /\ e.corkedReads = s /\ e.endPushed = d.endPushed
        /\ e.real = d.real /\ e.flowing = d.flowing /\ e.pendingWrites = d.pendingWrites
        /\ e.pendingEnd = d.pendingEnd /\ e.backpressured = d.backpressured
        /\ e.flushScheduled = d.flushScheduled /\ e.ticks = d.ticks
        /\ e.nativeClose = d.nativeClose /\ e.layers = d.layers
        /\ e.connecting = d.connecting /\ e.swapped = d.swapped /\ e.paused = d.paused
    BY <1>3, <2>2 DEF Connections
  <2>4. e = [d EXCEPT !.corkedReads = Append(@, EndRead)]
    BY <1>3, <2>1, <2>2 DEF Connections
  <2>5. e \in Connections(Chunk, Tick)
    <3>1. d \in After(d, Chunk, Tick)
      BY <1>3, <1>4 DEF After, Follows
    <3>2. EndRead \in Chunk \cup {EndRead, CloseRead}
      OBVIOUS
    <3>3. [d EXCEPT !.corkedReads = Append(@, EndRead)] \in After(d, Chunk, Tick)
      BY <3>1, <3>2, CorkedAfter, OwnIsTick
    <3>4. QED
      BY <2>4, <3>3 DEF After
  <2>6. SameEnds(d, [e EXCEPT !.corkedReads = d.corkedReads])
    BY <2>3, <2>5 DEF SameEnds, Connections
  <2>7. EndRead \in Unclosed
    BY DEF Unclosed
  <2>8. Once(e)
    BY <1>3, <1>4, <1>6, <1>7, <2>1, <2>3, <2>5, <2>6, <2>7, CorkedOnce
  <2>9. QED
    BY <1>4, <2>3, <2>8
<1>9. CASE ~c.corked
  <2>1. e = PushRealEnd(d)
    BY <1>2, <1>9 DEF OnRealEnd
  <2>2. SameEnds(d, e)
    BY <1>3, <2>1 DEF PushRealEnd, PushEnd, SameEnds, Connections
  <2>3. Once(e)
    BY <1>7, <2>2, SameOnce DEF Once
  <2>4. QED
    BY <1>4, <2>2, <2>3 DEF SameEnds
<1>10. QED
  BY <1>8, <1>9

\* It ends its own side too.
LEMMA RealFinishesOnce ==
  ASSUME NEW c \in Connections(Chunk, Tick), Once(c), c.real = "finished",
         NEW e, e = [c EXCEPT !.real = "closing"]
  PROVE  /\ Once(e) /\ e.layers = c.layers /\ e.swapped = c.swapped
         /\ e.sent = c.sent /\ e.closes = c.closes
<1>1. /\ e.heard = c.heard /\ e.buffer = c.buffer /\ e.eof = c.eof /\ e.ended = c.ended
      /\ e.destroyed = c.destroyed /\ e.closes = c.closes /\ e.sent = c.sent
      /\ e.corked = c.corked /\ e.corkedReads = c.corkedReads /\ e.endPushed = c.endPushed
      /\ e.real = "closing" /\ e.flowing = c.flowing /\ e.pendingWrites = c.pendingWrites
      /\ e.pendingEnd = c.pendingEnd /\ e.backpressured = c.backpressured
      /\ e.flushScheduled = c.flushScheduled /\ e.ticks = c.ticks
      /\ e.nativeClose = c.nativeClose /\ e.layers = c.layers /\ e.connecting = c.connecting
      /\ e.swapped = c.swapped /\ e.paused = c.paused
  BY DEF Connections
<1>2. (CloseDue(e) <=> CloseDue(c)) /\ (CloseIfNone(e) <=> CloseIfNone(c))
  BY <1>1 DEF CloseDue, CloseIfNone
<1>3. Steady(e) /\ Followed(e)
  BY <1>1, <1>2 DEF Once, Steady, Followed
<1>4. QED
  BY <1>1, <1>3 DEF Once

\* A real connection fails: destroy() closes the client's own handle, or, when that is
\* the real connection's, a tick emits "close".
LEMMA OnRealErrorOnce ==
  ASSUME NEW c, c \in After(c, Chunk, Tick), Once(c), "mock" \notin c.layers,
         c.real \in {"connecting", "open", "finished"}, c.ticks = <<>>,
         NEW e, e = OnRealError(c)
  PROVE  /\ Once(e) /\ "mock" \notin e.layers /\ e.swapped = c.swapped
         /\ e.sent = c.sent /\ e.closes = c.closes
<1>1. c \in Connections(Chunk, Tick) /\ ("abort" \in c.layers \/ "mock" \in c.layers)
  BY DEF After, Follows
<1>2. ~CloseDue(c) /\ ~CloseIfNone(c)
  BY DEF CloseDue, CloseIfNone, ToSet
<1>3. c.closes = 0 /\ c.corkedReads \in Seq(Unclosed) /\ "waits" \notin c.layers
  BY DEF Once, Steady
<1>4. PICK d : d = [c EXCEPT !.real = "closing"]
  OBVIOUS
<1>5. /\ d.heard = c.heard /\ d.buffer = c.buffer /\ d.eof = c.eof /\ d.ended = c.ended
      /\ d.destroyed = c.destroyed /\ d.closes = c.closes /\ d.sent = c.sent
      /\ d.corked = c.corked /\ d.corkedReads = c.corkedReads /\ d.endPushed = c.endPushed
      /\ d.real = "closing" /\ d.flowing = c.flowing /\ d.pendingWrites = c.pendingWrites
      /\ d.pendingEnd = c.pendingEnd /\ d.backpressured = c.backpressured
      /\ d.flushScheduled = c.flushScheduled /\ d.ticks = c.ticks
      /\ d.nativeClose = c.nativeClose /\ d.layers = c.layers /\ d.connecting = c.connecting
      /\ d.swapped = c.swapped /\ d.paused = c.paused
  BY <1>1, <1>4 DEF Connections
<1>6. d \in Connections(Chunk, Tick)
  BY <1>1, <1>4 DEF Connections, RealState
<1>7. ~CloseDue(d) /\ ~CloseIfNone(d)
  BY <1>2, <1>5 DEF CloseDue, CloseIfNone
<1>8. CASE c.destroyed
  <2>1. e = d
    BY <1>4, <1>5, <1>8 DEF OnRealError
  <2>2. ~c.swapped /\ c.nativeClose
    BY <1>2, <1>3, <1>8 DEF Once, Steady
  <2>3. Steady(d) /\ Followed(d)
    BY <1>3, <1>5, <1>7, <1>8, <2>2 DEF Once, Steady, Followed
  <2>4. QED
    BY <1>5, <2>1, <2>3 DEF Once
<1>9. CASE ~c.destroyed
  <2>1. d \in After(d, Chunk, Tick)
    BY <1>1, <1>5, <1>6 DEF After, Follows
  <2>2. PICK f : f = Destroy(d)
    OBVIOUS
  <2>3. /\ f.destroyed /\ f.closes = d.closes /\ f.swapped = d.swapped /\ f.sent = d.sent
        /\ f.corkedReads = d.corkedReads /\ f.endPushed = d.endPushed /\ f.ended = d.ended
        /\ f.layers = d.layers \ {"waits"}
        /\ f.ticks = IF "waits" \in d.layers THEN Append(d.ticks, "closeUnlessClosed") ELSE d.ticks
        /\ IF d.swapped /\ d.real \notin {"open", "finished"}
           THEN f.nativeClose = d.nativeClose /\ f.real = d.real
           ELSE f.nativeClose /\ f.real = IF d.swapped THEN "severed" ELSE d.real
    <3>1. ~d.destroyed /\ "mock" \notin d.layers
      BY <1>5, <1>9
    <3>2. Leaves(d, f)
      BY <2>1, <2>2, <3>1, DestroyLeaves
    <3>3. QED
      BY <3>2 DEF Leaves
  <2>4. f.ticks = <<>> /\ f.layers = c.layers /\ f.corkedReads \in Seq(Unclosed)
        /\ f.real = "closing" /\ f.closes = 0 /\ f.swapped = c.swapped /\ f.sent = c.sent
    BY <1>3, <1>5, <2>3
  <2>5. f \in Connections(Chunk, Tick)
    BY <2>1, <2>2, DestroyDestroys
  <2>6. CASE c.swapped
    <3>1. PICK t : t = Append(f.ticks, "close")
      OBVIOUS
    <3>2. t = <<"close">>
      BY <2>4, <3>1
    <3>3. e = [f EXCEPT !.ticks = t]
      BY <1>4, <1>5, <1>9, <2>2, <2>6, <3>1 DEF OnRealError, Later
    <3>4. /\ e.heard = f.heard /\ e.buffer = f.buffer /\ e.eof = f.eof /\ e.ended = f.ended
          /\ e.destroyed = f.destroyed /\ e.closes = f.closes /\ e.sent = f.sent
          /\ e.corked = f.corked /\ e.corkedReads = f.corkedReads
          /\ e.endPushed = f.endPushed /\ e.real = f.real /\ e.flowing = f.flowing
          /\ e.pendingWrites = f.pendingWrites /\ e.pendingEnd = f.pendingEnd
          /\ e.backpressured = f.backpressured /\ e.flushScheduled = f.flushScheduled
          /\ e.ticks = t /\ e.nativeClose = f.nativeClose /\ e.layers = f.layers
          /\ e.connecting = f.connecting /\ e.swapped = f.swapped /\ e.paused = f.paused
      BY <2>5, <3>3 DEF Connections
    <3>5. CloseDue(e) /\ ~CloseIfNone(e)
      BY <3>2, <3>4 DEF CloseDue, CloseIfNone, ToSet
    <3>6. ~f.nativeClose
      BY <1>5, <1>9, <2>3, <2>6 DEF Once, Steady
    <3>7. Steady(e) /\ Followed(e)
      BY <1>3, <2>3, <2>4, <2>6, <3>2, <3>4, <3>5, <3>6 DEF Steady, Followed
    <3>8. QED
      BY <1>3, <2>4, <3>4, <3>7 DEF Once
  <2>7. CASE ~c.swapped
    <3>1. e = f
      BY <1>4, <1>5, <1>9, <2>2, <2>7 DEF OnRealError
    <3>2. f.nativeClose
      BY <1>5, <2>3, <2>7
    <3>3. ~CloseDue(f) /\ ~CloseIfNone(f)
      BY <2>4 DEF CloseDue, CloseIfNone, ToSet
    <3>4. Steady(f) /\ Followed(f)
      BY <1>3, <2>3, <2>4, <2>7, <3>2, <3>3 DEF Steady, Followed
    <3>5. QED
      BY <1>3, <2>4, <3>1, <3>4 DEF Once
  <2>8. QED
    BY <2>6, <2>7
<1>10. QED
  BY <1>8, <1>9

\* It closes: "close" is emitted, or waits, unless the client's own handle emits it; or
\* it is corked.
LEMMA OnRealCloseOnce ==
  ASSUME NEW c, c \in After(c, Chunk, Tick), Once(c), "mock" \notin c.layers,
         c.real = "closing", c.ticks = <<>>, NEW e, e = OnRealClose(c)
  PROVE  /\ Once(e) /\ "mock" \notin e.layers /\ e.swapped = c.swapped
         /\ e.sent = c.sent
<1>1. c \in Connections(Chunk, Tick) /\ ("abort" \in c.layers \/ "mock" \in c.layers)
  BY DEF After, Follows
<1>2. ~CloseDue(c) /\ ~CloseIfNone(c)
  BY DEF CloseDue, CloseIfNone, ToSet
<1>3. c.closes = 0 /\ c.corkedReads \in Seq(Unclosed) /\ "waits" \notin c.layers
      /\ (c.nativeClose <=> ~c.swapped) /\ (~c.swapped => c.destroyed)
  BY DEF Once, Steady
<1>4. PICK d : d = [c EXCEPT !.real = "gone"]
  OBVIOUS
<1>5. /\ d.heard = c.heard /\ d.buffer = c.buffer /\ d.eof = c.eof /\ d.ended = c.ended
      /\ d.destroyed = c.destroyed /\ d.closes = c.closes /\ d.sent = c.sent
      /\ d.corked = c.corked /\ d.corkedReads = c.corkedReads /\ d.endPushed = c.endPushed
      /\ d.real = "gone" /\ d.flowing = c.flowing /\ d.pendingWrites = c.pendingWrites
      /\ d.pendingEnd = c.pendingEnd /\ d.backpressured = c.backpressured
      /\ d.flushScheduled = c.flushScheduled /\ d.ticks = c.ticks
      /\ d.nativeClose = c.nativeClose /\ d.layers = c.layers /\ d.connecting = c.connecting
      /\ d.swapped = c.swapped /\ d.paused = c.paused
  BY <1>1, <1>4 DEF Connections
<1>6. d \in Connections(Chunk, Tick)
  BY <1>1, <1>4 DEF Connections, RealState
<1>7. ~CloseDue(d) /\ ~CloseIfNone(d)
  BY <1>2, <1>5 DEF CloseDue, CloseIfNone
<1>8. Steady(d)
  BY <1>3, <1>5, <1>7 DEF Once, Steady
<1>9. CASE c.corked
  <2>1. PICK s : s = Append(d.corkedReads, CloseRead)
    OBVIOUS
  <2>2. e = [d EXCEPT !.corkedReads = s]
    BY <1>4, <1>9, <2>1 DEF OnRealClose
  <2>3. /\ e.heard = d.heard /\ e.buffer = d.buffer /\ e.eof = d.eof /\ e.ended = d.ended
        /\ e.destroyed = d.destroyed /\ e.closes = d.closes /\ e.sent = d.sent
        /\ e.corked = d.corked /\ e.corkedReads = s /\ e.endPushed = d.endPushed
        /\ e.real = d.real /\ e.flowing = d.flowing /\ e.pendingWrites = d.pendingWrites
        /\ e.pendingEnd = d.pendingEnd /\ e.backpressured = d.backpressured
        /\ e.flushScheduled = d.flushScheduled /\ e.ticks = d.ticks
        /\ e.nativeClose = d.nativeClose /\ e.layers = d.layers
        /\ e.connecting = d.connecting /\ e.swapped = d.swapped /\ e.paused = d.paused
    BY <1>6, <2>2 DEF Connections
  <2>4. CloseCorked(e)
    BY <1>3, <1>5, <2>1, <2>3 DEF CloseCorked
  <2>5. (CloseDue(e) <=> CloseDue(d)) /\ (CloseIfNone(e) <=> CloseIfNone(d))
    BY <2>3 DEF CloseDue, CloseIfNone
  <2>6. Steady(e) /\ Followed(e)
    BY <1>3, <1>5, <1>7, <1>8, <2>3, <2>4, <2>5 DEF Steady, Followed
  <2>7. QED
    BY <1>5, <2>3, <2>6 DEF Once
<1>10. CASE ~c.corked /\ c.destroyed /\ ~c.swapped
  <2>1. e = d
    BY <1>4, <1>5, <1>10 DEF OnRealClose, ClosesByItself
  <2>2. Followed(d)
    BY <1>5, <1>10 DEF Followed
  <2>3. QED
    BY <1>5, <1>8, <2>1, <2>2 DEF Once
<1>11. CASE ~c.corked /\ ~(c.destroyed /\ ~c.swapped)
  <2>1. e = EmitClientClose(d)
    BY <1>3, <1>4, <1>5, <1>11 DEF OnRealClose, ClosesByItself
  <2>2. d.closes = 0 /\ d.swapped /\ d.real = "gone" /\ d.corkedReads \in Seq(Unclosed)
        /\ "mock" \notin d.layers
    BY <1>3, <1>5, <1>11
  <2>3. QED
    BY <1>5, <1>6, <1>8, <2>1, <2>2, EmitClientCloseOnce
<1>12. QED
  BY <1>9, <1>10, <1>11

\* The cork is pulled: what it held is pushed, and its close is emitted or waits.
LEMMA UncorkOnce ==
  ASSUME NEW c, c \in After(c, Chunk, Tick), Once(c), "mock" \notin c.layers, c.swapped,
         NEW e, e = Uncork(c)
  PROVE  Once(e) /\ "mock" \notin e.layers /\ e.swapped /\ e.sent = c.sent
<1>1. c \in Connections(Chunk, Tick) /\ ("abort" \in c.layers \/ "mock" \in c.layers)
  BY DEF After, Follows
<1>2. CASE ~c.corked
  BY <1>2 DEF Uncork
<1>3. CASE c.corked
  <2>1. PICK d : d = [c EXCEPT !.corked = FALSE, !.corkedReads = <<>>]
    OBVIOUS
  <2>2. /\ d.heard = c.heard /\ d.buffer = c.buffer /\ d.eof = c.eof /\ d.ended = c.ended
        /\ d.destroyed = c.destroyed /\ d.closes = c.closes /\ d.sent = c.sent
        /\ d.corked = FALSE /\ d.corkedReads = <<>> /\ d.endPushed = c.endPushed
        /\ d.real = c.real /\ d.flowing = c.flowing /\ d.pendingWrites = c.pendingWrites
        /\ d.pendingEnd = c.pendingEnd /\ d.backpressured = c.backpressured
        /\ d.flushScheduled = c.flushScheduled /\ d.ticks = c.ticks
        /\ d.nativeClose = c.nativeClose /\ d.layers = c.layers
        /\ d.connecting = c.connecting /\ d.swapped = c.swapped /\ d.paused = c.paused
    BY <1>1, <2>1 DEF Connections
  <2>3. d \in Connections(Chunk, Tick)
    <3>1. <<>> \in Seq(Chunk \cup {EndRead, CloseRead})
      OBVIOUS
    <3>2. QED
      BY <1>1, <2>1, <3>1 DEF Connections
  <2>4. d.corkedReads \in Seq(Unclosed)
    BY <2>2
  <2>5. (CloseDue(d) <=> CloseDue(c)) /\ (CloseIfNone(d) <=> CloseIfNone(c))
    BY <2>2 DEF CloseDue, CloseIfNone
  <2>6. Steady(d)
    BY <2>2, <2>4, <2>5 DEF Once, Steady
  <2>7. d \in After(d, Chunk, Tick)
    BY <1>1, <2>2, <2>3 DEF After, Follows
  <2>8. d \in Holding(d)
    BY <2>2, <2>6, <2>7, HoldsItself
  <2>9. PICK s : s = c.corkedReads
    OBVIOUS
  <2>10. e = Iterate(Replay, d, s)
    BY <1>3, <2>1, <2>9 DEF Uncork
  <2>11. ASSUME NEW g \in Holding(d), NEW x \in Unclosed PROVE Replay(g, x) \in Holding(d)
    <3>1. CASE x = EndRead
      <4>1. Replay(g, x) = PushRealEnd(g)
        BY <3>1 DEF Replay, EndRead, CloseRead, Part
      <4>2. PushRealEnd(g) \in Holding(d)
        BY <2>11, PushEndHolds
      <4>3. QED
        BY <4>1, <4>2
    <3>2. CASE x # EndRead
      <4>1. x \in Chunk /\ x # CloseRead
        BY <3>2 DEF Unclosed, Chunk, CloseRead, Part, Index
      <4>2. Replay(g, x) = PushReal(g, x)
        BY <3>2, <4>1 DEF Replay
      <4>3. g \in Holding(d)
        BY <2>11
      <4>4. PushReal(g, x) \in Holding(d)
        BY <4>1, <4>3, PushRealHolds
      <4>5. QED
        BY <4>2, <4>4
    <3>3. QED
      BY <3>1, <3>2
  <2>12. CASE s \in Seq(Unclosed)
    <3>1. e \in Holding(d)
      BY ONLY <2>8, <2>10, <2>11, <2>12, ReplayingStays
    <3>2. Followed(d) \/ CloseCorked(c)
      BY <2>2, <2>5 DEF Once, Followed
    <3>3. ~CloseCorked(c)
      <4>1. SUFFICES ASSUME NEW D \in Seq(Unclosed), s = Append(D, CloseRead) PROVE FALSE
        BY <2>9 DEF CloseCorked
      <4>2. PICK S, x : S = Unclosed /\ x = CloseRead
        OBVIOUS
      <4>3. D \in Seq(S) /\ Append(D, x) \in Seq(S)
        BY <2>12, <4>1, <4>2
      <4>4. x \in S
        <5>1. Len(Append(D, x)) = Len(D) + 1 /\ Append(D, x)[Len(D) + 1] = x
          BY <4>3
        <5>2. Len(D) + 1 \in 1..Len(Append(D, x))
          BY <4>3, <5>1
        <5>3. QED
          BY <4>3, <5>1, <5>2
      <4>5. QED
        BY <4>2, <4>4, BoundsAssumption DEF Unclosed, Chunk, CloseRead, EndRead, Part, Index
    <3>4. QED
      BY <2>2, <3>1, <3>2, <3>3 DEF Holding, Once
  <2>13. CASE s \notin Seq(Unclosed)
    <3>1. CloseCorked(c) /\ c.real = "gone" /\ c.closes = 0
      <4>1. s # <<>>
        <5>1. <<>> \in Seq(Unclosed)
          OBVIOUS
        <5>2. QED
          BY <2>13, <5>1
      <4>2. QED
        BY <2>9, <2>13, <4>1 DEF Once, Steady
    <3>2. PICK D \in Seq(Unclosed) : s = Append(D, CloseRead)
      BY <2>9, <3>1 DEF CloseCorked
    <3>3. PICK n : n = Len(D)
      OBVIOUS
    <3>4. /\ n \in Nat /\ Len(s) = n + 1 /\ s[n + 1] = CloseRead
          /\ \A i \in 1..n : s[i] = D[i] /\ D[i] \in Unclosed
      <4>1. PICK S, x : S = Unclosed /\ x = CloseRead
        OBVIOUS
      <4>2. D \in Seq(S) /\ s = Append(D, x)
        BY <3>2, <4>1
      <4>3. /\ Len(D) \in Nat /\ Len(s) = Len(D) + 1 /\ s[Len(D) + 1] = x
            /\ \A i \in 1..Len(D) : s[i] = D[i] /\ D[i] \in S
        BY ONLY <4>2
      <4>4. QED
        BY <3>3, <4>1, <4>3
    <3>5. PICK f : ReplayRun(f, d, s)
      <4>1. Len(s) \in Nat
        BY <3>4
      <4>2. QED
        BY <4>1, ReplaySteps
    <3>6. PICK g : g = f[n]
      OBVIOUS
    <3>7. g \in Holding(d)
      <4>1. PICK I : I = {i \in 0..n : f[i] \in Holding(d)}
        OBVIOUS
      <4>2. 0 \in I
        BY <2>8, <3>4, <3>5, <4>1 DEF ReplayRun
      <4>3. ASSUME NEW i \in 0..n - 1, i \in I PROVE i + 1 \in I
        <5>1. i + 1 \in 1..n /\ i \in 0..Len(s) - 1 /\ i + 1 \in 0..n
          BY <3>4
        <5>2. f[i + 1] = Replay(f[i], s[i + 1]) /\ s[i + 1] \in Unclosed
          BY <3>4, <3>5, <5>1 DEF ReplayRun
        <5>3. f[i] \in Holding(d)
          BY <4>1, <4>3
        <5>4. QED
          BY <2>11, <4>1, <5>1, <5>2, <5>3
      <4>4. 0..n \subseteq I
        BY <3>4, <4>2, <4>3, Induction
      <4>5. QED
        BY <3>4, <3>6, <4>1, <4>4
    <3>8. e = Replay(g, CloseRead)
      <4>1. n \in 0..Len(s) - 1 /\ f[n + 1] = e
        BY <2>10, <3>4, <3>5 DEF ReplayRun
      <4>2. QED
        BY <3>4, <3>5, <3>6, <4>1 DEF ReplayRun
    <3>9. e = EmitClientClose(g)
      BY <3>8 DEF Replay, CloseRead, EndRead, Part
    <3>10. /\ g \in Connections(Chunk, Tick) /\ Steady(g) /\ g.closes = 0 /\ g.swapped
           /\ g.real = "gone" /\ g.corkedReads \in Seq(Unclosed) /\ "mock" \notin g.layers
           /\ g.sent = d.sent
      BY <2>2, <2>4, <3>1, <3>7 DEF Holding, After
    <3>11. QED
      BY <2>2, <3>9, <3>10, EmitClientCloseOnce
  <2>14. QED
    BY <2>12, <2>13
<1>4. QED
  BY <1>2, <1>3

-----------------------------------------------------------------------------
(* The steps of a client that closes once.                                   *)

\* As long as no mocked response replaced _destroy() none is written, so no request
\* that is mocked has the end of its answer.
Unwritten ==
  \A r \in Request : stage[r] # "streaming" /\ (verdict[r] = "mock" => ~Sent(r, "fin"))

\* Only a real connection has "response" events, and that has swapped the handle.
Shared == events # {} => conn.swapped

\* A request that was pending when the client was destroyed is aborted.
Resolved == conn.destroyed => \A r \in Request : verdict[r] # "pending"

\* A client of another protocol that has closed while it was read was passed through.
Opened ==
  protocol = "other" /\ ~conn.destroyed /\ conn.closes > 0 => readyState # "PENDING"

\* An HTTP client that has closed while it was read has nothing more to be written.
Silenced ==
  protocol = "http" /\ ~conn.destroyed /\ conn.closes > 0 => NothingToWrite(conn)

\* What c must leave for that.
Left(c) ==
  protocol = "http" /\ ~c.destroyed /\ c.closes > 0 /\ NothingToWrite(conn) => NothingToWrite(c)

\* What a client that closes once keeps; its tunnel was not entered, for it is a mocked
\* response that opens it.
OnceInv ==
  Once(conn) /\ Unwritten /\ Shared /\ Resolved /\ Opened /\ Silenced /\ ~retargeted

\* A step while no mocked response has replaced _destroy().
Plain ==
  /\ IInv /\ SInv /\ OnceInv /\ "mock" \notin conn.layers /\ [Next]_vars
  /\ IInv' /\ SInv' /\ Promised(conn, conn') /\ "mock" \notin conn'.layers

\* The conn of a plain step.
LEMMA PlainConn ==
  ASSUME Plain
  PROVE  /\ conn \in Connections(Chunk, Tick) /\ conn \in After(conn, Chunk, Tick)
         /\ conn' \in Connections(Chunk, Tick) /\ Closing(conn)
         /\ Once(conn) /\ conn \in Holding(conn)
         /\ conn.closes \in {0, 1} /\ conn.destroyed \in BOOLEAN /\ conn.swapped \in BOOLEAN
         /\ (Alive(conn) => Sound(conn))
<1>1. IInv /\ IInv' /\ Once(conn) /\ "mock" \notin conn.layers /\ SInv
  BY DEF Plain, OnceInv
<1>2. conn \in Connections(Chunk, Tick) /\ conn \in After(conn, Chunk, Tick)
  BY <1>1, ConnTyped
<1>3. conn' \in Connections(Chunk, Tick)
  BY <1>1, NextConnTyped
<1>4. conn \in Holding(conn)
  BY <1>1, <1>2, HoldsItself DEF Once
<1>5. conn.destroyed \in BOOLEAN /\ conn.swapped \in BOOLEAN
  BY <1>2 DEF Connections
<1>6. QED
  BY <1>1, <1>2, <1>3, <1>4, <1>5 DEF Once, Steady, SInv, AliveInv

\* Whoever turns a connection resolves what was pending on it.
LEMMA TurnsResolves ==
  ASSUME IInv, Resolved, "mock" \notin conn.layers, NEW verdicts, Given(verdicts),
         NEW c, Turns(c, verdicts)
  PROVE  Resolved'
<1>1. SUFFICES ASSUME c.destroyed, NEW r \in Request, verdict'[r] = "pending" PROVE FALSE
  BY DEF Resolved, Turns
<1>2. verdicts[r] = "pending"
  BY <1>1, TurnsGives
<1>3. verdict[r] = "pending" /\ hook = r /\ r # 0
  BY <1>1, <1>2 DEF Given, IInv, OneIsPending, Request
<1>4. ~conn.destroyed
  BY <1>3 DEF Resolved
<1>5. "abort" \in conn.layers
  BY DEF IInv, HookHolds
<1>6. HookRuns(c)
  BY <1>1, <1>3, <1>4, <1>5 DEF HookRuns
<1>7. verdicts \in [Request -> Verdicts]
  BY DEF Given
<1>8. verdict' = [verdicts EXCEPT ![r] = "aborted"]
  BY <1>2, <1>3, <1>6 DEF Turns, AfterHook
<1>9. QED
  BY <1>1, <1>7, <1>8

\* Every step that leaves a client destroyed turns its connection, or changes neither
\* the client nor a verdict.
LEMMA NextTurns ==
  ASSUME IInv, [Next]_vars, conn'.destroyed
  PROVE  \/ \E c, verdicts : Given(verdicts) /\ Turns(c, verdicts)
         \/ UNCHANGED <<conn, verdict>>
<1>1. Given(verdict)
  BY DEF IInv, Types, Given
<1>2. ASSUME NEW c, Becomes(c)
      PROVE  \E d, verdicts : Given(verdicts) /\ Turns(d, verdicts)
  BY <1>1, <1>2 DEF Becomes
<1>3. CASE ClientRequests \/ ClientRequestsThroughTunnel
  <2>1. conn \in Connections(Chunk, Tick) /\ ~conn.destroyed
    BY <1>3, ConnTyped DEF ClientRequests, ClientRequestsThroughTunnel, ClientWrites
  <2>2. conn' = conn \/ conn' = Detach(conn)
    BY <1>3 DEF ClientRequests, ClientRequestsThroughTunnel, EnterTunnel
  <2>3. Detach(conn).destroyed = conn.destroyed
    BY <2>1 DEF Detach, Connections
  <2>4. QED
    BY <2>1, <2>2, <2>3
<1>4. CASE Listeners
  <2>1. PICK r \in Request :
          \/ RespondInVain(r)
          \/ \E ok \in BOOLEAN : RespondWith(r, ok)
          \/ RespondWithNetworkError(r)
          \/ \E isError \in BOOLEAN : ErrorWith(r, isError)
          \/ Passthrough(r)
    BY <1>4 DEF Listeners
  <2>2. Undecided(r) /\ \E c : \E v \in {"mock", "error", "passthrough"} : Turns(c, Decides(r, v))
    <3>1. CASE RespondInVain(r)
      BY <3>1 DEF RespondInVain
    <3>2. CASE \E ok \in BOOLEAN : RespondWith(r, ok)
      BY <3>2 DEF RespondWith
    <3>3. CASE RespondWithNetworkError(r)
      BY <3>3 DEF RespondWithNetworkError
    <3>4. CASE \E isError \in BOOLEAN : ErrorWith(r, isError)
      BY <3>4 DEF ErrorWith
    <3>5. CASE Passthrough(r)
      BY <3>5 DEF Passthrough
    <3>6. QED
      BY <2>1, <3>1, <3>2, <3>3, <3>4, <3>5
  <2>3. \A v \in {"mock", "error", "passthrough"} : Given(Decides(r, v))
    BY <2>2, UndecidedIsPending
  <2>4. QED
    BY <2>2, <2>3
<1>5. CASE \E r \in Request :
             MockedListenersThrow(r) \/ MockedBodyWrites(r) \/ MockedBodyBreaks(r)
  BY <1>2, <1>5 DEF MockedListenersThrow, MockedBodyWrites, MockedBodyBreaks, OnlyConn
<1>6. CASE MockProceeds
  BY <1>2, <1>6 DEF MockProceeds, MockedListenersSettle, MockedBodyEnds
<1>7. CASE SettleEvent
  BY <1>2, <1>7 DEF SettleEvent, ResponseListenersSettle
<1>8. CASE Server
  BY <1>2, <1>8 DEF Server, RealInforms, RealResponds, RealCompletes, Answers, RealSends, RealEnds,
     RealFails, OnlyConn
<1>9. CASE EventLoop
  BY <1>2, <1>9 DEF EventLoop, ClaimCompletes, RealConnects, RealFinishes, RealCloses,
     NativeClose, Ticks, TickClose, TickDeliverClose, TickEnd, TickDestroy, TickPassthrough,
     OnlyConn
<1>10. CASE OtherSubscriberClaims \/ SourceDeclines \/ ServerSends \/ ServerEnds
  BY <1>2, <1>10 DEF OtherSubscriberClaims, SourceDeclines, ServerSends, ServerEnds, OnlyConn
<1>11. CASE ConsumerPauses \/ Consumer \/ ClientDestroys
  BY <1>2, <1>11 DEF ConsumerPauses, Consumer, ConsumerResumes, ConsumerReads, ConsumerHearsEnd,
     ClientTearsDown, ClientDestroys, OnlyConn
<1>12. CASE UNCHANGED vars
  BY <1>12 DEF vars
<1>13. QED
  BY <1>3, <1>4, <1>5, <1>6, <1>7, <1>8, <1>9, <1>10, <1>11, <1>12 DEF Next

\* Nothing is pending on a destroyed client, whatever the step.
LEMMA PlainResolved ==
  ASSUME Plain
  PROVE  Resolved'
<1>1. IInv /\ Resolved /\ "mock" \notin conn.layers /\ [Next]_vars
  BY DEF Plain, OnceInv
<1>2. CASE conn'.destroyed
  <2>1. CASE UNCHANGED <<conn, verdict>>
    BY <1>1, <2>1 DEF Resolved
  <2>2. CASE \E c, verdicts : Given(verdicts) /\ Turns(c, verdicts)
    BY <1>1, <2>2, TurnsResolves
  <2>3. QED
    BY <1>1, <1>2, <2>1, <2>2, NextTurns
<1>3. CASE ~conn'.destroyed
  BY <1>3 DEF Resolved
<1>4. QED
  BY <1>2, <1>3

\* No step makes a connection of another protocol pending again.
LEMMA ReadyStays ==
  ASSUME [Next]_vars, protocol = "other", readyState # "PENDING"
  PROVE  readyState' # "PENDING"
<1>1. CASE ClientRequests \/ ClientRequestsThroughTunnel
  BY <1>1 DEF ClientRequests, ClientRequestsThroughTunnel, ClientWrites
<1>2. CASE Listeners
  BY <1>2 DEF Listeners, RespondInVain, RespondWith, RespondWithNetworkError, ErrorWith,
     Passthrough, exchangeVars
<1>3. CASE \E r \in Request :
             MockedListenersThrow(r) \/ MockedBodyWrites(r) \/ MockedBodyBreaks(r)
  BY <1>3 DEF MockedListenersThrow, MockedBodyWrites, MockedBodyBreaks, OnlyConn, exchangeVars
<1>4. CASE MockProceeds \/ SettleEvent
  BY <1>4 DEF MockProceeds, SettleEvent, MockedListenersSettle, MockedBodyEnds,
     ResponseListenersSettle, exchangeVars
<1>5. CASE Server
  BY <1>5 DEF Server, RealInforms, RealResponds, RealCompletes, Answers, RealSends, RealEnds,
     RealFails, OnlyConn, exchangeVars
<1>6. CASE EventLoop
  BY <1>6 DEF EventLoop, ClaimCompletes, RealConnects, RealFinishes, RealCloses, RealUnchanged,
     NativeClose, Ticks, TickClose, TickDeliverClose, TickEnd, TickDestroy, TickPassthrough,
     OnlyConn, exchangeVars
<1>7. CASE OtherSubscriberClaims \/ SourceDeclines \/ ServerSends \/ ServerEnds
  BY <1>7 DEF OtherSubscriberClaims, SourceDeclines, ServerSends, ServerEnds, OnlyConn,
     exchangeVars
<1>8. CASE ConsumerPauses \/ Consumer \/ ClientDestroys
  BY <1>8 DEF ConsumerPauses, Consumer, ConsumerResumes, ConsumerReads, ConsumerHearsEnd,
     ClientTearsDown, ClientDestroys, OnlyConn, exchangeVars
<1>9. CASE UNCHANGED vars
  BY <1>9 DEF vars, exchangeVars
<1>10. QED
  BY <1>1, <1>2, <1>3, <1>4, <1>5, <1>6, <1>7, <1>8, <1>9 DEF Next

\* A client of another protocol that closes has swapped its handle.
LEMMA PlainOpened ==
  ASSUME Plain, Once(conn'), conn'.closes = conn.closes \/ conn'.swapped = conn.swapped
  PROVE  Opened'
<1>1. SUFFICES ASSUME protocol' = "other", ~conn'.destroyed, conn'.closes > 0
               PROVE  readyState' # "PENDING"
  BY DEF Opened
<1>2. protocol = "other" /\ [Next]_vars
  BY <1>1, InputsStay DEF Plain, inputVars
<1>3. conn.closes \in {0, 1} /\ conn.destroyed \in BOOLEAN
  BY PlainConn
<1>4. ~conn.destroyed
  BY <1>1, <1>3 DEF Plain, Promised
<1>5. readyState # "PENDING"
  <2>1. CASE conn.closes > 0
    BY <1>2, <1>4, <2>1 DEF Plain, OnceInv, Opened
  <2>2. CASE ~(conn.closes > 0)
    <3>1. conn.closes = 0 /\ conn'.closes = 1
      BY <1>1, <1>3, <2>2 DEF Once, Steady
    <3>2. conn'.swapped /\ conn.swapped
      BY <1>1, <3>1 DEF Once, Steady
    <3>3. conn.real # "none" /\ Alive(conn)
      BY <1>4, <3>1, <3>2 DEF Plain, OnceInv, Once, Steady, Alive
    <3>4. readyState = "PASSTHROUGH"
      BY <1>2, <3>3 DEF Plain, SInv, AliveInv, OtherAlive
    <3>5. QED
      BY <3>4
  <2>3. QED
    BY <2>1, <2>2
<1>6. QED
  BY <1>2, <1>5, ReadyStays

\* An HTTP client that closes has nothing more to be written, if it had not before.
LEMMA PlainSilenced ==
  ASSUME Plain, Left(conn')
  PROVE  Silenced'
<1>1. SUFFICES ASSUME protocol = "http", ~conn'.destroyed, conn'.closes > 0
               PROVE  NothingToWrite(conn')
  BY InputsStay DEF Silenced, Plain, inputVars, NothingToWrite
<1>2. conn.closes \in {0, 1} /\ conn.destroyed \in BOOLEAN
  BY PlainConn
<1>3. ~conn.destroyed
  BY <1>1, <1>2 DEF Plain, Promised
<1>4. NothingToWrite(conn)
  <2>1. CASE conn.closes = 0
    BY <1>1, <1>3, <2>1 DEF Plain, SInv, AliveInv, Alive, HttpAlive
  <2>2. CASE conn.closes = 1
    BY <1>1, <1>3, <2>2 DEF Plain, OnceInv, Silenced
  <2>3. QED
    BY <1>2, <2>1, <2>2
<1>5. QED
  BY <1>1, <1>4 DEF Left

\* A step keeps the invariant if it closes the client once.
LEMMA OnceStep ==
  ASSUME Plain, Once(conn'), conn'.closes = conn.closes \/ conn'.swapped = conn.swapped,
         conn.swapped => conn'.swapped, events' \subseteq events \/ conn'.swapped,
         Unwritten', ~retargeted', Left(conn')
  PROVE  OnceInv'
<1>1. Shared'
  BY DEF Plain, OnceInv, Shared
<1>2. QED
  BY <1>1, PlainResolved, PlainOpened, PlainSilenced DEF OnceInv

\* Nobody decides, and nothing is sent.
LEMMA OnceBecomes ==
  ASSUME Plain, NEW c, Becomes(c), Once(c), c.closes = conn.closes \/ c.swapped = conn.swapped,
         conn.swapped => c.swapped, events' \subseteq events \/ c.swapped,
         \A r \in Request : verdict[r] = "mock" /\ Sent(r, "fin")' => Sent(r, "fin"),
         \A r \in Request : stage'[r] # "streaming", retargeted' = retargeted, Left(c)
  PROVE  OnceInv'
<1>1. conn' = c
  BY DEF Becomes, Turns
<1>2. Given(verdict)
  BY DEF Plain, IInv, Types, Given
<1>3. \A r \in Request : verdict'[r] = verdict[r] \/ verdict'[r] = "aborted"
  BY <1>2, TurnsGives DEF Becomes, Plain
<1>4. Unwritten'
  BY <1>3 DEF Unwritten, Plain, OnceInv
<1>5. ~retargeted'
  BY DEF Plain, OnceInv
<1>6. QED
  BY <1>1, <1>4, <1>5, OnceStep

\* Only the connection changes.
LEMMA OnceConn ==
  ASSUME Plain, NEW c, OnlyConn(c), Once(c), c.closes = conn.closes \/ c.swapped = conn.swapped,
         conn.swapped => c.swapped, Left(c),
         \A r \in Request : verdict[r] = "mock" /\ Sent(r, "fin")' => Sent(r, "fin")
  PROVE  OnceInv'
<1>1. Becomes(c) /\ stage' = stage /\ events' = events /\ retargeted' = retargeted
  BY DEF OnlyConn, exchangeVars, eventVars, tunnelVars
<1>2. \A r \in Request : stage'[r] # "streaming"
  BY <1>1 DEF Plain, OnceInv, Unwritten
<1>3. QED
  BY <1>1, <1>2, OnceBecomes

\* It changes, and nothing is sent.
LEMMA OnceQuiet ==
  ASSUME Plain, NEW c, OnlyConn(c), Once(c), c.closes = conn.closes \/ c.swapped = conn.swapped,
         conn.swapped => c.swapped, Left(c), c.sent = conn.sent
  PROVE  OnceInv'
<1>1. conn' = c
  BY DEF OnlyConn, Becomes, Turns
<1>2. \A r \in Request : Sent(r, "fin")' => Sent(r, "fin")
  BY <1>1 DEF Sent
<1>3. QED
  BY <1>2, OnceConn

\* The client writes a request: a mocked "CONNECT" has no complete answer.
LEMMA ClientWritesOnce ==
  ASSUME Plain, ClientRequests \/ ClientRequestsThroughTunnel
  PROVE  OnceInv'
<1>1. IInv /\ SInv /\ Once(conn) /\ Unwritten /\ ~retargeted /\ ClientWrites
  BY DEF Plain, OnceInv, ClientRequests, ClientRequestsThroughTunnel
<1>2. /\ Alive(conn) /\ Sound(conn) /\ current \in Nat /\ current + 1 \in Request
      /\ conn \in Connections(Chunk, Tick)
  BY <1>1, WritesFacts, PlainConn
<1>3. ASSUME tunnelUrl PROVE FALSE
  <2>1. verdict[1] = "mock" /\ ~(current >= 2) /\ 1 \in Request
    BY <1>1, <1>3, BoundsAssumption DEF IInv, DialledRight, Request
  <2>2. current = 1
    <3>1. current # 0
      BY <1>1, <2>1 DEF IInv, OneIsPending
    <3>2. QED
      BY <1>2, <2>1, <3>1
  <2>3. Part(1, "fin") \in ToSet(conn.heard)
    BY <1>1, <2>2 DEF ClientWrites, Complete
  <2>4. Sent(1, "fin")
    BY <1>2, <2>3, DeliveredSent DEF Sent
  <2>5. QED
    BY <1>1, <2>1, <2>4 DEF Unwritten
<1>4. /\ conn' = conn /\ stage' = stage /\ events' = events /\ retargeted' = retargeted
      /\ \A r \in Request : verdict'[r] = verdict[r] \/ verdict'[r] = "pending"
  <2>1. verdict \in [Request -> Verdicts]
    BY <1>1 DEF IInv, Types
  <2>2. CASE ClientRequests
    BY <1>3, <2>1, <2>2 DEF ClientRequests, EnterTunnel, eventVars
  <2>3. CASE ClientRequestsThroughTunnel
    BY <2>3 DEF ClientRequestsThroughTunnel, eventVars, tunnelVars
  <2>4. QED
    BY <2>2, <2>3
<1>5. Unwritten'
  BY <1>1, <1>4 DEF Unwritten, Sent
<1>6. Left(conn')
  BY <1>4 DEF Left
<1>7. QED
  BY <1>1, <1>4, <1>5, <1>6, OnceStep

\* A listener answers the request, or errors it.
LEMMA DecisionsOnce ==
  ASSUME Plain, NEW r \in Request,
         \/ RespondInVain(r)
         \/ \E ok \in BOOLEAN : RespondWith(r, ok)
         \/ RespondWithNetworkError(r)
         \/ \E isError \in BOOLEAN : ErrorWith(r, isError)
  PROVE  OnceInv'
<1>1. IInv /\ SInv /\ Once(conn) /\ Unwritten /\ Resolved /\ ~retargeted
      /\ "mock" \notin conn.layers
  BY DEF Plain, OnceInv
<1>2. Undecided(r)
  BY DEF RespondInVain, RespondWith, RespondWithNetworkError, ErrorWith
<1>3. verdict[r] = "pending" /\ ~Sent(r, "fin")
  BY <1>1, <1>2, UndecidedFacts
<1>4. ~conn.destroyed
  BY <1>1, <1>3 DEF Resolved
<1>5. /\ \A v \in {"mock", "error"} : Given(Decides(r, v))
      /\ verdict \in [Request -> Verdicts]
      /\ stage \in [Request -> {"none", "listening", "connecting", "refused", "streaming",
                                "thrown", "done"}]
  BY <1>1, <1>2, UndecidedIsPending DEF IInv, Types, OtherTypes
<1>6. PICK d : d = Destroy(conn)
  OBVIOUS
<1>7. /\ Once(d) /\ d.swapped = conn.swapped /\ d.sent = conn.sent /\ d.closes = conn.closes
      /\ d.destroyed
  BY <1>1, <1>6, PlainConn, DestroyOnce DEF Once
<1>8. /\ events' = events /\ retargeted' = retargeted
      /\ \A q \in Request : stage'[q] = stage[q] \/ stage'[q] # "streaming"
      /\ \E v \in {"mock", "error"}, c \in {conn, d} : Turns(c, Decides(r, v))
  <2>1. CASE RespondInVain(r)
    BY <1>4, <2>1 DEF RespondInVain
  <2>2. CASE \E ok \in BOOLEAN : RespondWith(r, ok)
    BY <1>5, <2>2 DEF RespondWith, eventVars
  <2>3. CASE RespondWithNetworkError(r)
    BY <1>5, <1>6, <2>3 DEF RespondWithNetworkError, eventVars, tunnelVars
  <2>4. CASE \E isError \in BOOLEAN : ErrorWith(r, isError)
    BY <1>6, <2>4 DEF ErrorWith, eventVars, tunnelVars, exchangeVars
  <2>5. QED
    BY <2>1, <2>2, <2>3, <2>4
<1>9. PICK v \in {"mock", "error"}, c \in {conn, d} : Turns(c, Decides(r, v))
  BY <1>8
<1>10. /\ conn' = c
       /\ \A q \in Request : verdict'[q] = Decides(r, v)[q] \/ verdict'[q] = "aborted"
  BY <1>1, <1>5, <1>9, TurnsGives
<1>11. \A q \in Request : verdict'[q] = "mock" => q = r \/ verdict[q] = "mock"
  BY <1>5, <1>10 DEF Decides
<1>12. c.sent = conn.sent /\ c.swapped = conn.swapped /\ c.closes = conn.closes /\ Once(c)
  BY <1>1, <1>7
<1>13. \A q \in Request : Sent(q, "fin")' => Sent(q, "fin")
  BY <1>10, <1>12 DEF Sent
<1>14. Unwritten'
  BY <1>1, <1>3, <1>8, <1>11, <1>13 DEF Unwritten
<1>15. Left(c)
  BY <1>7, <1>9 DEF Left
<1>16. QED
  BY <1>1, <1>8, <1>10, <1>12, <1>14, <1>15, OnceStep

\* The request passes through: a connection that is gone while the client is read has a
\* close under way, which it waits for.
LEMMA PassthroughOnce ==
  ASSUME Plain, NEW r \in Request, Passthrough(r)
  PROVE  OnceInv'
<1>1. IInv /\ SInv /\ Unwritten /\ Resolved /\ ~retargeted
  BY DEF Plain, OnceInv
<1>2. /\ conn \in Connections(Chunk, Tick) /\ Closing(conn) /\ Once(conn)
      /\ conn.closes \in {0, 1} /\ (Alive(conn) => Sound(conn))
  BY PlainConn
<1>3. PICK c : /\ conn' = c /\ verdict' = Decides(r, "passthrough")
               /\ c = [conn EXCEPT !.corked = c.corked, !.real = c.real, !.paused = c.paused]
               /\ c.real = IF Live THEN conn.real ELSE "connecting"
  BY <1>1, PassthroughConn
<1>4. /\ c.heard = conn.heard /\ c.buffer = conn.buffer /\ c.eof = conn.eof
      /\ c.ended = conn.ended /\ c.destroyed = conn.destroyed /\ c.closes = conn.closes
      /\ c.sent = conn.sent /\ c.corked = c.corked /\ c.corkedReads = conn.corkedReads
      /\ c.endPushed = conn.endPushed /\ c.real = c.real /\ c.flowing = conn.flowing
      /\ c.pendingWrites = conn.pendingWrites /\ c.pendingEnd = conn.pendingEnd
      /\ c.backpressured = conn.backpressured /\ c.flushScheduled = conn.flushScheduled
      /\ c.ticks = conn.ticks /\ c.nativeClose = conn.nativeClose /\ c.layers = conn.layers
      /\ c.connecting = conn.connecting /\ c.swapped = conn.swapped /\ c.paused = c.paused
  BY <1>2, <1>3 DEF Connections
<1>5. /\ Undecided(r) /\ conn.real # "closing" /\ verdict[r] = "pending"
      /\ UNCHANGED <<stage, retargeted, events>>
      /\ Alive(conn) => ~conn.corked /\ (conn.eof => conn.endPushed) /\ conn.flowing
  BY <1>1, UndecidedFacts DEF Passthrough, eventVars
<1>6. ~conn.destroyed /\ ~Settling
  BY <1>1, <1>5 DEF Resolved, Undecided
<1>7. conn.closes = 0
  BY <1>2, <1>6 DEF Settling, Closing
<1>8. Sound(conn) /\ conn.corkedReads = <<>> /\ conn.flowing
  BY <1>2, <1>5, <1>6, <1>7 DEF Alive, Sound
<1>9. "waits" \notin conn.layers
  <2>1. SUFFICES ASSUME "waits" \in conn.layers PROVE FALSE
    OBVIOUS
  <2>2. conn.endPushed /\ ~conn.ended
    BY <1>2, <2>1 DEF Once, Steady
  <2>3. conn.eof
    BY <1>8, <2>2 DEF Sound
  <2>4. QED
    BY <1>6, <1>8, <2>2, <2>3 DEF Settling
<1>10. ~CloseDue(conn) /\ ~conn.nativeClose
  BY <1>2, <1>6 DEF Once, Steady
<1>11. ~CloseCorked(conn)
  <2>1. SUFFICES ASSUME NEW D \in Seq(Unclosed), <<>> = Append(D, CloseRead) PROVE FALSE
    BY <1>8 DEF CloseCorked
  <2>2. PICK S, x : S = Unclosed \cup {CloseRead} /\ x = CloseRead
    OBVIOUS
  <2>3. D \in Seq(S) /\ x \in S /\ Append(D, x) = <<>>
    BY <2>1, <2>2
  <2>4. QED
    BY ONLY <2>3
<1>12. Once(c)
  <2>1. CASE Live
    <3>1. c.real = conn.real
      BY <1>3, <2>1
    <3>2. SameEnds(conn, c)
      BY <1>4, <3>1 DEF SameEnds
    <3>3. QED
      BY <1>2, <3>2, SameOnce DEF Once
  <2>2. CASE ~Live
    <3>1. conn.real \in {"none", "gone"} /\ c.real = "connecting"
      BY <1>2, <1>3, <1>5, <2>2 DEF Live, Connections, RealState
    <3>2. (CloseIfNone(c) <=> CloseIfNone(conn)) /\ ~CloseDue(c)
      BY <1>4, <1>10 DEF CloseIfNone, CloseDue
    <3>3. IF conn.real = "gone" THEN CloseIfNone(conn) /\ conn.swapped
          ELSE ~conn.swapped /\ ~CloseIfNone(conn)
      BY <1>2, <1>6, <1>7, <1>9, <1>11, <3>1 DEF Once, Steady, Followed
    <3>4. c.corkedReads \in Seq(Unclosed)
      BY <1>4, <1>8
    <3>5. Steady(c)
      BY <1>4, <1>6, <1>7, <1>9, <1>10, <3>1, <3>2, <3>3, <3>4 DEF Steady
    <3>6. Followed(c)
      BY <3>1 DEF Followed
    <3>7. QED
      BY <3>5, <3>6 DEF Once
  <2>3. QED
    BY <2>1, <2>2
<1>13. Unwritten'
  <2>1. verdict \in [Request -> Verdicts]
    BY <1>1 DEF IInv, Types
  <2>2. \A q \in Request : verdict'[q] = "mock" => verdict[q] = "mock"
    BY <1>3, <2>1 DEF Decides
  <2>3. QED
    BY <1>1, <1>3, <1>4, <1>5, <2>2 DEF Unwritten, Sent
<1>14. Left(c)
  BY <1>4, <1>7 DEF Left
<1>15. QED
  BY <1>1, <1>3, <1>4, <1>5, <1>12, <1>13, <1>14, OnceStep

\* Of a mocked response only its listeners are heard.
LEMMA MockedOnce ==
  ASSUME Plain, NEW r \in Request,
         \/ MockedListenersSettle(r) \/ MockedListenersThrow(r)
         \/ MockedBodyWrites(r) \/ MockedBodyBreaks(r)
         \/ \E framed \in BOOLEAN : MockedBodyEnds(r, framed)
  PROVE  OnceInv'
<1>1. IInv /\ Unwritten /\ ~retargeted /\ "mock" \notin conn'.layers
  BY DEF Plain, OnceInv
<1>2. conn \in Connections(Chunk, Tick) /\ Once(conn)
  BY PlainConn
<1>3. MockedListenersSettle(r) \/ MockedListenersThrow(r)
  BY <1>1 DEF Unwritten, MockedBodyWrites, MockedBodyBreaks, MockedBodyEnds
<1>4. Left(conn)
  BY DEF Left
<1>5. stage \in [Request -> {"none", "listening", "connecting", "refused", "streaming",
                             "thrown", "done"}]
  BY <1>1 DEF IInv, Types, OtherTypes
<1>6. CASE MockedListenersThrow(r)
  <2>1. conn' = conn /\ verdict' = verdict /\ events' = events /\ retargeted' = retargeted
        /\ stage' = Stage(r, "thrown")
    BY <1>6 DEF MockedListenersThrow, eventVars, tunnelVars
  <2>2. Unwritten'
    BY <1>1, <1>5, <2>1 DEF Unwritten, Stage, Sent
  <2>3. QED
    BY <1>1, <1>2, <1>4, <2>1, <2>2, OnceStep
<1>7. CASE MockedListenersSettle(r)
  <2>1. events' = events /\ retargeted' = retargeted
    BY <1>7 DEF MockedListenersSettle, eventVars, tunnelVars
  <2>2. conn.connecting \/ conn.destroyed
    <3>1. SUFFICES ASSUME ~conn.connecting, ~conn.destroyed PROVE FALSE
      OBVIOUS
    <3>2. conn' = [conn EXCEPT !.layers = {"mock"}]
      BY <1>7, <3>1 DEF MockedListenersSettle, Becomes, Turns, Override
    <3>3. conn'.layers = {"mock"}
      BY <1>2, <3>2 DEF Connections
    <3>4. QED
      BY <1>1, <3>3
  <2>3. PICK s \in {"connecting", "done"} : Becomes(conn) /\ stage' = Stage(r, s)
    BY <1>7, <2>2 DEF MockedListenersSettle, Override, StageOfResponse
  <2>4. \A q \in Request : stage'[q] # "streaming"
    BY <1>1, <1>5, <2>3 DEF Unwritten, Stage
  <2>5. \A q \in Request : Sent(q, "fin")' => Sent(q, "fin")
    BY <2>3 DEF Becomes, Turns, Sent
  <2>6. QED
    BY <1>2, <1>4, <2>1, <2>3, <2>4, <2>5, OnceBecomes
<1>8. QED
  BY <1>3, <1>6, <1>7

\* Listeners settle, and the reads go on.
LEMMA SettlesOnce ==
  ASSUME Plain, NEW e \in events, ResponseListenersSettle(e)
  PROVE  OnceInv'
<1>1. IInv /\ SInv /\ Unwritten /\ Shared /\ "mock" \notin conn.layers
  BY DEF Plain, OnceInv
<1>2. /\ conn \in Connections(Chunk, Tick) /\ conn \in After(conn, Chunk, Tick) /\ Closing(conn)
      /\ Once(conn) /\ conn.closes \in {0, 1} /\ (Alive(conn) => Sound(conn))
  BY PlainConn
<1>3. conn.swapped
  BY <1>1 DEF Shared
<1>4. PICK u : u = Uncork(conn)
  OBVIOUS
<1>5. Once(u) /\ "mock" \notin u.layers /\ u.swapped /\ u.sent = conn.sent
  BY <1>1, <1>2, <1>3, <1>4, UncorkOnce
<1>6. u \in Connections(Chunk, Tick) /\ (conn.destroyed => u.destroyed)
  <2>1. u \in After(conn, Chunk, Tick)
    BY <1>2, <1>4, OwnIsTick, UncorkAfter
  <2>2. QED
    BY <2>1 DEF After, Follows
<1>7. Left(u)
  <2>1. SUFFICES ASSUME protocol = "http", ~u.destroyed, u.closes > 0, NothingToWrite(conn)
                 PROVE  NothingToWrite(u)
    BY DEF Left
  <2>2. ~conn.destroyed
    BY <1>6, <2>1
  <2>3. CASE ~conn.corked
    BY <1>4, <2>1, <2>3 DEF Uncork
  <2>4. CASE conn.corked /\ conn.closes = 0
    <3>1. Alive(conn)
      BY <2>2, <2>4 DEF Alive
    <3>2. LetGo(conn, u) \/ LetClose(conn, u)
      BY <1>2, <1>4, <2>1, <2>4, <3>1, UncorkAlive
    <3>3. QED
      BY <3>2 DEF LetGo, LetClose
  <2>5. CASE conn.corked /\ conn.closes = 1
    <3>1. conn.corkedReads = <<>>
      BY <1>2, <2>5 DEF Once, Steady
    <3>2. PICK d : d = [conn EXCEPT !.corked = FALSE, !.corkedReads = <<>>]
      OBVIOUS
    <3>3. u = d
      <4>1. PICK s : s = conn.corkedReads
        OBVIOUS
      <4>2. Len(s) = 0 /\ Len(s) \in Nat
        BY <3>1, <4>1
      <4>3. PICK f : ReplayRun(f, d, s)
        BY <4>2, ReplaySteps
      <4>4. u = Iterate(Replay, d, s)
        BY <1>4, <2>5, <3>2, <4>1 DEF Uncork
      <4>5. QED
        BY <4>2, <4>3, <4>4 DEF ReplayRun
    <3>4. QED
      BY <1>2, <2>1, <3>2, <3>3 DEF NothingToWrite, Connections
  <2>6. QED
    BY <1>2, <2>3, <2>4, <2>5
<1>8. PICK c : c = UncorkFor(e)
  OBVIOUS
<1>9. Once(c) /\ c.swapped /\ c.swapped = conn.swapped /\ c.sent = conn.sent /\ Left(c)
  <2>1. u.swapped = conn.swapped
    BY <1>2, <1>3, <1>5, <1>6 DEF Connections
  <2>2. CASE e.part # "informational"
    BY <1>4, <1>5, <1>7, <1>8, <2>1, <2>2 DEF UncorkFor
  <2>3. CASE e.part = "informational"
    <3>1. c = Cork(u)
      BY <1>4, <1>8, <2>3 DEF UncorkFor
    <3>2. /\ c.heard = u.heard /\ c.buffer = u.buffer /\ c.eof = u.eof /\ c.ended = u.ended
          /\ c.destroyed = u.destroyed /\ c.closes = u.closes /\ c.sent = u.sent
          /\ c.corked = TRUE /\ c.corkedReads = u.corkedReads /\ c.endPushed = u.endPushed
          /\ c.real = u.real /\ c.flowing = u.flowing /\ c.pendingWrites = u.pendingWrites
          /\ c.pendingEnd = u.pendingEnd /\ c.backpressured = u.backpressured
          /\ c.flushScheduled = u.flushScheduled /\ c.ticks = u.ticks
          /\ c.nativeClose = u.nativeClose /\ c.layers = u.layers
          /\ c.connecting = u.connecting /\ c.swapped = u.swapped /\ c.paused = u.paused
      BY <1>6, <3>1 DEF Cork, Connections
    <3>3. SameEnds(u, c) /\ (NothingToWrite(u) => NothingToWrite(c))
      BY <3>2 DEF SameEnds, NothingToWrite
    <3>4. Once(c)
      BY <1>5, <3>3, SameOnce DEF Once
    <3>5. QED
      BY <1>5, <1>7, <2>1, <3>2, <3>3, <3>4 DEF Left
  <2>4. QED
    BY <2>2, <2>3
<1>10. Becomes(c) /\ events' \subseteq events /\ stage' = stage /\ retargeted' = retargeted
  BY <1>8 DEF ResponseListenersSettle, exchangeVars, tunnelVars
<1>11. \A q \in Request : (Sent(q, "fin")' => Sent(q, "fin")) /\ stage'[q] # "streaming"
  BY <1>1, <1>9, <1>10 DEF Becomes, Turns, Sent, Unwritten
<1>12. QED
  BY <1>9, <1>10, <1>11, OnceBecomes

\* A part of an answer comes, from a connection that is open.
LEMMA AnswersOnce ==
  ASSUME Plain, NEW part \in Parts, AnswersOf(part)
  PROVE  OnceInv'
<1>1. IInv /\ SInv /\ Unwritten /\ "mock" \notin conn.layers
  BY DEF Plain, OnceInv
<1>2. /\ conn \in Connections(Chunk, Tick) /\ conn \in After(conn, Chunk, Tick)
      /\ Once(conn) /\ conn.closes \in {0, 1}
  BY PlainConn
<1>3. PICK x, c : x = Part(current, part) /\ c = OnRealData(conn, x)
  OBVIOUS
<1>4. /\ current \in Request /\ PassedOn(current) /\ conn.real = "open"
      /\ Becomes(c) /\ UNCHANGED stage
  BY <1>1, <1>3, AnswersFacts
<1>5. x \in Chunk
  BY <1>3, <1>4, PartIsChunk
<1>6. Once(c) /\ c.swapped = conn.swapped /\ c.sent = Append(conn.sent, x)
      /\ c.closes = conn.closes
  BY <1>1, <1>2, <1>3, <1>4, <1>5, OnRealDataOnce
<1>7. conn.swapped /\ conn.closes = 0
  BY <1>2, <1>4 DEF Once, Steady
<1>8. ToSet(c.sent) = ToSet(conn.sent) \cup {x}
  BY <1>2, <1>5, <1>6, AppendedSent
<1>9. ASSUME NEW q \in Request, verdict[q] = "mock", Sent(q, "fin")'
      PROVE  Sent(q, "fin")
  <2>1. q # current
    BY <1>1, <1>4, <1>9, MockNotPassed DEF SInv
  <2>2. Part(q, "fin") # x
    BY <1>3, <2>1 DEF Part
  <2>3. QED
    BY <1>4, <1>8, <1>9, <2>2 DEF Sent, Becomes, Turns
<1>10. retargeted' = retargeted /\ \A q \in Request : stage'[q] # "streaming"
  BY <1>1, <1>4 DEF Unwritten, AnswersOf, Answers, tunnelVars
<1>11. Left(c)
  BY <1>6, <1>7 DEF Left
<1>12. QED
  BY <1>4, <1>6, <1>7, <1>9, <1>10, <1>11, OnceBecomes

\* What comes from the real connection of another protocol.
LEMMA NextIsChunk ==
  ASSUME IInv, Len(conn.sent) < MaxChunks, NEW x, x = NextChunk
  PROVE  x \in Chunk /\ \A q : x # Part(q, "fin")
<1>1. Len(conn.sent) \in Nat
  BY ConnTyped DEF Connections
<1>2. Len(conn.sent) + 1 \in Index
  BY <1>1, BoundsAssumption DEF Index
<1>3. QED
  BY <1>2 DEF NextChunk, Part, Chunk

\* The real connection sends data, ends or fails.
LEMMA RealEmitsOnce ==
  ASSUME Plain, RealSends \/ RealEnds \/ RealFails
  PROVE  OnceInv'
<1>1. IInv /\ SInv /\ "mock" \notin conn.layers
  BY DEF Plain, OnceInv
<1>2. /\ conn \in Connections(Chunk, Tick) /\ conn \in After(conn, Chunk, Tick)
      /\ Once(conn) /\ conn.closes \in {0, 1}
  BY PlainConn
<1>3. conn.closes = 0
  BY <1>2 DEF RealSends, RealEnds, RealFails, Once, Steady
<1>4. CASE RealSends
  <2>1. PICK x, c : x = NextChunk /\ c = OnRealData(conn, x)
    OBVIOUS
  <2>2. /\ conn.real = "open" /\ OnlyConn(c) /\ protocol = "other"
        /\ x \in Chunk /\ \A q : x # Part(q, "fin")
    BY <1>1, <1>4, <2>1, NextIsChunk DEF RealSends
  <2>3. Once(c) /\ c.swapped = conn.swapped /\ c.closes = conn.closes
    BY <1>1, <1>2, <2>1, <2>2, OnRealDataOnce
  <2>4. \A q \in Request : verdict[q] # "mock"
    BY <1>1, <2>2, OtherHasNone
  <2>5. Left(c)
    BY <1>3, <2>3 DEF Left
  <2>6. QED
    BY <2>2, <2>3, <2>4, <2>5, OnceConn
<1>5. CASE RealEnds
  <2>1. PICK c : c = OnRealEnd(conn)
    OBVIOUS
  <2>2. conn.real = "open" /\ OnlyConn(c)
    BY <1>5, <2>1 DEF RealEnds
  <2>3. Once(c) /\ c.swapped = conn.swapped /\ c.closes = conn.closes /\ c.sent = conn.sent
    BY <1>1, <1>2, <2>1, <2>2, OnRealEndOnce
  <2>4. Left(c)
    BY <1>3, <2>3 DEF Left
  <2>5. QED
    BY <2>2, <2>3, <2>4, OnceQuiet
<1>6. CASE RealFails
  <2>1. PICK c : c = OnRealError(conn)
    OBVIOUS
  <2>2. /\ conn.real \in {"connecting", "open", "finished"} /\ conn.ticks = <<>>
        /\ OnlyConn(c)
    BY <1>6, <2>1 DEF RealFails, Idle
  <2>3. Once(c) /\ c.swapped = conn.swapped /\ c.closes = conn.closes /\ c.sent = conn.sent
    BY <1>1, <1>2, <2>1, <2>2, OnRealErrorOnce
  <2>4. Left(c)
    BY <1>3, <2>3 DEF Left
  <2>5. QED
    BY <2>2, <2>3, <2>4, OnceQuiet
<1>7. QED
  BY <1>4, <1>5, <1>6

\* It opens, or closes its handle.
LEMMA RealOpensOnce ==
  ASSUME Plain, RealConnects \/ RealFinishes
  PROVE  OnceInv'
<1>1. "mock" \notin conn.layers
  BY DEF Plain
<1>2. /\ conn \in Connections(Chunk, Tick) /\ conn \in After(conn, Chunk, Tick)
      /\ Once(conn) /\ conn.closes \in {0, 1}
  BY PlainConn
<1>3. conn.closes = 0
  BY <1>2 DEF RealConnects, RealFinishes, Once, Steady
<1>4. CASE RealConnects
  <2>1. PICK c : c = OnRealConnect(conn)
    OBVIOUS
  <2>2. conn.real = "connecting" /\ conn.ticks = <<>> /\ OnlyConn(c)
    BY <1>4, <2>1 DEF RealConnects, Idle
  <2>3. Once(c) /\ (conn.swapped => c.swapped) /\ c.closes = conn.closes /\ c.sent = conn.sent
    BY <1>1, <1>2, <2>1, <2>2, OnRealConnectOnce
  <2>4. Left(c)
    BY <1>3, <2>3 DEF Left
  <2>5. QED
    BY <2>2, <2>3, <2>4, OnceQuiet
<1>5. CASE RealFinishes
  <2>1. PICK c : c = [conn EXCEPT !.real = "closing"]
    OBVIOUS
  <2>2. conn.real = "finished" /\ OnlyConn(c)
    BY <1>5, <2>1 DEF RealFinishes
  <2>3. Once(c) /\ c.swapped = conn.swapped /\ c.closes = conn.closes /\ c.sent = conn.sent
    BY <1>2, <2>1, <2>2, RealFinishesOnce
  <2>4. Left(c)
    BY <1>3, <2>3 DEF Left
  <2>5. QED
    BY <2>2, <2>3, <2>4, OnceQuiet
<1>6. QED
  BY <1>4, <1>5

\* It closes.
LEMMA RealClosesOnce ==
  ASSUME Plain, RealCloses
  PROVE  OnceInv'
<1>1. Unwritten /\ "mock" \notin conn.layers
  BY DEF Plain, OnceInv
<1>2. /\ conn \in Connections(Chunk, Tick) /\ conn \in After(conn, Chunk, Tick) /\ Once(conn)
  BY PlainConn
<1>3. PICK c : c = OnRealClose(conn)
  OBVIOUS
<1>4. /\ conn.real = "closing" /\ conn.ticks = <<>> /\ Becomes(c)
      /\ stage' = stage /\ events' = events /\ retargeted' = retargeted
  BY <1>3 DEF RealCloses, RealUnchanged, Idle, exchangeVars, eventVars, tunnelVars
<1>5. Once(c) /\ c.swapped = conn.swapped /\ c.sent = conn.sent
  BY <1>1, <1>2, <1>3, <1>4, OnRealCloseOnce
<1>6. Left(c)
  <2>1. PICK d : d = [conn EXCEPT !.real = "gone"]
    OBVIOUS
  <2>2. d \in Connections(Chunk, Tick) /\ (NothingToWrite(conn) => NothingToWrite(d))
    BY <1>2, <2>1 DEF Connections, RealState, NothingToWrite
  <2>3. NothingToWrite(d) => NothingToWrite(c)
    BY <1>3, <2>1, <2>2 DEF OnRealClose, EmitClientClose, EmitClose, NothingToWrite, Connections
  <2>4. QED
    BY <2>2, <2>3 DEF Left
<1>7. \A q \in Request : (Sent(q, "fin")' => Sent(q, "fin")) /\ stage'[q] # "streaming"
  BY <1>1, <1>4, <1>5 DEF Becomes, Turns, Sent, Unwritten
<1>8. QED
  BY <1>4, <1>5, <1>6, <1>7, OnceBecomes

\* The client's own handle closes.
LEMMA NativeCloseOnce ==
  ASSUME Plain, NativeClose
  PROVE  OnceInv'
<1>1. conn \in Connections(Chunk, Tick) /\ Once(conn)
  BY PlainConn
<1>2. PICK b : b = [conn EXCEPT !.nativeClose = FALSE]
  OBVIOUS
<1>3. PICK c : c = EmitClose(b)
  OBVIOUS
<1>4. conn.nativeClose /\ OnlyConn(c)
  BY <1>2, <1>3 DEF NativeClose
<1>5. /\ b.heard = conn.heard /\ b.buffer = conn.buffer /\ b.eof = conn.eof
      /\ b.ended = conn.ended /\ b.destroyed = conn.destroyed /\ b.closes = conn.closes
      /\ b.sent = conn.sent /\ b.corked = conn.corked /\ b.corkedReads = conn.corkedReads
      /\ b.endPushed = conn.endPushed /\ b.real = conn.real /\ b.flowing = conn.flowing
      /\ b.pendingWrites = conn.pendingWrites /\ b.pendingEnd = conn.pendingEnd
      /\ b.backpressured = conn.backpressured /\ b.flushScheduled = conn.flushScheduled
      /\ b.ticks = conn.ticks /\ b.nativeClose = FALSE /\ b.layers = conn.layers
      /\ b.connecting = conn.connecting /\ b.swapped = conn.swapped
      /\ b.paused = conn.paused
  BY <1>1, <1>2 DEF Connections
<1>6. b \in Connections(Chunk, Tick)
  BY <1>1, <1>2 DEF Connections
<1>7. /\ conn.closes = 0 /\ ~CloseDue(conn) /\ conn.destroyed /\ "waits" \notin conn.layers
      /\ (conn.real = "none" => ~conn.swapped)
  BY <1>1, <1>4 DEF Once, Steady
<1>8. ~CloseDue(b)
  BY <1>5, <1>7 DEF CloseDue
<1>9. Once(c) /\ c.swapped = conn.swapped /\ c.sent = conn.sent /\ c.destroyed
  BY <1>3, <1>5, <1>6, <1>7, <1>8, EmitCloseOnce
<1>10. Left(c)
  BY <1>9 DEF Left
<1>11. QED
  BY <1>4, <1>9, <1>10, OnceQuiet

\* What a tick finds when it runs.
LEMMA TickedConn ==
  ASSUME Plain, conn.ticks # <<>>, NEW b, b = Ticked
  PROVE  /\ /\ b.heard = conn.heard /\ b.buffer = conn.buffer /\ b.eof = conn.eof
            /\ b.ended = conn.ended /\ b.destroyed = conn.destroyed
            /\ b.closes = conn.closes /\ b.sent = conn.sent /\ b.corked = conn.corked
            /\ b.corkedReads = conn.corkedReads /\ b.endPushed = conn.endPushed
            /\ b.real = conn.real /\ b.flowing = conn.flowing
            /\ b.pendingWrites = conn.pendingWrites /\ b.pendingEnd = conn.pendingEnd
            /\ b.backpressured = conn.backpressured
            /\ b.flushScheduled = conn.flushScheduled /\ b.ticks = Tail(conn.ticks)
            /\ b.nativeClose = conn.nativeClose /\ b.layers = conn.layers
            /\ b.connecting = conn.connecting /\ b.swapped = conn.swapped
            /\ b.paused = conn.paused
         /\ b \in Connections(Chunk, Tick) /\ b \in After(b, Chunk, Tick)
         /\ (CloseDue(b) => CloseDue(conn)) /\ (CloseIfNone(b) => CloseIfNone(conn))
         /\ (CloseIfNone(conn) => CloseIfNone(b) \/ Head(conn.ticks) = "closeUnlessClosed")
         /\ (Head(conn.ticks) = "close" => CloseDue(conn))
         /\ (Head(conn.ticks) = "closeUnlessClosed" => CloseIfNone(conn))
         /\ (CloseDue(conn) => Head(conn.ticks) = "close" /\ b.ticks = <<>>)
<1>1. IInv /\ SInv
  BY DEF Plain
<1>2. conn \in Connections(Chunk, Tick) /\ Once(conn)
  BY PlainConn
<1>3. /\ b.heard = conn.heard /\ b.buffer = conn.buffer /\ b.eof = conn.eof
      /\ b.ended = conn.ended /\ b.destroyed = conn.destroyed /\ b.closes = conn.closes
      /\ b.sent = conn.sent /\ b.corked = conn.corked /\ b.corkedReads = conn.corkedReads
      /\ b.endPushed = conn.endPushed /\ b.real = conn.real /\ b.flowing = conn.flowing
      /\ b.pendingWrites = conn.pendingWrites /\ b.pendingEnd = conn.pendingEnd
      /\ b.backpressured = conn.backpressured /\ b.flushScheduled = conn.flushScheduled
      /\ b.ticks = Tail(conn.ticks) /\ b.nativeClose = conn.nativeClose
      /\ b.layers = conn.layers /\ b.connecting = conn.connecting
      /\ b.swapped = conn.swapped /\ b.paused = conn.paused
  BY <1>2 DEF Ticked, Connections
<1>4. b \in Connections(Chunk, Tick) /\ ("abort" \in b.layers \/ "mock" \in b.layers)
  BY <1>1, TickedKeeps DEF Keeping, After, Follows
<1>5. b \in After(b, Chunk, Tick)
  BY <1>4 DEF After, Follows
<1>6. /\ ToSet(b.ticks) \subseteq ToSet(conn.ticks) /\ Head(conn.ticks) \in ToSet(conn.ticks)
      /\ \A t \in ToSet(conn.ticks) : t # Head(conn.ticks) => t \in ToSet(b.ticks)
  BY <1>1, TickedKeeps
<1>7. CloseDue(conn) => Head(conn.ticks) = "close" /\ b.ticks = <<>>
  <2>1. SUFFICES ASSUME conn.ticks = <<"close">>
                 PROVE  Head(conn.ticks) = "close" /\ Tail(conn.ticks) = <<>>
    BY <1>2, <1>3 DEF Once, Steady
  <2>2. QED
    BY <2>1
<1>8. QED
  BY <1>3, <1>4, <1>5, <1>6, <1>7 DEF CloseDue, CloseIfNone

\* A tick emits "close": it was the only one.
LEMMA TickCloseOnce ==
  ASSUME Plain, TickClose
  PROVE  OnceInv'
<1>1. Once(conn)
  BY PlainConn
<1>2. PICK b, c : b = Ticked /\ c = EmitClose(b)
  OBVIOUS
<1>3. conn.ticks # <<>> /\ Head(conn.ticks) = "close" /\ OnlyConn(c)
  BY <1>2 DEF TickClose, NextTick
<1>4. /\ b \in Connections(Chunk, Tick) /\ CloseDue(conn) /\ b.ticks = <<>>
      /\ /\ b.heard = conn.heard /\ b.buffer = conn.buffer /\ b.eof = conn.eof
         /\ b.ended = conn.ended /\ b.destroyed = conn.destroyed /\ b.closes = conn.closes
         /\ b.sent = conn.sent /\ b.corked = conn.corked /\ b.corkedReads = conn.corkedReads
         /\ b.endPushed = conn.endPushed /\ b.real = conn.real /\ b.flowing = conn.flowing
         /\ b.pendingWrites = conn.pendingWrites /\ b.pendingEnd = conn.pendingEnd
         /\ b.backpressured = conn.backpressured /\ b.flushScheduled = conn.flushScheduled
         /\ b.ticks = Tail(conn.ticks) /\ b.nativeClose = conn.nativeClose
         /\ b.layers = conn.layers /\ b.connecting = conn.connecting
         /\ b.swapped = conn.swapped /\ b.paused = conn.paused
  BY <1>2, <1>3, TickedConn
<1>5. /\ conn.closes = 0 /\ ~conn.nativeClose /\ conn.real = "closing" /\ conn.destroyed
      /\ "waits" \notin conn.layers
  BY <1>1, <1>4 DEF Once, Steady
<1>6. ~CloseDue(b)
  BY <1>4 DEF CloseDue, ToSet
<1>7. Once(c) /\ c.swapped = conn.swapped /\ c.sent = conn.sent /\ c.destroyed
  BY <1>2, <1>4, <1>5, <1>6, EmitCloseOnce
<1>8. Left(c)
  BY <1>7 DEF Left
<1>9. QED
  BY <1>3, <1>7, <1>8, OnceQuiet

\* A tick emits "close" unless it was.
LEMMA TickDeliverCloseOnce ==
  ASSUME Plain, TickDeliverClose
  PROVE  OnceInv'
<1>1. Once(conn) /\ conn.closes \in {0, 1}
  BY PlainConn
<1>2. PICK b, c : b = Ticked /\ c = CloseOnce(b)
  OBVIOUS
<1>3. conn.ticks # <<>> /\ Head(conn.ticks) = "closeUnlessClosed" /\ OnlyConn(c)
  BY <1>2 DEF TickDeliverClose, NextTick
<1>4. /\ b \in Connections(Chunk, Tick) /\ CloseIfNone(conn) /\ ~CloseDue(conn)
      /\ (CloseDue(b) => CloseDue(conn))
      /\ /\ b.heard = conn.heard /\ b.buffer = conn.buffer /\ b.eof = conn.eof
         /\ b.ended = conn.ended /\ b.destroyed = conn.destroyed /\ b.closes = conn.closes
         /\ b.sent = conn.sent /\ b.corked = conn.corked /\ b.corkedReads = conn.corkedReads
         /\ b.endPushed = conn.endPushed /\ b.real = conn.real /\ b.flowing = conn.flowing
         /\ b.pendingWrites = conn.pendingWrites /\ b.pendingEnd = conn.pendingEnd
         /\ b.backpressured = conn.backpressured /\ b.flushScheduled = conn.flushScheduled
         /\ b.ticks = Tail(conn.ticks) /\ b.nativeClose = conn.nativeClose
         /\ b.layers = conn.layers /\ b.connecting = conn.connecting
         /\ b.swapped = conn.swapped /\ b.paused = conn.paused
  <2>1. /\ b \in Connections(Chunk, Tick) /\ CloseIfNone(conn)
        /\ CloseDue(conn) => Head(conn.ticks) = "close"
        /\ (CloseDue(b) => CloseDue(conn))
        /\ /\ b.heard = conn.heard /\ b.buffer = conn.buffer /\ b.eof = conn.eof
           /\ b.ended = conn.ended /\ b.destroyed = conn.destroyed /\ b.closes = conn.closes
           /\ b.sent = conn.sent /\ b.corked = conn.corked
           /\ b.corkedReads = conn.corkedReads /\ b.endPushed = conn.endPushed
           /\ b.real = conn.real /\ b.flowing = conn.flowing
           /\ b.pendingWrites = conn.pendingWrites /\ b.pendingEnd = conn.pendingEnd
           /\ b.backpressured = conn.backpressured /\ b.flushScheduled = conn.flushScheduled
           /\ b.ticks = Tail(conn.ticks) /\ b.nativeClose = conn.nativeClose
           /\ b.layers = conn.layers /\ b.connecting = conn.connecting
           /\ b.swapped = conn.swapped /\ b.paused = conn.paused
    BY <1>2, <1>3, TickedConn
  <2>2. QED
    BY <1>3, <2>1
<1>5. CASE conn.closes = 0
  <2>1. c = EmitClose(b)
    BY <1>2, <1>4, <1>5 DEF CloseOnce
  <2>2. /\ conn.swapped /\ ~conn.nativeClose /\ conn.real \in {"gone", "connecting"}
        /\ "waits" \in conn.layers => conn.endPushed /\ ~conn.ended
    BY <1>1, <1>4, <1>5 DEF Once, Steady
  <2>3. /\ Once(c) /\ c.swapped = conn.swapped /\ c.sent = conn.sent
        /\ NothingToWrite(b) => NothingToWrite(c)
    BY <1>4, <1>5, <2>1, <2>2, EmitCloseOnce
  <2>4. Left(c)
    BY <1>4, <2>3 DEF Left, NothingToWrite
  <2>5. QED
    BY <1>3, <2>3, <2>4, OnceQuiet
<1>6. CASE conn.closes = 1
  <2>1. c = b
    BY <1>2, <1>4, <1>6 DEF CloseOnce
  <2>2. Steady(b)
    <3>1. Steady(conn)
      BY <1>1 DEF Once
    <3>2. /\ b.ended = conn.ended /\ b.destroyed = conn.destroyed /\ b.closes = conn.closes
          /\ b.sent = conn.sent /\ b.corkedReads = conn.corkedReads
          /\ b.endPushed = conn.endPushed /\ b.real = conn.real /\ b.flowing = conn.flowing
          /\ b.pendingWrites = conn.pendingWrites /\ b.pendingEnd = conn.pendingEnd
          /\ b.backpressured = conn.backpressured /\ b.flushScheduled = conn.flushScheduled
          /\ b.nativeClose = conn.nativeClose /\ b.layers = conn.layers
          /\ b.connecting = conn.connecting /\ b.swapped = conn.swapped
          /\ b.paused = conn.paused
      BY <1>4
    <3>3. ~CloseDue(b) /\ CloseIfNone(conn) /\ <<>> \in Seq(Unclosed)
      BY <1>4
    <3>4. QED
      BY <1>6, <3>1, <3>2, <3>3 DEF Steady
  <2>3. Followed(b)
    BY <1>4, <1>6 DEF Followed
  <2>4. Left(c)
    BY <1>4, <2>1 DEF Left, NothingToWrite
  <2>5. Once(c) /\ c.closes = conn.closes /\ c.swapped = conn.swapped /\ c.sent = conn.sent
    BY <1>4, <2>1, <2>2, <2>3 DEF Once
  <2>6. QED
    BY <1>3, <2>4, <2>5, OnceQuiet
<1>7. QED
  BY <1>1, <1>5, <1>6

\* A tick that has nothing to do with a close leaves what closes the client.
LEMMA TickedOnce ==
  ASSUME Plain, conn.ticks # <<>>, Head(conn.ticks) \notin {"close", "closeUnlessClosed"},
         NEW b, b = Ticked
  PROVE  /\ Once(b) /\ b \in Holding(b) /\ ~CloseDue(conn) /\ ~CloseDue(b)
         /\ (CloseIfNone(b) <=> CloseIfNone(conn))
<1>1. Once(conn) /\ "mock" \notin conn.layers
  BY PlainConn DEF Plain
<1>2. /\ b \in After(b, Chunk, Tick) /\ ~CloseDue(conn) /\ ~CloseDue(b)
      /\ (CloseIfNone(b) <=> CloseIfNone(conn))
      /\ /\ b.heard = conn.heard /\ b.buffer = conn.buffer /\ b.eof = conn.eof
         /\ b.ended = conn.ended /\ b.destroyed = conn.destroyed /\ b.closes = conn.closes
         /\ b.sent = conn.sent /\ b.corked = conn.corked /\ b.corkedReads = conn.corkedReads
         /\ b.endPushed = conn.endPushed /\ b.real = conn.real /\ b.flowing = conn.flowing
         /\ b.pendingWrites = conn.pendingWrites /\ b.pendingEnd = conn.pendingEnd
         /\ b.backpressured = conn.backpressured /\ b.flushScheduled = conn.flushScheduled
         /\ b.ticks = Tail(conn.ticks) /\ b.nativeClose = conn.nativeClose
         /\ b.layers = conn.layers /\ b.connecting = conn.connecting
         /\ b.swapped = conn.swapped /\ b.paused = conn.paused
  <2>1. /\ b \in After(b, Chunk, Tick) /\ (CloseDue(b) => CloseDue(conn))
        /\ (CloseIfNone(b) => CloseIfNone(conn))
        /\ (CloseIfNone(conn) => CloseIfNone(b) \/ Head(conn.ticks) = "closeUnlessClosed")
        /\ (CloseDue(conn) => Head(conn.ticks) = "close")
        /\ /\ b.heard = conn.heard /\ b.buffer = conn.buffer /\ b.eof = conn.eof
           /\ b.ended = conn.ended /\ b.destroyed = conn.destroyed /\ b.closes = conn.closes
           /\ b.sent = conn.sent /\ b.corked = conn.corked
           /\ b.corkedReads = conn.corkedReads /\ b.endPushed = conn.endPushed
           /\ b.real = conn.real /\ b.flowing = conn.flowing
           /\ b.pendingWrites = conn.pendingWrites /\ b.pendingEnd = conn.pendingEnd
           /\ b.backpressured = conn.backpressured /\ b.flushScheduled = conn.flushScheduled
           /\ b.ticks = Tail(conn.ticks) /\ b.nativeClose = conn.nativeClose
           /\ b.layers = conn.layers /\ b.connecting = conn.connecting
           /\ b.swapped = conn.swapped /\ b.paused = conn.paused
    BY TickedConn
  <2>2. QED
    BY <2>1
<1>3. CloseCorked(b) <=> CloseCorked(conn)
  BY <1>2 DEF CloseCorked
<1>4. Steady(b)
  <2>1. Steady(conn)
    BY <1>1 DEF Once
  <2>2. /\ b.ended = conn.ended /\ b.destroyed = conn.destroyed /\ b.closes = conn.closes
        /\ b.sent = conn.sent /\ b.corkedReads = conn.corkedReads
        /\ b.endPushed = conn.endPushed /\ b.real = conn.real /\ b.flowing = conn.flowing
        /\ b.pendingWrites = conn.pendingWrites /\ b.pendingEnd = conn.pendingEnd
        /\ b.backpressured = conn.backpressured /\ b.flushScheduled = conn.flushScheduled
        /\ b.nativeClose = conn.nativeClose /\ b.layers = conn.layers
        /\ b.connecting = conn.connecting /\ b.swapped = conn.swapped
        /\ b.paused = conn.paused
    BY <1>2
  <2>3. ~CloseDue(b) /\ (CloseIfNone(b) <=> CloseIfNone(conn))
    BY <1>2
  <2>4. QED
    BY <1>3, <2>1, <2>2, <2>3 DEF Steady
<1>5. Followed(b)
  BY <1>1, <1>2, <1>3 DEF Once, Followed
<1>6. QED
  BY <1>1, <1>2, <1>4, <1>5, HoldsItself DEF Once

\* What is pushed and read closes nothing.
LEMMA HoldingOnce ==
  ASSUME Plain, NEW b, Once(b), b.closes = conn.closes, b.swapped = conn.swapped,
         b.sent = conn.sent, NEW c \in Holding(b), Left(c)
  PROVE  /\ Once(c) /\ c.closes = conn.closes /\ c.swapped = conn.swapped /\ c.sent = conn.sent
         /\ OnlyConn(c) => OnceInv'
<1>1. Once(c) /\ c.closes = conn.closes /\ c.swapped = conn.swapped /\ c.sent = conn.sent
  BY DEF Holding, Once
<1>2. ASSUME OnlyConn(c)
      PROVE  OnceInv'
  BY <1>1, <1>2, OnceQuiet
<1>3. QED
  BY <1>1, <1>2

\* A tick ends the stream of a mocked response without framing, or destroys its client.
LEMMA TickEndsOnce ==
  ASSUME Plain, TickEnd \/ TickDestroy
  PROVE  OnceInv'
<1>1. PICK b : b = Ticked
  OBVIOUS
<1>2. conn.ticks # <<>> /\ Head(conn.ticks) \in {"eof", "destroy"}
  BY DEF TickEnd, TickDestroy, NextTick
<1>3. Once(b) /\ b \in Holding(b)
  BY <1>1, <1>2, TickedOnce
<1>4. /\ b.heard = conn.heard /\ b.buffer = conn.buffer /\ b.eof = conn.eof
      /\ b.ended = conn.ended /\ b.destroyed = conn.destroyed /\ b.closes = conn.closes
      /\ b.sent = conn.sent /\ b.corked = conn.corked /\ b.corkedReads = conn.corkedReads
      /\ b.endPushed = conn.endPushed /\ b.real = conn.real /\ b.flowing = conn.flowing
      /\ b.pendingWrites = conn.pendingWrites /\ b.pendingEnd = conn.pendingEnd
      /\ b.backpressured = conn.backpressured /\ b.flushScheduled = conn.flushScheduled
      /\ b.ticks = Tail(conn.ticks) /\ b.nativeClose = conn.nativeClose
      /\ b.layers = conn.layers /\ b.connecting = conn.connecting
      /\ b.swapped = conn.swapped /\ b.paused = conn.paused
  BY <1>1, <1>2, TickedConn
<1>5. b \in Connections(Chunk, Tick)
  BY <1>1, <1>2, TickedConn
<1>6. CASE TickEnd
  <2>1. PICK c : c = PushEnd(b)
    OBVIOUS
  <2>2. OnlyConn(c)
    BY <1>1, <1>6, <2>1 DEF TickEnd
  <2>3. c \in Holding(b)
    BY <1>3, <2>1, PushEndHolds
  <2>4. /\ c.pendingWrites = b.pendingWrites /\ c.pendingEnd = b.pendingEnd
        /\ c.backpressured = b.backpressured /\ c.flushScheduled = b.flushScheduled
    BY <1>5, <2>1 DEF PushEnd, Connections
  <2>5. Left(c)
    BY <1>4, <2>4 DEF Left, NothingToWrite
  <2>6. QED
    BY <1>3, <1>4, <2>2, <2>3, <2>5, HoldingOnce
<1>7. CASE TickDestroy
  <2>1. PICK c : c = Destroy(b)
    OBVIOUS
  <2>2. OnlyConn(c)
    BY <1>1, <1>7, <2>1 DEF TickDestroy
  <2>3. c \in Holding(b)
    BY <1>3, <2>1, DestroyHolds
  <2>4. b \in After(b, Chunk, Tick) /\ "mock" \notin b.layers /\ Steady(b)
    BY <1>3 DEF Holding
  <2>5. c.destroyed
    BY <2>1, <2>4, DestroyOnce
  <2>6. Left(c)
    BY <2>5 DEF Left
  <2>7. QED
    BY <1>3, <1>4, <2>2, <2>3, <2>6, HoldingOnce
<1>8. QED
  BY <1>6, <1>7

\* A connection that is dialled on a tick was never opened, and is of another protocol.
LEMMA TickPassthroughOnce ==
  ASSUME Plain, TickPassthrough
  PROVE  OnceInv'
<1>1. /\ IInv /\ SInv /\ Unwritten /\ Opened /\ conn \in Connections(Chunk, Tick)
      /\ conn.closes \in {0, 1}
  BY PlainConn DEF Plain, OnceInv
<1>2. PICK b : b = Ticked
  OBVIOUS
<1>3. conn.ticks # <<>> /\ Head(conn.ticks) = "passthrough"
  BY DEF TickPassthrough, NextTick
<1>4. Once(b) /\ ~CloseDue(b)
  BY <1>2, <1>3, TickedOnce
<1>5. /\ b.heard = conn.heard /\ b.buffer = conn.buffer /\ b.eof = conn.eof
      /\ b.ended = conn.ended /\ b.destroyed = conn.destroyed /\ b.closes = conn.closes
      /\ b.sent = conn.sent /\ b.corked = conn.corked /\ b.corkedReads = conn.corkedReads
      /\ b.endPushed = conn.endPushed /\ b.real = conn.real /\ b.flowing = conn.flowing
      /\ b.pendingWrites = conn.pendingWrites /\ b.pendingEnd = conn.pendingEnd
      /\ b.backpressured = conn.backpressured /\ b.flushScheduled = conn.flushScheduled
      /\ b.ticks = Tail(conn.ticks) /\ b.nativeClose = conn.nativeClose
      /\ b.layers = conn.layers /\ b.connecting = conn.connecting
      /\ b.swapped = conn.swapped /\ b.paused = conn.paused
  BY <1>2, <1>3, TickedConn
<1>6. b \in Connections(Chunk, Tick)
  BY <1>2, <1>3, TickedConn
<1>7. protocol = "other"
  <2>1. "passthrough" \in ToSet(conn.ticks)
    BY <1>1, <1>3, TickedKeeps
  <2>2. QED
    BY <1>1, <2>1, DeclinedIsOther
<1>8. events' = events /\ retargeted' = retargeted /\ UNCHANGED stage
  BY DEF TickPassthrough, eventVars, tunnelVars
<1>9. \A r \in Request : verdict[r] # "mock" /\ stage'[r] # "streaming"
  BY <1>1, <1>7, <1>8, OtherHasNone
<1>10. ASSUME NEW c, Becomes(c), Once(c), c.closes = conn.closes, c.swapped = conn.swapped
       PROVE  OnceInv'
  <2>1. Left(c)
    BY <1>7 DEF Left
  <2>2. QED
    BY <1>8, <1>9, <1>10, <2>1, OnceBecomes
<1>11. CASE ~(readyState = "PENDING" /\ ~conn.destroyed)
  <2>1. Becomes(b)
    BY <1>2, <1>11 DEF TickPassthrough
  <2>2. QED
    BY <1>4, <1>5, <1>10, <2>1
<1>12. CASE readyState = "PENDING" /\ ~conn.destroyed
  <2>1. PICK c : c = Dialled(b)
    OBVIOUS
  <2>2. Becomes(c)
    BY <1>2, <1>12, <2>1 DEF TickPassthrough
  <2>3. /\ c.heard = b.heard /\ c.buffer = b.buffer /\ c.eof = b.eof /\ c.ended = b.ended
        /\ c.destroyed = b.destroyed /\ c.closes = b.closes /\ c.sent = b.sent
        /\ c.corked = b.corked /\ c.corkedReads = b.corkedReads /\ c.endPushed = b.endPushed
        /\ c.real = "connecting" /\ c.flowing = b.flowing
        /\ c.pendingWrites = b.pendingWrites /\ c.pendingEnd = b.pendingEnd
        /\ c.backpressured = b.backpressured /\ c.flushScheduled = b.flushScheduled
        /\ c.ticks = b.ticks /\ c.nativeClose = b.nativeClose /\ c.layers = b.layers
        /\ c.connecting = b.connecting /\ c.swapped = b.swapped /\ c.paused = FALSE
    BY <1>6, <2>1 DEF Dialled, Connections
  <2>4. conn.closes = 0
    BY <1>1, <1>7, <1>12 DEF Opened
  <2>5. conn.real = "none"
    BY <1>1, <1>7, <1>12, <2>4 DEF SInv, AliveInv, Alive, OtherAlive
  <2>6. Steady(b) /\ ~b.swapped /\ ~b.destroyed /\ b.real = "none" /\ b.closes = 0
    BY <1>4, <1>5, <1>12, <2>4, <2>5 DEF Once, Steady
  <2>7. b.corkedReads \in Seq(Unclosed)
    BY <2>6 DEF Steady
  <2>8. /\ (CloseDue(c) <=> CloseDue(b)) /\ (CloseIfNone(c) <=> CloseIfNone(b))
    BY <2>3 DEF CloseDue, CloseIfNone
  <2>9. ~CloseIfNone(c) /\ ~CloseDue(c) /\ "waits" \notin c.layers /\ ~c.nativeClose
    BY <1>4, <2>3, <2>6, <2>8 DEF Steady
  <2>10. Steady(c)
    BY <2>3, <2>6, <2>7, <2>9 DEF Steady
  <2>11. Followed(c)
    BY <2>3 DEF Followed
  <2>12. QED
    BY <1>5, <1>10, <2>2, <2>3, <2>10, <2>11 DEF Once
<1>13. QED
  BY <1>11, <1>12

\* The client connects, in the turn that claims it.
LEMMA ConnectOnce ==
  ASSUME Plain, NEW c, c = Connect(conn)
  PROVE  /\ c \in Holding(conn) /\ Left(c) /\ Destroy(c) \in Holding(conn) /\ Left(Destroy(c))
         /\ protocol = "http" /\ ~conn.destroyed => ~c.destroyed
<1>1. /\ conn \in Connections(Chunk, Tick) /\ conn \in Holding(conn) /\ SInv /\ Silenced
      /\ conn.closes \in {0, 1}
  BY PlainConn DEF Plain, OnceInv
<1>2. c \in Holding(conn)
  BY <1>1, ServerHolds
<1>3. PICK d : d = Destroy(c)
  OBVIOUS
<1>4. d \in Holding(conn) /\ d.destroyed
  <2>1. c \in After(conn, Chunk, Tick) /\ "mock" \notin c.layers /\ Steady(c)
    BY <1>2 DEF Holding
  <2>2. QED
    BY <1>2, <1>3, <2>1, DestroyHolds, DestroyOnce
<1>5. Left(d)
  BY <1>4 DEF Left
<1>6. NothingToWrite(conn) => NothingToWrite(c) /\ c.destroyed = conn.destroyed
  BY <1>1, ConnectSame DEF Same
<1>7. Left(c)
  BY <1>6 DEF Left
<1>8. ASSUME protocol = "http", ~conn.destroyed
      PROVE  ~c.destroyed
  <2>1. CASE conn.closes = 0
    BY <1>1, <1>6, <1>8, <2>1 DEF SInv, AliveInv, Alive, HttpAlive
  <2>2. CASE conn.closes = 1
    BY <1>1, <1>6, <1>8, <2>2 DEF Silenced
  <2>3. QED
    BY <1>1, <2>1, <2>2
<1>9. QED
  BY <1>2, <1>3, <1>4, <1>5, <1>7, <1>8

\* A client is claimed: a mocked response that waits for that would replace _destroy().
LEMMA ClaimCompletesOnce ==
  ASSUME Plain, ClaimCompletes
  PROVE  OnceInv'
<1>1. IInv /\ SInv /\ Unwritten /\ "mock" \notin conn'.layers /\ Once(conn)
  BY PlainConn DEF Plain, OnceInv
<1>2. PICK waiting, refused : waiting = {r \in Request : stage[r] = "connecting"}
                              /\ refused = {r \in Request : stage[r] = "refused"}
  OBVIOUS
<1>3. PICK c, d, o : c = Connect(conn) /\ d = Destroy(c) /\ o = Override(c)
  OBVIOUS
<1>4. events' = events /\ retargeted' = retargeted
  BY DEF ClaimCompletes, eventVars, tunnelVars
<1>5. /\ c \in Holding(conn) /\ Left(c) /\ d \in Holding(conn) /\ Left(d)
      /\ protocol = "http" /\ ~conn.destroyed => ~c.destroyed
  BY <1>3, ConnectOnce
<1>6. ASSUME NEW e \in Holding(conn), Left(e), Becomes(e), \A r \in Request : stage'[r] # "streaming"
      PROVE  OnceInv'
  <2>1. Once(e) /\ e.closes = conn.closes /\ e.swapped = conn.swapped /\ e.sent = conn.sent
    BY <1>1, <1>6, HoldingOnce
  <2>2. \A r \in Request : Sent(r, "fin")' => Sent(r, "fin")
    BY <1>6, <2>1 DEF Sent, Becomes, Turns
  <2>3. QED
    BY <1>4, <1>6, <2>1, <2>2, OnceBecomes
<1>7. CASE conn.destroyed
  <2>1. Becomes(conn) /\ UNCHANGED stage
    BY <1>7 DEF ClaimCompletes
  <2>2. conn \in Holding(conn) /\ Left(conn) /\ \A r \in Request : stage'[r] # "streaming"
    BY <1>1, <2>1, PlainConn DEF Left, Unwritten
  <2>3. QED
    BY <1>6, <2>1, <2>2
<1>8. CASE ~conn.destroyed
  <2>1. /\ Becomes(IF refused # {} THEN d ELSE IF waiting # {} THEN o ELSE c)
        /\ stage' = [r \in Request |->
                       CASE r \in waiting -> "streaming"
                         [] r \in refused -> "done"
                         [] OTHER -> stage[r]]
    BY <1>2, <1>3, <1>8 DEF ClaimCompletes
  <2>2. CASE waiting = {}
    <3>1. \A r \in Request : stage'[r] = IF r \in refused THEN "done" ELSE stage[r]
      BY <2>1, <2>2
    <3>2. \A r \in Request : stage'[r] # "streaming"
      BY <1>1, <3>1 DEF Unwritten
    <3>3. PICK e : e = IF refused # {} THEN d ELSE c
      OBVIOUS
    <3>4. Becomes(e) /\ e \in Holding(conn) /\ Left(e)
      BY <1>5, <2>1, <2>2, <3>3
    <3>5. QED
      BY <1>6, <3>2, <3>4
  <2>3. CASE waiting # {}
    <3>1. PICK r \in Request : stage[r] = "connecting"
      BY <1>2, <2>3
    <3>2. current = r /\ protocol = "http"
      BY <1>1, <3>1, StagedFacts DEF Active
    <3>3. refused = {}
      <4>1. SUFFICES ASSUME NEW q \in Request, stage[q] = "refused" PROVE FALSE
        BY <1>2
      <4>2. current = q
        BY <1>1, <4>1, StagedFacts DEF Active
      <4>3. QED
        BY <3>1, <3>2, <4>1, <4>2
    <3>4. Becomes(o)
      BY <2>1, <2>3, <3>3
    <3>5. ~c.destroyed /\ c \in Connections(Chunk, Tick)
      BY <1>5, <1>8, <3>2 DEF Holding, After
    <3>6. "mock" \in o.layers
      BY <1>3, <3>5 DEF Override, Connections
    <3>7. QED
      BY <1>1, <3>4, <3>6 DEF Becomes, Turns
  <2>4. QED
    BY <2>2, <2>3
<1>9. QED
  BY <1>7, <1>8

-----------------------------------------------------------------------------
(* A client of another protocol, and the consumer.                           *)

\* Another subscriber serves the client, or its source passes it through on a tick.
LEMMA OtherTurnsOnce ==
  ASSUME Plain, OtherSubscriberClaims \/ SourceDeclines
  PROVE  OnceInv'
<1>1. /\ Once(conn) /\ conn \in Connections(Chunk, Tick) /\ Unwritten /\ ~retargeted
      /\ protocol = "other"
  BY PlainConn DEF Plain, OnceInv, OtherSubscriberClaims, SourceDeclines
<1>2. CASE OtherSubscriberClaims
  <2>1. UNCHANGED <<conn, verdict, stage, events, retargeted>>
    BY <1>2 DEF OtherSubscriberClaims, eventVars, tunnelVars
  <2>2. Once(conn') /\ Unwritten' /\ ~retargeted' /\ Left(conn')
    BY <1>1, <2>1 DEF Unwritten, Sent, Left
  <2>3. QED
    BY <2>1, <2>2, OnceStep
<1>3. CASE SourceDeclines
  <2>1. PICK c : c = Later(conn, "passthrough")
    OBVIOUS
  <2>2. OnlyConn(c) /\ ~conn.destroyed
    BY <1>3, <2>1 DEF SourceDeclines
  <2>3. "passthrough" \in Tick
    BY DEF Tick
  <2>4. PICK t : t = Append(conn.ticks, "passthrough")
    OBVIOUS
  <2>5. c = [conn EXCEPT !.ticks = t]
    BY <2>1, <2>4 DEF Later
  <2>6. /\ c.heard = conn.heard /\ c.buffer = conn.buffer /\ c.eof = conn.eof
        /\ c.ended = conn.ended /\ c.destroyed = conn.destroyed /\ c.closes = conn.closes
        /\ c.sent = conn.sent /\ c.corked = conn.corked /\ c.corkedReads = conn.corkedReads
        /\ c.endPushed = conn.endPushed /\ c.real = conn.real /\ c.flowing = conn.flowing
        /\ c.pendingWrites = conn.pendingWrites /\ c.pendingEnd = conn.pendingEnd
        /\ c.backpressured = conn.backpressured /\ c.flushScheduled = conn.flushScheduled
        /\ c.ticks = t /\ c.nativeClose = conn.nativeClose /\ c.layers = conn.layers
        /\ c.connecting = conn.connecting /\ c.swapped = conn.swapped
        /\ c.paused = conn.paused
    BY <1>1, <2>5 DEF Connections
  <2>7. ToSet(c.ticks) = ToSet(conn.ticks) \cup {"passthrough"}
    BY <1>1, <2>1, <2>3, LaterSame
  <2>8. /\ (CloseIfNone(c) <=> CloseIfNone(conn)) /\ ~CloseDue(conn) /\ ~CloseDue(c)
        /\ (CloseCorked(c) <=> CloseCorked(conn))
    BY <1>1, <2>2, <2>6, <2>7 DEF CloseIfNone, CloseDue, CloseCorked, Once, Steady
  <2>9. Steady(c)
    <3>1. Steady(conn)
      BY <1>1 DEF Once
    <3>2. /\ c.ended = conn.ended /\ c.destroyed = conn.destroyed /\ c.closes = conn.closes
          /\ c.sent = conn.sent /\ c.corkedReads = conn.corkedReads
          /\ c.endPushed = conn.endPushed /\ c.real = conn.real /\ c.flowing = conn.flowing
          /\ c.pendingWrites = conn.pendingWrites /\ c.pendingEnd = conn.pendingEnd
          /\ c.backpressured = conn.backpressured /\ c.flushScheduled = conn.flushScheduled
          /\ c.nativeClose = conn.nativeClose /\ c.layers = conn.layers
          /\ c.connecting = conn.connecting /\ c.swapped = conn.swapped
          /\ c.paused = conn.paused
      BY <2>6
    <3>3. QED
      BY <2>8, <3>1, <3>2 DEF Steady
  <2>10. Followed(c)
    BY <1>1, <2>6, <2>8 DEF Once, Followed
  <2>11. Left(c)
    BY <1>1 DEF Left
  <2>12. QED
    BY <2>2, <2>6, <2>9, <2>10, <2>11, OnceQuiet DEF Once
<1>4. QED
  BY <1>2, <1>3

\* Its server sends data, or ends.
LEMMA OtherWritesOnce ==
  ASSUME Plain, ServerSends \/ ServerEnds
  PROVE  OnceInv'
<1>1. /\ IInv /\ SInv /\ "mock" \notin conn.layers /\ Once(conn)
      /\ conn \in After(conn, Chunk, Tick) /\ conn \in Holding(conn) /\ protocol = "other"
  BY PlainConn DEF Plain, ServerSends, ServerEnds
<1>2. CASE ServerSends
  <2>1. PICK x, c : x = NextChunk /\ c = ServerWrite(conn, x)
    OBVIOUS
  <2>2. OnlyConn(c) /\ Len(conn.sent) < MaxChunks
    BY <1>2, <2>1 DEF ServerSends
  <2>3. x \in Chunk
    BY <1>1, <2>1, <2>2, NextIsChunk
  <2>4. Once(c) /\ c.swapped = conn.swapped
    BY <1>1, <2>1, <2>3, ServerWriteOnce
  <2>5. Left(c) /\ \A r \in Request : verdict[r] # "mock"
    BY <1>1, OtherHasNone DEF Left
  <2>6. QED
    BY <2>2, <2>4, <2>5, OnceConn
<1>3. CASE ServerEnds
  <2>1. PICK c : c = ServerEnd(conn)
    OBVIOUS
  <2>2. c \in Holding(conn) /\ Left(c)
    BY <1>1, <2>1, ServerHolds DEF Left
  <2>3. OnlyConn(c)
    BY <1>3, <2>1 DEF ServerEnds
  <2>4. QED
    BY <1>1, <2>2, <2>3, HoldingOnce
<1>4. QED
  BY <1>2, <1>3

\* The consumer pauses or resumes.
LEMMA ConsumerTurnsOnce ==
  ASSUME Plain, ConsumerPauses \/ ConsumerResumes
  PROVE  OnceInv'
<1>1. conn \in Connections(Chunk, Tick) /\ Once(conn) /\ Unwritten
  BY PlainConn DEF Plain, OnceInv
<1>2. PICK c : c = [conn EXCEPT !.flowing = ~conn.flowing]
  OBVIOUS
<1>3. conn.flowing \in BOOLEAN
  BY <1>1 DEF Connections
<1>4. /\ c.heard = conn.heard /\ c.buffer = conn.buffer /\ c.eof = conn.eof
      /\ c.ended = conn.ended /\ c.destroyed = conn.destroyed /\ c.closes = conn.closes
      /\ c.sent = conn.sent /\ c.corked = conn.corked /\ c.corkedReads = conn.corkedReads
      /\ c.endPushed = conn.endPushed /\ c.real = conn.real /\ c.flowing = ~conn.flowing
      /\ c.pendingWrites = conn.pendingWrites /\ c.pendingEnd = conn.pendingEnd
      /\ c.backpressured = conn.backpressured /\ c.flushScheduled = conn.flushScheduled
      /\ c.ticks = conn.ticks /\ c.nativeClose = conn.nativeClose /\ c.layers = conn.layers
      /\ c.connecting = conn.connecting /\ c.swapped = conn.swapped
      /\ c.paused = conn.paused
  BY <1>1, <1>2 DEF Connections
<1>5. SameEnds(conn, c)
  BY <1>4 DEF SameEnds
<1>6. Once(c) /\ Left(c)
  BY <1>1, <1>4, <1>5, SameOnce DEF Once, Left, NothingToWrite
<1>7. Becomes(c) /\ stage' = stage /\ events' = events /\ retargeted' = retargeted
  <2>1. CASE ConsumerPauses
    BY <1>2, <1>3, <2>1 DEF ConsumerPauses, exchangeVars, eventVars, tunnelVars
  <2>2. CASE ConsumerResumes
    BY <1>2, <1>3, <2>2 DEF ConsumerResumes, OnlyConn, exchangeVars, eventVars, tunnelVars
  <2>3. QED
    BY <2>1, <2>2
<1>8. \A r \in Request : (Sent(r, "fin")' => Sent(r, "fin")) /\ stage'[r] # "streaming"
  BY <1>1, <1>4, <1>7 DEF Sent, Becomes, Turns, Unwritten
<1>9. QED
  BY <1>4, <1>6, <1>7, <1>8, OnceBecomes

\* It reads: a client with data to read has not closed.
LEMMA ConsumerReadsOnce ==
  ASSUME Plain, ConsumerReads
  PROVE  OnceInv'
<1>1. /\ conn \in Connections(Chunk, Tick) /\ conn \in Holding(conn) /\ Once(conn)
      /\ Closing(conn)
  BY PlainConn
<1>2. PICK c : c = ReadChunk(conn)
  OBVIOUS
<1>3. conn.buffer # <<>> /\ ~conn.destroyed /\ OnlyConn(c)
  BY <1>2 DEF ConsumerReads
<1>4. ~(conn.closes > 0)
  BY <1>1, <1>3 DEF Closing
<1>5. PICK d : d = IF Len(conn.buffer) - 1 < HighWaterMark /\ ~conn.eof THEN OnRead(conn) ELSE conn
  OBVIOUS
<1>6. d \in Holding(conn) /\ d \in Connections(Chunk, Tick)
  BY <1>1, <1>5, ServerHolds DEF Holding, After
<1>7. PICK h, s : h = Append(d.heard, Head(d.buffer)) /\ s = Tail(d.buffer)
  OBVIOUS
<1>8. c = [d EXCEPT !.heard = h, !.buffer = s]
  BY <1>2, <1>5, <1>7 DEF ReadChunk
<1>9. /\ c.heard = h /\ c.buffer = s /\ c.eof = d.eof /\ c.ended = d.ended
      /\ c.destroyed = d.destroyed /\ c.closes = d.closes /\ c.sent = d.sent
      /\ c.corked = d.corked /\ c.corkedReads = d.corkedReads /\ c.endPushed = d.endPushed
      /\ c.real = d.real /\ c.flowing = d.flowing /\ c.pendingWrites = d.pendingWrites
      /\ c.pendingEnd = d.pendingEnd /\ c.backpressured = d.backpressured
      /\ c.flushScheduled = d.flushScheduled /\ c.ticks = d.ticks
      /\ c.nativeClose = d.nativeClose /\ c.layers = d.layers /\ c.connecting = d.connecting
      /\ c.swapped = d.swapped /\ c.paused = d.paused
  BY <1>6, <1>8 DEF Connections
<1>10. SameEnds(d, c)
  BY <1>9 DEF SameEnds
<1>11. Steady(d) /\ (Followed(conn) => Followed(d)) /\ d.closes = conn.closes
       /\ d.swapped = conn.swapped /\ d.sent = conn.sent
  BY <1>6 DEF Holding
<1>12. Once(c)
  BY <1>1, <1>10, <1>11, SameOnce DEF Once
<1>13. Left(c)
  BY <1>4, <1>9, <1>11 DEF Left
<1>14. QED
  BY <1>3, <1>9, <1>11, <1>12, <1>13, OnceQuiet

\* It hears the end, and so does a close that waits for it.
LEMMA ConsumerHearsEndOnce ==
  ASSUME Plain, ConsumerHearsEnd
  PROVE  OnceInv'
<1>1. /\ conn \in Connections(Chunk, Tick) /\ Once(conn) /\ Closing(conn)
      /\ conn.closes \in {0, 1}
  BY PlainConn
<1>2. PICK c : c = EmitEnd(conn)
  OBVIOUS
<1>3. ~conn.ended /\ ~conn.destroyed /\ OnlyConn(c)
  BY <1>2 DEF ConsumerHearsEnd
<1>4. conn.closes = 0 /\ ~CloseDue(conn)
  BY <1>1, <1>3 DEF Closing, Once, Steady
<1>5. PICK e : e = [conn EXCEPT !.ended = TRUE]
  OBVIOUS
<1>6. e \in Connections(Chunk, Tick)
  BY <1>1, <1>5 DEF Connections
<1>7. /\ e.heard = conn.heard /\ e.buffer = conn.buffer /\ e.eof = conn.eof
      /\ e.ended = TRUE /\ e.destroyed = conn.destroyed /\ e.closes = conn.closes
      /\ e.sent = conn.sent /\ e.corked = conn.corked /\ e.corkedReads = conn.corkedReads
      /\ e.endPushed = conn.endPushed /\ e.real = conn.real /\ e.flowing = conn.flowing
      /\ e.pendingWrites = conn.pendingWrites /\ e.pendingEnd = conn.pendingEnd
      /\ e.backpressured = conn.backpressured /\ e.flushScheduled = conn.flushScheduled
      /\ e.ticks = conn.ticks /\ e.nativeClose = conn.nativeClose /\ e.layers = conn.layers
      /\ e.connecting = conn.connecting /\ e.swapped = conn.swapped
      /\ e.paused = conn.paused
  BY <1>1, <1>5 DEF Connections
<1>8. c = DeliverClose(e)
  BY <1>2, <1>5 DEF EmitEnd
<1>9. CASE "waits" \notin conn.layers
  <2>1. c = e
    BY <1>7, <1>8, <1>9 DEF DeliverClose
  <2>2. /\ (CloseDue(c) <=> CloseDue(conn)) /\ (CloseIfNone(c) <=> CloseIfNone(conn))
        /\ (CloseCorked(c) <=> CloseCorked(conn))
    BY <1>7, <2>1 DEF CloseDue, CloseIfNone, CloseCorked
  <2>3. Steady(c)
    <3>1. Steady(conn)
      BY <1>1 DEF Once
    <3>2. /\ c.destroyed = conn.destroyed /\ c.closes = conn.closes /\ c.sent = conn.sent
          /\ c.corkedReads = conn.corkedReads /\ c.endPushed = conn.endPushed
          /\ c.real = conn.real /\ c.flowing = conn.flowing
          /\ c.pendingWrites = conn.pendingWrites /\ c.pendingEnd = conn.pendingEnd
          /\ c.backpressured = conn.backpressured /\ c.flushScheduled = conn.flushScheduled
          /\ c.nativeClose = conn.nativeClose /\ c.layers = conn.layers
          /\ c.connecting = conn.connecting /\ c.swapped = conn.swapped
          /\ c.paused = conn.paused
      BY <1>7, <2>1
    <3>3. QED
      BY <1>4, <1>9, <2>2, <3>1, <3>2 DEF Steady
  <2>4. Followed(c)
    BY <1>1, <1>7, <2>1, <2>2 DEF Once, Followed
  <2>5. Left(c)
    BY <1>4, <1>7, <2>1 DEF Left
  <2>6. QED
    BY <1>3, <1>7, <2>1, <2>3, <2>4, <2>5, OnceQuiet DEF Once
<1>10. CASE "waits" \in conn.layers
  <2>1. PICK t, l : t = Append(conn.ticks, "closeUnlessClosed") /\ l = conn.layers \ {"waits"}
    OBVIOUS
  <2>2. c = [e EXCEPT !.layers = l, !.ticks = t]
    <3>1. PICK f : f = [e EXCEPT !.layers = l]
      OBVIOUS
    <3>2. f.ticks = conn.ticks
      BY <1>6, <1>7, <3>1 DEF Connections
    <3>3. c = [f EXCEPT !.ticks = t]
      BY <1>7, <1>8, <1>10, <2>1, <3>1, <3>2 DEF DeliverClose, Later
    <3>4. QED
      BY <1>6, <3>1, <3>3 DEF Connections
  <2>3. /\ c.heard = e.heard /\ c.buffer = e.buffer /\ c.eof = e.eof /\ c.ended = e.ended
        /\ c.destroyed = e.destroyed /\ c.closes = e.closes /\ c.sent = e.sent
        /\ c.corked = e.corked /\ c.corkedReads = e.corkedReads /\ c.endPushed = e.endPushed
        /\ c.real = e.real /\ c.flowing = e.flowing /\ c.pendingWrites = e.pendingWrites
        /\ c.pendingEnd = e.pendingEnd /\ c.backpressured = e.backpressured
        /\ c.flushScheduled = e.flushScheduled /\ c.ticks = t
        /\ c.nativeClose = e.nativeClose /\ c.layers = l /\ c.connecting = e.connecting
        /\ c.swapped = e.swapped /\ c.paused = e.paused
    BY <1>6, <2>2 DEF Connections
  <2>4. conn.ticks \in Seq(Tick) /\ "closeUnlessClosed" \in Tick
    BY <1>1 DEF Connections, Tick
  <2>5. ToSet(c.ticks) = ToSet(conn.ticks) \cup {"closeUnlessClosed"}
    <3>1. ToSet(Later(conn, "closeUnlessClosed").ticks) = ToSet(conn.ticks) \cup {"closeUnlessClosed"}
      BY <1>1, <2>4, LaterSame
    <3>2. Later(conn, "closeUnlessClosed").ticks = t
      BY <1>1, <2>1 DEF Later, Connections
    <3>3. QED
      BY <2>3, <3>1, <3>2
  <2>6. CloseIfNone(c) /\ ~CloseDue(c) /\ "waits" \notin c.layers
    BY <1>4, <2>1, <2>3, <2>5 DEF CloseIfNone, CloseDue
  <2>7. Steady(conn) /\ conn.swapped /\ conn.real = "gone" /\ conn.corkedReads \in Seq(Unclosed)
    BY <1>1, <1>10 DEF Once, Steady
  <2>8. c.closes = conn.closes /\ c.destroyed = conn.destroyed /\ c.nativeClose = conn.nativeClose
        /\ c.real = conn.real /\ c.swapped = conn.swapped /\ c.corkedReads = conn.corkedReads
        /\ c.sent = conn.sent
    BY <1>7, <2>3
  <2>9. Steady(c)
    BY <1>3, <1>4, <2>6, <2>7, <2>8 DEF Steady
  <2>10. Followed(c)
    BY <2>6 DEF Followed
  <2>11. Left(c)
    BY <1>4, <2>8 DEF Left
  <2>12. QED
    BY <1>3, <2>8, <2>9, <2>10, <2>11, OnceQuiet DEF Once
<1>11. QED
  BY <1>9, <1>10

\* It tears the client down after its end, or the application does at any time.
LEMMA ClientDestroysOnce ==
  ASSUME Plain, ClientTearsDown \/ ClientDestroys
  PROVE  OnceInv'
<1>1. /\ conn \in After(conn, Chunk, Tick) /\ conn \in Holding(conn) /\ Once(conn)
      /\ "mock" \notin conn.layers
  BY PlainConn DEF Plain
<1>2. PICK c : c = Destroy(conn)
  OBVIOUS
<1>3. OnlyConn(c)
  BY <1>2 DEF ClientTearsDown, ClientDestroys
<1>4. c \in Holding(conn) /\ c.destroyed
  BY <1>1, <1>2, DestroyHolds, DestroyOnce DEF Once
<1>5. Left(c)
  BY <1>4 DEF Left
<1>6. QED
  BY <1>1, <1>3, <1>4, <1>5, HoldingOnce

\* What the listeners decide leaves the override of _destroy().
LEMMA DecisionsOverridden ==
  ASSUME IInv, Listeners, "mock" \in conn.layers
  PROVE  "mock" \in conn'.layers
<1>1. PICK r \in Request :
        \/ RespondInVain(r)
        \/ \E ok \in BOOLEAN : RespondWith(r, ok)
        \/ RespondWithNetworkError(r)
        \/ \E isError \in BOOLEAN : ErrorWith(r, isError)
        \/ Passthrough(r)
  BY DEF Listeners
<1>2. conn \in After(conn, Sendable, DueTicks) /\ conn \in Connections(Sendable, DueTicks)
  BY ConnAfter DEF After
<1>3. CASE ~Passthrough(r)
  <2>1. Destroy(conn) \in After(conn, Sendable, DueTicks)
    BY ConnAfter, DestroyAfter
  <2>2. "mock" \in Destroy(conn).layers
    BY <2>1 DEF After, Follows
  <2>3. conn' \in {conn, Destroy(conn)}
    BY <1>1, <1>3 DEF RespondInVain, RespondWith, RespondWithNetworkError, ErrorWith, Turns
  <2>4. QED
    BY <2>2, <2>3
<1>4. CASE Passthrough(r)
  <2>1. PICK d : d = IF Live THEN conn ELSE Dialled(conn)
    OBVIOUS
  <2>2. d \in Connections(Sendable, DueTicks) /\ d.layers = conn.layers
    BY <1>2, <2>1 DEF Dialled, Connections, RealState
  <2>3. conn' = CorkForListeners(d)
    BY <1>4, <2>1 DEF Passthrough, Turns
  <2>4. conn'.layers = d.layers
    BY <2>2, <2>3 DEF CorkForListeners, Cork, Connections
  <2>5. QED
    BY <2>2, <2>4
<1>5. QED
  BY <1>3, <1>4

\* So does every step.
LEMMA StaysOverridden ==
  ASSUME IInv, [Next]_vars, "mock" \in conn.layers
  PROVE  "mock" \in conn'.layers
<1>1. /\ conn \in After(conn, Sendable, DueTicks) /\ OwnTicks \subseteq DueTicks
      /\ conn \in Connections(Sendable, DueTicks)
  BY ConnAfter DEF After
<1>2. ASSUME NEW c, c \in After(conn, Sendable, DueTicks), conn' = c
      PROVE  "mock" \in conn'.layers
  BY <1>2 DEF After, Follows
<1>3. CASE ClientRequests \/ ClientRequestsThroughTunnel
  <2>1. conn' = conn \/ conn' = Detach(conn)
    BY <1>3 DEF ClientRequests, ClientRequestsThroughTunnel, EnterTunnel
  <2>2. Detach(conn).layers = conn.layers
    BY <1>1 DEF Detach, Connections
  <2>3. QED
    BY <2>1, <2>2
<1>4. CASE \E r \in Request :
             MockedListenersThrow(r) \/ MockedBodyWrites(r) \/ MockedBodyBreaks(r)
  <2>1. PICK r \in Request : MockedListenersThrow(r) \/ MockedBodyWrites(r) \/ MockedBodyBreaks(r)
    BY <1>4
  <2>2. verdict[r] = "mock"
    BY <2>1 DEF MockedListenersThrow, MockedBodyWrites, MockedBodyBreaks, IInv, AnswersOnly
  <2>3. PICK c, d : c = PushPart(conn, r, "head") /\ d = Later(conn, "destroy")
    OBVIOUS
  <2>4. c \in After(conn, Sendable, DueTicks)
    BY <1>1, <2>2, <2>3, PushPartAfter
  <2>5. d \in After(conn, Sendable, DueTicks)
    BY <2>3, ConnAfter, LaterAfter DEF OwnTicks
  <2>6. conn' \in {conn, c, d}
    BY <2>1, <2>3 DEF MockedListenersThrow, MockedBodyWrites, MockedBodyBreaks, OnlyConn, Becomes,
       Turns
  <2>7. QED
    BY <1>1, <1>2, <2>4, <2>5, <2>6
<1>5. CASE MockProceeds
  <2>1. PICK r \in Request :
          MockedListenersSettle(r) \/ \E framed \in BOOLEAN : MockedBodyEnds(r, framed)
    BY <1>5 DEF MockProceeds
  <2>2. CASE MockedListenersSettle(r)
    <3>1. PICK c : c = Override(conn)
      OBVIOUS
    <3>2. c \in After(conn, Sendable, DueTicks)
      BY <1>1, <3>1, OverrideAfter
    <3>3. conn' \in {conn, c}
      BY <2>2, <3>1 DEF MockedListenersSettle, Becomes, Turns
    <3>4. QED
      BY <1>2, <3>2, <3>3
  <2>3. ASSUME NEW framed \in BOOLEAN, MockedBodyEnds(r, framed)
        PROVE  "mock" \in conn'.layers
    <3>1. verdict[r] = "mock"
      BY <2>3 DEF MockedBodyEnds, IInv, AnswersOnly
    <3>2. PICK b : b = WithHead(r)
      OBVIOUS
    <3>3. b \in After(conn, Sendable, DueTicks)
      BY <1>1, <3>1, <3>2, PushPartAfter DEF WithHead
    <3>4. PICK d : d = IF Delimited(r, framed) THEN PushPart(b, r, "fin") ELSE b
      OBVIOUS
    <3>5. d \in After(conn, Sendable, DueTicks)
      BY <3>1, <3>3, <3>4, PushPartAfter
    <3>6. PICK c : c = IF EndsStream(r, framed) THEN Later(d, "eof") ELSE d
      OBVIOUS
    <3>7. c \in After(conn, Sendable, DueTicks)
      BY <3>5, <3>6, ConnAfter, LaterAfter DEF OwnTicks
    <3>8. conn' = c
      BY <2>3, <3>2, <3>4, <3>6 DEF MockedBodyEnds, Becomes, Turns
    <3>9. QED
      BY <1>2, <3>7, <3>8
  <2>4. QED
    BY <2>1, <2>2, <2>3
<1>6. CASE SettleEvent
  <2>1. PICK e \in events : ResponseListenersSettle(e)
    BY <1>6 DEF SettleEvent
  <2>2. PICK c : c = UncorkFor(e)
    OBVIOUS
  <2>3. c \in After(conn, Sendable, DueTicks)
    BY <1>1, <2>2, UncorkAfter, CorkAfter DEF UncorkFor
  <2>4. conn' = c
    BY <2>1, <2>2 DEF ResponseListenersSettle, Becomes, Turns
  <2>5. QED
    BY <1>2, <2>3, <2>4
<1>7. CASE RealInforms \/ RealResponds \/ RealCompletes
  <2>1. PICK part \in {"informational", "head", "fin"} : Answers(part)
    BY <1>7 DEF RealInforms, RealResponds, RealCompletes
  <2>2. reached \in Seq(Answerable) /\ reached # <<>>
    BY <2>1 DEF Answers, IInv, AnswersOnly
  <2>3. PICK p, c : p = Part(Head(reached), part) /\ c = OnRealData(conn, p)
    OBVIOUS
  <2>4. p \in Sendable
    BY <2>2, <2>3, MockSendable
  <2>5. c \in After(conn, Sendable, DueTicks)
    BY <2>3, <2>4, ConnAfter, OnRealDataAfter
  <2>6. conn' = c
    BY <2>1, <2>3 DEF Answers, Becomes, Turns
  <2>7. QED
    BY <1>2, <2>5, <2>6
<1>8. CASE RealSends \/ ServerSends
  <2>1. PICK p, c, d : p = NextChunk /\ c = OnRealData(conn, p) /\ d = ServerWrite(conn, p)
    OBVIOUS
  <2>2. p \in Sendable
    BY <1>8, <2>1, NextChunkSendable DEF RealSends, ServerSends
  <2>3. c \in After(conn, Sendable, DueTicks) /\ d \in After(conn, Sendable, DueTicks)
    BY <2>1, <2>2, ConnAfter, OnRealDataAfter, ServerWriteAfter
  <2>4. conn' \in {c, d}
    BY <1>8, <2>1 DEF RealSends, ServerSends, OnlyConn, Becomes, Turns
  <2>5. QED
    BY <1>2, <2>3, <2>4
<1>9. CASE RealEnds \/ RealFails \/ RealConnects \/ RealCloses \/ RealFinishes
  <2>1. PICK a, b, c, d, e : /\ a = OnRealEnd(conn) /\ b = OnRealError(conn)
                             /\ c = OnRealConnect(conn) /\ d = OnRealClose(conn)
                             /\ e = [conn EXCEPT !.real = "closing"]
    OBVIOUS
  <2>2. /\ b \in After(conn, Sendable, DueTicks) /\ d \in After(conn, Sendable, DueTicks)
        /\ conn.real = "open" => a \in After(conn, Sendable, DueTicks)
        /\ conn.real = "connecting" => c \in After(conn, Sendable, DueTicks)
    BY <2>1, ConnAfter, OnRealEndAfter, OnRealErrorAfter, OnRealConnectAfter, OnRealCloseAfter
  <2>3. "mock" \in e.layers
    BY <1>1, <2>1 DEF Connections
  <2>4. \/ conn' = a /\ conn.real = "open"
        \/ conn' = c /\ conn.real = "connecting"
        \/ conn' \in {b, d, e}
    BY <1>9, <2>1 DEF RealEnds, RealFails, RealConnects, RealCloses, RealFinishes, OnlyConn,
       Becomes, Turns
  <2>5. QED
    BY <1>2, <2>2, <2>3, <2>4
<1>10. CASE NativeClose
  <2>1. PICK b, c : b = [conn EXCEPT !.nativeClose = FALSE] /\ c = EmitClose(b)
    OBVIOUS
  <2>2. b \in Connections(Sendable, DueTicks)
    BY <1>1, <2>1 DEF Connections
  <2>3. Follows(conn, b) /\ b.buffer = conn.buffer
    BY <1>1, <2>1 DEF After, Connections, Follows
  <2>4. c \in After(conn, Sendable, DueTicks)
    <3>1. b \in After(conn, Sendable, DueTicks)
      BY <2>2, <2>3 DEF After
    <3>2. QED
      BY <2>1, <3>1, EmitCloseAfter
  <2>5. conn' = c
    BY <1>10, <2>1 DEF NativeClose, OnlyConn, Becomes, Turns
  <2>6. QED
    BY <1>2, <2>4, <2>5
<1>11. CASE Ticks
  <2>1. PICK b : b = Ticked
    OBVIOUS
  <2>2. b \in After(conn, Sendable, DueTicks)
    BY <1>11, <2>1, TickedAfter DEF Ticks, TickClose, TickDeliverClose, TickEnd, TickDestroy,
       TickPassthrough, NextTick
  <2>3. PICK c, d, e, f : /\ c = EmitClose(b) /\ d = PushEnd(b) /\ e = Destroy(b)
                          /\ f = Dialled(b)
    OBVIOUS
  <2>4. /\ c \in After(conn, Sendable, DueTicks) /\ d \in After(conn, Sendable, DueTicks)
        /\ e \in After(conn, Sendable, DueTicks)
    BY <1>1, <2>2, <2>3, EmitCloseAfter, PushEndAfter, DestroyAfter
  <2>5. "mock" \in f.layers
    BY <2>2, <2>3 DEF After, Follows, Connections, Dialled
  <2>6. conn' \in {b, c, d, e, f}
    BY <1>11, <2>1, <2>3 DEF Ticks, TickClose, TickDeliverClose, CloseOnce, TickEnd, TickDestroy,
       TickPassthrough, OnlyConn, Becomes, Turns
  <2>7. QED
    BY <1>2, <2>2, <2>4, <2>5, <2>6
<1>12. CASE ClaimCompletes
  <2>1. PICK c, d, o : c = Connect(conn) /\ d = Destroy(c) /\ o = Override(c)
    OBVIOUS
  <2>2. c \in After(conn, Sendable, DueTicks)
    BY <1>1, <2>1, ConnectAfter
  <2>3. d \in After(conn, Sendable, DueTicks) /\ o \in After(conn, Sendable, DueTicks)
    BY <1>1, <2>1, <2>2, DestroyAfter, OverrideAfter
  <2>4. conn' \in {conn, c, d, o}
    BY <1>12, <2>1 DEF ClaimCompletes, Becomes, Turns
  <2>5. QED
    BY <1>2, <2>2, <2>3, <2>4
<1>13. CASE OtherSubscriberClaims \/ SourceDeclines \/ ServerEnds
  <2>1. PICK c, d : c = Later(conn, "passthrough") /\ d = ServerEnd(conn)
    OBVIOUS
  <2>2. SourceDeclines => "passthrough" \in DueTicks
    BY DEF SourceDeclines, DueTicks, Tick
  <2>3. SourceDeclines => c \in After(conn, Sendable, DueTicks)
    BY <1>1, <2>1, <2>2, LaterAfter
  <2>4. d \in After(conn, Sendable, DueTicks)
    BY <2>1, ConnAfter, ServerEndAfter
  <2>5. (conn' = c /\ SourceDeclines) \/ conn' \in {conn, d}
    BY <1>13, <2>1 DEF OtherSubscriberClaims, SourceDeclines, ServerEnds, OnlyConn, Becomes, Turns
  <2>6. QED
    BY <1>1, <1>2, <2>3, <2>4, <2>5
<1>14. CASE ConsumerPauses \/ Consumer \/ ClientDestroys
  <2>1. PICK b, c, d, e : /\ b = [conn EXCEPT !.flowing = ~conn.flowing] /\ c = ReadChunk(conn)
                          /\ d = EmitEnd(conn) /\ e = Destroy(conn)
    OBVIOUS
  <2>2. "mock" \in b.layers
    BY <1>1, <2>1 DEF Connections
  <2>3. conn.buffer # <<>> => "mock" \in c.layers
    BY <1>1, <2>1, ReadChunkFollows DEF Follows
  <2>4. d \in After(conn, Sendable, DueTicks) /\ e \in After(conn, Sendable, DueTicks)
    BY <2>1, ConnAfter, EmitEndAfter, DestroyAfter
  <2>5. conn.flowing \in BOOLEAN
    BY <1>1 DEF Connections
  <2>6. conn' \in {b, d, e} \/ (conn.buffer # <<>> /\ conn' = c)
    BY <1>14, <2>1, <2>5 DEF ConsumerPauses, Consumer, ConsumerResumes, ConsumerReads,
       ConsumerHearsEnd, ClientTearsDown, ClientDestroys, OnlyConn, Becomes, Turns
  <2>7. QED
    BY <1>2, <2>2, <2>3, <2>4, <2>6
<1>15. CASE UNCHANGED vars
  BY <1>15 DEF vars
<1>16. QED
  BY <1>3, <1>4, <1>5, <1>6, <1>7, <1>8, <1>9, <1>10, <1>11, <1>12, <1>13, <1>14, <1>15,
     DecisionsOverridden DEF Next, Server, EventLoop

\* Every step of a client whose _destroy() was not replaced closes it once, unless an
\* original response may overtake the listeners of an informational one.
LEMMA NextOnce ==
  ASSUME Plain, ~hurried
  PROVE  OnceInv'
<1>1. CASE ClientRequests \/ ClientRequestsThroughTunnel
  BY <1>1, ClientWritesOnce
<1>2. CASE Listeners
  <2>1. PICK r \in Request :
          \/ RespondInVain(r)
          \/ \E ok \in BOOLEAN : RespondWith(r, ok)
          \/ RespondWithNetworkError(r)
          \/ \E isError \in BOOLEAN : ErrorWith(r, isError)
          \/ Passthrough(r)
    BY <1>2 DEF Listeners
  <2>2. CASE Passthrough(r)
    BY <2>2, PassthroughOnce
  <2>3. CASE ~Passthrough(r)
    BY <2>1, <2>3, DecisionsOnce
  <2>4. QED
    BY <2>2, <2>3
<1>3. CASE \E r \in Request :
             MockedListenersThrow(r) \/ MockedBodyWrites(r) \/ MockedBodyBreaks(r)
  BY <1>3, MockedOnce
<1>4. CASE MockProceeds
  BY <1>4, MockedOnce DEF MockProceeds
<1>5. CASE SettleEvent
  BY <1>5, SettlesOnce DEF SettleEvent
<1>6. CASE RealInforms \/ RealResponds \/ RealCompletes
  <2>1. PICK part \in Parts : AnswersOf(part)
    BY <1>6 DEF RealInforms, RealResponds, RealCompletes, AnswersOf, Parts
  <2>2. QED
    BY <2>1, AnswersOnce
<1>7. CASE RealSends \/ RealEnds \/ RealFails
  BY <1>7, RealEmitsOnce
<1>8. CASE EventLoop
  BY <1>8, ClaimCompletesOnce, RealOpensOnce, RealClosesOnce, NativeCloseOnce, TickCloseOnce,
     TickDeliverCloseOnce, TickEndsOnce, TickPassthroughOnce DEF EventLoop, Ticks
<1>9. CASE OtherSubscriberClaims \/ SourceDeclines \/ ServerSends \/ ServerEnds
  BY <1>9, OtherTurnsOnce, OtherWritesOnce
<1>10. CASE ConsumerPauses \/ Consumer \/ ClientDestroys
  BY <1>10, ConsumerTurnsOnce, ConsumerReadsOnce, ConsumerHearsEndOnce, ClientDestroysOnce
     DEF Consumer
<1>11. CASE UNCHANGED vars
  <2>1. UNCHANGED <<conn, verdict, stage, events, retargeted>>
    BY <1>11 DEF vars, exchangeVars, eventVars, tunnelVars
  <2>2. OnceInv /\ Left(conn)
    BY DEF Plain, Left
  <2>3. Once(conn') /\ Unwritten' /\ ~retargeted' /\ Left(conn')
    BY <2>1, <2>2 DEF OnceInv, Unwritten, Sent
  <2>4. QED
    BY <2>1, <2>3, OnceStep
<1>12. QED
  BY <1>1, <1>2, <1>3, <1>4, <1>5, <1>6, <1>7, <1>8, <1>9, <1>10, <1>11 DEF Plain, Next, Server

\* At first nothing closes the client.
LEMMA InitOnce ==
  ASSUME Init
  PROVE  OnceInv
<1>1. /\ conn.closes = 0 /\ ~conn.nativeClose /\ conn.real = "none" /\ conn.ticks = <<>>
      /\ "waits" \notin conn.layers /\ ~conn.destroyed /\ ~conn.swapped
      /\ conn.corkedReads = <<>> /\ conn.sent = <<>>
  BY DEF Init, NewConnection
<1>2. /\ events = {} /\ ~retargeted
      /\ \A r \in Request : stage[r] = "none" /\ verdict[r] = "none"
  BY DEF Init
<1>3. ToSet(<<>>) = {}
  BY DEF ToSet
<1>4. ~CloseDue(conn) /\ ~CloseIfNone(conn) /\ conn.corkedReads \in Seq(Unclosed)
  BY <1>1, <1>3 DEF CloseDue, CloseIfNone
<1>5. Once(conn)
  BY <1>1, <1>4 DEF Once, Steady, Followed
<1>6. QED
  BY <1>1, <1>2, <1>5 DEF OnceInv, Unwritten, Shared, Resolved, Opened, Silenced

\* A client whose _destroy() no mocked response has replaced emits "close" at most once,
\* unless an original response may overtake the listeners of an informational one.
THEOREM ClosesOnce == Spec => []ClosedOnce
<1> DEFINE Closes == hurried \/ (SInv /\ ("mock" \notin conn.layers => OnceInv))
<1>1. Init => Closes
  BY InitSInv, InitOnce
<1>2. IInv /\ IInv' /\ Closes /\ [Next]_vars => Closes'
  <2>1. SUFFICES ASSUME IInv, IInv', Closes, [Next]_vars PROVE Closes'
    OBVIOUS
  <2>2. UNCHANGED inputVars
    BY <2>1, InputsStay
  <2>3. CASE hurried
    BY <2>2, <2>3 DEF inputVars
  <2>4. CASE ~hurried
    <3>1. SInv
      BY <2>1, <2>4
    <3>2. SInv' /\ Promised(conn, conn')
      BY <2>1, <2>4, <3>1, NextSInv
    <3>3. ASSUME "mock" \notin conn'.layers
          PROVE  OnceInv'
      <4>1. "mock" \notin conn.layers
        BY <2>1, <3>3, StaysOverridden
      <4>2. Plain
        BY <2>1, <2>4, <3>2, <3>3, <4>1 DEF Plain
      <4>3. QED
        BY <2>4, <4>2, NextOnce
    <3>4. QED
      BY <3>2, <3>3
  <2>5. QED
    BY <2>3, <2>4
<1>3. Closes => ClosedOnce
  BY DEF ClosedOnce, OnceInv, Once, Steady
<1>4. QED
  BY <1>1, <1>2, <1>3, Invariance, PTL DEF Spec
=============================================================================
