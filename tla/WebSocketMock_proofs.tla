------------------------- MODULE WebSocketMock_proofs -------------------------
(***************************************************************************)
(* Proofs about WebSocketMock, for any number of messages and connections.  *)
(*                                                                          *)
(* Structure is what every state shows: the types, what the queued          *)
(* microtasks and listeners are about, and what the state of a connection   *)
(* says of its messages.  On it rest four invariants, one for each safety   *)
(* property: MockOrder (MockedInOrder), ForwardOrder (ForwardedInOrder),    *)
(* NoLoss (NothingLost) and EndsMatch (ClosesTogether).  They follow each   *)
(* message through the queues it waits in.                                  *)
(*                                                                          *)
(* A section first shows which steps leave its invariant alone, then treats *)
(* the others one by one.                                                   *)
(***************************************************************************)
EXTENDS WebSocketMock, SequenceOrder

-----------------------------------------------------------------------------
(* The structure of a state.                                                 *)

\* What the queued microtasks are about.  The "connection" event comes first, and
\* a client is closed once.
TasksMeant ==
  /\ \A t \in ToSet(tasks) :
       /\ t.do = "connection" => phase = "queued"
       /\ t.do \in {"outgoing", "forward"} => t.of \in 1..sends
       /\ t.do = "deliver" => t.of \in 1..mocks
       /\ t.do = "forward" => current # 0
       /\ t.do = "serverClosed" => t.of \in 1..current
  /\ \A t, u : Precedes(tasks, t, u) =>
       u.do # "connection" /\ ~(t.do = "close" /\ u.do = "close")

\* What the listeners left to run are about.
ListenersMeant ==
  /\ \A l \in ToSet(dispatching) :
       /\ l.do = "message" => l.of \in 1..mocks
       /\ l.do = "flush" => l.of \in Message \cup {Extra} /\ l.on \in 1..current
       /\ l.do = "mockClose" => current # 0
  /\ ToSet(early) \subseteq 1..mocks

\* What the state of a connection says: nobody has closed one that opens or is
\* open, and what was deferred until "open" is flushed then.
ConnectionsKept ==
  /\ \A c \in Connection :
       /\ c > current <=> real[c].state = "NONE"
       /\ real[c].closer = "nobody" <=> real[c].state \in {"NONE", "CONNECTING", "OPEN"}
       /\ real[c].state = "OPEN" => real[c].deferred = <<>>
       /\ real[c].state \in {"NONE", "CONNECTING"} => received[c] = <<>>
       /\ received[c] = <<>> \/ real[c].deferred = <<>>
  /\ \A l \in ToSet(dispatching) : l.do = "flush" =>
       real[l.on].deferred = <<>> /\ real[l.on].state \notin {"NONE", "CONNECTING"}

\* A client without "connection" listeners has no connection before it passes
\* through, and none is hooked before the first.
Decided ==
  /\ ~listened /\ phase \in {"queued", "emitting"} => current = 0
  /\ phase = "passthrough" => ~listened
  /\ current = 0 => ~closeHooked /\ ~mockAborted /\ ~realAborted

Structure == TypeOK /\ TasksMeant /\ ListenersMeant /\ ConnectionsKept /\ Decided

-----------------------------------------------------------------------------
(* What the operators of the model do.                                       *)

\* The listeners an event has left for the entries of a queue.
Left(do, s, c) == [i \in DOMAIN s |-> [do |-> do, of |-> s[i], on |-> c]]

\* A queue of listeners holds the entries of another queue, in their order.
Leaves(t, do, s, c) ==
  /\ t \in Seq(ListenerLeft)
  /\ \A l \in ToSet(t) : l.do = do /\ l.on = c /\ l.of \in ToSet(s)
  /\ \A m \in ToSet(s) : \E l \in ToSet(t) : l.do = do /\ l.of = m /\ l.on = c
  /\ \A k, l : Precedes(t, k, l) => Precedes(s, k.of, l.of)

\* The listeners that an event has left are such a queue.
LEMMA LeftOrder ==
  ASSUME NEW s \in Seq(Message \cup {Extra}), NEW c \in 0..MaxConnections,
         NEW do \in {"message", "flush"}
  PROVE  Leaves(Left(do, s, c), do, s, c)
<1> DEFINE t == Left(do, s, c)
           n == Len(s)
<1>1. n \in Nat /\ DOMAIN s = 1..n /\ \A i \in 1..n : s[i] \in Message \cup {Extra}
  OBVIOUS
<1>2. Message \cup {Extra} \subseteq Nat
  BY BoundsAssumption DEF Message, Extra
<1>3. t \in [1..n -> ListenerLeft] /\ \A i \in 1..n : t[i] = [do |-> do, of |-> s[i], on |-> c]
  BY <1>1, <1>2 DEF Left, ListenerLeft
<1>4. t \in Seq(ListenerLeft) /\ DOMAIN t = 1..n
  BY <1>1, <1>3, IsASeq
<1>5. \A i \in 1..n : t[i].do = do /\ t[i].of = s[i] /\ t[i].on = c
  BY <1>3
<1> HIDE DEF t, n
<1>6. \A l \in ToSet(t) : l.do = do /\ l.on = c /\ l.of \in ToSet(s)
  BY <1>1, <1>4, <1>5 DEF ToSet
<1>7. \A m \in ToSet(s) : \E l \in ToSet(t) : l.do = do /\ l.of = m /\ l.on = c
  BY <1>1, <1>4, <1>5 DEF ToSet
<1>8. \A k, l : Precedes(t, k, l) => Precedes(s, k.of, l.of)
  BY <1>1, <1>4, <1>5 DEF Precedes
<1>9. Leaves(t, do, s, c)
  BY <1>4, <1>6, <1>7, <1>8 DEF Leaves
<1>10. QED
  BY <1>9 DEF t

\* The flush of what waited for a connection.
LEMMA FlushOrder ==
  ASSUME NEW s \in Seq(Message \cup {Extra}), NEW c \in Connection,
         NEW q, q = Left("flush", s, c)
  PROVE  Leaves(q, "flush", s, c)
<1>1. PICK d \in 0..MaxConnections : d = c
  BY BoundsAssumption DEF Connection
<1>2. PICK do \in {"message", "flush"} : do = "flush"
  OBVIOUS
<1>3. Leaves(Left(do, s, d), do, s, d)
  BY LeftOrder
<1>4. QED
  BY <1>1, <1>2, <1>3

\* Types that are sets of records.
LEMMA Records ==
  /\ Open \in Microtask /\ Close \in Microtask /\ MockClose \in ListenerLeft
  /\ \A n \in Nat, do \in {"outgoing", "forward", "deliver", "serverClosed"} :
       [do |-> do, of |-> n] \in Microtask
  /\ \A t \in Microtask : t.of \in Nat /\ (t.do = "close" <=> t = Close)
  /\ NoConnection \in RealConnection
  /\ \A m \in Message : Mocked(m) \in Entry
  /\ Opened \in Entry /\ Closed \in Entry
<1>1. Open \in Microtask /\ Close \in Microtask
  BY DEF Open, Close, Microtask
<1>2. MockClose \in ListenerLeft
  BY BoundsAssumption DEF MockClose, ListenerLeft
<1>3. \A n \in Nat, do \in {"outgoing", "forward", "deliver", "serverClosed"} :
        [do |-> do, of |-> n] \in Microtask
  BY DEF Microtask
<1>4. \A t \in Microtask : t.of \in Nat /\ (t.do = "close" <=> t = Close)
  BY DEF Microtask, Close
<1>5. NoConnection \in RealConnection
  BY EmptyOrder DEF NoConnection, RealConnection, ReadyState
<1>6. /\ \A m \in Message : Mocked(m) \in Entry
      /\ Opened \in Entry /\ Closed \in Entry
  BY DEF Entry
<1>7. QED
  BY <1>1, <1>2, <1>3, <1>4, <1>5, <1>6

\* [kClose]() queues one "close" unless the client ends already.
LEMMA ClientClosed ==
  ASSUME TypeOK, TasksMeant, KClose(tasks)
  PROVE  /\ readyState' \in ReadyState /\ tasks' \in Seq(Microtask)
         /\ readyState' = "CLOSING" <=> Close \in ToSet(tasks')
         /\ readyState' = "CLOSED" <=> readyState = "CLOSED"
         /\ readyState' \in {"CLOSING", "CLOSED"}
         /\ ToSet(tasks) \subseteq ToSet(tasks')
         /\ \A t \in ToSet(tasks') : t \in ToSet(tasks) \/ t.do = "close"
         /\ \A t, u : Precedes(tasks', t, u) =>
              \/ Precedes(tasks, t, u)
              \/ t \in ToSet(tasks) /\ t.do # "close" /\ u.do = "close"
<1>1. /\ readyState \in ReadyState /\ tasks \in Seq(Microtask)
      /\ readyState = "CLOSING" <=> Close \in ToSet(tasks)
  BY DEF TypeOK
<1>2. CASE Ending(readyState)
  BY <1>1, <1>2 DEF KClose, Ending
<1>3. CASE ~Ending(readyState)
  <2>1. readyState' = "CLOSING" /\ tasks' = Append(tasks, Close)
    BY <1>3 DEF KClose
  <2>2. /\ tasks' \in Seq(Microtask)
        /\ ToSet(tasks') = ToSet(tasks) \cup {Close}
        /\ \A a, b : Precedes(tasks', a, b) <=>
             Precedes(tasks, a, b) \/ (a \in ToSet(tasks) /\ b = Close)
    BY <1>1, <2>1, AppendOrder, Records
  <2>3. Close \notin ToSet(tasks) /\ Close.do = "close" /\ readyState # "CLOSED"
    BY <1>1, <1>3 DEF Ending, Close
  <2>4. \A t \in ToSet(tasks) : t.do # "close"
    BY <1>1, <2>3, ElementsOf, Records
  <2>5. QED
    BY <2>1, <2>2, <2>3, <2>4 DEF ReadyState
<1>4. QED
  BY <1>2, <1>3

\* Another microtask is queued.
LEMMA Queued ==
  ASSUME TypeOK, NEW t \in Microtask, t.do # "close", tasks' = Append(tasks, t)
  PROVE  /\ tasks' \in Seq(Microtask)
         /\ Close \in ToSet(tasks') <=> Close \in ToSet(tasks)
         /\ ToSet(tasks') = ToSet(tasks) \cup {t}
         /\ \A a, b : Precedes(tasks', a, b) <=>
              Precedes(tasks, a, b) \/ (a \in ToSet(tasks) /\ b = t)
<1>1. tasks \in Seq(Microtask) /\ t # Close
  BY DEF TypeOK, Close
<1>2. QED
  BY <1>1, AppendOrder

\* The first microtask is taken.
LEMMA Taken ==
  ASSUME TypeOK, TasksMeant, NEW do, Runs(do)
  PROVE  /\ Head(tasks) \in Microtask /\ Head(tasks) \in ToSet(tasks)
         /\ Head(tasks).do = do /\ Head(tasks).of \in Nat
         /\ Tail(tasks) \in Seq(Microtask)
         /\ do # "close" => (Close \in ToSet(Tail(tasks)) <=> Close \in ToSet(tasks))
         /\ do = "close" => Close \in ToSet(tasks) /\ Close \notin ToSet(Tail(tasks))
         /\ ToSet(Tail(tasks)) \subseteq ToSet(tasks)
         /\ ToSet(tasks) = ToSet(Tail(tasks)) \cup {Head(tasks)}
         /\ \A a, b : Precedes(Tail(tasks), a, b) => Precedes(tasks, a, b)
         /\ \A b \in ToSet(Tail(tasks)) : Precedes(tasks, Head(tasks), b)
<1>1. tasks \in Seq(Microtask) /\ tasks # <<>> /\ Head(tasks).do = do
  BY DEF TypeOK, Runs
<1>2. /\ Head(tasks) \in Microtask /\ Tail(tasks) \in Seq(Microtask)
      /\ ToSet(tasks) = {Head(tasks)} \cup ToSet(Tail(tasks))
      /\ \A a, b : Precedes(tasks, a, b) <=>
           Precedes(Tail(tasks), a, b) \/ (a = Head(tasks) /\ b \in ToSet(Tail(tasks)))
  BY <1>1, TailOrder
<1>3. \A t, u : Precedes(tasks, t, u) => ~(t.do = "close" /\ u.do = "close")
  BY DEF TasksMeant
<1>4. Close.do = "close"
  BY DEF Close
<1>5. QED
  BY <1>1, <1>2, <1>3, <1>4, Records

\* The next listener of the event is called.
LEMMA Called ==
  ASSUME TypeOK, NEW do, Calls(do), dispatching' = Tail(dispatching)
  PROVE  /\ Listener \in ListenerLeft /\ Listener \in ToSet(dispatching)
         /\ Listener.do = do
         /\ dispatching' \in Seq(ListenerLeft)
         /\ ToSet(dispatching') \subseteq ToSet(dispatching)
         /\ ToSet(dispatching) = ToSet(dispatching') \cup {Listener}
         /\ \A a, b : Precedes(dispatching', a, b) => Precedes(dispatching, a, b)
         /\ \A b \in ToSet(dispatching') : Precedes(dispatching, Listener, b)
<1>1. dispatching \in Seq(ListenerLeft) /\ dispatching # <<>> /\ Head(dispatching).do = do
  BY DEF TypeOK, Calls
<1>2. QED
  BY <1>1, TailOrder DEF Listener

\* close() of a real connection.
LEMMA RealClosed ==
  ASSUME TypeOK, NEW c \in Connection, NEW who \in {"client", "interceptor"},
         NEW r, r = RealClose(c, who)
  PROVE  /\ r \in [Connection -> RealConnection]
         /\ \A d \in Connection :
              /\ d # c => r[d] = real[d]
              /\ r[d].deferred = real[d].deferred /\ r[d].late = real[d].late
              /\ r[d].hooked = real[d].hooked /\ r[d].kept = real[d].kept
         /\ Ending(real[c].state) => r = real
         /\ ~Ending(real[c].state) => r[c].state = "CLOSING" /\ r[c].closer = who
<1>1. real \in [Connection -> RealConnection]
  BY DEF TypeOK
<1>2. CASE Ending(real[c].state)
  BY <1>1, <1>2 DEF RealClose
<1>3. CASE ~Ending(real[c].state)
  <2>1. r = [real EXCEPT ![c].state = "CLOSING", ![c].closer = who]
    BY <1>3 DEF RealClose
  <2>2. r[c] = [real[c] EXCEPT !.state = "CLOSING", !.closer = who]
    BY <1>1, <2>1
  <2>3. r[c] \in RealConnection
    BY <1>1, <2>2 DEF RealConnection, ReadyState
  <2>4. /\ r[c].state = "CLOSING" /\ r[c].closer = who
        /\ r[c].deferred = real[c].deferred /\ r[c].late = real[c].late
        /\ r[c].hooked = real[c].hooked /\ r[c].kept = real[c].kept
    BY <1>1, <2>2 DEF RealConnection
  <2>5. \A d \in Connection : d # c => r[d] = real[d]
    BY <1>1, <2>1
  <2>6. r \in [Connection -> RealConnection]
    BY <1>1, <2>1, <2>3, <2>5
  <2>7. QED
    BY <1>3, <2>4, <2>5, <2>6
<1>4. QED
  BY <1>2, <1>3

\* The types of a connection's parts.
LEMMA ConnectionParts ==
  ASSUME TypeOK, NEW c \in Connection
  PROVE  /\ real[c] \in RealConnection
         /\ real[c].state \in ReadyState \cup {"NONE"}
         /\ real[c].deferred \in Seq(Message \cup {Extra})
         /\ received[c] \in Seq(Message \cup {Extra})
         /\ real[c].closer \in {"nobody", "client", "interceptor", "server"}
         /\ serverCloses[c] \in Nat
  BY DEF TypeOK, RealConnection

\* What send() changes of the server's side: the connection has the message, or
\* keeps it until it opens, or drops it.
Kept(c, m) ==
  /\ real[c].state = "CONNECTING" /\ received' = received
  /\ real' = [real EXCEPT ![c].deferred = Append(@, m)]
  /\ real'[c].deferred = Append(real[c].deferred, m)
Delivered(c, m) ==
  /\ real[c].state = "OPEN" /\ real' = real
  /\ received' = [received EXCEPT ![c] = Append(@, m)]
  /\ received'[c] = Append(received[c], m)
Dropped == real' = real /\ received' = received

\* [kSend]() of a real connection.
LEMMA ServerSent ==
  ASSUME TypeOK, ConnectionsKept, NEW c \in Connection, c <= current,
         NEW m \in Message \cup {Extra}, KSend(c, m)
  PROVE  /\ real' \in [Connection -> RealConnection]
         /\ received' \in [Connection -> Seq(Message \cup {Extra})]
         /\ \A d \in Connection :
              /\ d # c => real'[d] = real[d] /\ received'[d] = received[d]
              /\ real'[d].state = real[d].state /\ real'[d].late = real[d].late
              /\ real'[d].hooked = real[d].hooked /\ real'[d].kept = real[d].kept
              /\ real'[d].closer = real[d].closer
         /\ \/ Kept(c, m)
            \/ Delivered(c, m)
            \/ Dropped /\ Ending(real[c].state)
<1>1. /\ real \in [Connection -> RealConnection]
      /\ received \in [Connection -> Seq(Message \cup {Extra})]
  BY DEF TypeOK
<1>2. real[c].state \in {"CONNECTING", "OPEN"} \/ Ending(real[c].state)
  <2>1. ~(c > current)
    BY BoundsAssumption DEF TypeOK, Connection
  <2>2. QED
    BY <2>1, ConnectionParts DEF ConnectionsKept, ReadyState, Ending
<1>3. CASE real[c].state = "CONNECTING"
  <2>1. /\ received' = received
        /\ real' = [real EXCEPT ![c].deferred = Append(@, m)]
    BY <1>3 DEF KSend, Defer, Ending
  <2>2. real'[c] = [real[c] EXCEPT !.deferred = Append(real[c].deferred, m)]
    BY <1>1, <2>1
  <2>3. Append(real[c].deferred, m) \in Seq(Message \cup {Extra})
    BY ConnectionParts, AppendOrder
  <2>4. real'[c] \in RealConnection
    BY <1>1, <2>2, <2>3 DEF RealConnection
  <2>5. /\ real'[c].deferred = Append(real[c].deferred, m)
        /\ real'[c].state = real[c].state /\ real'[c].late = real[c].late
        /\ real'[c].hooked = real[c].hooked /\ real'[c].kept = real[c].kept
        /\ real'[c].closer = real[c].closer
    BY <1>1, <2>2 DEF RealConnection
  <2>6. \A d \in Connection : d # c => real'[d] = real[d]
    BY <1>1, <2>1
  <2>7. real' \in [Connection -> RealConnection]
    BY <1>1, <2>1, <2>4, <2>6
  <2>8. Kept(c, m)
    BY <1>3, <2>1, <2>5 DEF Kept
  <2>9. QED
    BY <1>1, <2>1, <2>5, <2>6, <2>7, <2>8
<1>4. CASE real[c].state = "OPEN"
  <2>1. /\ real' = real
        /\ received' = [received EXCEPT ![c] = Append(@, m)]
    BY <1>4 DEF KSend, Ending
  <2>2. received'[c] = Append(received[c], m)
    BY <1>1, <2>1
  <2>3. Append(received[c], m) \in Seq(Message \cup {Extra})
    BY ConnectionParts, AppendOrder
  <2>4. received' \in [Connection -> Seq(Message \cup {Extra})]
    BY <1>1, <2>1, <2>3
  <2>5. Delivered(c, m)
    BY <1>4, <2>1, <2>2 DEF Delivered
  <2>6. QED
    BY <1>1, <2>1, <2>4, <2>5
<1>5. CASE Ending(real[c].state)
  <2>1. real' = real /\ received' = received
    BY <1>5 DEF KSend, Ending
  <2>2. QED
    BY <1>1, <1>5, <2>1 DEF Dropped
<1>6. QED
  BY <1>2, <1>3, <1>4, <1>5

\* A new connection is made, for the client in its present state.
LEMMA Connected ==
  ASSUME TypeOK, current < MaxConnections, Connect
  PROVE  /\ current' = current + 1 /\ current' \in Connection
         /\ real' \in [Connection -> RealConnection]
         /\ real'[current'] = FreshConnection
         /\ FreshConnection.state = "CONNECTING" /\ FreshConnection.closer = "nobody"
         /\ FreshConnection.deferred = <<>>
         /\ FreshConnection.late <=> readyState = "CLOSED"
         /\ FreshConnection.hooked <=> ~realAborted
         /\ \A c \in Connection : c # current' => real'[c] = real[c]
         /\ closeHooked' \in BOOLEAN
         /\ closeHooked' <=> closeHooked \/ ~mockAborted
         /\ UNCHANGED <<mockAborted, realAborted, received, serverCloses>>
<1>1. /\ real \in [Connection -> RealConnection] /\ current \in 0..MaxConnections
      /\ closeHooked \in BOOLEAN /\ realAborted \in BOOLEAN
  BY DEF TypeOK
<1>2. /\ current' = current + 1 /\ real' = [real EXCEPT ![current + 1] = FreshConnection]
      /\ closeHooked' = (closeHooked \/ ~mockAborted)
      /\ UNCHANGED <<mockAborted, realAborted, received, serverCloses>>
  BY DEF Connect, HookMockClose
<1>3. current + 1 \in Connection
  BY <1>1, BoundsAssumption DEF Connection
<1>4. FreshConnection \in RealConnection
  BY <1>1, EmptyOrder DEF FreshConnection, RealConnection, ReadyState
<1>5. real' \in [Connection -> RealConnection] /\ real'[current + 1] = FreshConnection
  BY <1>1, <1>2, <1>3, <1>4
<1>6. \A c \in Connection : c # current + 1 => real'[c] = real[c]
  BY <1>1, <1>2
<1>7. /\ FreshConnection.state = "CONNECTING" /\ FreshConnection.closer = "nobody"
      /\ FreshConnection.deferred = <<>>
  BY DEF FreshConnection
<1>8. (FreshConnection.late <=> readyState = "CLOSED")
  BY DEF FreshConnection
<1>9. (FreshConnection.hooked <=> ~realAborted)
  BY DEF FreshConnection
<1>10. closeHooked' \in BOOLEAN /\ (closeHooked' <=> closeHooked \/ ~mockAborted)
  BY <1>2
<1>11. QED
  BY <1>2, <1>3, <1>5, <1>6, <1>7, <1>8, <1>9, <1>10

\* What [kSend]() leaves of the connections.
LEMMA SentConnections ==
  ASSUME TypeOK, ConnectionsKept, ListenersMeant, NEW c \in Connection, c <= current,
         NEW m \in Message \cup {Extra}, KSend(c, m), UNCHANGED <<current, dispatching>>
  PROVE  ConnectionsKept'
<1>1. \A d \in Connection :
        /\ d # c => real'[d] = real[d] /\ received'[d] = received[d]
        /\ real'[d].state = real[d].state /\ real'[d].closer = real[d].closer
  BY ServerSent
<1>2. Kept(c, m) \/ Delivered(c, m) \/ Dropped
  BY ServerSent
<1>3. /\ real[c].state = "CONNECTING" => real[c].deferred = <<>> \/ received[c] = <<>>
      /\ real[c].state = "OPEN" => real[c].deferred = <<>>
      /\ real[c].state = "CONNECTING" => received[c] = <<>>
      /\ real[c].state # "NONE" /\ ~(c > current)
  <2>1. ~(c > current)
    BY BoundsAssumption DEF TypeOK, Connection
  <2>2. QED
    BY <2>1 DEF ConnectionsKept
<1>4. /\ real'[c].state = "OPEN" => real'[c].deferred = <<>>
      /\ real'[c].state \in {"NONE", "CONNECTING"} => received'[c] = <<>>
      /\ received'[c] = <<>> \/ real'[c].deferred = <<>>
  BY <1>1, <1>2, <1>3 DEF Kept, Delivered, Dropped, ConnectionsKept
<1>5. ASSUME NEW d \in Connection
      PROVE  /\ d > current' <=> real'[d].state = "NONE"
             /\ real'[d].closer = "nobody" <=>
                  real'[d].state \in {"NONE", "CONNECTING", "OPEN"}
             /\ real'[d].state = "OPEN" => real'[d].deferred = <<>>
             /\ real'[d].state \in {"NONE", "CONNECTING"} => received'[d] = <<>>
             /\ received'[d] = <<>> \/ real'[d].deferred = <<>>
  BY <1>1, <1>3, <1>4 DEF ConnectionsKept
<1>6. ASSUME NEW l \in ToSet(dispatching)', l.do = "flush"
      PROVE  real'[l.on].deferred = <<>> /\ real'[l.on].state \notin {"NONE", "CONNECTING"}
  <2>1. l \in ToSet(dispatching) /\ l.on \in Connection
    BY <1>6, BoundsAssumption DEF ListenersMeant, Connection, TypeOK
  <2>2. real[l.on].deferred = <<>> /\ real[l.on].state \notin {"NONE", "CONNECTING"}
    BY <1>6, <2>1 DEF ConnectionsKept
  <2>3. CASE l.on # c
    BY <1>1, <2>1, <2>2, <2>3
  <2>4. CASE l.on = c
    BY <1>1, <1>2, <2>1, <2>2, <2>4 DEF Kept, Delivered, Dropped
  <2>5. QED
    BY <2>3, <2>4
<1>7. QED
  BY <1>5, <1>6 DEF ConnectionsKept

-----------------------------------------------------------------------------
(* The steps keep the structure.                                             *)

\* What send() by the application does to the microtasks.
LEMMA AppSendsQueues ==
  ASSUME TypeOK, TasksMeant, AppSends
  PROVE  /\ sends' = sends + 1 /\ sends' \in Message
         /\ readyState' \in ReadyState /\ tasks' \in Seq(Microtask)
         /\ readyState' = "CLOSING" <=> Close \in ToSet(tasks')
         /\ readyState' = "CLOSED" <=> readyState = "CLOSED"
         /\ readyState' = "OPEN" => readyState = "OPEN"
         /\ readyState' # "CONNECTING"
         /\ ToSet(tasks) \subseteq ToSet(tasks')
         /\ \A t \in ToSet(tasks') :
              \/ t \in ToSet(tasks) \/ t.do = "close"
              \/ t.do = "outgoing" /\ t.of = sends'
         /\ \A t, u : Precedes(tasks', t, u) =>
              \/ Precedes(tasks, t, u)
              \/ t \in ToSet(tasks) /\ t.do # "close" /\ u.do = "close"
              \/ t \in ToSet(tasks) /\ u.do = "outgoing" /\ u.of = sends'
         /\ readyState = "OPEN" => \E t \in ToSet(tasks') : t.do = "outgoing" /\ t.of = sends'
<1>1. sends' = sends + 1 /\ sends' \in Message
  BY SMTT(30), BoundsAssumption DEF AppSends, MoreToSend, TypeOK, Message
<1>2. readyState \in ReadyState /\ tasks \in Seq(Microtask)
  BY DEF TypeOK
<1>3. CASE readyState = "CONNECTING"
  <2>1. KClose(tasks)
    BY <1>3 DEF AppSends, Ending
  <2>2. QED
    BY <1>1, <1>3, <2>1, ClientClosed
<1>4. CASE readyState = "OPEN"
  <2> DEFINE t == [do |-> "outgoing", of |-> sends + 1]
  <2>1. tasks' = Append(tasks, t) /\ readyState' = readyState
    BY <1>4 DEF AppSends, Ending
  <2>2. t \in Microtask /\ t.do = "outgoing" /\ t.of = sends'
    <3>1. sends + 1 \in Nat
      BY DEF TypeOK
    <3>2. QED
      BY <1>1, <3>1, Records
  <2> HIDE DEF t
  <2>3. QED
    <3>1. readyState = "CLOSING" <=> Close \in ToSet(tasks)
      BY DEF TypeOK
    <3>2. QED
      BY <1>1, <1>2, <1>4, <2>1, <2>2, <3>1, Queued
<1>5. CASE Ending(readyState)
  <2>1. tasks' = tasks /\ readyState' = readyState
    BY <1>5 DEF AppSends, Ending
  <2>2. QED
    BY <1>1, <1>2, <1>5, <2>1 DEF Ending, TypeOK
<1>6. QED
  BY <1>2, <1>3, <1>4, <1>5 DEF ReadyState, Ending

\* The application sends: a microtask, or the end of a connecting client.
LEMMA AppSendsStructure ==
  ASSUME Structure, AppSends
  PROVE  Structure'
<1>1. TypeOK /\ TasksMeant
  BY DEF Structure
<1>2. TypeOK'
  <2>1. offered' \subseteq Message
    BY <1>1, AppSendsQueues DEF TypeOK, AppSends
  <2>2. sends' \in Nat /\ sends' + mocks + serverSends <= MaxMessages
    BY SMTT(30), <1>1, AppSendsQueues, BoundsAssumption DEF TypeOK, AppSends, MoreToSend
  <2>3. UNCHANGED <<early, log, dispatching, serverVars, prevented, mocks, serverSends, eventVars>>
    BY DEF AppSends
  <2>4. QED
    BY <1>1, <2>1, <2>2, <2>3, AppSendsQueues DEF TypeOK, serverVars, eventVars
<1>3. TasksMeant'
  <2>1. sends' = sends + 1 /\ sends \in Nat /\ mocks \in Nat
    BY <1>1, AppSendsQueues DEF TypeOK
  <2>2. UNCHANGED <<mocks, phase, current>>
    BY DEF AppSends, eventVars, serverVars
  <2>3. QED
    BY <1>1, <2>1, <2>2, AppSendsQueues DEF TasksMeant
<1>4. ListenersMeant'
  <2>1. sends' = sends + 1 /\ sends \in Nat
    BY <1>1, AppSendsQueues DEF TypeOK
  <2>2. UNCHANGED <<dispatching, mocks, early, current>>
    BY DEF AppSends, serverVars
  <2>3. QED
    BY <2>1, <2>2 DEF ListenersMeant, Structure
<1>5. ConnectionsKept' /\ Decided'
  BY DEF AppSends, serverVars, eventVars, ConnectionsKept, Decided, Structure
<1>6. QED
  BY <1>2, <1>3, <1>4, <1>5 DEF Structure

\* close() by the application or a handle, or a "connection" listener that threw.
ClosesClient ==
  /\ KClose(tasks)
  /\ phase' = phase \/ (phase = "emitting" /\ phase' = "failed")
  /\ UNCHANGED <<early, log, dispatching, serverVars, sendVars, listened>>

\* The client is closed, by the application, the listeners or their failure.
LEMMA ClosesClientStructure ==
  ASSUME Structure, ClosesClient
  PROVE  Structure'
<1>1. TypeOK /\ TasksMeant
  BY DEF Structure
<1>2. UNCHANGED <<early, log, dispatching, serverVars, sendVars, listened>>
  BY DEF ClosesClient
<1>3. KClose(tasks) /\ (phase' = phase \/ (phase = "emitting" /\ phase' = "failed"))
  BY DEF ClosesClient
<1>4. TypeOK'
  BY <1>1, <1>2, <1>3, ClientClosed DEF TypeOK, serverVars, sendVars
<1>5. TasksMeant'
  BY <1>1, <1>2, <1>3, ClientClosed DEF TasksMeant, serverVars, sendVars
<1>6. ListenersMeant' /\ ConnectionsKept'
  BY <1>2 DEF serverVars, sendVars, ListenersMeant, ConnectionsKept, Structure
<1>7. Decided'
  BY <1>2, <1>3 DEF serverVars, Decided, Structure
<1>8. QED
  BY <1>4, <1>5, <1>6, <1>7 DEF Structure

\* A message to the client is queued.
LEMMA MockSendsStructure ==
  ASSUME Structure, MockSends
  PROVE  Structure'
<1> DEFINE t == [do |-> "deliver", of |-> mocks']
<1>1. TypeOK /\ TasksMeant /\ mocks \in Nat
  BY DEF Structure, TypeOK
<1>2. /\ mocks' = mocks + 1 /\ tasks' = Append(tasks, t)
      /\ UNCHANGED <<clientVars, dispatching, serverVars, prevented, sends, serverSends, offered,
                     eventVars>>
  BY DEF MockSends
<1>3. t \in Microtask /\ t.do = "deliver" /\ t.of = mocks'
  <2>1. mocks' \in Nat
    BY <1>1, <1>2
  <2>2. QED
    BY <2>1, Records
<1> HIDE DEF t
<1>4. TypeOK'
  <2>1. mocks' \in Nat /\ sends + mocks' + serverSends <= MaxMessages
    BY <1>1, <1>2, BoundsAssumption DEF TypeOK, MockSends, MoreToSend
  <2>2. QED
    BY <1>1, <1>2, <1>3, <2>1, Queued DEF TypeOK, clientVars, serverVars, eventVars
<1>5. TasksMeant'
  <2>1. \A n \in 1..mocks : n \in 1..mocks'
    BY <1>1, <1>2
  <2>2. mocks' \in 1..mocks'
    BY <1>1, <1>2
  <2>3. QED
    BY <1>1, <1>2, <1>3, <2>1, <2>2, Queued DEF TasksMeant, serverVars, eventVars
<1>6. ListenersMeant'
  <2>1. \A n \in 1..mocks : n \in 1..mocks'
    BY <1>1, <1>2
  <2>2. QED
    BY <1>2, <2>1 DEF ListenersMeant, Structure, clientVars, serverVars
<1>7. ConnectionsKept' /\ Decided'
  BY <1>2 DEF serverVars, eventVars, ConnectionsKept, Decided, Structure
<1>8. QED
  BY <1>4, <1>5, <1>6, <1>7 DEF Structure

\* A connection is made, by server.connect() or to pass through.
ConnectsServer ==
  /\ current < MaxConnections /\ Connect
  /\ phase' = phase \/ (phase = "emitting" /\ phase' = "passthrough")
  /\ ~listened => phase' = "passthrough"
  /\ listened => phase' = phase
  /\ UNCHANGED <<clientVars, taskVars, sendVars, listened>>

\* A connection is made, while the last one is not open.
LEMMA ConnectsServerStructure ==
  ASSUME Structure, ConnectsServer
  PROVE  Structure'
<1>1. TypeOK /\ current \in Nat /\ current' = current + 1
  BY Connected DEF Structure, TypeOK, ConnectsServer, Connection
<1>2. /\ phase' = phase \/ (phase = "emitting" /\ phase' = "passthrough")
      /\ ~listened => phase' = "passthrough"
      /\ listened => phase' = phase
      /\ UNCHANGED <<clientVars, taskVars, sendVars, listened>>
  BY DEF ConnectsServer
<1>3. /\ current' \in Connection /\ real' \in [Connection -> RealConnection]
      /\ real'[current'] = FreshConnection
      /\ FreshConnection.state = "CONNECTING" /\ FreshConnection.closer = "nobody"
      /\ FreshConnection.deferred = <<>>
      /\ \A c \in Connection : c # current' => real'[c] = real[c]
      /\ closeHooked' \in BOOLEAN
      /\ UNCHANGED <<mockAborted, realAborted, received, serverCloses>>
  BY <1>1, Connected DEF ConnectsServer
<1>4. TypeOK'
  BY <1>1, <1>2, <1>3 DEF TypeOK, Connection, clientVars, taskVars, sendVars
<1>5. \A n \in 1..current : n \in 1..current'
  BY <1>1
<1>6. TasksMeant'
  <2>1. current' # 0
    BY <1>1
  <2>2. QED
    BY <1>2, <1>5, <2>1 DEF TasksMeant, Structure, taskVars, sendVars
<1>7. ListenersMeant'
  <2>1. current' # 0
    BY <1>1
  <2>2. QED
    BY <1>2, <1>5, <2>1 DEF ListenersMeant, Structure, taskVars, sendVars, clientVars
<1>8. ConnectionsKept'
  <2>1. \A l \in ToSet(dispatching) : l.do = "flush" =>
          l.on \in Connection /\ l.on # current'
    <3>1. \A n \in 1..current : n \in Connection /\ n # current'
      BY <1>1, <1>3, BoundsAssumption DEF Connection
    <3>2. QED
      BY <3>1 DEF Structure, ListenersMeant
  <2>2. \A l \in ToSet(dispatching)' : l.do = "flush" =>
          real'[l.on].deferred = <<>> /\ real'[l.on].state \notin {"NONE", "CONNECTING"}
    BY <1>2, <1>3, <2>1 DEF Structure, ConnectionsKept, taskVars
  <2>3. ASSUME NEW c \in Connection
        PROVE  /\ c > current' <=> real'[c].state = "NONE"
               /\ real'[c].closer = "nobody" <=>
                    real'[c].state \in {"NONE", "CONNECTING", "OPEN"}
               /\ real'[c].state = "OPEN" => real'[c].deferred = <<>>
               /\ real'[c].state \in {"NONE", "CONNECTING"} => received'[c] = <<>>
               /\ received'[c] = <<>> \/ real'[c].deferred = <<>>
    <3>1. CASE c = current'
      <4>1. c > current /\ ~(c > current')
        BY <1>1, <3>1
      <4>2. received[c] = <<>>
        BY <4>1 DEF Structure, ConnectionsKept
      <4>3. QED
        BY <1>3, <3>1, <4>1, <4>2
    <3>2. CASE c # current'
      <4>1. (c > current' <=> c > current) /\ (c <= current' <=> c <= current)
        BY <1>1, <3>2 DEF Connection
      <4>2. QED
        BY <1>3, <3>2, <4>1 DEF Structure, ConnectionsKept
    <3>3. QED
      BY <3>1, <3>2
  <2>4. QED
    BY <2>2, <2>3 DEF ConnectionsKept
<1>9. Decided'
  BY <1>1, <1>2 DEF Decided, Structure
<1>10. QED
  BY <1>4, <1>6, <1>7, <1>8, <1>9 DEF Structure

\* The server handle sends on the last connection.
LEMMA ServerSendsStructure ==
  ASSUME Structure, ServerSends
  PROVE  Structure'
<1>1. /\ TypeOK /\ ConnectionsKept /\ current \in Connection /\ current <= current
      /\ serverSends \in Nat
  BY DEF Structure, TypeOK, ServerSends, Connection
<1>2. /\ serverSends' = serverSends + 1 /\ KSend(current, Extra)
      /\ UNCHANGED <<clientVars, taskVars, current, closeHooked, mockAborted, realAborted,
                     serverCloses, prevented, sends, mocks, offered, eventVars>>
  BY DEF ServerSends
<1>3. TypeOK'
  <2>1. serverSends' \in Nat /\ sends + mocks + serverSends' <= MaxMessages
    BY <1>1, <1>2, BoundsAssumption DEF TypeOK, ServerSends, MoreToSend
  <2>2. QED
    BY <1>1, <1>2, <2>1, ServerSent DEF TypeOK, clientVars, taskVars, eventVars
<1>4. TasksMeant' /\ ListenersMeant' /\ Decided'
  BY <1>2 DEF Structure, TasksMeant, ListenersMeant, Decided, clientVars, taskVars, eventVars
<1>5. ConnectionsKept'
  BY <1>1, <1>2, SentConnections DEF taskVars, Structure
<1>6. QED
  BY <1>3, <1>4, <1>5 DEF Structure

\* server.close() unhooks every connection.
LEMMA ServerClosesReal ==
  ASSUME Structure, ServerCloses
  PROVE  /\ current \in Connection /\ current \in Nat
         /\ real' \in [Connection -> RealConnection]
         /\ \A d \in Connection :
              /\ real'[d].deferred = real[d].deferred /\ real'[d].late = real[d].late
              /\ real'[d].kept = real[d].kept /\ ~real'[d].hooked
              /\ d # current => real'[d].state = real[d].state /\ real'[d].closer = real[d].closer
         /\ Ending(real[current].state) =>
              /\ real'[current].state = real[current].state
              /\ real'[current].closer = real[current].closer
         /\ ~Ending(real[current].state) =>
              real'[current].state = "CLOSING" /\ real'[current].closer = "interceptor"
<1>1. TypeOK /\ current \in Connection /\ current \in Nat
  <2>1. current # 0
    BY DEF ServerCloses
  <2>2. TypeOK /\ current \in 0..MaxConnections
    BY DEF Structure, TypeOK
  <2>3. QED
    BY <2>1, <2>2, BoundsAssumption DEF Connection
<1>2. PICK r : r = RealClose(current, "interceptor")
  OBVIOUS
<1>3. /\ r \in [Connection -> RealConnection]
      /\ \A d \in Connection :
           /\ d # current => r[d] = real[d]
           /\ r[d].deferred = real[d].deferred /\ r[d].late = real[d].late
           /\ r[d].hooked = real[d].hooked /\ r[d].kept = real[d].kept
      /\ Ending(real[current].state) => r = real
      /\ ~Ending(real[current].state) =>
           r[current].state = "CLOSING" /\ r[current].closer = "interceptor"
  <2>1. "interceptor" \in {"client", "interceptor"}
    OBVIOUS
  <2>2. QED
    BY <1>1, <1>2, <2>1, RealClosed
<1>4. real' = [d \in Connection |-> [r[d] EXCEPT !.hooked = FALSE]]
  BY <1>2 DEF ServerCloses, Unhooked
<1>5. ASSUME NEW d \in Connection
      PROVE  /\ real'[d] \in RealConnection /\ ~real'[d].hooked
             /\ real'[d].deferred = r[d].deferred /\ real'[d].late = r[d].late
             /\ real'[d].kept = r[d].kept /\ real'[d].state = r[d].state
             /\ real'[d].closer = r[d].closer
  <2>1. real'[d] = [r[d] EXCEPT !.hooked = FALSE] /\ r[d] \in RealConnection
    BY <1>3, <1>4
  <2>2. QED
    BY <2>1 DEF RealConnection
<1>6. real' \in [Connection -> RealConnection]
  BY <1>4, <1>5
<1>7. ASSUME NEW d \in Connection
      PROVE  /\ real'[d].deferred = real[d].deferred /\ real'[d].late = real[d].late
             /\ real'[d].kept = real[d].kept /\ ~real'[d].hooked
             /\ d # current => real'[d].state = real[d].state /\ real'[d].closer = real[d].closer
  <2>1. /\ r[d].deferred = real[d].deferred /\ r[d].late = real[d].late
        /\ r[d].kept = real[d].kept /\ (d # current => r[d] = real[d])
    BY <1>3
  <2>2. QED
    BY <1>5, <2>1
<1>8. /\ real'[current].state = r[current].state
      /\ real'[current].closer = r[current].closer
  BY <1>1, <1>5
<1>9. /\ Ending(real[current].state) =>
           /\ real'[current].state = real[current].state
           /\ real'[current].closer = real[current].closer
      /\ ~Ending(real[current].state) =>
           real'[current].state = "CLOSING" /\ real'[current].closer = "interceptor"
  BY <1>3, <1>8
<1>10. QED
  BY <1>1, <1>6, <1>7, <1>9

\* server.close() ends the last connection and leaves its end to a microtask.
LEMMA ServerClosesStructure ==
  ASSUME Structure, ServerCloses
  PROVE  Structure'
<1>1. TypeOK /\ current \in Connection /\ current \in Nat
  BY ServerClosesReal DEF Structure
<1>2. /\ realAborted' = TRUE
      /\ UNCHANGED <<clientVars, dispatching, current, closeHooked, mockAborted, received,
                     serverCloses, sendVars, eventVars>>
  BY DEF ServerCloses
<1>3. /\ tasks' \in Seq(Microtask)
      /\ Close \in ToSet(tasks') <=> Close \in ToSet(tasks)
      /\ \A t \in ToSet(tasks') :
           t \in ToSet(tasks) \/ (t.do = "serverClosed" /\ t.of = current)
      /\ \A t, u : Precedes(tasks', t, u) =>
           Precedes(tasks, t, u) \/ u.do = "serverClosed"
  <2>1. CASE Ending(real[current].state)
    BY <1>1, <2>1 DEF ServerCloses, TypeOK
  <2>2. CASE ~Ending(real[current].state)
    <3> DEFINE t == [do |-> "serverClosed", of |-> current]
    <3>1. tasks' = Append(tasks, t) /\ t.do = "serverClosed" /\ t.of = current
      BY <2>2 DEF ServerCloses
    <3>2. t \in Microtask
      BY <1>1, Records
    <3> HIDE DEF t
    <3>3. QED
      BY <1>1, <3>1, <3>2, Queued
  <2>3. QED
    BY <2>1, <2>2
<1>4. TypeOK'
  BY <1>1, <1>2, <1>3, ServerClosesReal
     DEF TypeOK, clientVars, sendVars, eventVars
<1>5. TasksMeant'
  <2>1. current \in 1..current
    BY <1>1 DEF Connection
  <2>2. QED
    BY <1>2, <1>3, <2>1 DEF TasksMeant, Structure, sendVars, eventVars
<1>6. ListenersMeant'
  BY <1>2 DEF ListenersMeant, Structure, clientVars, sendVars
<1>7. ConnectionsKept'
  <2>1. \A l \in ToSet(dispatching) : l.do = "flush" => l.on \in Connection
    BY <1>1, BoundsAssumption DEF Structure, ListenersMeant, Connection
  <2>2. ~(current > current) /\ real[current].state # "NONE"
    BY <1>1 DEF Structure, ConnectionsKept
  <2>4. ASSUME NEW c \in Connection
        PROVE  /\ c > current' <=> real'[c].state = "NONE"
               /\ real'[c].closer = "nobody" <=>
                    real'[c].state \in {"NONE", "CONNECTING", "OPEN"}
               /\ real'[c].state = "OPEN" => real'[c].deferred = <<>>
               /\ real'[c].state \in {"NONE", "CONNECTING"} => received'[c] = <<>>
               /\ received'[c] = <<>> \/ real'[c].deferred = <<>>
    <3>1. CASE c = current
      BY <1>1, <1>2, <2>2, <3>1, ServerClosesReal DEF Structure, ConnectionsKept
    <3>2. CASE c # current
      BY <1>2, <3>2, ServerClosesReal DEF Structure, ConnectionsKept
    <3>3. QED
      BY <3>1, <3>2
  <2>5. ASSUME NEW l \in ToSet(dispatching)', l.do = "flush"
        PROVE  real'[l.on].deferred = <<>> /\ real'[l.on].state \notin {"NONE", "CONNECTING"}
    <3>1. /\ l.on \in Connection /\ real[l.on].deferred = <<>>
          /\ real[l.on].state \notin {"NONE", "CONNECTING"}
      BY <1>2, <2>1, <2>5 DEF Structure, ConnectionsKept
    <3>2. QED
      BY <3>1, ServerClosesReal
  <2>6. QED
    BY <2>4, <2>5 DEF ConnectionsKept
<1>8. Decided'
  BY <1>1, <1>2 DEF Decided, Structure, eventVars, Connection
<1>9. QED
  BY <1>4, <1>5, <1>6, <1>7, <1>8 DEF Structure

\* The listeners of "connection" end, or throw something that is no Error.
LEMMA ListenersEndStructure ==
  ASSUME Structure, ListenersEnd \/ (phase' = "failed" /\ ListenersThrow(FALSE))
  PROVE  Structure'
<1>1. /\ TypeOK /\ phase = "emitting" /\ listened
      /\ phase' \in {"mocked", "failed"}
      /\ UNCHANGED <<clientVars, dispatching, serverVars, sendVars, listened>>
      /\ tasks' = tasks \/ tasks' = Append(tasks, Open)
  BY DEF Structure, ListenersEnd, ListenersThrow, MockedOpen, clientVars
<1>2. /\ tasks' \in Seq(Microtask)
      /\ Close \in ToSet(tasks') <=> Close \in ToSet(tasks)
      /\ \A t \in ToSet(tasks') : t \in ToSet(tasks) \/ t.do = "open"
      /\ \A t, u : Precedes(tasks', t, u) => Precedes(tasks, t, u) \/ u.do = "open"
  <2>1. Open.do = "open" /\ Open \in Microtask
    BY Records DEF Open
  <2>2. CASE tasks' = tasks
    BY <1>1, <2>2 DEF TypeOK
  <2>3. CASE tasks' = Append(tasks, Open)
    BY <1>1, <2>1, <2>3, Queued
  <2>4. QED
    BY <1>1, <2>2, <2>3
<1>3. TypeOK'
  BY <1>1, <1>2 DEF TypeOK, clientVars, serverVars, sendVars
<1>4. TasksMeant'
  BY <1>1, <1>2 DEF TasksMeant, Structure, serverVars, sendVars
<1>5. ListenersMeant' /\ ConnectionsKept' /\ Decided'
  BY <1>1 DEF ListenersMeant, ConnectionsKept, Decided, Structure, clientVars, serverVars, sendVars
<1>6. QED
  BY <1>3, <1>4, <1>5 DEF Structure

\* The "connection" event is emitted: it was the only microtask of its kind.
LEMMA RunConnectionStructure ==
  ASSUME Structure, RunConnection
  PROVE  Structure'
<1>1. /\ TypeOK /\ TasksMeant /\ Runs("connection") /\ tasks' = Tail(tasks)
      /\ phase' = "emitting"
      /\ UNCHANGED <<clientVars, dispatching, serverVars, sendVars, listened>>
  BY DEF Structure, RunConnection
<1>2. phase = "queued"
  BY <1>1, Taken DEF TasksMeant
<1>3. TypeOK'
  BY <1>1, Taken DEF TypeOK, clientVars, serverVars, sendVars
<1>4. TasksMeant'
  <2>1. \A t \in ToSet(tasks') : t.do # "connection" /\ t \in ToSet(tasks)
    BY <1>1, Taken DEF TasksMeant
  <2>2. \A t, u : Precedes(tasks', t, u) => Precedes(tasks, t, u)
    BY <1>1, Taken
  <2>3. QED
    BY <1>1, <2>1, <2>2 DEF TasksMeant, serverVars, sendVars
<1>5. ListenersMeant' /\ ConnectionsKept' /\ Decided'
  BY <1>1, <1>2 DEF ListenersMeant, ConnectionsKept, Decided, Structure,
                    clientVars, serverVars, sendVars
<1>6. QED
  BY <1>3, <1>4, <1>5 DEF Structure

\* A microtask that leaves the queue as it is behind it.
LEMMA TakenMeant ==
  ASSUME Structure, NEW do, Runs(do), tasks' = Tail(tasks),
         UNCHANGED <<phase, sends, mocks, current>>
  PROVE  TasksMeant'
<1>1. TypeOK /\ TasksMeant
  BY DEF Structure
<1>2. /\ \A t \in ToSet(tasks') : t \in ToSet(tasks)
      /\ \A t, u : Precedes(tasks', t, u) => Precedes(tasks, t, u)
  BY <1>1, Taken
<1>3. QED
  BY <1>1, <1>2 DEF TasksMeant

\* The client opens; the messages that waited for it are dispatched next.
LEMMA RunOpenStructure ==
  ASSUME Structure, RunOpen
  PROVE  Structure'
<1>1. /\ TypeOK /\ TasksMeant /\ Runs("open") /\ tasks' = Tail(tasks) /\ dispatching = <<>>
      /\ UNCHANGED <<serverVars, sendVars, eventVars>>
  BY DEF Structure, RunOpen, Runs
<1>2. CASE readyState # "CONNECTING"
  <2>1. UNCHANGED <<clientVars, dispatching>>
    BY <1>2 DEF RunOpen
  <2>2. TypeOK'
    BY <1>1, <2>1, Taken DEF TypeOK, clientVars, serverVars, sendVars, eventVars
  <2>3. TasksMeant'
    BY <1>1, TakenMeant DEF sendVars, serverVars, eventVars
  <2>4. ListenersMeant' /\ ConnectionsKept' /\ Decided'
    BY <1>1, <2>1 DEF ListenersMeant, ConnectionsKept, Decided, Structure,
                      clientVars, serverVars, sendVars, eventVars
  <2>5. QED
    BY <2>2, <2>3, <2>4 DEF Structure
<1>3. CASE readyState = "CONNECTING"
  <2>1. /\ readyState' = "OPEN" /\ log' = Append(log, Opened) /\ early' = <<>>
        /\ dispatching' = Left("message", early, 0)
    BY <1>3 DEF RunOpen, Left
  <2>2. early \in Seq(Message \cup {Extra}) /\ 0 \in 0..MaxConnections
    BY <1>1, BoundsAssumption DEF TypeOK
  <2>3. /\ dispatching' \in Seq(ListenerLeft)
        /\ \A l \in ToSet(dispatching') : l.do = "message" /\ l.of \in ToSet(early)
    BY <2>1, <2>2, LeftOrder DEF Leaves
  <2>4. TypeOK'
    <3>1. log' \in Seq(Entry)
      BY <1>1, <2>1, AppendOrder, Records DEF TypeOK
    <3>2. readyState' = "CLOSING" <=> Close \in ToSet(tasks')
      BY <1>1, <1>3, <2>1, Taken DEF TypeOK
    <3>3. tasks' \in Seq(Microtask) /\ early' \in Seq(Message)
      BY <1>1, <2>1, Taken, EmptyOrder
    <3>4. QED
      BY <1>1, <2>1, <2>3, <3>1, <3>2, <3>3
         DEF TypeOK, ReadyState, serverVars, sendVars, eventVars
  <2>5. TasksMeant'
    BY <1>1, TakenMeant DEF sendVars, serverVars, eventVars
  <2>6. ListenersMeant'
    BY <1>1, <2>1, <2>3, EmptyOrder DEF ListenersMeant, Structure, sendVars
  <2>7. ConnectionsKept' /\ Decided'
    BY <1>1, <2>3 DEF ConnectionsKept, Decided, Structure, serverVars, eventVars
  <2>8. QED
    BY <2>4, <2>5, <2>6, <2>7 DEF Structure
<1>4. QED
  BY <1>2, <1>3

\* A message is on its way: forwarded next, if the server handle is connected.
LEMMA OutgoingQueues ==
  ASSUME TypeOK, TasksMeant, NEW prevents, RunOutgoing(prevents)
  PROVE  /\ Subject \in 1..sends /\ Subject \in Message /\ Head(tasks).do = "outgoing"
         /\ tasks' \in Seq(Microtask)
         /\ Close \in ToSet(tasks') <=> Close \in ToSet(tasks)
         /\ ToSet(Tail(tasks)) \subseteq ToSet(tasks')
         /\ \A t \in ToSet(tasks') :
              \/ t \in ToSet(Tail(tasks))
              \/ current # 0 /\ t.do = "forward" /\ t.of = Subject
         /\ current # 0 => \E t \in ToSet(tasks') : t.do = "forward" /\ t.of = Subject
         /\ \A t, u : Precedes(tasks', t, u) =>
              \/ Precedes(Tail(tasks), t, u)
              \/ t \in ToSet(Tail(tasks)) /\ u.do = "forward" /\ u.of = Subject
<1> DEFINE rest == Tail(tasks)
           t == [do |-> "forward", of |-> Subject]
<1>1. Runs("outgoing") /\ tasks' = rest \o (IF current = 0 THEN <<>> ELSE <<t>>)
  BY DEF RunOutgoing
<1>2. /\ rest \in Seq(Microtask) /\ Subject \in Nat
      /\ Head(tasks) \in ToSet(tasks) /\ Head(tasks).do = "outgoing"
      /\ Close \in ToSet(rest) <=> Close \in ToSet(tasks)
  BY <1>1, Taken DEF Subject
<1>3. Subject \in 1..sends /\ Subject \in Message
  BY <1>2, BoundsAssumption DEF TasksMeant, TypeOK, Subject, Message
<1>4. t \in Microtask /\ t.do = "forward" /\ t.of = Subject
  BY <1>2, Records
<1> HIDE DEF rest, t
<1>5. CASE current = 0
  <2>1. tasks' = rest
    BY <1>1, <1>2, <1>5
  <2>2. QED
    BY <1>2, <1>3, <1>5, <2>1 DEF rest
<1>6. CASE current # 0
  <2>1. tasks' = rest \o <<t>>
    BY <1>1, <1>6
  <2>2. /\ <<t>> \in Seq(Microtask) /\ ToSet(<<t>>) = {t}
        /\ \A a, b : ~Precedes(<<t>>, a, b)
    BY <1>4, SingleOrder
  <2>3. /\ tasks' \in Seq(Microtask) /\ ToSet(tasks') = ToSet(rest) \cup {t}
        /\ \A a, b : Precedes(tasks', a, b) <=>
             Precedes(rest, a, b) \/ (a \in ToSet(rest) /\ b = t)
    BY <1>2, <2>1, <2>2, ConcatOrder
  <2>4. t # Close
    BY <1>4 DEF Close
  <2>5. QED
    BY <1>2, <1>3, <1>4, <1>6, <2>3, <2>4 DEF rest
<1>7. QED
  BY <1>5, <1>6

\* The "outgoing" event queues the forward, if the server handle is connected.
LEMMA RunOutgoingStructure ==
  ASSUME Structure, NEW prevents, RunOutgoing(prevents)
  PROVE  Structure'
<1>1. /\ TypeOK /\ TasksMeant
      /\ prevented' \subseteq prevented \cup {Subject}
      /\ Runs("outgoing")
      /\ UNCHANGED <<clientVars, dispatching, serverVars, sends, mocks, serverSends, offered,
                     eventVars>>
  BY DEF Structure, RunOutgoing
<1>2. /\ ToSet(Tail(tasks)) \subseteq ToSet(tasks)
      /\ \A a, b : Precedes(Tail(tasks), a, b) => Precedes(tasks, a, b)
  BY <1>1, Taken
<1>3. TypeOK'
  BY <1>1, OutgoingQueues DEF TypeOK, clientVars, serverVars, eventVars
<1>4. TasksMeant'
  <2>1. ASSUME NEW t \in ToSet(tasks')
        PROVE  /\ t.do = "connection" => phase = "queued"
               /\ t.do \in {"outgoing", "forward"} => t.of \in 1..sends
               /\ t.do = "deliver" => t.of \in 1..mocks
               /\ t.do = "forward" => current # 0
               /\ t.do = "serverClosed" => t.of \in 1..current
    <3>1. CASE t \in ToSet(tasks)
      BY <3>1 DEF Structure, TasksMeant
    <3>2. CASE current # 0 /\ t.do = "forward" /\ t.of = Subject
      BY <1>1, <3>2, OutgoingQueues
    <3>3. QED
      BY <1>1, <1>2, <3>1, <3>2, OutgoingQueues
  <2>2. ASSUME NEW t, NEW u, Precedes(tasks', t, u)
        PROVE  u.do # "connection" /\ ~(t.do = "close" /\ u.do = "close")
    <3>1. Precedes(tasks, t, u) \/ u.do = "forward"
      BY <1>1, <1>2, <2>2, OutgoingQueues
    <3>2. QED
      BY <3>1 DEF Structure, TasksMeant
  <2>3. QED
    BY <1>1, <2>1, <2>2 DEF TasksMeant, serverVars, eventVars
<1>5. ListenersMeant' /\ ConnectionsKept' /\ Decided'
  BY <1>1 DEF ListenersMeant, ConnectionsKept, Decided, Structure, clientVars, serverVars,
              eventVars
<1>6. QED
  BY <1>3, <1>4, <1>5 DEF Structure

\* What the forwarded message is, and whom it goes to.
LEMMA ForwardMeant ==
  ASSUME Structure, Runs("forward")
  PROVE  /\ Subject \in 1..sends /\ Subject \in Message
         /\ current \in Connection /\ current <= current
         /\ Head(tasks) \in ToSet(tasks) /\ Head(tasks).do = "forward"
<1>1. /\ TypeOK /\ TasksMeant /\ Head(tasks) \in ToSet(tasks)
      /\ Head(tasks).do = "forward"
  BY Taken DEF Structure
<1>2. Subject \in 1..sends /\ current # 0
  BY <1>1 DEF TasksMeant, Subject
<1>3. QED
  BY <1>1, <1>2, BoundsAssumption DEF TypeOK, Message, Connection

\* The message is forwarded to the last connection, unless prevented.
LEMMA RunForwardStructure ==
  ASSUME Structure, RunForward
  PROVE  Structure'
<1>1. /\ TypeOK /\ TasksMeant /\ ConnectionsKept /\ ListenersMeant
      /\ Runs("forward") /\ tasks' = Tail(tasks)
      /\ UNCHANGED <<clientVars, dispatching, current, closeHooked, mockAborted, realAborted,
                     serverCloses, sendVars, eventVars>>
  BY DEF Structure, RunForward
<1>2. (real' = real /\ received' = received) \/ KSend(current, Subject)
  BY DEF RunForward
<1>3. Subject \in Message \cup {Extra} /\ current \in Connection /\ current <= current
  BY <1>1, ForwardMeant
<1>4. TypeOK'
  <2>1. /\ real' \in [Connection -> RealConnection]
        /\ received' \in [Connection -> Seq(Message \cup {Extra})]
    <3>1. CASE real' = real /\ received' = received
      BY <1>1, <3>1 DEF TypeOK
    <3>2. CASE KSend(current, Subject)
      BY <1>1, <1>3, <3>2, ServerSent
    <3>3. QED
      BY <1>2, <3>1, <3>2
  <2>2. QED
    BY <1>1, <2>1, Taken DEF TypeOK, clientVars, sendVars, eventVars
<1>5. TasksMeant'
  BY <1>1, TakenMeant DEF sendVars, eventVars
<1>6. ListenersMeant' /\ Decided'
  BY <1>1 DEF ListenersMeant, Decided, Structure, clientVars, sendVars, eventVars
<1>7. ConnectionsKept'
  <2>1. CASE real' = real /\ received' = received
    BY <1>1, <2>1 DEF ConnectionsKept
  <2>2. CASE KSend(current, Subject)
    BY <1>1, <1>3, <2>2, SentConnections
  <2>3. QED
    BY <1>2, <2>1, <2>2
<1>8. QED
  BY <1>4, <1>5, <1>6, <1>7 DEF Structure

\* A message for the client waits for its "open", is heard or is dropped.
LEMMA DeliverMeant ==
  ASSUME Structure, RunDeliver
  PROVE  /\ Subject \in 1..mocks /\ Subject \in Message
         /\ Head(tasks) \in ToSet(tasks) /\ Head(tasks).do = "deliver"
         /\ \/ readyState = "CONNECTING" /\ early' = Append(early, Subject) /\ log' = log
            \/ readyState = "OPEN" /\ log' = Append(log, Mocked(Subject)) /\ early' = early
            \/ Ending(readyState) /\ early' = early /\ log' = log
<1>1. /\ TypeOK /\ TasksMeant /\ Head(tasks) \in ToSet(tasks)
      /\ Head(tasks).do = "deliver"
  BY Taken DEF Structure, RunDeliver
<1>2. Subject \in 1..mocks /\ Subject \in Message
  BY <1>1, BoundsAssumption DEF TasksMeant, Subject, TypeOK, Message
<1>3. readyState \in ReadyState
  BY <1>1 DEF TypeOK
<1>4. CASE Ending(readyState)
  BY <1>1, <1>2, <1>4 DEF RunDeliver
<1>5. CASE readyState = "CONNECTING"
  BY <1>1, <1>2, <1>5 DEF RunDeliver, WaitsForOpen, Ending
<1>6. CASE readyState = "OPEN"
  BY <1>1, <1>2, <1>6 DEF RunDeliver, WaitsForOpen, Ending
<1>7. QED
  BY <1>3, <1>4, <1>5, <1>6 DEF ReadyState, Ending

\* A mocked message reaches the client or waits for its "open".
LEMMA RunDeliverStructure ==
  ASSUME Structure, RunDeliver
  PROVE  Structure'
<1>1. /\ TypeOK /\ TasksMeant /\ Runs("deliver") /\ tasks' = Tail(tasks)
      /\ UNCHANGED <<readyState, dispatching, serverVars, sendVars, eventVars>>
  BY DEF Structure, RunDeliver
<1>2. early \in Seq(Message) /\ log \in Seq(Entry)
  BY <1>1 DEF TypeOK
<1>3. early' \in Seq(Message) /\ ToSet(early') \subseteq ToSet(early) \cup {Subject}
  <2>1. Subject \in Message /\ (early' = early \/ early' = Append(early, Subject))
    BY DeliverMeant
  <2>2. /\ Append(early, Subject) \in Seq(Message)
        /\ ToSet(Append(early, Subject)) = ToSet(early) \cup {Subject}
    BY <1>2, <2>1, AppendOrder
  <2>3. QED
    BY <1>2, <2>1, <2>2
<1>4. log' \in Seq(Entry)
  BY SMTT(30), <1>2, DeliverMeant, AppendOrder, Records
<1>5. TypeOK'
  BY <1>1, <1>3, <1>4, Taken DEF TypeOK, serverVars, sendVars, eventVars
<1>6. TasksMeant'
  BY <1>1, TakenMeant DEF sendVars, serverVars, eventVars
<1>7. ListenersMeant'
  BY <1>1, <1>3, DeliverMeant DEF ListenersMeant, Structure, serverVars, sendVars
<1>8. ConnectionsKept' /\ Decided'
  BY <1>1 DEF ConnectionsKept, Decided, Structure, serverVars, eventVars
<1>9. QED
  BY <1>5, <1>6, <1>7, <1>8 DEF Structure

\* The client is closed; handleMockClose hears of it next.
LEMMA RunCloseStructure ==
  ASSUME Structure, RunClose
  PROVE  Structure'
<1>1. /\ TypeOK /\ TasksMeant /\ Runs("close") /\ tasks' = Tail(tasks)
      /\ readyState' = "CLOSED" /\ log' = Append(log, Closed)
      /\ dispatching' = IF closeHooked THEN <<MockClose>> ELSE <<>>
      /\ UNCHANGED <<early, serverVars, sendVars, eventVars>>
  BY DEF Structure, RunClose
<1>2. /\ dispatching' \in Seq(ListenerLeft)
      /\ \A l \in ToSet(dispatching') : closeHooked /\ l.do = "mockClose"
  <2>1. MockClose \in ListenerLeft /\ MockClose.do = "mockClose"
    BY Records DEF MockClose
  <2>2. <<MockClose>> \in Seq(ListenerLeft) /\ ToSet(<<MockClose>>) = {MockClose}
    BY <2>1, SingleOrder
  <2>3. <<>> \in Seq(ListenerLeft) /\ ToSet(<<>>) = {}
    BY EmptyOrder
  <2>4. CASE closeHooked
    BY <1>1, <2>1, <2>2, <2>4
  <2>5. CASE ~closeHooked
    BY <1>1, <2>3, <2>5
  <2>6. QED
    BY <2>4, <2>5
<1>3. TypeOK'
  <2>1. log' \in Seq(Entry)
    BY <1>1, AppendOrder, Records DEF TypeOK
  <2>2. readyState' = "CLOSING" <=> Close \in ToSet(tasks')
    BY <1>1, Taken
  <2>3. tasks' \in Seq(Microtask) /\ readyState' \in ReadyState
    BY <1>1, Taken DEF ReadyState
  <2>4. QED
    BY <1>1, <1>2, <2>1, <2>2, <2>3 DEF TypeOK, serverVars, sendVars, eventVars
<1>4. TasksMeant'
  BY <1>1, TakenMeant DEF sendVars, serverVars, eventVars
<1>5. ListenersMeant'
  <2>1. closeHooked => current # 0
    BY DEF Structure, Decided
  <2>2. QED
    BY <1>1, <1>2, <2>1 DEF ListenersMeant, Structure, serverVars, sendVars
<1>6. ConnectionsKept' /\ Decided'
  BY <1>1, <1>2 DEF ConnectionsKept, Decided, Structure, serverVars, eventVars
<1>7. QED
  BY <1>3, <1>4, <1>5, <1>6 DEF Structure

\* The server handle hears of the end that server.close() made.
LEMMA RunServerClosedStructure ==
  ASSUME Structure, RunServerClosed
  PROVE  Structure'
<1>1. /\ TypeOK /\ TasksMeant /\ Runs("serverClosed") /\ tasks' = Tail(tasks)
      /\ serverCloses' = [serverCloses EXCEPT ![Subject] = @ + 1]
      /\ UNCHANGED <<clientVars, dispatching, real, current, closeHooked, mockAborted,
                     realAborted, received, sendVars, eventVars>>
  BY DEF Structure, RunServerClosed
<1>2. TypeOK'
  <2>1. PICK c : c = Subject
    OBVIOUS
  <2>2. c \in Connection
    <3>1. c \in 1..current
      BY <1>1, <2>1, Taken DEF TasksMeant, Subject
    <3>2. QED
      BY <1>1, <3>1, BoundsAssumption DEF TypeOK, Connection
  <2>3. serverCloses \in [Connection -> Nat]
    BY <1>1 DEF TypeOK
  <2>4. serverCloses' \in [Connection -> Nat]
    BY <1>1, <2>1, <2>2, <2>3
  <2>5. QED
    BY <1>1, <2>4, Taken DEF TypeOK, clientVars, sendVars, eventVars
<1>3. TasksMeant'
  BY <1>1, TakenMeant DEF sendVars, eventVars
<1>4. ListenersMeant' /\ ConnectionsKept' /\ Decided'
  BY <1>1 DEF ListenersMeant, ConnectionsKept, Decided, Structure, clientVars, sendVars,
              eventVars
<1>5. QED
  BY <1>2, <1>3, <1>4 DEF Structure

\* A listener is called, which leaves the connections' states as they are.
LEMMA CalledMeant ==
  ASSUME Structure, NEW do, Calls(do), dispatching' = Tail(dispatching),
         UNCHANGED <<sends, mocks, early, current>>
  PROVE  ListenersMeant'
<1>1. \A l \in ToSet(dispatching') : l \in ToSet(dispatching)
  BY Called DEF Structure
<1>2. QED
  BY <1>1 DEF Structure, ListenersMeant

\* A message that waited for the client's "open" is heard.
LEMMA CallMessageStructure ==
  ASSUME Structure, CallMessage
  PROVE  Structure'
<1>1. /\ TypeOK /\ Calls("message") /\ dispatching' = Tail(dispatching)
      /\ log' = Append(log, Mocked(Listener.of))
      /\ UNCHANGED <<readyState, early, tasks, serverVars, sendVars, eventVars>>
  BY DEF Structure, CallMessage
<1>2. Listener.of \in Message
  <2>1. Listener.of \in 1..mocks
    BY <1>1, Called DEF Structure, ListenersMeant
  <2>2. QED
    BY <1>1, <2>1, BoundsAssumption DEF TypeOK, Message
<1>3. log' \in Seq(Entry)
  BY <1>1, <1>2, AppendOrder, Records DEF TypeOK
<1>4. TypeOK'
  BY <1>1, <1>3, Called DEF TypeOK, serverVars, sendVars, eventVars
<1>5. ListenersMeant'
  BY <1>1, CalledMeant DEF sendVars, serverVars
<1>6. TasksMeant' /\ Decided'
  BY <1>1 DEF TasksMeant, Decided, Structure, serverVars, sendVars, eventVars
<1>7. ConnectionsKept'
  <2>1. \A l \in ToSet(dispatching') : l \in ToSet(dispatching)
    BY <1>1, Called
  <2>2. QED
    BY <1>1, <2>1 DEF ConnectionsKept, Structure, serverVars
<1>8. QED
  BY <1>4, <1>5, <1>6, <1>7 DEF Structure

\* A deferred message that is flushed reaches its connection, or is dropped.
LEMMA CallFlushDoes ==
  ASSUME Structure, CallFlush
  PROVE  /\ Listener \in ToSet(dispatching) /\ Listener.do = "flush"
         /\ Listener.of \in Message \cup {Extra}
         /\ Listener.on \in Connection /\ Listener.on \in 1..current
         /\ real[Listener.on].deferred = <<>>
         /\ real[Listener.on].state \notin {"NONE", "CONNECTING"}
         /\ received' \in [Connection -> Seq(Message \cup {Extra})]
         /\ \A d \in Connection : d # Listener.on => received'[d] = received[d]
         /\ \/ received' = received /\ real[Listener.on].state # "OPEN"
            \/ /\ received'[Listener.on] = Append(received[Listener.on], Listener.of)
               /\ real[Listener.on].state = "OPEN"
<1>1. /\ TypeOK /\ ListenersMeant /\ ConnectionsKept
      /\ Listener \in ToSet(dispatching) /\ Listener.do = "flush"
  BY Called DEF Structure, CallFlush
<1>2. PICK c, m : c = Listener.on /\ m = Listener.of
  OBVIOUS
<1>3. /\ m \in Message \cup {Extra} /\ c \in 1..current
      /\ real[c].deferred = <<>> /\ real[c].state \notin {"NONE", "CONNECTING"}
  BY <1>1, <1>2 DEF ListenersMeant, ConnectionsKept
<1>4. m \in Message \cup {Extra} /\ c \in Connection
  BY <1>1, <1>3, BoundsAssumption DEF TypeOK, Message, Extra, Connection
<1>5. received \in [Connection -> Seq(Message \cup {Extra})]
  BY <1>1 DEF TypeOK
<1>6. CASE real[c].state # "OPEN"
  <2>1. received' = received
    BY <1>2, <1>6 DEF CallFlush
  <2>2. QED
    BY <1>1, <1>2, <1>3, <1>4, <1>5, <1>6, <2>1
<1>7. CASE real[c].state = "OPEN"
  <2>1. received' = [received EXCEPT ![c] = Append(@, m)]
    BY <1>2, <1>7 DEF CallFlush
  <2>2. received'[c] = Append(received[c], m)
    BY <1>4, <1>5, <2>1
  <2>3. Append(received[c], m) \in Seq(Message \cup {Extra})
    BY <1>4, <1>5, AppendOrder
  <2>4. received' \in [Connection -> Seq(Message \cup {Extra})]
    BY <1>4, <1>5, <2>1, <2>3
  <2>5. \A d \in Connection : d # c => received'[d] = received[d]
    BY <1>5, <2>1
  <2>6. QED
    BY <1>1, <1>2, <1>3, <1>4, <1>7, <2>2, <2>4, <2>5
<1>8. QED
  BY <1>6, <1>7

\* A message that waited for a connection is sent to it.
LEMMA CallFlushStructure ==
  ASSUME Structure, CallFlush
  PROVE  Structure'
<1>1. /\ TypeOK /\ Calls("flush") /\ dispatching' = Tail(dispatching)
      /\ UNCHANGED <<clientVars, tasks, real, current, closeHooked, mockAborted, realAborted,
                     serverCloses, sendVars, eventVars>>
  BY DEF Structure, CallFlush
<1>2. TypeOK'
  BY <1>1, CallFlushDoes, Called DEF TypeOK, clientVars, sendVars, eventVars
<1>3. ListenersMeant'
  BY <1>1, CalledMeant DEF sendVars, clientVars
<1>4. TasksMeant' /\ Decided'
  BY <1>1 DEF TasksMeant, Decided, Structure, sendVars, eventVars
<1>5. ConnectionsKept'
  <2>1. \A l \in ToSet(dispatching') : l \in ToSet(dispatching)
    BY <1>1, Called
  <2>2. ASSUME NEW c \in Connection
        PROVE  /\ real[c].state \in {"NONE", "CONNECTING"} => received'[c] = <<>>
               /\ received'[c] = <<>> \/ real[c].deferred = <<>>
    BY CallFlushDoes DEF Structure, ConnectionsKept
  <2>3. QED
    BY <1>1, <2>1, <2>2 DEF ConnectionsKept, Structure
<1>6. QED
  BY <1>2, <1>3, <1>4, <1>5 DEF Structure

\* handleMockClose() closes the last connection, which the client's end has found.
LEMMA CallMockCloseStructure ==
  ASSUME Structure, CallMockClose
  PROVE  Structure'
<1>1. /\ TypeOK /\ Calls("mockClose") /\ dispatching' = Tail(dispatching)
      /\ real' = RealClose(current, "client")
      /\ UNCHANGED <<clientVars, tasks, current, closeHooked, mockAborted, realAborted,
                     received, serverCloses, sendVars, eventVars>>
  BY DEF Structure, CallMockClose
<1>2. current \in Connection
  <2>1. current # 0
    BY <1>1, Called DEF Structure, ListenersMeant
  <2>2. QED
    BY <1>1, <2>1, BoundsAssumption DEF TypeOK, Connection
<1>3. TypeOK'
  BY <1>1, <1>2, RealClosed, Called DEF TypeOK, clientVars, sendVars, eventVars
<1>4. ListenersMeant'
  BY <1>1, CalledMeant DEF sendVars, clientVars
<1>5. TasksMeant' /\ Decided'
  BY <1>1 DEF TasksMeant, Decided, Structure, sendVars, eventVars
<1>6. ConnectionsKept'
  <2>1. \A l \in ToSet(dispatching') : l \in ToSet(dispatching)
    BY <1>1, Called
  <2>2. real[current].state # "NONE"
    BY <1>1, <1>2, BoundsAssumption DEF Structure, ConnectionsKept, Connection
  <2>3. \A c \in Connection :
          /\ real'[c].state = "NONE" <=> real[c].state = "NONE"
          /\ real'[c].deferred = real[c].deferred
          /\ real'[c].state \in {"CONNECTING", "OPEN"} => real'[c] = real[c]
          /\ real'[c].closer = "nobody" <=> real'[c].state \in {"NONE", "CONNECTING", "OPEN"}
    <3>1. CASE Ending(real[current].state)
      BY <1>1, <1>2, <3>1, RealClosed DEF Structure, ConnectionsKept
    <3>2. CASE ~Ending(real[current].state)
      <4>1. /\ real'[current].state = "CLOSING" /\ real'[current].closer = "client"
            /\ real'[current].deferred = real[current].deferred
            /\ \A c \in Connection : c # current => real'[c] = real[c]
        BY <1>1, <1>2, <3>2, RealClosed
      <4>2. QED
        BY <2>2, <4>1 DEF Structure, ConnectionsKept
    <3>3. QED
      BY <3>1, <3>2
  <2>4. \A l \in ToSet(dispatching') : l.do = "flush" => l.on \in Connection
    <3>1. \A n \in 1..current : n \in Connection
      BY <1>1, BoundsAssumption DEF Connection, TypeOK
    <3>2. QED
      BY <2>1, <3>1 DEF Structure, ListenersMeant
  <2>5. \A c \in Connection : real'[c].state = "CONNECTING" => real[c].state = "CONNECTING"
    BY <2>3
  <2>6. QED
    BY <1>1, <2>1, <2>3, <2>4, <2>5 DEF ConnectionsKept, Structure
<1>7. QED
  BY <1>3, <1>4, <1>5, <1>6 DEF Structure

\* What the opening of a real connection does to it.
LEMMA RealOpensDoes ==
  ASSUME Structure, NEW c \in Connection, RealOpens(c)
  PROVE  /\ real' \in [Connection -> RealConnection]
         /\ real'[c].state = "OPEN" /\ real'[c].deferred = <<>>
         /\ real[c].state = "CONNECTING" /\ real[c].closer = "nobody"
         /\ received[c] = <<>> /\ c \in 1..current
         /\ \A d \in Connection :
              /\ d # c => real'[d] = real[d]
              /\ real'[d].late = real[d].late /\ real'[d].kept = real[d].kept
              /\ real'[d].hooked = real[d].hooked /\ real'[d].closer = real[d].closer
         /\ dispatching' \in Seq(ListenerLeft)
         /\ \A l \in ToSet(dispatching') :
              l.do = "flush" /\ l.on = c /\ l.of \in ToSet(real[c].deferred)
         /\ \A m \in ToSet(real[c].deferred) :
              \E l \in ToSet(dispatching') : l.do = "flush" /\ l.of = m /\ l.on = c
         /\ \A k, l : Precedes(dispatching', k, l) => Precedes(real[c].deferred, k.of, l.of)
<1>1. /\ TypeOK /\ real[c].state = "CONNECTING" /\ real \in [Connection -> RealConnection]
      /\ real' = [real EXCEPT ![c].state = "OPEN", ![c].deferred = <<>>]
      /\ dispatching' = Left("flush", real[c].deferred, c)
  BY DEF Structure, TypeOK, RealOpens, Left
<1>2. real'[c] = [real[c] EXCEPT !.state = "OPEN", !.deferred = <<>>]
  BY <1>1
<1>3. /\ real'[c] \in RealConnection
      /\ real'[c].state = "OPEN" /\ real'[c].deferred = <<>>
      /\ real'[c].late = real[c].late /\ real'[c].kept = real[c].kept
      /\ real'[c].hooked = real[c].hooked /\ real'[c].closer = real[c].closer
  BY ZenonT(60), <1>1, <1>2, EmptyOrder DEF RealConnection, ReadyState
<1>4. \A d \in Connection : d # c => real'[d] = real[d]
  BY <1>1
<1>5. real' \in [Connection -> RealConnection]
  BY <1>1, <1>3, <1>4
<1>6. /\ real[c].closer = "nobody" /\ received[c] = <<>> /\ c \in 1..current
  <2>1. ~(c > current) /\ real[c].closer = "nobody" /\ received[c] = <<>>
    BY <1>1 DEF Structure, ConnectionsKept
  <2>2. current \in Nat
    BY <1>1 DEF TypeOK
  <2>3. QED
    BY <2>1, <2>2, BoundsAssumption DEF Connection
<1>7. c \in 0..MaxConnections /\ real[c].deferred \in Seq(Message \cup {Extra})
  BY <1>1, ConnectionParts, BoundsAssumption DEF Connection
<1>8. "flush" \in {"message", "flush"}
  OBVIOUS
<1>9. PICK s : s = real[c].deferred
  OBVIOUS
<1>10. /\ dispatching' \in Seq(ListenerLeft)
       /\ \A l \in ToSet(dispatching') : l.do = "flush" /\ l.on = c /\ l.of \in ToSet(s)
       /\ \A m \in ToSet(s) :
            \E l \in ToSet(dispatching') : l.do = "flush" /\ l.of = m /\ l.on = c
       /\ \A k, l : Precedes(dispatching', k, l) => Precedes(s, k.of, l.of)
  <2>1. PICK q : q = dispatching'
    OBVIOUS
  <2>2. q = Left("flush", s, c) /\ s \in Seq(Message \cup {Extra})
    BY <1>1, <1>7, <1>9, <2>1
  <2>3. /\ q \in Seq(ListenerLeft)
        /\ \A l \in ToSet(q) : l.do = "flush" /\ l.on = c /\ l.of \in ToSet(s)
        /\ \A m \in ToSet(s) : \E l \in ToSet(q) : l.do = "flush" /\ l.of = m /\ l.on = c
        /\ \A k, l : Precedes(q, k, l) => Precedes(s, k.of, l.of)
    BY <2>2, FlushOrder DEF Leaves
  <2>4. QED
    BY <2>1, <2>3
<1>11. QED
  BY <1>1, <1>3, <1>4, <1>5, <1>6, <1>9, <1>10

\* Nothing is left to run when an event of a real connection comes.
LEMMA IdleHoldsNothing ==
  ASSUME Idle
  PROVE  /\ ToSet(tasks) = {} /\ ToSet(dispatching) = {}
         /\ \A a, b : ~Precedes(tasks, a, b) /\ ~Precedes(dispatching, a, b)
  BY EmptyOrder DEF Idle

\* A connection opens, and what waited for it is flushed.
LEMMA RealOpensStructure ==
  ASSUME Structure, NEW c \in Connection, RealOpens(c)
  PROVE  Structure'
<1>1. /\ TypeOK
      /\ log' = IF phase = "passthrough" THEN Append(log, Opened) ELSE log
      /\ UNCHANGED <<readyState, early, tasks, current, closeHooked, mockAborted, realAborted,
                     received, serverCloses, sendVars, eventVars>>
  BY DEF Structure, RealOpens
<1>2. TypeOK'
  <2>1. log' \in Seq(Entry)
    BY <1>1, AppendOrder, Records DEF TypeOK
  <2>2. QED
    BY <1>1, <2>1, RealOpensDoes DEF TypeOK, sendVars, eventVars
<1>3. TasksMeant' /\ Decided'
  BY <1>1 DEF TasksMeant, Decided, Structure, sendVars, eventVars
<1>4. ListenersMeant'
  <2>1. \A l \in ToSet(dispatching') : l.of \in Message \cup {Extra}
    <3>1. \A l \in ToSet(dispatching') : l.of \in ToSet(real[c].deferred)
      BY RealOpensDoes
    <3>2. ToSet(real[c].deferred) \subseteq Message \cup {Extra}
      BY <1>1, ConnectionParts, ElementsOf
    <3>3. QED
      BY <3>1, <3>2
  <2>2. QED
    BY <1>1, <2>1, RealOpensDoes DEF ListenersMeant, Structure, sendVars
<1>5. ConnectionsKept'
  <2>1. ASSUME NEW d \in Connection
        PROVE  /\ d > current' <=> real'[d].state = "NONE"
               /\ real'[d].closer = "nobody" <=>
                    real'[d].state \in {"NONE", "CONNECTING", "OPEN"}
               /\ real'[d].state = "OPEN" => real'[d].deferred = <<>>
               /\ real'[d].state \in {"NONE", "CONNECTING"} => received'[d] = <<>>
               /\ received'[d] = <<>> \/ real'[d].deferred = <<>>
    <3>1. CASE d = c
      <4>1. ~(c > current)
        BY <1>1, RealOpensDoes DEF Structure, ConnectionsKept
      <4>2. QED
        BY <1>1, <3>1, <4>1, RealOpensDoes
    <3>2. CASE d # c
      BY <1>1, <3>2, RealOpensDoes DEF Structure, ConnectionsKept
    <3>3. QED
      BY <3>1, <3>2
  <2>2. \A l \in ToSet(dispatching') : real'[l.on].deferred = <<>> /\ real'[l.on].state = "OPEN"
    BY RealOpensDoes
  <2>3. QED
    BY <2>1, <2>2 DEF ConnectionsKept
<1>6. QED
  BY <1>2, <1>3, <1>4, <1>5 DEF Structure

\* What the end of a real connection does to it.
LEMMA RealClosesDoes ==
  ASSUME Structure, NEW c \in Connection, NEW prevents \in BOOLEAN, RealCloses(c, prevents)
  PROVE  /\ real' \in [Connection -> RealConnection] /\ c \in 1..current
         /\ real[c].state \in {"CONNECTING", "OPEN", "CLOSING"}
         /\ real'[c].state = "CLOSED" /\ real'[c].kept = prevents
         /\ real'[c].closer = IF real[c].closer = "nobody" THEN "server" ELSE real[c].closer
         /\ \A d \in Connection :
              /\ d # c => real'[d] = real[d]
              /\ real'[d].late = real[d].late /\ real'[d].hooked = real[d].hooked
              /\ real'[d].deferred = real[d].deferred
<1> DEFINE by == IF real[c].closer = "nobody" THEN "server" ELSE real[c].closer
<1>1. /\ TypeOK /\ real[c].state \in {"CONNECTING", "OPEN", "CLOSING"}
      /\ real \in [Connection -> RealConnection]
      /\ real' = [real EXCEPT ![c].state = "CLOSED", ![c].closer = by, ![c].kept = prevents]
  BY DEF Structure, TypeOK, RealCloses
<1>2. by \in {"nobody", "client", "interceptor", "server"}
  BY <1>1, ConnectionParts
<1> HIDE DEF by
<1>3. real'[c] = [real[c] EXCEPT !.state = "CLOSED", !.closer = by, !.kept = prevents]
  BY <1>1
<1>4. /\ real'[c] \in RealConnection
      /\ real'[c].state = "CLOSED" /\ real'[c].closer = by /\ real'[c].kept = prevents
      /\ real'[c].late = real[c].late /\ real'[c].hooked = real[c].hooked
      /\ real'[c].deferred = real[c].deferred
  <2>1. real[c] \in RealConnection
    BY <1>1
  <2>2. real'[c] \in RealConnection
    BY <1>2, <1>3, <2>1 DEF RealConnection, ReadyState
  <2>3. /\ real'[c].state = "CLOSED" /\ real'[c].closer = by
        /\ real'[c].deferred = real[c].deferred
    BY <1>3, <2>1 DEF RealConnection
  <2>4. real'[c].late = real[c].late /\ real'[c].hooked = real[c].hooked
    BY <1>3, <2>1 DEF RealConnection
  <2>5. real'[c].kept = prevents
    BY <1>3, <2>1 DEF RealConnection
  <2>6. QED
    BY <2>2, <2>3, <2>4, <2>5
<1>5. \A d \in Connection : d # c => real'[d] = real[d]
  BY <1>1
<1>6. real' \in [Connection -> RealConnection]
  BY <1>1, <1>4, <1>5
<1>7. c \in 1..current
  <2>1. ~(c > current)
    BY <1>1 DEF Structure, ConnectionsKept
  <2>2. current \in Nat
    BY <1>1 DEF TypeOK
  <2>3. QED
    BY <2>1, <2>2, BoundsAssumption DEF Connection
<1>8. QED
  BY <1>1, <1>4, <1>5, <1>6, <1>7 DEF by

\* A connection ends, and the client with it if the connection is hooked.
LEMMA RealClosesStructure ==
  ASSUME Structure, NEW c \in Connection, NEW prevents \in BOOLEAN, RealCloses(c, prevents)
  PROVE  Structure'
<1>1. /\ TypeOK /\ TasksMeant
      /\ KClose(tasks) \/ UNCHANGED <<readyState, tasks>>
      /\ UNCHANGED <<early, log, dispatching, current, realAborted, received, sendVars,
                     eventVars>>
  BY DEF Structure, RealCloses
<1>2. /\ mockAborted' \in BOOLEAN /\ closeHooked' \in BOOLEAN
      /\ serverCloses' \in [Connection -> Nat]
  <2>1. /\ mockAborted \in BOOLEAN /\ closeHooked \in BOOLEAN
        /\ serverCloses \in [Connection -> Nat]
    BY <1>1 DEF TypeOK
  <2>2. CASE real[c].hooked
    <3>1. serverCloses' = [serverCloses EXCEPT ![c] = @ + 1]
      BY <2>2 DEF RealCloses
    <3>2. serverCloses' \in [Connection -> Nat]
      BY <2>1, <3>1
    <3>3. mockAborted' \in BOOLEAN /\ closeHooked' \in BOOLEAN
      BY <2>2 DEF RealCloses
    <3>4. QED
      BY <3>2, <3>3
  <2>3. CASE ~real[c].hooked
    <3>1. UNCHANGED <<mockAborted, closeHooked, serverCloses>>
      BY <2>3 DEF RealCloses
    <3>2. mockAborted' = mockAborted /\ closeHooked' = closeHooked /\ serverCloses' = serverCloses
      BY <3>1
    <3>3. QED
      BY <2>1, <3>2, Zenon
  <2>4. QED
    BY <2>2, <2>3
<1>3. TypeOK'
  <2>1. /\ readyState' \in ReadyState /\ tasks' \in Seq(Microtask)
        /\ readyState' = "CLOSING" <=> Close \in ToSet(tasks')
    <3>1. CASE KClose(tasks)
      BY <1>1, <3>1, ClientClosed
    <3>2. CASE UNCHANGED <<readyState, tasks>>
      BY <1>1, <3>2 DEF TypeOK
    <3>3. QED
      BY <1>1, <3>1, <3>2
  <2>2. QED
    BY <1>1, <1>2, <2>1, RealClosesDoes DEF TypeOK, sendVars, eventVars
<1>4. TasksMeant'
  <2>1. CASE KClose(tasks)
    BY <1>1, <2>1, ClientClosed DEF TasksMeant, sendVars, eventVars
  <2>2. CASE UNCHANGED <<readyState, tasks>>
    BY <1>1, <2>2 DEF TasksMeant, sendVars, eventVars
  <2>3. QED
    BY <1>1, <2>1, <2>2
<1>5. ListenersMeant'
  BY <1>1 DEF ListenersMeant, Structure, sendVars
<1>6. Decided'
  <2>1. current # 0
    BY RealClosesDoes
  <2>2. QED
    BY <1>1, <2>1 DEF Decided, Structure, eventVars
<1>7. ConnectionsKept'
  <2>1. dispatching' = <<>>
    BY <1>1 DEF RealCloses, Idle
  <2>2. ASSUME NEW d \in Connection
        PROVE  /\ d > current' <=> real'[d].state = "NONE"
               /\ real'[d].closer = "nobody" <=>
                    real'[d].state \in {"NONE", "CONNECTING", "OPEN"}
               /\ real'[d].state = "OPEN" => real'[d].deferred = <<>>
               /\ real'[d].state \in {"NONE", "CONNECTING"} => received'[d] = <<>>
               /\ received'[d] = <<>> \/ real'[d].deferred = <<>>
    <3>1. CASE d = c
      <4>1. /\ ~(c > current) /\ real'[c].closer # "nobody"
            /\ received[c] = <<>> \/ real[c].deferred = <<>>
        BY RealClosesDoes DEF Structure, ConnectionsKept
      <4>2. QED
        BY <1>1, <3>1, <4>1, RealClosesDoes
    <3>2. CASE d # c
      BY <1>1, <3>2, RealClosesDoes DEF Structure, ConnectionsKept
    <3>3. QED
      BY <3>1, <3>2
  <2>3. QED
    BY <2>1, <2>2, EmptyOrder DEF ConnectionsKept
<1>8. QED
  BY <1>3, <1>4, <1>5, <1>6, <1>7 DEF Structure

\* Which of these kinds a step of the handles and of the application is.
LEMMA StepKinds ==
  ASSUME Structure
  PROVE  /\ AppCloses \/ MockCloses \/ ListenersThrow(TRUE) => ClosesClient
         /\ ServerConnects \/ PassesThrough => ConnectsServer
         /\ ListenersThrow(FALSE) => phase' = "failed"
<1>1. AppCloses \/ MockCloses \/ ListenersThrow(TRUE) => ClosesClient
  BY DEF AppCloses, MockCloses, ListenersThrow, ClosesClient, eventVars
<1>2. current \in 0..MaxConnections /\ listened \in BOOLEAN
  BY DEF Structure, TypeOK
<1>3. ServerConnects => ConnectsServer
  BY <1>2 DEF ServerConnects, MayConnect, Handled, ConnectsServer, eventVars
<1>4. ASSUME PassesThrough
      PROVE  ConnectsServer
  <2>1. current = 0
    BY <1>4 DEF PassesThrough, Structure, Decided
  <2>2. current < MaxConnections
    BY <2>1, BoundsAssumption
  <2>3. QED
    BY <1>4, <2>2 DEF PassesThrough, ConnectsServer
<1>5. ListenersThrow(FALSE) => phase' = "failed"
  BY DEF ListenersThrow
<1>6. QED
  BY <1>1, <1>3, <1>4, <1>5

\* The structure is there from the start, and every step keeps it.
LEMMA InitStructure ==
  ASSUME Init
  PROVE  Structure
<1> DEFINE t == [do |-> "connection", of |-> 0]
<1>1. tasks = <<t>> /\ t \in Microtask /\ t.do = "connection" /\ t # Close
  BY DEF Init, Microtask, Close
<1> HIDE DEF t
<1>2. /\ tasks \in Seq(Microtask) /\ ToSet(tasks) = {t}
      /\ \A a, b : ~Precedes(tasks, a, b)
  BY <1>1, SingleOrder
<1>3. /\ dispatching = <<>> /\ early = <<>> /\ log = <<>>
      /\ real = [c \in Connection |-> NoConnection]
      /\ received = [c \in Connection |-> <<>>]
      /\ serverCloses = [c \in Connection |-> 0]
  BY DEF Init
<1>4. TypeOK
  <2>1. /\ real \in [Connection -> RealConnection]
        /\ received \in [Connection -> Seq(Message \cup {Extra})]
        /\ serverCloses \in [Connection -> Nat]
    BY <1>3, Records, EmptyOrder
  <2>2. /\ dispatching \in Seq(ListenerLeft) /\ early \in Seq(Message) /\ log \in Seq(Entry)
    BY <1>3, EmptyOrder
  <2>3. readyState = "CLOSING" <=> Close \in ToSet(tasks)
    BY <1>1, <1>2 DEF Init
  <2>4. /\ sends \in Nat /\ mocks \in Nat /\ serverSends \in Nat
        /\ sends + mocks + serverSends <= MaxMessages /\ current \in 0..MaxConnections
    BY BoundsAssumption DEF Init
  <2>5. QED
    BY <1>2, <2>1, <2>2, <2>3, <2>4 DEF Init, TypeOK, ReadyState
<1>5. TasksMeant
  BY <1>1, <1>2 DEF Init, TasksMeant
<1>6. ListenersMeant
  BY <1>3, EmptyOrder DEF ListenersMeant
<1>7. ConnectionsKept
  <2>1. \A c \in Connection : c > current
    BY DEF Init, Connection
  <2>2. \A c \in Connection : /\ real[c].state = "NONE" /\ real[c].closer = "nobody"
                              /\ received[c] = <<>>
    BY <1>3 DEF NoConnection
  <2>3. QED
    BY <1>3, <2>1, <2>2, EmptyOrder DEF ConnectionsKept
<1>8. Decided
  BY DEF Init, Decided
<1>9. QED
  BY <1>4, <1>5, <1>6, <1>7, <1>8 DEF Structure

\* Every step keeps the structure.
LEMMA StepStructure ==
  ASSUME Structure, [Next]_vars
  PROVE  Structure'
<1>1. CASE Application
  BY <1>1, StepKinds, AppSendsStructure, ClosesClientStructure DEF Application
<1>2. CASE Interceptor
  <2>1. CASE MockSends
    BY <2>1, MockSendsStructure
  <2>2. CASE MockCloses \/ ListenersThrow(TRUE)
    BY <2>2, StepKinds, ClosesClientStructure
  <2>3. CASE ServerConnects
    BY <2>3, StepKinds, ConnectsServerStructure
  <2>4. CASE ServerSends
    BY <2>4, ServerSendsStructure
  <2>5. CASE ServerCloses
    BY <2>5, ServerClosesStructure
  <2>6. CASE ListenersEnd \/ ListenersThrow(FALSE)
    BY <2>6, StepKinds, ListenersEndStructure
  <2>7. QED
    BY <1>2, <2>1, <2>2, <2>3, <2>4, <2>5, <2>6 DEF Interceptor
<1>3. CASE Library
  <2>1. CASE RunConnection \/ RunOpen \/ RunForward
    BY <2>1, RunConnectionStructure, RunOpenStructure, RunForwardStructure
  <2>2. CASE RunDeliver \/ RunClose \/ RunServerClosed
    BY <2>2, RunDeliverStructure, RunCloseStructure, RunServerClosedStructure
  <2>3. CASE \E prevents \in BOOLEAN : RunOutgoing(prevents)
    BY <2>3, RunOutgoingStructure
  <2>4. CASE CallMessage \/ CallFlush \/ CallMockClose
    BY <2>4, CallMessageStructure, CallFlushStructure, CallMockCloseStructure
  <2>5. CASE PassesThrough
    BY <2>5, StepKinds, ConnectsServerStructure
  <2>6. QED
    BY <1>3, <2>1, <2>2, <2>3, <2>4, <2>5 DEF Library
<1>4. CASE OriginalServer
  BY <1>4, RealOpensStructure, RealClosesStructure DEF OriginalServer
<1>5. CASE UNCHANGED vars
  <2>1. /\ UNCHANGED <<clientVars, taskVars>> /\ UNCHANGED <<serverVars, sendVars, eventVars>>
    BY <1>5 DEF vars
  <2>2. TypeOK'
    BY <2>1 DEF Structure, TypeOK, clientVars, taskVars, serverVars, sendVars, eventVars
  <2>3. TasksMeant' /\ ListenersMeant'
    BY <2>1 DEF Structure, TasksMeant, ListenersMeant, clientVars, taskVars, serverVars,
                sendVars, eventVars
  <2>4. ConnectionsKept' /\ Decided'
    BY <2>1 DEF Structure, ConnectionsKept, Decided, taskVars, serverVars, eventVars
  <2>5. QED
    BY <2>2, <2>3, <2>4 DEF Structure
<1>6. QED
  BY <1>1, <1>2, <1>3, <1>4, <1>5 DEF Next

\* Every state has the structure.
LEMMA StructureHolds == Spec => []Structure
  BY InitStructure, StepStructure, PTL DEF Spec

\* The variables keep their types; a client is closing exactly while a microtask
\* is queued that closes it.
THEOREM TypeCorrectness == Spec => []TypeOK
<1>1. Structure => TypeOK
  BY DEF Structure
<1>2. QED
  BY <1>1, StructureHolds, PTL

-----------------------------------------------------------------------------
(* What the steps leave of the queues.                                       *)

\* No microtask of a kind is queued, those that were keep their order.
Unqueued(do) ==
  /\ \A t \in ToSet(tasks') : t.do = do => t \in ToSet(tasks)
  /\ \A t, u : Precedes(tasks', t, u) /\ t.do = do /\ u.do = do => Precedes(tasks, t, u)

\* The listeners of a kind left to run were there before, in their order.
Uncalled(do) ==
  /\ \A l \in ToSet(dispatching') : l.do = do => l \in ToSet(dispatching)
  /\ \A k, l : Precedes(dispatching', k, l) /\ k.do = do /\ l.do = do =>
       Precedes(dispatching, k, l)

\* None of the microtasks that carry a message or a report is queued.
NoneQueued ==
  /\ Unqueued("outgoing") /\ Unqueued("forward")
  /\ Unqueued("deliver") /\ Unqueued("serverClosed")

\* No message is left to a listener that was not.
NoneCalled == Uncalled("message") /\ Uncalled("flush")

\* Queues that are left alone, lose their first entry, or are empty.
LEMMA QuietQueues ==
  ASSUME Structure
  PROVE  /\ UNCHANGED tasks => NoneQueued
         /\ \A do \in {"connection", "open", "forward", "deliver", "close", "serverClosed"} :
              Runs(do) /\ tasks' = Tail(tasks) => NoneQueued
         /\ KClose(tasks) => NoneQueued
         /\ UNCHANGED dispatching => NoneCalled
         /\ \A do \in {"message", "flush", "mockClose"} :
              Calls(do) /\ dispatching' = Tail(dispatching) => NoneCalled
<1>1. TypeOK /\ TasksMeant
  BY DEF Structure
<1>2. UNCHANGED tasks => NoneQueued
  BY DEF NoneQueued, Unqueued
<1>3. ASSUME NEW do, Runs(do), tasks' = Tail(tasks)
      PROVE  NoneQueued
  <2>1. /\ \A t \in ToSet(tasks') : t \in ToSet(tasks)
        /\ \A t, u : Precedes(tasks', t, u) => Precedes(tasks, t, u)
    BY <1>1, <1>3, Taken
  <2>2. QED
    BY <2>1 DEF NoneQueued, Unqueued
<1>4. ASSUME KClose(tasks)
      PROVE  NoneQueued
  <2>1. /\ \A t \in ToSet(tasks') : t \in ToSet(tasks) \/ t.do = "close"
        /\ \A t, u : Precedes(tasks', t, u) => Precedes(tasks, t, u) \/ u.do = "close"
    BY <1>1, <1>4, ClientClosed
  <2>2. QED
    BY <2>1 DEF NoneQueued, Unqueued
<1>5. UNCHANGED dispatching => NoneCalled
  BY DEF NoneCalled, Uncalled
<1>6. ASSUME NEW do, Calls(do), dispatching' = Tail(dispatching)
      PROVE  NoneCalled
  <2>1. /\ \A l \in ToSet(dispatching') : l \in ToSet(dispatching)
        /\ \A k, l : Precedes(dispatching', k, l) => Precedes(dispatching, k, l)
    BY <1>1, <1>6, Called
  <2>2. QED
    BY <2>1 DEF NoneCalled, Uncalled
<1>7. QED
  BY <1>2, <1>3, <1>4, <1>5, <1>6

\* The messages that waited for the client's "open" are dispatched next.
LEMMA RunOpenCalls ==
  ASSUME Structure, RunOpen
  PROVE  \/ /\ readyState # "CONNECTING"
            /\ UNCHANGED <<readyState, early, log, dispatching>>
         \/ /\ readyState = "CONNECTING" /\ readyState' = "OPEN"
            /\ log' = Append(log, Opened) /\ early' = <<>>
            /\ \A l \in ToSet(dispatching') : l.do = "message" /\ l.of \in ToSet(early)
            /\ \A k, l : Precedes(dispatching', k, l) =>
                 k.do = "message" /\ Precedes(early, k.of, l.of)
<1>1. CASE readyState # "CONNECTING"
  BY <1>1 DEF RunOpen, clientVars
<1>2. CASE readyState = "CONNECTING"
  <2>1. /\ readyState' = "OPEN" /\ log' = Append(log, Opened) /\ early' = <<>>
        /\ dispatching' = Left("message", early, 0)
    BY <1>2 DEF RunOpen, Left
  <2>2. early \in Seq(Message \cup {Extra}) /\ 0 \in 0..MaxConnections
    BY BoundsAssumption DEF Structure, TypeOK
  <2>3. /\ dispatching' \in Seq(ListenerLeft)
        /\ \A l \in ToSet(dispatching') : l.do = "message" /\ l.of \in ToSet(early)
        /\ \A k, l : Precedes(dispatching', k, l) => Precedes(early, k.of, l.of)
    BY <2>1, <2>2, LeftOrder DEF Leaves
  <2>4. \A k, l : Precedes(dispatching', k, l) => k \in ToSet(dispatching')
    BY <2>3, ElementsOf
  <2>5. QED
    BY <1>2, <2>1, <2>3, <2>4
<1>3. QED
  BY <1>1, <1>2

\* What the steps that do not run a message's microtask leave of the queues.
LEMMA QueueSteps ==
  ASSUME Structure
  PROVE  /\ AppSends => Unqueued("forward") /\ Unqueued("deliver") /\ Unqueued("serverClosed")
         /\ MockSends => Unqueued("outgoing") /\ Unqueued("forward") /\ Unqueued("serverClosed")
         /\ ServerCloses => Unqueued("outgoing") /\ Unqueued("forward") /\ Unqueued("deliver")
         /\ ListenersEnd => NoneQueued
         /\ \A prevents \in BOOLEAN : RunOutgoing(prevents) =>
              Unqueued("outgoing") /\ Unqueued("deliver") /\ Unqueued("serverClosed")
         /\ \A c \in Connection, prevents \in BOOLEAN : RealCloses(c, prevents) => NoneQueued
         /\ \A c \in Connection : RealOpens(c) => Uncalled("message")
         /\ RunOpen => Uncalled("flush")
         /\ RunClose => NoneCalled
<1>1. TypeOK /\ TasksMeant
  BY DEF Structure
<1>2. ASSUME NEW t \in Microtask, tasks' = Append(tasks, t)
      PROVE  /\ t.do # "outgoing" => Unqueued("outgoing")
             /\ t.do # "forward" => Unqueued("forward")
             /\ t.do # "deliver" => Unqueued("deliver")
             /\ t.do # "serverClosed" => Unqueued("serverClosed")
  <2>1. /\ \A u \in ToSet(tasks') : u \in ToSet(tasks) \/ u = t
        /\ \A a, b : Precedes(tasks', a, b) => Precedes(tasks, a, b) \/ b = t
    BY <1>1, <1>2, AppendOrder DEF TypeOK
  <2>2. QED
    BY <2>1 DEF Unqueued
<1>3. AppSends => Unqueued("forward") /\ Unqueued("deliver") /\ Unqueued("serverClosed")
  <2> SUFFICES ASSUME AppSends
               PROVE  Unqueued("forward") /\ Unqueued("deliver") /\ Unqueued("serverClosed")
    OBVIOUS
  <2>1. /\ \A t \in ToSet(tasks') : t \in ToSet(tasks) \/ t.do \in {"close", "outgoing"}
        /\ \A t, u : Precedes(tasks', t, u) =>
             Precedes(tasks, t, u) \/ u.do \in {"close", "outgoing"}
    BY <1>1, AppSendsQueues
  <2>2. QED
    BY <2>1 DEF Unqueued
<1>4. MockSends => Unqueued("outgoing") /\ Unqueued("forward") /\ Unqueued("serverClosed")
  <2> SUFFICES ASSUME MockSends
               PROVE  Unqueued("outgoing") /\ Unqueued("forward") /\ Unqueued("serverClosed")
    OBVIOUS
  <2>1. PICK t : t = [do |-> "deliver", of |-> mocks']
    OBVIOUS
  <2>2. t \in Microtask /\ t.do = "deliver" /\ tasks' = Append(tasks, t)
    <3>1. mocks' \in Nat
      BY <1>1 DEF MockSends, TypeOK
    <3>2. QED
      BY <2>1, <3>1, Records DEF MockSends
  <2>3. QED
    BY <1>2, <2>2
<1>5. ServerCloses => Unqueued("outgoing") /\ Unqueued("forward") /\ Unqueued("deliver")
  <2> SUFFICES ASSUME ServerCloses
               PROVE  Unqueued("outgoing") /\ Unqueued("forward") /\ Unqueued("deliver")
    OBVIOUS
  <2>1. PICK t : t = [do |-> "serverClosed", of |-> current]
    OBVIOUS
  <2>2. t \in Microtask /\ t.do = "serverClosed"
    <3>1. current \in Nat
      BY <1>1, BoundsAssumption DEF TypeOK
    <3>2. QED
      BY <2>1, <3>1, Records
  <2>3. tasks' = tasks \/ tasks' = Append(tasks, t)
    BY <2>1 DEF ServerCloses
  <2>4. CASE tasks' = tasks
    BY <2>4, QuietQueues DEF NoneQueued
  <2>5. CASE tasks' = Append(tasks, t)
    BY <1>2, <2>2, <2>5
  <2>6. QED
    BY <2>3, <2>4, <2>5
<1>6. ListenersEnd => NoneQueued
  <2>1. Open \in Microtask /\ Open.do = "open"
    BY Records DEF Open
  <2>2. ListenersEnd => tasks' = Append(tasks, Open)
    BY DEF ListenersEnd, MockedOpen
  <2>3. QED
    BY <1>2, <2>1, <2>2 DEF NoneQueued
<1>7. ASSUME NEW prevents \in BOOLEAN, RunOutgoing(prevents)
      PROVE  Unqueued("outgoing") /\ Unqueued("deliver") /\ Unqueued("serverClosed")
  <2>1. /\ \A t \in ToSet(tasks') : t \in ToSet(Tail(tasks)) \/ t.do = "forward"
        /\ \A t, u : Precedes(tasks', t, u) => Precedes(Tail(tasks), t, u) \/ u.do = "forward"
    BY <1>1, <1>7, OutgoingQueues
  <2>2. /\ ToSet(Tail(tasks)) \subseteq ToSet(tasks)
        /\ \A t, u : Precedes(Tail(tasks), t, u) => Precedes(tasks, t, u)
    <3>1. Runs("outgoing")
      BY <1>7 DEF RunOutgoing
    <3>2. QED
      BY <1>1, <3>1, Taken
  <2>3. QED
    BY <2>1, <2>2 DEF Unqueued
<1>8. ASSUME NEW c \in Connection, NEW prevents \in BOOLEAN, RealCloses(c, prevents)
      PROVE  NoneQueued
  <2>1. KClose(tasks) \/ UNCHANGED tasks
    BY <1>8 DEF RealCloses
  <2>2. QED
    BY <2>1, QuietQueues
<1>9. ASSUME NEW c \in Connection, RealOpens(c)
      PROVE  Uncalled("message")
  <2>1. \A l \in ToSet(dispatching') : l.do = "flush"
    BY <1>9, RealOpensDoes
  <2>2. \A k, l : Precedes(dispatching', k, l) => k.do = "flush"
    BY <1>9, <2>1, RealOpensDoes, ElementsOf
  <2>3. QED
    BY <2>1, <2>2 DEF Uncalled
<1>10. RunOpen => Uncalled("flush")
  BY QuietQueues, RunOpenCalls DEF NoneCalled, Uncalled
<1>11. RunClose => NoneCalled
  <2> SUFFICES ASSUME RunClose
               PROVE  NoneCalled
    OBVIOUS
  <2>1. \A l \in ToSet(dispatching') : l.do = "mockClose"
    BY SingleOrder, EmptyOrder, Records DEF RunClose, MockClose
  <2>2. \A k, l : ~Precedes(dispatching', k, l)
    BY SingleOrder, EmptyOrder, Records DEF RunClose
  <2>3. QED
    BY <2>1, <2>2 DEF NoneCalled, Uncalled
<1>12. QED
  BY <1>3, <1>4, <1>5, <1>6, <1>7, <1>8, <1>9, <1>10, <1>11

-----------------------------------------------------------------------------
(* Mocked messages.                                                          *)

\* What an intercepted client has heard, its "open" first and its "close" last.
OpenedFirst ==
  /\ readyState = "CONNECTING" => log = <<>>
  /\ readyState = "OPEN" => log # <<>>
  /\ \A e \in ToSet(log) : e.event = "close" => readyState = "CLOSED"
  /\ \A d, e : Precedes(log, d, e) => d.event # "close" /\ e.event # "open"
  /\ log # <<>> => log[1].event # "message"
  /\ \A l \in ToSet(dispatching) : l.do = "message" => log # <<>>

\* Between its send() and the client a mocked message is in a microtask, waits
\* for "open", is dispatched by it, or is heard: each of the four is in order,
\* and whatever is further on was sent earlier.
MessagesOrdered ==
  /\ readyState = "OPEN" => early = <<>>
  /\ \A l \in ToSet(dispatching) : l.do = "message" => early = <<>> /\ readyState # "CLOSED"
  /\ \A t, u : Precedes(tasks, t, u) /\ t.do = "deliver" /\ u.do = "deliver" => t.of < u.of
  /\ \A m, n : Precedes(early, m, n) => m < n
  /\ \A k, l : Precedes(dispatching, k, l) /\ k.do = "message" /\ l.do = "message" =>
       k.of < l.of
  /\ \A d, e : Precedes(log, d, e) /\ d.event = "message" /\ e.event = "message" => d.of < e.of
  /\ \A t \in ToSet(tasks) : t.do = "deliver" =>
       /\ \A m \in ToSet(early) : m < t.of
       /\ \A l \in ToSet(dispatching) : l.do = "message" => l.of < t.of
       /\ \A e \in ToSet(log) : e.event = "message" => e.of < t.of
  /\ \A e \in ToSet(log) : e.event = "message" =>
       /\ e.of \in 1..mocks
       /\ \A m \in ToSet(early) : e.of < m
       /\ \A l \in ToSet(dispatching) : l.do = "message" => e.of < l.of

MockOrder == Structure /\ (listened => OpenedFirst) /\ MessagesOrdered

\* A step that leaves every mocked message where it is.
MessagesStay ==
  /\ UNCHANGED <<log, early, mocks, listened>>
  /\ readyState' = readyState \/ (readyState' = "CLOSING" /\ readyState # "CLOSED")
  /\ Unqueued("deliver") /\ Uncalled("message")

\* It keeps their order.
LEMMA StayOrder ==
  ASSUME MockOrder, MessagesStay
  PROVE  (listened => OpenedFirst)' /\ MessagesOrdered'
<1>1. /\ UNCHANGED <<log, early, mocks, listened>>
      /\ readyState' = readyState \/ (readyState' = "CLOSING" /\ readyState # "CLOSED")
      /\ \A t \in ToSet(tasks') : t.do = "deliver" => t \in ToSet(tasks)
      /\ \A t, u : Precedes(tasks', t, u) /\ t.do = "deliver" /\ u.do = "deliver" =>
           Precedes(tasks, t, u)
      /\ \A l \in ToSet(dispatching') : l.do = "message" => l \in ToSet(dispatching)
      /\ \A k, l : Precedes(dispatching', k, l) /\ k.do = "message" /\ l.do = "message" =>
           Precedes(dispatching, k, l)
  BY DEF MessagesStay, Unqueued, Uncalled
<1>2. (listened => OpenedFirst)'
  BY <1>1 DEF MockOrder, OpenedFirst
<1>3. MessagesOrdered'
  BY <1>1 DEF MockOrder, MessagesOrdered
<1>4. QED
  BY <1>2, <1>3

\* Most steps are of that kind.
LEMMA StaySteps ==
  ASSUME Structure
  PROVE  /\ AppSends \/ ClosesClient \/ ConnectsServer \/ ServerSends \/ ServerCloses
            \/ ListenersEnd \/ ListenersThrow(FALSE) => MessagesStay
         /\ RunConnection \/ RunForward \/ RunServerClosed \/ CallFlush \/ CallMockClose =>
              MessagesStay
         /\ \A prevents \in BOOLEAN : RunOutgoing(prevents) => MessagesStay
         /\ \A c \in Connection, prevents \in BOOLEAN : RealCloses(c, prevents) => MessagesStay
<1>1. TypeOK /\ TasksMeant
  BY DEF Structure
<1>2. AppSends => MessagesStay
  <2> SUFFICES ASSUME AppSends
               PROVE  MessagesStay
    OBVIOUS
  <2>1. readyState' = readyState \/ (readyState' = "CLOSING" /\ readyState # "CLOSED")
    BY <1>1, AppSendsQueues DEF TypeOK, ReadyState
  <2>2. UNCHANGED <<log, early, mocks, listened, dispatching>>
    BY DEF AppSends, eventVars
  <2>3. QED
    BY <2>1, <2>2, QueueSteps, QuietQueues DEF MessagesStay, NoneCalled
<1>3. ASSUME KClose(tasks), UNCHANGED <<log, early, mocks, listened, dispatching>>
      PROVE  MessagesStay
  <2>1. readyState' = readyState \/ (readyState' = "CLOSING" /\ readyState # "CLOSED")
    BY <1>1, <1>3, ClientClosed
  <2>2. QED
    BY <1>3, <2>1, QuietQueues DEF MessagesStay, NoneQueued, NoneCalled
<1>4. ClosesClient => MessagesStay
  BY <1>3 DEF ClosesClient, sendVars
<1>5. ConnectsServer \/ ServerSends \/ ListenersThrow(FALSE) => MessagesStay
  BY QuietQueues DEF ConnectsServer, ServerSends, ListenersThrow, MessagesStay, NoneQueued,
                     NoneCalled, clientVars, taskVars, sendVars, eventVars
<1>6. ServerCloses \/ ListenersEnd => MessagesStay
  BY QueueSteps, QuietQueues DEF ServerCloses, ListenersEnd, MessagesStay, NoneQueued,
                     NoneCalled, clientVars, sendVars, eventVars
<1>7. RunConnection \/ RunForward \/ RunServerClosed => MessagesStay
  BY QuietQueues DEF RunConnection, RunForward, RunServerClosed, MessagesStay, NoneQueued,
                     NoneCalled, clientVars, sendVars, eventVars
<1>8. CallFlush \/ CallMockClose => MessagesStay
  BY QuietQueues DEF CallFlush, CallMockClose, MessagesStay, NoneQueued, NoneCalled,
                     clientVars, sendVars, eventVars
<1>9. ASSUME NEW prevents \in BOOLEAN, RunOutgoing(prevents)
      PROVE  MessagesStay
  <2>1. UNCHANGED <<log, early, mocks, listened, dispatching, readyState>>
    BY <1>9 DEF RunOutgoing, clientVars, eventVars
  <2>2. QED
    BY <1>9, <2>1, QueueSteps, QuietQueues DEF MessagesStay, NoneCalled
<1>10. ASSUME NEW c \in Connection, NEW prevents \in BOOLEAN, RealCloses(c, prevents)
       PROVE  MessagesStay
  <2>1. UNCHANGED <<log, early, mocks, listened, dispatching>>
    BY <1>10 DEF RealCloses, sendVars, eventVars
  <2>2. KClose(tasks) \/ UNCHANGED <<readyState, tasks>>
    BY <1>10 DEF RealCloses
  <2>3. QED
    BY <1>3, <2>1, <2>2, QuietQueues DEF MessagesStay, NoneQueued, NoneCalled
<1>11. QED
  BY <1>2, <1>4, <1>5, <1>6, <1>7, <1>8, <1>9, <1>10

\* What the client hears is added at the end of what it heard.
LEMMA Heard ==
  ASSUME TypeOK, NEW e \in Entry, log' = Append(log, e)
  PROVE  /\ ToSet(log') = ToSet(log) \cup {e}
         /\ \A a, b : Precedes(log', a, b) <=>
              Precedes(log, a, b) \/ (a \in ToSet(log) /\ b = e)
         /\ log' # <<>> /\ log'[1] = IF log = <<>> THEN e ELSE log[1]
<1>1. log \in Seq(Entry)
  BY DEF TypeOK
<1>2. log'[1] = IF log = <<>> THEN e ELSE log[1]
  BY <1>1
<1>3. QED
  BY <1>1, <1>2, AppendOrder

\* The kinds of what it hears.
LEMMA Entries ==
  /\ \A m : Mocked(m).event = "message" /\ Mocked(m).of = m
  /\ Opened.event = "open" /\ Closed.event = "close"
  BY DEF Mocked, Opened, Closed

\* A message is sent after all others.
LEMMA MockSendsOrder ==
  ASSUME MockOrder, MockSends
  PROVE  (listened => OpenedFirst)' /\ MessagesOrdered'
<1>1. /\ Structure /\ TypeOK /\ mocks \in Nat /\ mocks' = mocks + 1
      /\ UNCHANGED <<log, early, dispatching, listened, readyState>>
  BY DEF MockOrder, Structure, TypeOK, MockSends, clientVars, eventVars
<1>2. PICK new : new = [do |-> "deliver", of |-> mocks']
  OBVIOUS
<1>3. /\ new.do = "deliver" /\ new.of = mocks'
      /\ ToSet(tasks') = ToSet(tasks) \cup {new}
      /\ \A a, b : Precedes(tasks', a, b) <=>
           Precedes(tasks, a, b) \/ (a \in ToSet(tasks) /\ b = new)
  <2>1. new \in Microtask /\ new.do = "deliver" /\ new.of = mocks'
    <3>1. mocks' \in Nat
      BY <1>1
    <3>2. QED
      BY <1>2, <3>1, Records
  <2>2. tasks' = Append(tasks, new)
    BY <1>2 DEF MockSends
  <2>3. QED
    BY <1>1, <2>1, <2>2, Queued
<1>4. /\ \A t \in ToSet(tasks) : t.do = "deliver" => t.of \in 1..mocks
      /\ \A l \in ToSet(dispatching) : l.do = "message" => l.of \in 1..mocks
      /\ \A m \in ToSet(early) : m \in 1..mocks
  BY <1>1 DEF Structure, TasksMeant, ListenersMeant
<1>5. \A n \in 1..mocks : n < new.of /\ n \in 1..mocks'
  BY <1>1, <1>3
<1>6. (listened => OpenedFirst)'
  BY <1>1 DEF MockOrder, OpenedFirst
<1>7. MessagesOrdered'
  <2>1. \A t \in ToSet(tasks') : t.do = "deliver" =>
          /\ \A m \in ToSet(early) : m < t.of
          /\ \A l \in ToSet(dispatching) : l.do = "message" => l.of < t.of
          /\ \A e \in ToSet(log) : e.event = "message" => e.of < t.of
    BY <1>3, <1>4, <1>5 DEF MockOrder, MessagesOrdered
  <2>2. \A t, u : Precedes(tasks', t, u) /\ t.do = "deliver" /\ u.do = "deliver" => t.of < u.of
    BY <1>3, <1>4, <1>5 DEF MockOrder, MessagesOrdered
  <2>3. QED
    BY <1>1, <1>5, <2>1, <2>2 DEF MockOrder, MessagesOrdered
<1>8. QED
  BY <1>6, <1>7

\* The messages that waited are dispatched after "open", in the order they came.
LEMMA RunOpenOrder ==
  ASSUME MockOrder, RunOpen
  PROVE  (listened => OpenedFirst)' /\ MessagesOrdered'
<1>1. /\ Structure /\ TypeOK /\ dispatching = <<>>
      /\ UNCHANGED <<mocks, listened>> /\ Unqueued("deliver")
  <2>1. Runs("open") /\ tasks' = Tail(tasks)
    BY DEF RunOpen
  <2>2. QED
    BY <2>1, QuietQueues DEF MockOrder, Structure, RunOpen, Runs, sendVars, eventVars, NoneQueued
<1>2. CASE UNCHANGED <<readyState, early, log, dispatching>>
  BY <1>1, <1>2, StayOrder, QuietQueues DEF MessagesStay, NoneCalled
<1>3. CASE /\ readyState = "CONNECTING" /\ readyState' = "OPEN"
           /\ log' = Append(log, Opened) /\ early' = <<>>
           /\ \A l \in ToSet(dispatching') : l.do = "message" /\ l.of \in ToSet(early)
           /\ \A k, l : Precedes(dispatching', k, l) =>
                k.do = "message" /\ Precedes(early, k.of, l.of)
  <2>1. /\ ToSet(log') = ToSet(log) \cup {Opened}
        /\ \A a, b : Precedes(log', a, b) <=>
             Precedes(log, a, b) \/ (a \in ToSet(log) /\ b = Opened)
        /\ log' # <<>> /\ log'[1] = IF log = <<>> THEN Opened ELSE log[1]
        /\ Opened.event = "open"
    BY <1>1, <1>3, Heard, Records, Entries
  <2>2. ToSet(early') = {} /\ \A a, b : ~Precedes(early', a, b)
    BY <1>3, EmptyOrder
  <2>3. (listened => OpenedFirst)'
    <3> SUFFICES ASSUME listened
                 PROVE  OpenedFirst'
      BY <1>1
    <3>1. log = <<>>
      BY <1>3 DEF MockOrder, OpenedFirst
    <3>2. ToSet(log') = {Opened} /\ \A a, b : ~Precedes(log', a, b)
      BY <2>1, <3>1, EmptyOrder
    <3>3. QED
      BY <1>3, <2>1, <3>1, <3>2 DEF OpenedFirst
  <2>4. MessagesOrdered'
    <3>1. \A t \in ToSet(tasks') : t.do = "deliver" => t \in ToSet(tasks)
      BY <1>1 DEF Unqueued
    <3>2. \A t, u : Precedes(tasks', t, u) /\ t.do = "deliver" /\ u.do = "deliver" =>
            t.of < u.of
      BY <1>1 DEF Unqueued, MockOrder, MessagesOrdered
    <3>3. \A d, e : Precedes(log', d, e) /\ d.event = "message" /\ e.event = "message" =>
            d.of < e.of
      BY <2>1 DEF MockOrder, MessagesOrdered
    <3>4. \A k, l : Precedes(dispatching', k, l) => k.of < l.of
      BY <1>3 DEF MockOrder, MessagesOrdered
    <3>5. \A t \in ToSet(tasks') : t.do = "deliver" =>
            /\ \A l \in ToSet(dispatching') : l.do = "message" => l.of < t.of
            /\ \A e \in ToSet(log') : e.event = "message" => e.of < t.of
      BY <1>3, <2>1, <3>1 DEF MockOrder, MessagesOrdered
    <3>6. \A e \in ToSet(log') : e.event = "message" =>
            /\ e.of \in 1..mocks
            /\ \A l \in ToSet(dispatching') : l.do = "message" => e.of < l.of
      BY <1>3, <2>1 DEF MockOrder, MessagesOrdered
    <3>7. QED
      BY <1>1, <1>3, <2>2, <3>2, <3>3, <3>4, <3>5, <3>6 DEF MessagesOrdered
  <2>5. QED
    BY <2>3, <2>4
<1>4. QED
  BY <1>1, <1>2, <1>3, RunOpenCalls

\* A message waits for "open", is heard, or is dropped by a client that ends.
LEMMA RunDeliverOrder ==
  ASSUME MockOrder, RunDeliver
  PROVE  (listened => OpenedFirst)' /\ MessagesOrdered'
<1>1. /\ Structure /\ TypeOK /\ dispatching = <<>> /\ Runs("deliver") /\ tasks' = Tail(tasks)
      /\ UNCHANGED <<mocks, listened, readyState, dispatching>>
  BY DEF MockOrder, Structure, RunDeliver, Runs, sendVars, eventVars
<1>2. Unqueued("deliver") /\ Uncalled("message")
  BY <1>1, QuietQueues DEF NoneQueued, NoneCalled
<1>3. /\ Subject \in 1..mocks /\ Subject \in Message
      /\ Head(tasks) \in ToSet(tasks) /\ Head(tasks).do = "deliver" /\ Head(tasks).of = Subject
      /\ \A t \in ToSet(tasks') : t.do = "deliver" => Precedes(tasks, Head(tasks), t)
  BY <1>1, DeliverMeant, Taken DEF Subject, Structure
<1>4. /\ ToSet(dispatching) = {} /\ \A a, b : ~Precedes(dispatching, a, b)
      /\ \A t \in ToSet(tasks') : t.do = "deliver" => t \in ToSet(tasks) /\ Subject < t.of
      /\ \A m \in ToSet(early) : m < Subject
      /\ \A e \in ToSet(log) : e.event = "message" => e.of < Subject
  <2>1. ToSet(dispatching) = {} /\ \A a, b : ~Precedes(dispatching, a, b)
    BY <1>1, EmptyOrder
  <2>2. \A t \in ToSet(tasks') : t.do = "deliver" => t \in ToSet(tasks) /\ Subject < t.of
    BY <1>2, <1>3 DEF Unqueued, MockOrder, MessagesOrdered
  <2>3. /\ \A m \in ToSet(early) : m < Subject
        /\ \A e \in ToSet(log) : e.event = "message" => e.of < Subject
    BY <1>3 DEF MockOrder, MessagesOrdered
  <2>4. QED
    BY <2>1, <2>2, <2>3
<1>5. CASE Ending(readyState) /\ early' = early /\ log' = log
  BY <1>1, <1>2, <1>5, StayOrder DEF MessagesStay
<1>6. CASE readyState = "CONNECTING" /\ early' = Append(early, Subject) /\ log' = log
  <2>1. /\ ToSet(early') = ToSet(early) \cup {Subject}
        /\ \A a, b : Precedes(early', a, b) <=>
             Precedes(early, a, b) \/ (a \in ToSet(early) /\ b = Subject)
    BY <1>1, <1>3, <1>6, AppendOrder DEF TypeOK
  <2>2. (listened => OpenedFirst)'
    BY <1>1, <1>6 DEF MockOrder, OpenedFirst
  <2>3. MessagesOrdered'
    <3>1. \A t, u : Precedes(tasks', t, u) /\ t.do = "deliver" /\ u.do = "deliver" =>
            t.of < u.of
      BY <1>2 DEF Unqueued, MockOrder, MessagesOrdered
    <3>2. \A m, n : Precedes(early', m, n) => m < n
      BY <1>4, <2>1 DEF MockOrder, MessagesOrdered
    <3>3. \A t \in ToSet(tasks') : t.do = "deliver" =>
            /\ \A m \in ToSet(early') : m < t.of
            /\ \A e \in ToSet(log) : e.event = "message" => e.of < t.of
      BY <1>4, <2>1 DEF MockOrder, MessagesOrdered
    <3>4. \A e \in ToSet(log) : e.event = "message" => \A m \in ToSet(early') : e.of < m
      BY <1>4, <2>1 DEF MockOrder, MessagesOrdered
    <3>5. QED
      BY <1>1, <1>4, <1>6, <3>1, <3>2, <3>3, <3>4 DEF MockOrder, MessagesOrdered
  <2>4. QED
    BY <2>2, <2>3
<1>7. CASE readyState = "OPEN" /\ log' = Append(log, Mocked(Subject)) /\ early' = early
  <2>1. PICK e : e = Mocked(Subject)
    OBVIOUS
  <2>2. /\ e.event = "message" /\ e.of = Subject
        /\ ToSet(log') = ToSet(log) \cup {e}
        /\ \A a, b : Precedes(log', a, b) <=> Precedes(log, a, b) \/ (a \in ToSet(log) /\ b = e)
        /\ log' # <<>> /\ log'[1] = IF log = <<>> THEN e ELSE log[1]
    <3>1. e \in Entry /\ log' = Append(log, e)
      BY <1>3, <1>7, <2>1, Records
    <3>2. QED
      BY <1>1, <2>1, <3>1, Heard, Entries
  <2>3. early = <<>> /\ ToSet(early) = {}
    BY <1>7, EmptyOrder DEF MockOrder, MessagesOrdered
  <2>4. (listened => OpenedFirst)'
    BY <1>1, <1>4, <1>7, <2>2 DEF MockOrder, OpenedFirst
  <2>5. MessagesOrdered'
    <3>1. \A t, u : Precedes(tasks', t, u) /\ t.do = "deliver" /\ u.do = "deliver" =>
            t.of < u.of
      BY <1>2 DEF Unqueued, MockOrder, MessagesOrdered
    <3>2. \A a, b : Precedes(log', a, b) /\ a.event = "message" /\ b.event = "message" =>
            a.of < b.of
      BY <1>4, <2>2 DEF MockOrder, MessagesOrdered
    <3>3. \A t \in ToSet(tasks') : t.do = "deliver" =>
            \A a \in ToSet(log') : a.event = "message" => a.of < t.of
      BY <1>4, <2>2 DEF MockOrder, MessagesOrdered
    <3>4. \A a \in ToSet(log') : a.event = "message" => a.of \in 1..mocks
      BY <1>3, <2>2 DEF MockOrder, MessagesOrdered
    <3>5. QED
      BY <1>1, <1>4, <1>7, <2>3, <3>1, <3>2, <3>3, <3>4 DEF MockOrder, MessagesOrdered
  <2>6. QED
    BY <2>4, <2>5
<1>8. QED
  BY <1>1, <1>5, <1>6, <1>7, DeliverMeant

\* The client hears "close" when no message is left for it but those it drops.
LEMMA RunCloseOrder ==
  ASSUME MockOrder, RunClose
  PROVE  (listened => OpenedFirst)' /\ MessagesOrdered'
<1>1. /\ Structure /\ TypeOK /\ Runs("close") /\ tasks' = Tail(tasks)
      /\ readyState' = "CLOSED" /\ log' = Append(log, Closed)
      /\ UNCHANGED <<mocks, listened, early>>
  BY DEF MockOrder, Structure, RunClose, sendVars, eventVars
<1>2. Unqueued("deliver") /\ readyState = "CLOSING"
  <2>1. Close \in ToSet(tasks)
    BY <1>1, Taken DEF Structure
  <2>2. QED
    BY <1>1, <2>1, QuietQueues DEF NoneQueued, TypeOK
<1>3. /\ \A l \in ToSet(dispatching') : l.do # "message"
      /\ \A k, l : ~Precedes(dispatching', k, l)
  BY SingleOrder, EmptyOrder, Records DEF RunClose, MockClose
<1>4. /\ ToSet(log') = ToSet(log) \cup {Closed}
      /\ \A a, b : Precedes(log', a, b) <=>
           Precedes(log, a, b) \/ (a \in ToSet(log) /\ b = Closed)
      /\ log' # <<>> /\ log'[1] = IF log = <<>> THEN Closed ELSE log[1]
      /\ Closed.event = "close"
  BY <1>1, Heard, Records, Entries
<1>5. (listened => OpenedFirst)'
  <2> SUFFICES ASSUME listened
               PROVE  OpenedFirst'
    BY <1>1
  <2>1. \A e \in ToSet(log) : e.event # "close"
    BY <1>2 DEF MockOrder, OpenedFirst
  <2>2. QED
    BY <1>1, <1>3, <1>4, <2>1 DEF MockOrder, OpenedFirst
<1>6. MessagesOrdered'
  <2>1. \A t, u : Precedes(tasks', t, u) /\ t.do = "deliver" /\ u.do = "deliver" => t.of < u.of
    BY <1>2 DEF Unqueued, MockOrder, MessagesOrdered
  <2>2. \A d, e : Precedes(log', d, e) /\ d.event = "message" /\ e.event = "message" =>
          d.of < e.of
    BY <1>4 DEF MockOrder, MessagesOrdered
  <2>3. \A t \in ToSet(tasks') : t.do = "deliver" =>
          /\ \A m \in ToSet(early) : m < t.of
          /\ \A e \in ToSet(log') : e.event = "message" => e.of < t.of
    BY <1>2, <1>4 DEF Unqueued, MockOrder, MessagesOrdered
  <2>4. \A e \in ToSet(log') : e.event = "message" =>
          e.of \in 1..mocks /\ \A m \in ToSet(early) : e.of < m
    BY <1>4 DEF MockOrder, MessagesOrdered
  <2>5. QED
    BY <1>1, <1>3, <2>1, <2>2, <2>3, <2>4 DEF MockOrder, MessagesOrdered
<1>7. QED
  BY <1>5, <1>6

\* A message that waited is heard before those still to be dispatched.
LEMMA CallMessageOrder ==
  ASSUME MockOrder, CallMessage
  PROVE  (listened => OpenedFirst)' /\ MessagesOrdered'
<1>1. /\ Structure /\ TypeOK /\ Calls("message") /\ dispatching' = Tail(dispatching)
      /\ log' = Append(log, Mocked(Listener.of))
      /\ UNCHANGED <<readyState, early, tasks, mocks, listened>>
  BY DEF MockOrder, Structure, CallMessage, sendVars, eventVars
<1>2. PICK m, e : m = Listener.of /\ e = Mocked(m)
  OBVIOUS
<1>3. /\ Listener \in ToSet(dispatching) /\ Listener.do = "message" /\ m \in 1..mocks
      /\ ToSet(dispatching') \subseteq ToSet(dispatching)
      /\ \A a, b : Precedes(dispatching', a, b) => Precedes(dispatching, a, b)
      /\ \A b \in ToSet(dispatching') : Precedes(dispatching, Listener, b)
  BY <1>1, <1>2, Called DEF Structure, ListenersMeant
<1>4. /\ e.event = "message" /\ e.of = m
      /\ ToSet(log') = ToSet(log) \cup {e}
      /\ \A a, b : Precedes(log', a, b) <=> Precedes(log, a, b) \/ (a \in ToSet(log) /\ b = e)
      /\ log' # <<>> /\ log'[1] = IF log = <<>> THEN e ELSE log[1]
  <2>1. m \in Message
    BY <1>1, <1>3, BoundsAssumption DEF TypeOK, Message
  <2>2. e \in Entry /\ log' = Append(log, e)
    BY <1>1, <1>2, <2>1, Records
  <2>3. QED
    BY <1>1, <1>2, <2>2, Heard, Entries
<1>5. /\ early = <<>> /\ ToSet(early) = {} /\ readyState # "CLOSED"
      /\ \A a \in ToSet(log) : a.event = "message" => a.of < m
      /\ \A t \in ToSet(tasks) : t.do = "deliver" => m < t.of
      /\ \A l \in ToSet(dispatching') : l.do = "message" => m < l.of
  <2>1. early = <<>> /\ readyState # "CLOSED"
    BY <1>3 DEF MockOrder, MessagesOrdered
  <2>2. \A a \in ToSet(log) : a.event = "message" => a.of < m
    BY <1>2, <1>3 DEF MockOrder, MessagesOrdered
  <2>3. \A t \in ToSet(tasks) : t.do = "deliver" => m < t.of
    BY <1>2, <1>3 DEF MockOrder, MessagesOrdered
  <2>4. \A l \in ToSet(dispatching') : l.do = "message" => m < l.of
    BY <1>2, <1>3 DEF MockOrder, MessagesOrdered
  <2>5. QED
    BY <2>1, <2>2, <2>3, <2>4, EmptyOrder
<1>6. (listened => OpenedFirst)'
  <2> SUFFICES ASSUME listened
               PROVE  OpenedFirst'
    BY <1>1
  <2>1. log # <<>> /\ \A a \in ToSet(log) : a.event # "close"
    BY <1>3, <1>5 DEF MockOrder, OpenedFirst
  <2>2. QED
    BY <1>1, <1>3, <1>4, <2>1 DEF MockOrder, OpenedFirst
<1>7. MessagesOrdered'
  <2>1. \A a, b : Precedes(log', a, b) /\ a.event = "message" /\ b.event = "message" =>
          a.of < b.of
    BY <1>4, <1>5 DEF MockOrder, MessagesOrdered
  <2>2. \A t \in ToSet(tasks) : t.do = "deliver" =>
          /\ \A l \in ToSet(dispatching') : l.do = "message" => l.of < t.of
          /\ \A a \in ToSet(log') : a.event = "message" => a.of < t.of
    BY <1>3, <1>4, <1>5 DEF MockOrder, MessagesOrdered
  <2>3. \A a \in ToSet(log') : a.event = "message" =>
          /\ a.of \in 1..mocks
          /\ \A l \in ToSet(dispatching') : l.do = "message" => a.of < l.of
    BY <1>3, <1>4, <1>5 DEF MockOrder, MessagesOrdered
  <2>4. QED
    BY <1>1, <1>3, <1>5, <2>1, <2>2, <2>3 DEF MockOrder, MessagesOrdered
<1>8. QED
  BY <1>6, <1>7

\* A real connection opens: only a client without listeners hears it.
LEMMA RealOpensOrder ==
  ASSUME MockOrder, NEW c \in Connection, RealOpens(c)
  PROVE  (listened => OpenedFirst)' /\ MessagesOrdered'
<1>1. /\ Structure /\ TypeOK /\ Idle
      /\ log' = IF phase = "passthrough" THEN Append(log, Opened) ELSE log
      /\ UNCHANGED <<readyState, early, tasks, mocks, listened>>
  BY DEF MockOrder, Structure, RealOpens, sendVars, eventVars
<1>2. Unqueued("deliver") /\ Uncalled("message")
  BY <1>1, QueueSteps, QuietQueues DEF NoneQueued
<1>3. CASE log' = log
  BY <1>1, <1>2, <1>3, StayOrder DEF MessagesStay
<1>4. CASE phase = "passthrough"
  <2>1. ~listened
    BY <1>1, <1>4 DEF Structure, Decided
  <2>2. /\ ToSet(log') = ToSet(log) \cup {Opened}
        /\ \A a, b : Precedes(log', a, b) <=>
             Precedes(log, a, b) \/ (a \in ToSet(log) /\ b = Opened)
        /\ Opened.event = "open"
    BY <1>1, <1>4, Heard, Records, Entries
  <2>3. /\ \A l \in ToSet(dispatching') : l.do # "message"
        /\ \A k, l : Precedes(dispatching', k, l) => ~(k.do = "message" /\ l.do = "message")
    <3>1. ToSet(dispatching) = {} /\ \A k, l : ~Precedes(dispatching, k, l)
      BY <1>1, IdleHoldsNothing
    <3>2. QED
      BY <1>2, <3>1 DEF Uncalled
  <2>4. MessagesOrdered'
    BY <1>1, <2>2, <2>3 DEF MockOrder, MessagesOrdered
  <2>5. QED
    BY <1>1, <2>1, <2>4
<1>5. QED
  BY <1>1, <1>3, <1>4

\* Nothing has been sent at the start, and every step keeps the order.
LEMMA MockOrderInductive ==
  /\ Init => MockOrder
  /\ MockOrder /\ [Next]_vars => MockOrder'
<1>1. Init => MockOrder
  <2> SUFFICES ASSUME Init
               PROVE  MockOrder
    OBVIOUS
  <2>1. /\ readyState = "CONNECTING" /\ log = <<>> /\ early = <<>> /\ dispatching = <<>>
        /\ tasks = <<[do |-> "connection", of |-> 0]>> /\ mocks = 0
    BY DEF Init
  <2>2. PICK first : first = [do |-> "connection", of |-> 0]
    OBVIOUS
  <2>3. ToSet(tasks) = {first} /\ first.do = "connection" /\ \A t, u : ~Precedes(tasks, t, u)
    BY <2>1, <2>2, SingleOrder
  <2>4. OpenedFirst
    BY <2>1, EmptyOrder DEF OpenedFirst
  <2>5. MessagesOrdered
    BY <2>1, <2>3, EmptyOrder DEF MessagesOrdered
  <2>6. QED
    BY <2>4, <2>5, InitStructure DEF MockOrder
<1>2. ASSUME MockOrder, [Next]_vars
      PROVE  MockOrder'
  <2>1. Structure /\ Structure'
    BY <1>2, StepStructure DEF MockOrder
  <2>2. CASE Application
    BY <1>2, <2>1, <2>2, StepKinds, StaySteps, StayOrder DEF Application, MockOrder
  <2>3. CASE Interceptor
    <3>1. CASE MockSends
      BY <1>2, <2>1, <3>1, MockSendsOrder DEF MockOrder
    <3>2. CASE \E isError \in BOOLEAN : ListenersThrow(isError)
      <4>1. ListenersThrow(TRUE) \/ ListenersThrow(FALSE)
        BY <3>2
      <4>2. QED
        BY <1>2, <2>1, <4>1, StepKinds, StaySteps, StayOrder DEF MockOrder
    <3>3. CASE MockCloses \/ ServerConnects \/ ServerSends \/ ServerCloses \/ ListenersEnd
      BY <1>2, <2>1, <3>3, StepKinds, StaySteps, StayOrder DEF MockOrder
    <3>4. QED
      BY <2>3, <3>1, <3>2, <3>3 DEF Interceptor
  <2>4. CASE Library
    <3>1. CASE RunOpen \/ RunDeliver \/ RunClose \/ CallMessage
      BY <1>2, <2>1, <3>1, RunOpenOrder, RunDeliverOrder, RunCloseOrder, CallMessageOrder
         DEF MockOrder
    <3>2. CASE \/ RunConnection \/ RunForward \/ RunServerClosed \/ CallFlush \/ CallMockClose
               \/ PassesThrough
      BY <1>2, <2>1, <3>2, StepKinds, StaySteps, StayOrder DEF MockOrder
    <3>3. CASE \E prevents \in BOOLEAN : RunOutgoing(prevents)
      BY <1>2, <2>1, <3>3, StaySteps, StayOrder DEF MockOrder
    <3>4. QED
      BY <2>4, <3>1, <3>2, <3>3 DEF Library
  <2>5. CASE OriginalServer
    BY <1>2, <2>1, <2>5, RealOpensOrder, StaySteps, StayOrder DEF OriginalServer, MockOrder
  <2>6. CASE UNCHANGED vars
    <3>1. MessagesStay
      BY <2>1, <2>6, QuietQueues DEF vars, clientVars, taskVars, sendVars, eventVars,
                                     MessagesStay, NoneQueued, NoneCalled
    <3>2. QED
      BY <1>2, <2>1, <3>1, StayOrder DEF MockOrder
  <2>7. QED
    BY <1>2, <2>2, <2>3, <2>4, <2>5, <2>6 DEF Next
<1>3. QED
  BY <1>1, <1>2

\* With an interceptor, the client hears "open" and "close" at most once and the
\* mocked messages in the order they were sent, each once, after "open" and before
\* "close".
THEOREM MockedMessagesInOrder == Spec => []MockedInOrder
<1>1. MockOrder => MockedInOrder
  <2> SUFFICES ASSUME MockOrder, listened
               PROVE  /\ \A i, j \in DOMAIN log : i < j =>
                           /\ log[i].event # "close" /\ log[j].event # "open"
                           /\ log[i].event = "message" /\ log[j].event = "message" =>
                                log[i].of < log[j].of
                      /\ log # <<>> => log[1].event # "message"
    BY DEF MockedInOrder
  <2>1. ASSUME NEW i \in DOMAIN log, NEW j \in DOMAIN log, i < j
        PROVE  Precedes(log, log[i], log[j])
    BY <2>1 DEF Precedes
  <2>2. QED
    BY <2>1 DEF MockOrder, OpenedFirst, MessagesOrdered
<1>2. QED
  BY <1>1, MockOrderInductive, PTL DEF Spec

-----------------------------------------------------------------------------
(* Forwarded messages.                                                       *)

\* A message of the application has come as far as a connection, which was given
\* it or is about to be, now that it is open.
Flushing(c, m) == \E l \in ToSet(dispatching) : l.do = "flush" /\ l.on = c /\ l.of = m
Has(c, m) == m \in ToSet(Given(c)) \/ Flushing(c, m)

\* Between the application and a connection a message is in an "outgoing"
\* microtask, then in one that forwards it: each is in order, and whatever is
\* further on was sent earlier.
ForwardsQueued ==
  /\ \A t, u : Precedes(tasks, t, u) /\ t.do = "outgoing" /\ u.do = "outgoing" => t.of < u.of
  /\ \A t, u : Precedes(tasks, t, u) /\ t.do = "forward" /\ u.do = "forward" => t.of < u.of
  /\ \A t, u \in ToSet(tasks) : t.do = "forward" /\ u.do = "outgoing" => t.of < u.of
  /\ \A m \in prevented : m <= sends
  /\ \A m \in prevented, t \in ToSet(tasks) : t.do = "outgoing" => m < t.of

\* A message that a connection has was not prevented, was sent before those
\* still on their way, and no other connection has it.
ForwardsHad ==
  \A c \in Connection, m \in Message : Has(c, m) =>
    /\ m <= sends /\ m \notin prevented
    /\ \A t \in ToSet(tasks) : t.do \in {"outgoing", "forward"} => m < t.of
    /\ \A d \in Connection : Has(d, m) => d = c

\* What a connection was given is in order, and before what is about to be.
ForwardsGiven ==
  /\ \A c \in Connection, m, n \in Message : Precedes(Given(c), m, n) => m < n
  /\ \A k, l : Precedes(dispatching, k, l) /\ k.do = "flush" /\ l.do = "flush" =>
       (k.of \in Message /\ l.of \in Message => k.of < l.of)
  /\ \A c \in Connection, m, n \in Message :
       m \in ToSet(Given(c)) /\ Flushing(c, n) => m < n

ForwardOrder == Structure /\ ForwardsQueued /\ ForwardsHad /\ ForwardsGiven

\* A step that gives no connection a message of the application.
NoneGiven ==
  \A c \in Connection, m, n \in Message :
    /\ m \in ToSet(Given(c)') => m \in ToSet(Given(c))
    /\ Precedes(Given(c)', m, n) => Precedes(Given(c), m, n)

\* A step that leaves every message of the application where it is.
ForwardsStay ==
  /\ Unqueued("outgoing") /\ Unqueued("forward") /\ Uncalled("flush")
  /\ UNCHANGED <<prevented, sends>>
  /\ NoneGiven

\* It keeps their order.
LEMMA StayForwarded ==
  ASSUME ForwardOrder, ForwardsStay
  PROVE  ForwardsQueued' /\ ForwardsHad' /\ ForwardsGiven'
<1>1. /\ UNCHANGED <<prevented, sends>>
      /\ \A t \in ToSet(tasks') : t.do = "outgoing" => t \in ToSet(tasks)
      /\ \A t \in ToSet(tasks') : t.do = "forward" => t \in ToSet(tasks)
      /\ \A t, u : Precedes(tasks', t, u) /\ t.do = "outgoing" /\ u.do = "outgoing" =>
           Precedes(tasks, t, u)
      /\ \A t, u : Precedes(tasks', t, u) /\ t.do = "forward" /\ u.do = "forward" =>
           Precedes(tasks, t, u)
      /\ \A l \in ToSet(dispatching') : l.do = "flush" => l \in ToSet(dispatching)
      /\ \A k, l : Precedes(dispatching', k, l) /\ k.do = "flush" /\ l.do = "flush" =>
           Precedes(dispatching, k, l)
  BY DEF ForwardsStay, Unqueued, Uncalled
<1>2. \A c, m : Flushing(c, m)' => Flushing(c, m)
  BY <1>1 DEF Flushing
<1>3. \A c \in Connection, m \in Message : Has(c, m)' => Has(c, m)
  BY <1>2 DEF Has, ForwardsStay, NoneGiven
<1>4. ForwardsQueued'
  BY <1>1 DEF ForwardOrder, ForwardsQueued
<1>5. ForwardsHad'
  <2>1. ASSUME NEW c \in Connection, NEW m \in Message, Has(c, m)'
        PROVE  /\ m <= sends' /\ m \notin prevented'
               /\ \A t \in ToSet(tasks') : t.do \in {"outgoing", "forward"} => m < t.of
               /\ \A d \in Connection : Has(d, m)' => d = c
    BY <1>1, <1>3, <2>1 DEF ForwardOrder, ForwardsHad
  <2>2. QED
    BY <2>1 DEF ForwardsHad
<1>6. ForwardsGiven'
  <2>1. \A c \in Connection, m, n \in Message :
          /\ m \in ToSet(Given(c)') => m \in ToSet(Given(c))
          /\ Precedes(Given(c)', m, n) => Precedes(Given(c), m, n)
    BY DEF ForwardsStay, NoneGiven
  <2>2. QED
    BY <1>1, <1>2, <2>1 DEF ForwardOrder, ForwardsGiven
<1>7. QED
  BY <1>4, <1>5, <1>6

\* What a connection was given: what it received, then what was deferred.
LEMMA GivenParts ==
  ASSUME NEW r \in Seq(Message \cup {Extra}), NEW d \in Seq(Message \cup {Extra}),
         NEW g, g = r \o d
  PROVE  /\ g \in Seq(Message \cup {Extra})
         /\ ToSet(g) = ToSet(r) \cup ToSet(d)
         /\ \A a, b : Precedes(g, a, b) <=>
              Precedes(r, a, b) \/ Precedes(d, a, b) \/ (a \in ToSet(r) /\ b \in ToSet(d))
         /\ d = <<>> => ToSet(g) = ToSet(r) /\ \A a, b : Precedes(g, a, b) <=> Precedes(r, a, b)
         /\ r = <<>> => ToSet(g) = ToSet(d) /\ \A a, b : Precedes(g, a, b) <=> Precedes(d, a, b)
<1>1. /\ g \in Seq(Message \cup {Extra})
      /\ ToSet(g) = ToSet(r) \cup ToSet(d)
      /\ \A a, b : Precedes(g, a, b) <=>
           Precedes(r, a, b) \/ Precedes(d, a, b) \/ (a \in ToSet(r) /\ b \in ToSet(d))
  BY ConcatOrder
<1>2. d = <<>> => ToSet(d) = {} /\ \A a, b : ~Precedes(d, a, b)
  BY EmptyOrder
<1>3. r = <<>> => ToSet(r) = {} /\ \A a, b : ~Precedes(r, a, b)
  BY EmptyOrder
<1>4. QED
  BY <1>1, <1>2, <1>3

\* What it was given grows by what it is sent, unless it is ending.
LEMMA GivenSent ==
  ASSUME Structure, NEW c \in Connection, c <= current, NEW m \in Message \cup {Extra},
         KSend(c, m)
  PROVE  /\ \A d \in Connection : d # c => Given(d)' = Given(d)
         /\ \/ /\ ~Ending(real[c].state)
               /\ ToSet(Given(c)') = ToSet(Given(c)) \cup {m}
               /\ \A a, b : Precedes(Given(c)', a, b) <=>
                    Precedes(Given(c), a, b) \/ (a \in ToSet(Given(c)) /\ b = m)
            \/ Ending(real[c].state) /\ Given(c)' = Given(c)
<1>1. TypeOK /\ ConnectionsKept
  BY DEF Structure
<1>2. \A d \in Connection : d # c => Given(d)' = Given(d)
  BY <1>1, ServerSent DEF Given
<1>3. PICK r, d, g : r = received[c] /\ d = real[c].deferred /\ g = r \o d
  OBVIOUS
<1>4. r \in Seq(Message \cup {Extra}) /\ d \in Seq(Message \cup {Extra})
  BY <1>1, <1>3, ConnectionParts
<1>5. g = Given(c)
  BY <1>3 DEF Given
<1>6. CASE Kept(c, m)
  <2>1. r = <<>> /\ real[c].state = "CONNECTING"
    BY <1>1, <1>3, <1>6 DEF ConnectionsKept, Kept
  <2>2. PICK e : e = Append(d, m)
    OBVIOUS
  <2>3. e \in Seq(Message \cup {Extra}) /\ Given(c)' = r \o e
    BY <1>3, <1>4, <1>6, <2>2, AppendOrder DEF Kept, Given
  <2>4. /\ ToSet(e) = ToSet(d) \cup {m}
        /\ \A a, b : Precedes(e, a, b) <=> Precedes(d, a, b) \/ (a \in ToSet(d) /\ b = m)
    BY <1>4, <2>2, AppendOrder
  <2>5. PICK h : h = Given(c)'
    OBVIOUS
  <2>6. ToSet(h) = ToSet(e) /\ \A a, b : Precedes(h, a, b) <=> Precedes(e, a, b)
    BY <1>4, <2>1, <2>3, <2>5, GivenParts
  <2>7. ToSet(g) = ToSet(d) /\ \A a, b : Precedes(g, a, b) <=> Precedes(d, a, b)
    BY <1>3, <1>4, <2>1, GivenParts
  <2>8. QED
    BY <1>2, <1>5, <2>1, <2>4, <2>5, <2>6, <2>7 DEF Ending
<1>7. CASE Delivered(c, m)
  <2>1. d = <<>> /\ real[c].state = "OPEN"
    BY <1>1, <1>3, <1>7 DEF ConnectionsKept, Delivered
  <2>2. PICK e : e = Append(r, m)
    OBVIOUS
  <2>3. e \in Seq(Message \cup {Extra}) /\ Given(c)' = e \o d
    BY <1>3, <1>4, <1>7, <2>2, AppendOrder DEF Delivered, Given
  <2>4. /\ ToSet(e) = ToSet(r) \cup {m}
        /\ \A a, b : Precedes(e, a, b) <=> Precedes(r, a, b) \/ (a \in ToSet(r) /\ b = m)
    BY <1>4, <2>2, AppendOrder
  <2>5. PICK h : h = Given(c)'
    OBVIOUS
  <2>6. ToSet(h) = ToSet(e) /\ \A a, b : Precedes(h, a, b) <=> Precedes(e, a, b)
    BY <1>4, <2>1, <2>3, <2>5, GivenParts
  <2>7. ToSet(g) = ToSet(r) /\ \A a, b : Precedes(g, a, b) <=> Precedes(r, a, b)
    BY <1>3, <1>4, <2>1, GivenParts
  <2>8. QED
    BY <1>2, <1>5, <2>1, <2>4, <2>5, <2>6, <2>7 DEF Ending
<1>8. CASE Dropped /\ Ending(real[c].state)
  BY <1>2, <1>8 DEF Dropped, Given
<1>9. QED
  BY <1>1, <1>6, <1>7, <1>8, ServerSent

\* handleMockClose() closes the connection of the server handle.
LEMMA MockCloseReal ==
  ASSUME Structure, CallMockClose
  PROVE  /\ current \in Connection
         /\ real' \in [Connection -> RealConnection]
         /\ \A d \in Connection :
              /\ d # current => real'[d] = real[d]
              /\ real'[d].deferred = real[d].deferred /\ real'[d].late = real[d].late
              /\ real'[d].hooked = real[d].hooked /\ real'[d].kept = real[d].kept
         /\ Ending(real[current].state) => real' = real
         /\ ~Ending(real[current].state) =>
              real'[current].state = "CLOSING" /\ real'[current].closer = "client"
<1>1. TypeOK /\ current \in Connection
  <2>1. current # 0
    BY Called DEF CallMockClose, Structure, ListenersMeant
  <2>2. QED
    BY <2>1, BoundsAssumption DEF Structure, TypeOK, Connection
<1>2. PICK c, who, r : c = current /\ who = "client" /\ r = real'
  OBVIOUS
<1>3. who \in {"client", "interceptor"} /\ r = RealClose(c, who)
  BY <1>2 DEF CallMockClose
<1>4. QED
  BY <1>1, <1>2, <1>3, RealClosed

\* Steps that give no connection a message of the application.
LEMMA GivenSteps ==
  ASSUME Structure
  PROVE  /\ UNCHANGED <<real, received>> => NoneGiven
         /\ ConnectsServer \/ ServerSends \/ ServerCloses \/ CallMockClose => NoneGiven
         /\ \A c \in Connection, prevents \in BOOLEAN : RealCloses(c, prevents) => NoneGiven
<1>1. TypeOK /\ TasksMeant /\ ConnectionsKept
  BY DEF Structure
<1>2. ASSUME received' = received, \A c \in Connection : real'[c].deferred = real[c].deferred
      PROVE  NoneGiven
  <2>1. \A c \in Connection : Given(c)' = Given(c)
    BY <1>2 DEF Given
  <2>2. QED
    BY <2>1 DEF NoneGiven
<1>3. UNCHANGED <<real, received>> => NoneGiven
  BY <1>2
<1>4. ASSUME ConnectsServer
      PROVE  NoneGiven
  <2>1. /\ current' \in Connection /\ real'[current'].deferred = <<>> /\ received' = received
        /\ \A c \in Connection : c # current' => real'[c] = real[c]
    BY <1>1, <1>4, Connected DEF ConnectsServer
  <2>2. received[current'] = <<>>
    <3>1. current' = current + 1 /\ current \in Nat
      BY <1>1, <1>4, Connected, BoundsAssumption DEF ConnectsServer, TypeOK
    <3>2. current' > current
      BY <3>1
    <3>3. QED
      BY <1>1, <2>1, <3>2 DEF ConnectionsKept
  <2>3. PICK c : c = current'
    OBVIOUS
  <2>4. PICK r, g : r = <<>> /\ g = r \o r
    OBVIOUS
  <2>5. r \in Seq(Message \cup {Extra})
    BY <2>4, EmptyOrder
  <2>6. ToSet(g) = {} /\ \A a, b : ~Precedes(g, a, b)
    BY <2>4, <2>5, GivenParts, EmptyOrder
  <2>7. Given(c)' = g
    BY <2>1, <2>2, <2>3, <2>4 DEF Given
  <2>8. \A d \in Connection : d # c => Given(d)' = Given(d)
    BY <2>1, <2>3 DEF Given
  <2>9. QED
    BY <2>6, <2>7, <2>8 DEF NoneGiven
<1>5. ASSUME ServerSends
      PROVE  NoneGiven
  <2>1. current \in Connection /\ current <= current /\ Extra \in Message \cup {Extra}
    BY <1>1, <1>5, BoundsAssumption DEF TypeOK, ServerSends, Connection
  <2>2. KSend(current, Extra)
    BY <1>5 DEF ServerSends
  <2>3. \A m \in Message : m # Extra
    BY BoundsAssumption DEF Message, Extra
  <2>4. PICK c : c = current
    OBVIOUS
  <2>5. /\ \A d \in Connection : d # c => Given(d)' = Given(d)
        /\ \/ /\ ToSet(Given(c)') = ToSet(Given(c)) \cup {Extra}
              /\ \A a, b : Precedes(Given(c)', a, b) <=>
                   Precedes(Given(c), a, b) \/ (a \in ToSet(Given(c)) /\ b = Extra)
           \/ Given(c)' = Given(c)
    BY <2>1, <2>2, <2>4, GivenSent
  <2>6. QED
    BY <2>3, <2>5 DEF NoneGiven
<1>6. ServerCloses => NoneGiven
  <2> SUFFICES ASSUME ServerCloses
               PROVE  NoneGiven
    OBVIOUS
  <2>1. received' = received
    BY DEF ServerCloses
  <2>2. QED
    BY <1>2, <2>1, ServerClosesReal
<1>7. ASSUME CallMockClose
      PROVE  NoneGiven
  <2>1. received' = received
    BY <1>7 DEF CallMockClose
  <2>2. \A d \in Connection : real'[d].deferred = real[d].deferred
    BY <1>7, MockCloseReal
  <2>3. QED
    BY <1>2, <2>1, <2>2
<1>8. ASSUME NEW c \in Connection, NEW prevents \in BOOLEAN, RealCloses(c, prevents)
      PROVE  NoneGiven
  <2>1. received' = received
    BY <1>8 DEF RealCloses
  <2>2. QED
    BY <1>2, <1>8, <2>1, RealClosesDoes
<1>9. QED
  BY <1>3, <1>4, <1>5, <1>6, <1>7, <1>8

\* Most steps leave every message where it is.
LEMMA ForwardStaySteps ==
  ASSUME Structure
  PROVE  /\ ClosesClient \/ MockSends \/ ConnectsServer \/ ServerSends \/ ServerCloses
            \/ ListenersEnd \/ ListenersThrow(FALSE) => ForwardsStay
         /\ RunConnection \/ RunOpen \/ RunDeliver \/ RunClose \/ RunServerClosed
            \/ CallMessage \/ CallMockClose => ForwardsStay
         /\ \A c \in Connection, prevents \in BOOLEAN : RealCloses(c, prevents) => ForwardsStay
<1>1. ClosesClient \/ ListenersEnd \/ ListenersThrow(FALSE) => ForwardsStay
  BY QueueSteps, QuietQueues, GivenSteps
     DEF ClosesClient, ListenersEnd, ListenersThrow, ForwardsStay, NoneQueued, NoneCalled,
         serverVars, sendVars
<1>2. MockSends => ForwardsStay
  BY QueueSteps, QuietQueues, GivenSteps DEF MockSends, ForwardsStay, NoneCalled, serverVars
<1>3. ConnectsServer \/ ServerSends => ForwardsStay
  BY QuietQueues, GivenSteps DEF ConnectsServer, ServerSends, ForwardsStay, NoneQueued,
                     NoneCalled, taskVars, sendVars
<1>4. ServerCloses => ForwardsStay
  BY QueueSteps, QuietQueues, GivenSteps DEF ServerCloses, ForwardsStay, NoneCalled, sendVars
<1>5. RunConnection \/ RunDeliver \/ RunServerClosed => ForwardsStay
  BY QuietQueues, GivenSteps DEF RunConnection, RunDeliver, RunServerClosed, ForwardsStay,
                     NoneQueued, NoneCalled, serverVars, sendVars
<1>6. RunOpen \/ RunClose => ForwardsStay
  BY QueueSteps, QuietQueues, GivenSteps DEF RunOpen, RunClose, ForwardsStay,
                     NoneQueued, NoneCalled, serverVars, sendVars
<1>7. CallMessage \/ CallMockClose => ForwardsStay
  BY QuietQueues, GivenSteps DEF CallMessage, CallMockClose, ForwardsStay, NoneQueued,
                     NoneCalled, serverVars, sendVars
<1>8. ASSUME NEW c \in Connection, NEW prevents \in BOOLEAN, RealCloses(c, prevents)
      PROVE  ForwardsStay
  <2>1. UNCHANGED <<dispatching, prevented, sends>>
    BY <1>8 DEF RealCloses, sendVars
  <2>2. QED
    BY <1>8, <2>1, QueueSteps, QuietQueues, GivenSteps DEF ForwardsStay, NoneQueued, NoneCalled
<1>9. QED
  BY <1>1, <1>2, <1>3, <1>4, <1>5, <1>6, <1>7, <1>8

\* send() is after all others.
LEMMA AppSendsForwarded ==
  ASSUME ForwardOrder, AppSends
  PROVE  ForwardsQueued' /\ ForwardsHad' /\ ForwardsGiven'
<1>1. /\ Structure /\ TypeOK /\ TasksMeant /\ sends \in Nat
      /\ UNCHANGED <<prevented, dispatching, real, received>>
  BY DEF ForwardOrder, Structure, TypeOK, AppSends, serverVars
<1>2. /\ sends' = sends + 1
      /\ \A t \in ToSet(tasks') :
           \/ t \in ToSet(tasks) \/ t.do = "close" \/ (t.do = "outgoing" /\ t.of = sends')
      /\ \A t, u : Precedes(tasks', t, u) =>
           \/ Precedes(tasks, t, u) \/ u.do = "close"
           \/ t \in ToSet(tasks) /\ u.do = "outgoing" /\ u.of = sends'
  BY <1>1, AppSendsQueues
<1>3. /\ \A t \in ToSet(tasks) : t.do \in {"outgoing", "forward"} => t.of \in 1..sends
      /\ \A n \in 1..sends : n < sends'
  BY <1>1, <1>2 DEF TasksMeant
<1>4. \A m \in Message : m <= sends => m < sends' /\ m <= sends'
  BY <1>1, <1>2, BoundsAssumption DEF Message
<1>5. prevented \subseteq Message
  BY <1>1 DEF TypeOK
<1>6. ForwardsQueued'
  <2>1. \A t, u : Precedes(tasks', t, u) /\ t.do = "outgoing" /\ u.do = "outgoing" => t.of < u.of
    BY <1>2, <1>3 DEF ForwardOrder, ForwardsQueued
  <2>2. \A t, u : Precedes(tasks', t, u) /\ t.do = "forward" /\ u.do = "forward" => t.of < u.of
    BY <1>2 DEF ForwardOrder, ForwardsQueued
  <2>3. \A t, u \in ToSet(tasks') : t.do = "forward" /\ u.do = "outgoing" => t.of < u.of
    BY <1>2, <1>3 DEF ForwardOrder, ForwardsQueued
  <2>4. \A m \in prevented, t \in ToSet(tasks') : t.do = "outgoing" => m < t.of
    BY <1>2, <1>4, <1>5 DEF ForwardOrder, ForwardsQueued
  <2>5. \A m \in prevented : m <= sends'
    BY <1>4, <1>5 DEF ForwardOrder, ForwardsQueued
  <2>6. QED
    BY <1>1, <2>1, <2>2, <2>3, <2>4, <2>5 DEF ForwardsQueued
<1>7. \A c \in Connection : \A m : Has(c, m)' <=> Has(c, m)
  BY <1>1 DEF Has, Flushing, Given
<1>8. ForwardsHad'
  <2>1. ASSUME NEW c \in Connection, NEW m \in Message, Has(c, m)'
        PROVE  /\ m <= sends' /\ m \notin prevented'
               /\ \A t \in ToSet(tasks') : t.do \in {"outgoing", "forward"} => m < t.of
               /\ \A d \in Connection : Has(d, m)' => d = c
    <3>1. /\ m <= sends /\ m \notin prevented
          /\ \A t \in ToSet(tasks) : t.do \in {"outgoing", "forward"} => m < t.of
          /\ \A d \in Connection : Has(d, m) => d = c
      BY <1>7, <2>1 DEF ForwardOrder, ForwardsHad
    <3>2. QED
      BY <1>1, <1>2, <1>4, <1>7, <3>1
  <2>2. QED
    BY <2>1 DEF ForwardsHad
<1>9. ForwardsGiven'
  BY <1>1 DEF ForwardOrder, ForwardsGiven, Flushing, Given
<1>10. QED
  BY <1>6, <1>8, <1>9

\* A message to be forwarded is after those that are, and before those whose
\* event is to come; it may have been prevented.
LEMMA RunOutgoingForwarded ==
  ASSUME ForwardOrder, NEW prevents \in BOOLEAN, RunOutgoing(prevents)
  PROVE  ForwardsQueued' /\ ForwardsHad' /\ ForwardsGiven'
<1>1. /\ Structure /\ TypeOK /\ TasksMeant /\ Runs("outgoing")
      /\ UNCHANGED <<sends, dispatching, real, received>>
      /\ prevented' = IF prevents THEN prevented \cup {Subject} ELSE prevented
  BY DEF ForwardOrder, Structure, RunOutgoing, serverVars
<1>2. PICK s : s = Subject
  OBVIOUS
<1>3. /\ s \in 1..sends /\ s \in Message
      /\ \A t \in ToSet(tasks') :
           t \in ToSet(Tail(tasks)) \/ (t.do = "forward" /\ t.of = s)
      /\ \A t, u : Precedes(tasks', t, u) =>
           \/ Precedes(Tail(tasks), t, u)
           \/ t \in ToSet(Tail(tasks)) /\ u.do = "forward" /\ u.of = s
  BY <1>1, <1>2, OutgoingQueues
<1>4. PICK h : h = Head(tasks)
  OBVIOUS
<1>5. /\ h \in ToSet(tasks) /\ h.do = "outgoing" /\ h.of = s
      /\ ToSet(Tail(tasks)) \subseteq ToSet(tasks)
      /\ \A a, b : Precedes(Tail(tasks), a, b) => Precedes(tasks, a, b)
      /\ \A b \in ToSet(Tail(tasks)) : Precedes(tasks, h, b)
  BY <1>1, <1>2, <1>4, Taken DEF Subject
<1>6. /\ \A t \in ToSet(Tail(tasks)) : t.do = "outgoing" => s < t.of
      /\ \A t \in ToSet(Tail(tasks)) : t.do = "forward" => t.of < s
      /\ \A m \in prevented : m < s
      /\ \A c \in Connection, m \in Message : Has(c, m) => m < s
  <2>1. \A t \in ToSet(Tail(tasks)) : t.do = "outgoing" => s < t.of
    BY <1>5 DEF ForwardOrder, ForwardsQueued
  <2>2. \A t \in ToSet(Tail(tasks)) : t.do = "forward" => t.of < s
    BY <1>5 DEF ForwardOrder, ForwardsQueued
  <2>3. \A m \in prevented : m < s
    BY <1>5 DEF ForwardOrder, ForwardsQueued
  <2>4. \A c \in Connection, m \in Message : Has(c, m) => m < s
    BY <1>5 DEF ForwardOrder, ForwardsHad
  <2>5. QED
    BY <2>1, <2>2, <2>3, <2>4
<1>7. prevented' \subseteq prevented \cup {s} /\ s <= sends
  BY <1>1, <1>2, <1>3, BoundsAssumption DEF TypeOK
<1>8. ForwardsQueued'
  <2>1. \A t, u : Precedes(tasks', t, u) /\ t.do = "outgoing" /\ u.do = "outgoing" => t.of < u.of
    BY <1>3, <1>5 DEF ForwardOrder, ForwardsQueued
  <2>2. \A t, u : Precedes(tasks', t, u) /\ t.do = "forward" /\ u.do = "forward" => t.of < u.of
    BY <1>3, <1>5, <1>6 DEF ForwardOrder, ForwardsQueued
  <2>3. \A t, u \in ToSet(tasks') : t.do = "forward" /\ u.do = "outgoing" => t.of < u.of
    BY <1>3, <1>5, <1>6 DEF ForwardOrder, ForwardsQueued
  <2>4. \A m \in prevented', t \in ToSet(tasks') : t.do = "outgoing" => m < t.of
    BY <1>3, <1>5, <1>6, <1>7 DEF ForwardOrder, ForwardsQueued
  <2>5. \A m \in prevented' : m <= sends
    BY <1>7 DEF ForwardOrder, ForwardsQueued
  <2>6. QED
    BY <1>1, <2>1, <2>2, <2>3, <2>4, <2>5 DEF ForwardsQueued
<1>9. \A c \in Connection : \A m : Has(c, m)' <=> Has(c, m)
  BY <1>1 DEF Has, Flushing, Given
<1>10. ForwardsHad'
  <2>1. ASSUME NEW c \in Connection, NEW m \in Message, Has(c, m)'
        PROVE  /\ m <= sends' /\ m \notin prevented'
               /\ \A t \in ToSet(tasks') : t.do \in {"outgoing", "forward"} => m < t.of
               /\ \A d \in Connection : Has(d, m)' => d = c
    <3>1. /\ m <= sends /\ m \notin prevented /\ m < s
          /\ \A t \in ToSet(tasks) : t.do \in {"outgoing", "forward"} => m < t.of
          /\ \A d \in Connection : Has(d, m) => d = c
      BY <1>6, <1>9, <2>1 DEF ForwardOrder, ForwardsHad
    <3>2. m # s
      BY <1>3, <3>1, BoundsAssumption DEF Message
    <3>3. m \notin prevented'
      BY <1>7, <3>1, <3>2
    <3>4. \A t \in ToSet(tasks') : t.do \in {"outgoing", "forward"} => m < t.of
      BY <1>3, <1>5, <3>1
    <3>5. QED
      BY <1>1, <1>9, <3>1, <3>3, <3>4
  <2>2. QED
    BY <2>1 DEF ForwardsHad
<1>11. ForwardsGiven'
  BY <1>1 DEF ForwardOrder, ForwardsGiven, Flushing, Given
<1>12. QED
  BY <1>8, <1>10, <1>11

\* A message is forwarded to the last connection, which drops it if it is ending.
LEMMA RunForwardForwarded ==
  ASSUME ForwardOrder, RunForward
  PROVE  ForwardsQueued' /\ ForwardsHad' /\ ForwardsGiven'
<1>1. /\ Structure /\ TypeOK /\ TasksMeant /\ Runs("forward") /\ tasks' = Tail(tasks)
      /\ dispatching = <<>>
      /\ UNCHANGED <<sends, prevented, dispatching>>
  BY DEF ForwardOrder, Structure, RunForward, Runs, sendVars
<1>2. /\ Unqueued("outgoing") /\ Unqueued("forward") /\ Uncalled("flush")
      /\ ToSet(dispatching') = {} /\ \A k, l : ~Precedes(dispatching', k, l)
  BY <1>1, QuietQueues, EmptyOrder DEF NoneQueued, NoneCalled
<1>3. CASE UNCHANGED <<real, received>>
  BY <1>1, <1>2, <1>3, GivenSteps, StayForwarded DEF ForwardsStay
<1>4. CASE Subject \notin prevented /\ KSend(current, Subject)
  <2>1. PICK s, c, h : s = Subject /\ c = current /\ h = Head(tasks)
    OBVIOUS
  <2>2. /\ s \in 1..sends /\ s \in Message /\ c \in Connection /\ c <= current
        /\ h \in ToSet(tasks) /\ h.do = "forward" /\ h.of = s
        /\ ToSet(tasks') \subseteq ToSet(tasks)
        /\ \A b \in ToSet(tasks') : Precedes(tasks, h, b)
    BY <1>1, <2>1, ForwardMeant, Taken DEF Subject
  <2>3. KSend(c, s) /\ s \notin prevented
    BY <1>4, <2>1
  <2>4. /\ \A d \in Connection : d # c => Given(d)' = Given(d)
        /\ \/ /\ ToSet(Given(c)') = ToSet(Given(c)) \cup {s}
              /\ \A a, b : Precedes(Given(c)', a, b) <=>
                   Precedes(Given(c), a, b) \/ (a \in ToSet(Given(c)) /\ b = s)
           \/ Given(c)' = Given(c)
    BY <1>1, <2>2, <2>3, GivenSent
  <2>5. /\ \A t \in ToSet(tasks') : t.do \in {"outgoing", "forward"} => s < t.of
        /\ \A d \in Connection, m \in Message : Has(d, m) => m < s
    <3>1. \A t \in ToSet(tasks') : t.do = "outgoing" => s < t.of
      BY <2>2 DEF ForwardOrder, ForwardsQueued
    <3>2. \A t \in ToSet(tasks') : t.do = "forward" => s < t.of
      BY <2>2 DEF ForwardOrder, ForwardsQueued
    <3>3. \A d \in Connection, m \in Message : Has(d, m) => m < s
      BY <2>2 DEF ForwardOrder, ForwardsHad
    <3>4. QED
      BY <3>1, <3>2, <3>3
  <2>6. \A d \in Connection : \A m : Has(d, m)' => Has(d, m) \/ (d = c /\ m = s)
    BY <1>2, <2>4 DEF Has, Flushing
  <2>7. \A d \in Connection : ~Has(d, s)
    BY <2>2, <2>5, BoundsAssumption DEF Message
  <2>8. ForwardsQueued'
    BY <1>1, <1>2 DEF ForwardOrder, ForwardsQueued, Unqueued
  <2>9. ForwardsHad'
    <3>1. ASSUME NEW d \in Connection, NEW m \in Message, Has(d, m)'
          PROVE  /\ m <= sends' /\ m \notin prevented'
                 /\ \A t \in ToSet(tasks') : t.do \in {"outgoing", "forward"} => m < t.of
                 /\ \A e \in Connection : Has(e, m)' => e = d
      <4>1. CASE m = s
        <5>1. d = c /\ \A e \in Connection : Has(e, m)' => e = c
          BY <2>6, <2>7, <3>1, <4>1
        <5>2. m <= sends
          BY <1>1, <2>2, <4>1 DEF TypeOK
        <5>3. QED
          BY <1>1, <2>3, <2>5, <4>1, <5>1, <5>2
      <4>2. CASE m # s
        <5>1. Has(d, m) /\ \A e \in Connection : Has(e, m)' => Has(e, m)
          BY <2>6, <3>1, <4>2
        <5>2. /\ m <= sends /\ m \notin prevented
              /\ \A t \in ToSet(tasks) : t.do \in {"outgoing", "forward"} => m < t.of
              /\ \A e \in Connection : Has(e, m) => e = d
          BY <5>1 DEF ForwardOrder, ForwardsHad
        <5>3. QED
          BY <1>1, <2>2, <5>1, <5>2
      <4>3. QED
        BY <4>1, <4>2
    <3>2. QED
      BY <3>1 DEF ForwardsHad
  <2>10. ForwardsGiven'
    <3>1. ASSUME NEW d \in Connection, NEW m \in Message, NEW n \in Message,
                 Precedes(Given(d)', m, n)
          PROVE  m < n
      <4>1. Precedes(Given(d), m, n) \/ (d = c /\ m \in ToSet(Given(c)) /\ n = s)
        BY <2>4, <3>1
      <4>2. CASE Precedes(Given(d), m, n)
        BY <4>2 DEF ForwardOrder, ForwardsGiven
      <4>3. CASE d = c /\ m \in ToSet(Given(c)) /\ n = s
        BY <2>5, <4>3 DEF Has
      <4>4. QED
        BY <4>1, <4>2, <4>3
    <3>2. QED
      BY <1>2, <3>1 DEF ForwardsGiven, Flushing
  <2>11. QED
    BY <2>8, <2>9, <2>10
<1>5. QED
  BY <1>3, <1>4 DEF RunForward, IsPrevented

\* What a connection is sent of what was deferred is what it waited for first.
LEMMA CallFlushGiven ==
  ASSUME Structure, CallFlush, NEW c, c = Listener.on, NEW m, m = Listener.of
  PROVE  /\ c \in Connection /\ m \in Message \cup {Extra} /\ Flushing(c, m)
         /\ \A d \in Connection : d # c => Given(d)' = Given(d)
         /\ \/ /\ real[c].state = "OPEN" /\ ToSet(Given(c)') = ToSet(Given(c)) \cup {m}
               /\ \A a, b : Precedes(Given(c)', a, b) <=>
                    Precedes(Given(c), a, b) \/ (a \in ToSet(Given(c)) /\ b = m)
            \/ real[c].state # "OPEN" /\ Given(c)' = Given(c)
<1>1. TypeOK /\ real' = real
  BY DEF Structure, CallFlush
<1>2. /\ c \in Connection /\ m \in Message \cup {Extra} /\ real[c].deferred = <<>>
      /\ \A d \in Connection : d # c => received'[d] = received[d]
      /\ \/ received' = received /\ real[c].state # "OPEN"
         \/ received'[c] = Append(received[c], m) /\ real[c].state = "OPEN"
  BY CallFlushDoes
<1>3. Flushing(c, m)
  BY CallFlushDoes DEF Flushing
<1>4. \A d \in Connection : d # c => Given(d)' = Given(d)
  BY <1>1, <1>2 DEF Given
<1>5. CASE received' = received /\ real[c].state # "OPEN"
  BY <1>1, <1>2, <1>3, <1>4, <1>5 DEF Given
<1>6. CASE received'[c] = Append(received[c], m) /\ real[c].state = "OPEN"
  <2>1. PICK r, d, e, g, h : /\ r = received[c] /\ d = real[c].deferred /\ e = Append(r, m)
                             /\ g = Given(c) /\ h = Given(c)'
    OBVIOUS
  <2>2. /\ r \in Seq(Message \cup {Extra}) /\ d \in Seq(Message \cup {Extra}) /\ d = <<>>
        /\ e \in Seq(Message \cup {Extra})
        /\ ToSet(e) = ToSet(r) \cup {m}
        /\ \A a, b : Precedes(e, a, b) <=> Precedes(r, a, b) \/ (a \in ToSet(r) /\ b = m)
    BY <1>1, <1>2, <2>1, ConnectionParts, AppendOrder
  <2>3. g = r \o d /\ h = e \o d
    BY <1>1, <1>6, <2>1 DEF Given
  <2>4. ToSet(g) = ToSet(r) /\ \A a, b : Precedes(g, a, b) <=> Precedes(r, a, b)
    BY <2>2, <2>3, GivenParts
  <2>5. ToSet(h) = ToSet(e) /\ \A a, b : Precedes(h, a, b) <=> Precedes(e, a, b)
    BY <2>2, <2>3, GivenParts
  <2>6. QED
    BY <1>2, <1>3, <1>4, <1>6, <2>1, <2>2, <2>4, <2>5
<1>7. QED
  BY <1>2, <1>5, <1>6

\* It keeps the order of what the connection is given.
LEMMA CallFlushForwarded ==
  ASSUME ForwardOrder, CallFlush
  PROVE  ForwardsQueued' /\ ForwardsHad' /\ ForwardsGiven'
<1>1. /\ Structure /\ TypeOK /\ Calls("flush") /\ dispatching' = Tail(dispatching)
      /\ UNCHANGED <<sends, prevented, tasks>>
  BY DEF ForwardOrder, Structure, CallFlush, sendVars
<1>2. PICK c, m, k : c = Listener.on /\ m = Listener.of /\ k = Listener
  OBVIOUS
<1>3. /\ c \in Connection /\ m \in Message \cup {Extra} /\ Flushing(c, m)
      /\ \A d \in Connection : d # c => Given(d)' = Given(d)
      /\ \/ /\ ToSet(Given(c)') = ToSet(Given(c)) \cup {m}
            /\ \A a, b : Precedes(Given(c)', a, b) <=>
                 Precedes(Given(c), a, b) \/ (a \in ToSet(Given(c)) /\ b = m)
         \/ Given(c)' = Given(c)
  BY <1>1, <1>2, CallFlushGiven
<1>4. /\ k \in ToSet(dispatching) /\ k.do = "flush" /\ k.on = c /\ k.of = m
      /\ ToSet(dispatching') \subseteq ToSet(dispatching)
      /\ \A a, b : Precedes(dispatching', a, b) => Precedes(dispatching, a, b)
      /\ \A b \in ToSet(dispatching') : Precedes(dispatching, k, b)
  BY <1>1, <1>2, Called
<1>5. \A d, n : Flushing(d, n)' => Flushing(d, n)
  BY <1>4 DEF Flushing
<1>6. \A d \in Connection : \A n : Has(d, n)' => Has(d, n)
  BY <1>3, <1>5 DEF Has
<1>7. ForwardsQueued'
  BY <1>1 DEF ForwardOrder, ForwardsQueued
<1>8. ForwardsHad'
  <2>1. ASSUME NEW d \in Connection, NEW n \in Message, Has(d, n)'
        PROVE  /\ n <= sends' /\ n \notin prevented'
               /\ \A t \in ToSet(tasks') : t.do \in {"outgoing", "forward"} => n < t.of
               /\ \A e \in Connection : Has(e, n)' => e = d
    BY <1>1, <1>6, <2>1 DEF ForwardOrder, ForwardsHad
  <2>2. QED
    BY <2>1 DEF ForwardsHad
<1>9. ForwardsGiven'
  <2>1. ASSUME NEW d \in Connection, NEW a \in Message, NEW b \in Message,
               Precedes(Given(d)', a, b)
        PROVE  a < b
    <3>1. Precedes(Given(d), a, b) \/ (d = c /\ a \in ToSet(Given(c)) /\ b = m)
      BY <1>3, <2>1
    <3>2. QED
      BY <1>3, <3>1 DEF ForwardOrder, ForwardsGiven
  <2>2. ASSUME NEW d \in Connection, NEW a \in Message, NEW b \in Message,
               a \in ToSet(Given(d)'), Flushing(d, b)'
        PROVE  a < b
    <3>1. a \in ToSet(Given(d)) \/ (d = c /\ a = m)
      BY <1>3, <2>2
    <3>2. CASE a \in ToSet(Given(d))
      BY <1>5, <2>2, <3>2 DEF ForwardOrder, ForwardsGiven
    <3>3. CASE d = c /\ a = m
      <4>1. PICK l \in ToSet(dispatching') : l.do = "flush" /\ l.on = d /\ l.of = b
        BY <2>2 DEF Flushing
      <4>2. Precedes(dispatching, k, l)
        BY <1>4, <4>1
      <4>3. QED
        BY <1>4, <3>3, <4>1, <4>2 DEF ForwardOrder, ForwardsGiven
    <3>4. QED
      BY <3>1, <3>2, <3>3
  <2>3. \A a, b : Precedes(dispatching', a, b) /\ a.do = "flush" /\ b.do = "flush" =>
          (a.of \in Message /\ b.of \in Message => a.of < b.of)
    BY <1>4 DEF ForwardOrder, ForwardsGiven
  <2>4. QED
    BY <2>1, <2>2, <2>3 DEF ForwardsGiven
<1>10. QED
  BY <1>7, <1>8, <1>9

\* What was deferred is about to be sent, in its order.
LEMMA RealOpensForwarded ==
  ASSUME ForwardOrder, NEW c \in Connection, RealOpens(c)
  PROVE  ForwardsQueued' /\ ForwardsHad' /\ ForwardsGiven'
<1>1. /\ Structure /\ TypeOK /\ Idle
      /\ UNCHANGED <<sends, prevented, tasks, received>>
  BY DEF ForwardOrder, Structure, RealOpens, sendVars
<1>2. /\ real'[c].deferred = <<>> /\ received[c] = <<>>
      /\ \A d \in Connection : d # c => real'[d] = real[d]
      /\ \A l \in ToSet(dispatching') :
           l.do = "flush" /\ l.on = c /\ l.of \in ToSet(real[c].deferred)
      /\ \A k, l : Precedes(dispatching', k, l) => Precedes(real[c].deferred, k.of, l.of)
  BY <1>1, RealOpensDoes
<1>3. PICK r, d, g, h : /\ r = received[c] /\ d = real[c].deferred
                        /\ g = Given(c) /\ h = Given(c)'
  OBVIOUS
<1>4. r \in Seq(Message \cup {Extra}) /\ d \in Seq(Message \cup {Extra}) /\ r = <<>>
  BY <1>1, <1>2, <1>3, ConnectionParts
<1>5. g = r \o d /\ h = r \o r
  BY <1>1, <1>2, <1>3 DEF Given
<1>6. ToSet(g) = ToSet(d) /\ \A a, b : Precedes(g, a, b) <=> Precedes(d, a, b)
  BY <1>4, <1>5, GivenParts
<1>7. ToSet(h) = {} /\ \A a, b : ~Precedes(h, a, b)
  BY <1>4, <1>5, GivenParts, EmptyOrder
<1>8. \A e \in Connection : e # c => Given(e)' = Given(e)
  BY <1>1, <1>2 DEF Given
<1>9. \A e, m : Flushing(e, m)' => e = c /\ m \in ToSet(g)
  BY <1>2, <1>3, <1>6 DEF Flushing
<1>10. \A e \in Connection : \A m : Has(e, m)' => Has(e, m)
  BY <1>3, <1>7, <1>8, <1>9 DEF Has
<1>11. ForwardsQueued'
  BY <1>1 DEF ForwardOrder, ForwardsQueued
<1>12. ForwardsHad'
  <2>1. ASSUME NEW e \in Connection, NEW m \in Message, Has(e, m)'
        PROVE  /\ m <= sends' /\ m \notin prevented'
               /\ \A t \in ToSet(tasks') : t.do \in {"outgoing", "forward"} => m < t.of
               /\ \A f \in Connection : Has(f, m)' => f = e
    BY <1>1, <1>10, <2>1 DEF ForwardOrder, ForwardsHad
  <2>2. QED
    BY <2>1 DEF ForwardsHad
<1>13. ForwardsGiven'
  <2>1. ASSUME NEW e \in Connection, NEW a \in Message, NEW b \in Message,
               Precedes(Given(e)', a, b)
        PROVE  a < b
    <3>1. Precedes(Given(e), a, b)
      BY <1>3, <1>7, <1>8, <2>1
    <3>2. QED
      BY <3>1 DEF ForwardOrder, ForwardsGiven
  <2>2. \A k, l : Precedes(dispatching', k, l) /\ k.do = "flush" /\ l.do = "flush" =>
          (k.of \in Message /\ l.of \in Message => k.of < l.of)
    <3>1. \A k, l : Precedes(dispatching', k, l) => Precedes(Given(c), k.of, l.of)
      BY <1>2, <1>3, <1>6
    <3>2. QED
      BY <3>1 DEF ForwardOrder, ForwardsGiven
  <2>3. \A e \in Connection : \A a, b : ~(a \in ToSet(Given(e)') /\ Flushing(e, b)')
    BY <1>3, <1>7, <1>9
  <2>4. QED
    BY <2>1, <2>2, <2>3 DEF ForwardsGiven
<1>14. QED
  BY <1>11, <1>12, <1>13

\* Nothing has been sent at the start, and every step keeps the order.
LEMMA ForwardOrderInductive ==
  /\ Init => ForwardOrder
  /\ ForwardOrder /\ [Next]_vars => ForwardOrder'
<1>1. Init => ForwardOrder
  <2> SUFFICES ASSUME Init
               PROVE  ForwardOrder
    OBVIOUS
  <2>1. /\ dispatching = <<>> /\ tasks = <<[do |-> "connection", of |-> 0]>> /\ prevented = {}
        /\ \A c \in Connection : received[c] = <<>> /\ real[c].deferred = <<>>
    BY DEF Init, NoConnection
  <2>2. PICK first : first = [do |-> "connection", of |-> 0]
    OBVIOUS
  <2>3. ToSet(tasks) = {first} /\ first.do = "connection" /\ \A t, u : ~Precedes(tasks, t, u)
    BY <2>1, <2>2, SingleOrder
  <2>4. PICK r, g : r = <<>> /\ g = r \o r
    OBVIOUS
  <2>5. r \in Seq(Message \cup {Extra})
    BY <2>4, EmptyOrder
  <2>6. ToSet(g) = {} /\ \A a, b : ~Precedes(g, a, b)
    BY <2>4, <2>5, GivenParts, EmptyOrder
  <2>7. \A c \in Connection : Given(c) = g
    BY <2>1, <2>4 DEF Given
  <2>8. ToSet(dispatching) = {} /\ \A k, l : ~Precedes(dispatching, k, l)
    BY <2>1, EmptyOrder
  <2>9. \A c \in Connection : \A m : ~Has(c, m) /\ ~Flushing(c, m)
    BY <2>6, <2>7, <2>8 DEF Has, Flushing
  <2>10. ForwardsQueued
    BY <2>1, <2>3 DEF ForwardsQueued
  <2>11. ForwardsHad /\ ForwardsGiven
    BY <2>6, <2>7, <2>8, <2>9 DEF ForwardsHad, ForwardsGiven
  <2>12. QED
    BY <2>10, <2>11, InitStructure DEF ForwardOrder
<1>2. ASSUME ForwardOrder, [Next]_vars
      PROVE  ForwardOrder'
  <2>1. Structure /\ Structure'
    BY <1>2, StepStructure DEF ForwardOrder
  <2>2. CASE Application
    BY <1>2, <2>1, <2>2, AppSendsForwarded, StepKinds, ForwardStaySteps, StayForwarded
       DEF Application, ForwardOrder
  <2>3. CASE Interceptor
    <3>1. CASE \E isError \in BOOLEAN : ListenersThrow(isError)
      <4>1. ListenersThrow(TRUE) \/ ListenersThrow(FALSE)
        BY <3>1
      <4>2. QED
        BY <1>2, <2>1, <4>1, StepKinds, ForwardStaySteps, StayForwarded DEF ForwardOrder
    <3>2. CASE \/ MockSends \/ MockCloses \/ ServerConnects \/ ServerSends \/ ServerCloses
               \/ ListenersEnd
      BY <1>2, <2>1, <3>2, StepKinds, ForwardStaySteps, StayForwarded DEF ForwardOrder
    <3>3. QED
      BY <2>3, <3>1, <3>2 DEF Interceptor
  <2>4. CASE Library
    <3>1. CASE RunForward \/ CallFlush
      BY <1>2, <2>1, <3>1, RunForwardForwarded, CallFlushForwarded DEF ForwardOrder
    <3>2. CASE \/ RunConnection \/ RunOpen \/ RunDeliver \/ RunClose \/ RunServerClosed
               \/ CallMessage \/ CallMockClose \/ PassesThrough
      BY <1>2, <2>1, <3>2, StepKinds, ForwardStaySteps, StayForwarded DEF ForwardOrder
    <3>3. CASE \E prevents \in BOOLEAN : RunOutgoing(prevents)
      BY <1>2, <2>1, <3>3, RunOutgoingForwarded DEF ForwardOrder
    <3>4. QED
      BY <2>4, <3>1, <3>2, <3>3 DEF Library
  <2>5. CASE OriginalServer
    BY <1>2, <2>1, <2>5, RealOpensForwarded, ForwardStaySteps, StayForwarded
       DEF OriginalServer, ForwardOrder
  <2>6. CASE UNCHANGED vars
    <3>1. ForwardsStay
      BY <2>1, <2>6, QuietQueues, GivenSteps DEF vars, taskVars, serverVars, sendVars,
                                     ForwardsStay, NoneQueued, NoneCalled
    <3>2. QED
      BY <1>2, <2>1, <3>1, StayForwarded DEF ForwardOrder
  <2>7. QED
    BY <1>2, <2>2, <2>3, <2>4, <2>5, <2>6 DEF Next
<1>3. QED
  BY <1>1, <1>2

\* What the application sends reaches the original server in order, once, on one
\* connection, and never if its event was prevented.
THEOREM ForwardedMessagesInOrder == Spec => []ForwardedInOrder
<1>1. ForwardOrder => ForwardedInOrder
  <2> SUFFICES ASSUME ForwardOrder, NEW c \in Connection
               PROVE  /\ \A i, j \in DOMAIN Given(c) :
                           i < j /\ {Given(c)[i], Given(c)[j]} \subseteq Message =>
                             Given(c)[i] < Given(c)[j]
                      /\ Sent(c) \cap prevented = {}
                      /\ \A d \in Connection \ {c} : Sent(c) \cap Sent(d) = {}
    BY DEF ForwardedInOrder
  <2>1. ASSUME NEW i \in DOMAIN Given(c), NEW j \in DOMAIN Given(c),
               i < j /\ {Given(c)[i], Given(c)[j]} \subseteq Message
        PROVE  Given(c)[i] < Given(c)[j]
    <3>1. Precedes(Given(c), Given(c)[i], Given(c)[j])
      BY <2>1 DEF Precedes
    <3>2. QED
      BY <2>1, <3>1 DEF ForwardOrder, ForwardsGiven
  <2>2. \A d \in Connection : \A m \in Sent(d) : m \in Message /\ Has(d, m)
    <3>1. ASSUME NEW d \in Connection, NEW m \in Sent(d)
          PROVE  m \in Message /\ Has(d, m)
      <4>1. PICK g : g = Given(d)
        OBVIOUS
      <4>2. g \in Seq(Message \cup {Extra})
        BY <4>1, ConnectionParts, ConcatOrder DEF ForwardOrder, Structure, Given
      <4>3. ToSet(g) \subseteq Message \cup {Extra}
        BY <4>2, ElementsOf
      <4>4. QED
        BY <4>1, <4>3 DEF Sent, Has
    <3>2. QED
      BY <3>1
  <2>3. QED
    BY <2>1, <2>2 DEF ForwardOrder, ForwardsHad
<1>2. QED
  BY <1>1, ForwardOrderInductive, PTL DEF Spec

-----------------------------------------------------------------------------
(* Messages sent to a connected server.                                      *)

NobodyCloses == \A c \in Connection : real[c].closer = "nobody"

\* A message that is not lost: its event was prevented, or it is in a microtask,
\* or a connection has it.
Safe(m) ==
  \/ m \in prevented
  \/ \E t \in ToSet(tasks) : t.do \in {"outgoing", "forward"} /\ t.of = m
  \/ \E c \in Connection : Has(c, m)

\* None is offered before the client opens, or before a connection is made.
Offers ==
  /\ offered \subseteq 1..sends
  /\ offered # {} => current # 0
  /\ readyState = "CONNECTING" => offered = {}

\* While the client is open and nobody closes a connection, none is lost.
NoLoss ==
  /\ Structure /\ Offers
  /\ \A c \in Connection : real[c].state = "NONE" => real[c].deferred = <<>>
  /\ readyState = "OPEN" /\ NobodyCloses => \A m \in offered : Safe(m)

\* A step that makes no offer and, if it leaves the client open and closes no
\* connection, loses no message.
LosesNone ==
  /\ UNCHANGED offered /\ sends' = sends
  /\ current' \in {current, current + 1}
  /\ readyState' = readyState \/ Ending(readyState') \/ readyState = "CONNECTING"
  /\ readyState = "CONNECTING" \/ readyState' # "CONNECTING"
  /\ readyState' = "OPEN" /\ NobodyCloses' =>
       NobodyCloses /\ \A m \in offered : Safe(m) => Safe(m)'

\* It keeps what is offered safe.
LEMMA LosesNoneKeeps ==
  ASSUME NoLoss, LosesNone
  PROVE  /\ Offers'
         /\ readyState' = "OPEN" /\ NobodyCloses' => \A m \in offered' : Safe(m)'
<1>1. Offers'
  <2>1. current # 0 => current' # 0
    BY DEF NoLoss, LosesNone, Structure, TypeOK
  <2>2. QED
    BY <2>1 DEF NoLoss, LosesNone, Offers
<1>2. ASSUME readyState' = "OPEN", NobodyCloses', NEW m \in offered'
      PROVE  Safe(m)'
  <2>1. readyState = "OPEN"
    BY <1>2 DEF NoLoss, LosesNone, Offers, Ending
  <2>2. QED
    BY <1>2, <2>1 DEF NoLoss, LosesNone
<1>3. QED
  BY <1>1, <1>2

\* A connection that was never made was given nothing.
LEMMA NoneDeferred ==
  ASSUME NoLoss, [Next]_vars
  PROVE  \A c \in Connection : real'[c].state = "NONE" => real'[c].deferred = <<>>
<1>1. Structure /\ TypeOK /\ ConnectionsKept /\ TasksMeant /\ ListenersMeant
  BY DEF NoLoss, Structure
<1>2. \A c \in Connection : real[c].state = "NONE" => real[c].deferred = <<>>
  BY DEF NoLoss
<1>3. UNCHANGED real => \A c \in Connection : real'[c].state = "NONE" => real'[c].deferred = <<>>
  BY <1>2
<1>4. ASSUME NEW c \in Connection, c <= current, NEW m \in Message \cup {Extra}, KSend(c, m)
      PROVE  \A d \in Connection : real'[d].state = "NONE" => real'[d].deferred = <<>>
  <2>1. /\ \A d \in Connection : d # c => real'[d] = real[d]
        /\ Kept(c, m) \/ real' = real
        /\ real'[c].state = real[c].state
    BY <1>1, <1>4, ServerSent DEF Delivered, Dropped
  <2>2. QED
    BY <1>2, <2>1 DEF Kept
<1>5. CASE Application
  BY <1>3, <1>5 DEF Application, AppSends, AppCloses, serverVars
<1>6. CASE Interceptor
  <2>1. CASE ServerConnects
    BY <1>1, <1>2, <2>1, StepKinds, Connected DEF ConnectsServer
  <2>2. CASE ServerSends
    <3>1. current \in Connection /\ current <= current /\ Extra \in Message \cup {Extra}
      BY <1>1, <2>2, BoundsAssumption DEF TypeOK, ServerSends, Connection
    <3>2. QED
      BY <1>4, <2>2, <3>1 DEF ServerSends
  <2>3. CASE ServerCloses
    <3>1. \A d \in Connection : real'[d].state = "NONE" => real[d].state = "NONE"
      BY <1>1, <2>3, ServerClosesReal
    <3>2. QED
      BY <1>1, <1>2, <2>3, <3>1, ServerClosesReal
  <2>4. CASE \/ MockSends \/ MockCloses \/ ListenersEnd
             \/ \E isError \in BOOLEAN : ListenersThrow(isError)
    BY <1>3, <2>4 DEF MockSends, MockCloses, ListenersEnd, ListenersThrow, serverVars
  <2>5. QED
    BY <1>6, <2>1, <2>2, <2>3, <2>4 DEF Interceptor
<1>7. CASE Library
  <2>1. CASE PassesThrough
    BY <1>1, <1>2, <2>1, StepKinds, Connected DEF ConnectsServer
  <2>2. CASE RunForward
    <3>1. UNCHANGED real \/ KSend(current, Subject)
      BY <2>2 DEF RunForward
    <3>2. Subject \in Message \cup {Extra} /\ current \in Connection /\ current <= current
      BY <1>1, <2>2, ForwardMeant DEF RunForward
    <3>3. QED
      BY <1>3, <1>4, <3>1, <3>2
  <2>3. CASE CallMockClose
    <3>1. \A d \in Connection : real'[d].state = "NONE" => real[d].state = "NONE"
      BY <1>1, <2>3, MockCloseReal
    <3>2. QED
      BY <1>1, <1>2, <2>3, <3>1, MockCloseReal
  <2>4. CASE \/ RunConnection \/ RunOpen \/ RunDeliver \/ RunClose \/ RunServerClosed
             \/ CallMessage \/ CallFlush
             \/ \E prevents \in BOOLEAN : RunOutgoing(prevents)
    BY <1>3, <2>4 DEF RunConnection, RunOpen, RunDeliver, RunClose, RunServerClosed,
                      CallMessage, CallFlush, RunOutgoing, serverVars
  <2>5. QED
    BY <1>7, <2>1, <2>2, <2>3, <2>4 DEF Library
<1>8. CASE OriginalServer
  <2>1. PICK c \in Connection : RealOpens(c) \/ \E prevents \in BOOLEAN : RealCloses(c, prevents)
    BY <1>8 DEF OriginalServer
  <2>2. CASE RealOpens(c)
    BY <1>1, <1>2, <2>2, RealOpensDoes
  <2>3. CASE \E prevents \in BOOLEAN : RealCloses(c, prevents)
    BY <1>1, <1>2, <2>3, RealClosesDoes
  <2>4. QED
    BY <2>1, <2>2, <2>3
<1>9. CASE UNCHANGED vars
  BY <1>3, <1>9 DEF vars, serverVars
<1>10. QED
  BY <1>5, <1>6, <1>7, <1>8, <1>9 DEF Next

\* A step that takes no message from where it is safe.
KeepsSafe ==
  /\ prevented \subseteq prevented'
  /\ \A t \in ToSet(tasks) : t.do \in {"outgoing", "forward"} => t \in ToSet(tasks')
  /\ \A c \in Connection, m \in Message : Has(c, m) => Has(c, m)'

\* Messages stay safe.
LEMMA KeepsSafeKeeps ==
  ASSUME Structure, KeepsSafe, NEW m \in offered, Safe(m)
  PROVE  Safe(m)'
<1>1. m \in Message
  BY DEF Structure, TypeOK
<1>2. QED
  BY <1>1 DEF KeepsSafe, Safe

\* No message of the application leaves its microtask.
NoneLeaves ==
  \A t \in ToSet(tasks) : t.do \in {"outgoing", "forward"} => t \in ToSet(tasks')

\* What becomes of the messages on their way if the client stays open and nobody
\* closes a connection.
LEMMA QuietKeepsSafe ==
  ASSUME Structure, UNCHANGED <<prevented, tasks>> \/ (UNCHANGED prevented /\ NoneLeaves),
         \A c \in Connection : Given(c)' = Given(c),
         \A l \in ToSet(dispatching) : l.do = "flush" => l \in ToSet(dispatching')
  PROVE  KeepsSafe
<1>1. \A c, m : Flushing(c, m) => Flushing(c, m)'
  BY DEF Flushing
<1>2. \A c \in Connection, m \in Message : Has(c, m) => Has(c, m)'
  BY <1>1 DEF Has
<1>3. QED
  BY <1>2 DEF KeepsSafe, NoneLeaves

\* Steps that leave the connections alone, and the queues but for what is not a
\* message of the application.
LEMMA HandlesLoseNone ==
  ASSUME NoLoss
  PROVE  /\ ClosesClient \/ MockSends \/ ListenersEnd \/ ListenersThrow(FALSE) => LosesNone
         /\ RunConnection \/ RunOpen \/ RunDeliver \/ RunClose \/ RunServerClosed
            \/ CallMessage => LosesNone
<1>1. Structure /\ TypeOK /\ TasksMeant /\ tasks \in Seq(Microtask)
  BY DEF NoLoss, Structure, TypeOK
<1>2. ASSUME KeepsSafe, UNCHANGED <<offered, sends, current, real, received>>,
             \/ readyState' = readyState \/ Ending(readyState')
             \/ readyState = "CONNECTING" /\ readyState' = "OPEN"
      PROVE  LosesNone
  <2>1. NobodyCloses' => NobodyCloses
    BY <1>2 DEF NobodyCloses
  <2>2. \A m \in offered : Safe(m) => Safe(m)'
    BY <1>1, <1>2, KeepsSafeKeeps
  <2>3. readyState = "CONNECTING" \/ readyState' # "CONNECTING"
    BY <1>2 DEF Ending
  <2>4. readyState' = readyState \/ Ending(readyState') \/ readyState = "CONNECTING"
    BY <1>2
  <2>5. QED
    BY <1>2, <2>1, <2>2, <2>3, <2>4 DEF LosesNone
<1>3. UNCHANGED <<real, received>> => \A c \in Connection : Given(c)' = Given(c)
  BY DEF Given
<1>4. ASSUME NEW t \in Microtask, tasks' = Append(tasks, t)
      PROVE  NoneLeaves
  BY <1>1, <1>4, AppendOrder DEF NoneLeaves
<1>5. ClosesClient => LosesNone
  <2> SUFFICES ASSUME ClosesClient
               PROVE  LosesNone
    OBVIOUS
  <2>1. Ending(readyState') /\ NoneLeaves
    BY <1>1, ClientClosed DEF ClosesClient, NoneLeaves, Ending
  <2>2. UNCHANGED <<prevented, offered, sends, current, real, received, dispatching>>
    BY DEF ClosesClient, serverVars, sendVars
  <2>3. KeepsSafe
    BY <1>1, <1>3, <2>1, <2>2, QuietKeepsSafe
  <2>4. QED
    BY <1>2, <2>1, <2>2, <2>3
<1>6. MockSends => LosesNone
  <2> SUFFICES ASSUME MockSends
               PROVE  LosesNone
    OBVIOUS
  <2>1. UNCHANGED <<prevented, offered, sends, current, real, received, dispatching, readyState>>
    BY DEF MockSends, serverVars, clientVars
  <2>2. NoneLeaves
    <3>1. PICK t : t = [do |-> "deliver", of |-> mocks']
      OBVIOUS
    <3>2. mocks' \in Nat
      BY <1>1 DEF MockSends, TypeOK
    <3>3. t \in Microtask /\ tasks' = Append(tasks, t)
      BY <3>1, <3>2, Records DEF MockSends
    <3>4. QED
      BY <1>4, <3>3
  <2>3. KeepsSafe
    BY <1>1, <1>3, <2>1, <2>2, QuietKeepsSafe
  <2>4. QED
    BY <1>2, <2>1, <2>3
<1>7. ListenersEnd \/ ListenersThrow(FALSE) => LosesNone
  <2> SUFFICES ASSUME ListenersEnd \/ ListenersThrow(FALSE)
               PROVE  LosesNone
    OBVIOUS
  <2>1. UNCHANGED <<prevented, offered, sends, current, real, received, dispatching, readyState>>
    BY DEF ListenersEnd, ListenersThrow, serverVars, sendVars, clientVars
  <2>2. UNCHANGED tasks \/ NoneLeaves
    BY <1>4, Records DEF ListenersEnd, ListenersThrow, MockedOpen
  <2>3. KeepsSafe
    BY <1>1, <1>3, <2>1, <2>2, QuietKeepsSafe
  <2>4. QED
    BY <1>2, <2>1, <2>3
<1>8. ASSUME Runs("connection") \/ Runs("open") \/ Runs("deliver") \/ Runs("close")
             \/ Runs("serverClosed"),
             tasks' = Tail(tasks)
      PROVE  NoneLeaves /\ ToSet(dispatching) = {}
  <2>1. /\ ToSet(tasks) = ToSet(tasks') \cup {Head(tasks)}
        /\ Head(tasks).do \in {"connection", "open", "deliver", "close", "serverClosed"}
    BY <1>1, <1>8, Taken
  <2>2. ToSet(dispatching) = {}
    BY <1>8, EmptyOrder DEF Runs
  <2>3. QED
    BY <2>1, <2>2 DEF NoneLeaves
<1>9. RunConnection \/ RunOpen \/ RunDeliver \/ RunClose \/ RunServerClosed => LosesNone
  <2> SUFFICES ASSUME RunConnection \/ RunOpen \/ RunDeliver \/ RunClose \/ RunServerClosed
               PROVE  LosesNone
    OBVIOUS
  <2>1. UNCHANGED <<prevented, offered, sends, current, real, received>>
    BY DEF RunConnection, RunOpen, RunDeliver, RunClose, RunServerClosed, serverVars, sendVars
  <2>2. NoneLeaves /\ ToSet(dispatching) = {}
    BY <1>8 DEF RunConnection, RunOpen, RunDeliver, RunClose, RunServerClosed
  <2>3. \/ readyState' = readyState \/ Ending(readyState')
        \/ readyState = "CONNECTING" /\ readyState' = "OPEN"
    BY DEF RunConnection, RunOpen, RunDeliver, RunClose, RunServerClosed, clientVars, Ending
  <2>4. KeepsSafe
    BY <1>1, <1>3, <2>1, <2>2, QuietKeepsSafe
  <2>5. QED
    BY <1>2, <2>1, <2>3, <2>4
<1>10. CallMessage => LosesNone
  <2> SUFFICES ASSUME CallMessage
               PROVE  LosesNone
    OBVIOUS
  <2>1. UNCHANGED <<prevented, offered, sends, current, real, received, readyState, tasks>>
    BY DEF CallMessage, serverVars, sendVars
  <2>2. \A l \in ToSet(dispatching) : l.do = "flush" => l \in ToSet(dispatching')
    BY <1>1, Called DEF CallMessage
  <2>3. KeepsSafe
    BY <1>1, <1>3, <2>1, <2>2, QuietKeepsSafe
  <2>4. QED
    BY <1>2, <2>1, <2>3
<1>11. QED
  BY <1>5, <1>6, <1>7, <1>9, <1>10

\* Steps that end a connection.
LEMMA EndsLoseNone ==
  ASSUME NoLoss
  PROVE  /\ ServerCloses \/ CallMockClose => LosesNone
         /\ \A c \in Connection, prevents \in BOOLEAN : RealCloses(c, prevents) => LosesNone
<1>1. Structure /\ TypeOK /\ TasksMeant /\ ConnectionsKept
  BY DEF NoLoss, Structure
<1>2. ASSUME ~NobodyCloses', UNCHANGED <<offered, sends, current>>,
             readyState' = readyState \/ Ending(readyState')
      PROVE  LosesNone
  BY <1>2 DEF LosesNone, Ending
<1>3. ServerCloses => LosesNone
  <2> SUFFICES ASSUME ServerCloses
               PROVE  LosesNone
    OBVIOUS
  <2>1. ~NobodyCloses'
    BY <1>1, ServerClosesReal DEF ConnectionsKept, NobodyCloses, Ending
  <2>2. QED
    BY <1>2, <2>1 DEF ServerCloses, sendVars, clientVars
<1>4. CallMockClose => LosesNone
  <2> SUFFICES ASSUME CallMockClose
               PROVE  LosesNone
    OBVIOUS
  <2>1. ~NobodyCloses'
    BY <1>1, MockCloseReal DEF ConnectionsKept, NobodyCloses, Ending
  <2>2. QED
    BY <1>2, <2>1 DEF CallMockClose, sendVars, clientVars
<1>5. ASSUME NEW c \in Connection, NEW prevents \in BOOLEAN, RealCloses(c, prevents)
      PROVE  LosesNone
  <2>1. ~NobodyCloses'
    BY <1>1, <1>5, RealClosesDoes DEF NobodyCloses
  <2>2. UNCHANGED <<offered, sends, current>>
    BY <1>5 DEF RealCloses, sendVars
  <2>3. readyState' = readyState \/ Ending(readyState')
    <3>1. KClose(tasks) \/ UNCHANGED readyState
      BY <1>5 DEF RealCloses
    <3>2. QED
      BY <1>1, <3>1, ClientClosed DEF Ending
  <2>4. QED
    BY <1>2, <2>1, <2>2, <2>3
<1>6. QED
  BY <1>3, <1>4, <1>5

\* What an open client sends to a connected server is on its way at once.
LEMMA AppSendsKept ==
  ASSUME NoLoss, AppSends
  PROVE  /\ Offers'
         /\ readyState' = "OPEN" /\ NobodyCloses' => \A m \in offered' : Safe(m)'
<1>1. /\ Structure /\ TypeOK /\ TasksMeant /\ Offers /\ sends \in Nat
      /\ UNCHANGED <<prevented, real, received, dispatching, current>>
  BY DEF NoLoss, Structure, TypeOK, AppSends, serverVars
<1>2. /\ sends' = sends + 1 /\ readyState' # "CONNECTING"
      /\ readyState' = "OPEN" => readyState = "OPEN"
      /\ ToSet(tasks) \subseteq ToSet(tasks')
      /\ readyState = "OPEN" => \E t \in ToSet(tasks') : t.do = "outgoing" /\ t.of = sends'
  BY <1>1, AppSendsQueues
<1>3. offered' = offered \/ (offered' = offered \cup {sends'} /\ current # 0)
  BY <1>1 DEF AppSends
<1>4. Offers'
  <2>1. 1..sends \subseteq 1..sends' /\ sends' \in 1..sends'
    BY <1>1, <1>2
  <2>2. QED
    BY <1>1, <1>2, <1>3, <2>1 DEF Offers
<1>5. ASSUME readyState' = "OPEN", NobodyCloses', NEW m \in offered'
      PROVE  Safe(m)'
  <2>1. readyState = "OPEN" /\ NobodyCloses
    BY <1>1, <1>2, <1>5 DEF NobodyCloses
  <2>2. CASE m \in offered
    <3>1. KeepsSafe
      BY <1>1, <1>2 DEF KeepsSafe, Has, Flushing, Given
    <3>2. Safe(m)
      BY <2>1, <2>2 DEF NoLoss
    <3>3. QED
      BY <1>1, <2>2, <3>1, <3>2, KeepsSafeKeeps
  <2>3. CASE m = sends'
    BY <1>2, <2>1, <2>3 DEF Safe
  <2>4. QED
    BY <1>3, <1>5, <2>2, <2>3
<1>6. QED
  BY <1>4, <1>5

\* A new connection takes nothing from the others.
LEMMA ConnectsLoseNone ==
  ASSUME NoLoss, ConnectsServer
  PROVE  LosesNone
<1>1. Structure /\ TypeOK /\ ConnectionsKept /\ current \in Nat
  BY DEF NoLoss, Structure, TypeOK
<1>2. /\ current' = current + 1 /\ current' \in Connection
      /\ \A c \in Connection : c # current' => real'[c] = real[c]
      /\ received' = received
      /\ UNCHANGED <<readyState, tasks, dispatching, prevented, sends, offered>>
  BY <1>1, Connected DEF ConnectsServer, clientVars, taskVars, sendVars
<1>3. PICK c : c = current'
  OBVIOUS
<1>4. real[c].state = "NONE" /\ real[c].closer = "nobody"
      /\ received[c] = <<>> /\ real[c].deferred = <<>>
  <2>1. c > current
    BY <1>1, <1>2, <1>3
  <2>2. real[c].state = "NONE"
    BY <1>1, <1>2, <1>3, <2>1 DEF ConnectionsKept
  <2>3. QED
    BY <1>1, <1>2, <1>3, <2>2 DEF ConnectionsKept, NoLoss
<1>5. NobodyCloses' => NobodyCloses
  BY <1>2, <1>3, <1>4 DEF NobodyCloses
<1>6. KeepsSafe
  <2>1. \A d, m : Flushing(d, m)' <=> Flushing(d, m)
    BY <1>2 DEF Flushing
  <2>2. \A d \in Connection : d # c => Given(d)' = Given(d)
    BY <1>2, <1>3 DEF Given
  <2>3. PICK r, g : r = <<>> /\ g = r \o r
    OBVIOUS
  <2>4. r \in Seq(Message \cup {Extra}) /\ ToSet(g) = {}
    BY <2>3, EmptyOrder, GivenParts
  <2>5. Given(c) = g
    BY <1>4, <2>3 DEF Given
  <2>6. \A d \in Connection, m \in Message : Has(d, m) => Has(d, m)'
    BY <2>1, <2>2, <2>4, <2>5 DEF Has
  <2>7. QED
    BY <1>2, <2>6 DEF KeepsSafe
<1>7. \A m \in offered : Safe(m) => Safe(m)'
  BY <1>1, <1>6, KeepsSafeKeeps
<1>8. QED
  BY <1>2, <1>5, <1>7 DEF LosesNone

\* server.send() adds to what the connection is given.
LEMMA ServerSendsLoseNone ==
  ASSUME NoLoss, ServerSends
  PROVE  LosesNone
<1>1. Structure /\ TypeOK /\ ConnectionsKept /\ ListenersMeant
  BY DEF NoLoss, Structure
<1>2. /\ current \in Connection /\ current <= current /\ Extra \in Message \cup {Extra}
      /\ KSend(current, Extra)
      /\ UNCHANGED <<readyState, tasks, dispatching, prevented, sends, offered, current>>
  BY <1>1, BoundsAssumption DEF TypeOK, ServerSends, Connection, clientVars, taskVars
<1>3. PICK c, m : c = current /\ m = Extra
  OBVIOUS
<1>4. c \in Connection /\ c <= current /\ m \in Message \cup {Extra} /\ KSend(c, m)
  BY <1>2, <1>3
<1>5. /\ \A d \in Connection : d # c => Given(d)' = Given(d)
      /\ ToSet(Given(c)') = ToSet(Given(c)) \cup {m} \/ Given(c)' = Given(c)
  BY <1>1, <1>4, GivenSent
<1>6. NobodyCloses' => NobodyCloses
  BY <1>1, <1>4, ServerSent DEF NobodyCloses
<1>7. KeepsSafe
  <2>1. \A d, n : Flushing(d, n)' <=> Flushing(d, n)
    BY <1>2 DEF Flushing
  <2>2. \A d \in Connection, n \in Message : Has(d, n) => Has(d, n)'
    BY <1>5, <2>1 DEF Has
  <2>3. QED
    BY <1>2, <2>2 DEF KeepsSafe
<1>8. \A n \in offered : Safe(n) => Safe(n)'
  BY <1>1, <1>7, KeepsSafeKeeps
<1>9. QED
  BY <1>2, <1>6, <1>8 DEF LosesNone

\* The microtask that forwards a message is queued if the server is connected.
LEMMA RunOutgoingLosesNone ==
  ASSUME NoLoss, NEW prevents \in BOOLEAN, RunOutgoing(prevents)
  PROVE  LosesNone
<1>1. /\ Structure /\ TypeOK /\ TasksMeant /\ Runs("outgoing")
      /\ UNCHANGED <<readyState, real, received, dispatching, sends, offered, current>>
      /\ prevented \subseteq prevented'
  BY DEF NoLoss, Structure, RunOutgoing, clientVars, serverVars
<1>2. /\ ToSet(Tail(tasks)) \subseteq ToSet(tasks')
      /\ current # 0 => \E t \in ToSet(tasks') : t.do = "forward" /\ t.of = Subject
      /\ ToSet(tasks) = ToSet(Tail(tasks)) \cup {Head(tasks)}
  BY <1>1, OutgoingQueues, Taken
<1>3. NobodyCloses' => NobodyCloses
  BY <1>1 DEF NobodyCloses
<1>4. ASSUME NEW m \in offered, Safe(m)
      PROVE  Safe(m)'
  <2>1. current # 0
    BY <1>4 DEF NoLoss, Offers
  <2>2. CASE m \in prevented
    BY <1>1, <2>2 DEF Safe
  <2>3. CASE \E c \in Connection : Has(c, m)
    BY <1>1, <2>3 DEF Safe, Has, Flushing, Given
  <2>4. ASSUME NEW t \in ToSet(tasks), t.do \in {"outgoing", "forward"}, t.of = m
        PROVE  Safe(m)'
    <3>1. CASE t \in ToSet(Tail(tasks))
      BY <1>2, <2>4, <3>1 DEF Safe
    <3>2. CASE t = Head(tasks)
      BY <1>2, <2>1, <2>4, <3>2 DEF Safe, Subject
    <3>3. QED
      BY <1>2, <3>1, <3>2
  <2>5. QED
    BY <1>4, <2>2, <2>3, <2>4 DEF Safe
<1>5. QED
  BY <1>1, <1>3, <1>4 DEF LosesNone

\* A connection that nobody closes has what is forwarded to it.
LEMMA RunForwardLosesNone ==
  ASSUME NoLoss, RunForward
  PROVE  LosesNone
<1>1. /\ Structure /\ TypeOK /\ TasksMeant /\ ConnectionsKept /\ Runs("forward")
      /\ tasks' = Tail(tasks) /\ dispatching = <<>>
      /\ UNCHANGED <<readyState, dispatching, prevented, sends, offered, current>>
  BY DEF NoLoss, Structure, RunForward, Runs, clientVars, sendVars
<1>2. PICK s, c : s = Subject /\ c = current
  OBVIOUS
<1>3. /\ s \in Message /\ c \in Connection /\ c <= current
      /\ ToSet(tasks) = ToSet(tasks') \cup {Head(tasks)} /\ Head(tasks).of = s
  BY <1>1, <1>2, ForwardMeant, Taken DEF Subject
<1>4. CASE s \in prevented /\ UNCHANGED <<real, received>>
  <2>1. NobodyCloses' => NobodyCloses
    BY <1>4 DEF NobodyCloses
  <2>2. ASSUME NEW m \in offered, Safe(m)
        PROVE  Safe(m)'
    <3>1. CASE m = s
      BY <1>1, <1>4, <3>1 DEF Safe
    <3>2. CASE m # s
      BY <1>1, <1>3, <1>4, <2>2, <3>2 DEF Safe, Has, Flushing, Given
    <3>3. QED
      BY <3>1, <3>2
  <2>3. QED
    BY <1>1, <2>1, <2>2 DEF LosesNone
<1>5. CASE KSend(c, s)
  <2>1. /\ \A d \in Connection : d # c => Given(d)' = Given(d)
        /\ \/ ToSet(Given(c)') = ToSet(Given(c)) \cup {s}
           \/ Ending(real[c].state) /\ Given(c)' = Given(c)
    BY <1>1, <1>3, <1>5, GivenSent
  <2>2. \A d \in Connection : real'[d].closer = real[d].closer
    BY <1>1, <1>3, <1>5, ServerSent
  <2>3. \A d \in Connection, m \in Message : Has(d, m) => Has(d, m)'
    BY <1>1, <2>1 DEF Has, Flushing
  <2>4. NobodyCloses' => NobodyCloses
    BY <2>2 DEF NobodyCloses
  <2>5. ASSUME NobodyCloses, NEW m \in offered, Safe(m)
        PROVE  Safe(m)'
    <3>1. m \in Message
      BY <1>1 DEF TypeOK
    <3>2. CASE m = s
      <4>1. ~Ending(real[c].state)
        BY <1>1, <1>3, <2>5 DEF NobodyCloses, ConnectionsKept, Ending
      <4>2. Has(c, s)'
        BY <2>1, <4>1 DEF Has
      <4>3. QED
        BY <1>3, <3>2, <4>2 DEF Safe
    <3>3. CASE m # s
      BY <1>1, <1>3, <2>3, <2>5, <3>1, <3>3 DEF Safe
    <3>4. QED
      BY <3>2, <3>3
  <2>6. QED
    BY <1>1, <2>4, <2>5 DEF LosesNone
<1>6. QED
  BY <1>2, <1>4, <1>5 DEF RunForward, IsPrevented

\* A connection that nobody closes is sent what was deferred.
LEMMA FlushesLoseNone ==
  ASSUME NoLoss
  PROVE  /\ CallFlush => LosesNone
         /\ \A c \in Connection : RealOpens(c) => LosesNone
<1>1. Structure /\ TypeOK /\ ConnectionsKept
  BY DEF NoLoss, Structure
<1>2. ASSUME CallFlush
      PROVE  LosesNone
  <2>1. UNCHANGED <<readyState, tasks, real, prevented, sends, offered, current>>
    BY <1>2 DEF CallFlush, clientVars, sendVars
  <2>2. PICK c, m : c = Listener.on /\ m = Listener.of
    OBVIOUS
  <2>3. /\ c \in Connection
        /\ \A d \in Connection : d # c => Given(d)' = Given(d)
        /\ \/ ToSet(Given(c)') = ToSet(Given(c)) \cup {m}
           \/ real[c].state # "OPEN" /\ Given(c)' = Given(c)
    BY <1>1, <1>2, <2>2, CallFlushGiven
  <2>4. ToSet(dispatching) = ToSet(dispatching') \cup {Listener}
    BY <1>1, <1>2, Called DEF CallFlush
  <2>5. real[c].state \notin {"NONE", "CONNECTING"}
    BY <1>1, <1>2, <2>2, CallFlushDoes
  <2>6. NobodyCloses' => NobodyCloses
    BY <2>1 DEF NobodyCloses
  <2>7. ASSUME NobodyCloses
        PROVE  KeepsSafe
    <3>1. real[c].state = "OPEN"
      BY <1>1, <2>3, <2>5, <2>7 DEF NobodyCloses, ConnectionsKept
    <3>2. \A d, n : Flushing(d, n) => Flushing(d, n)' \/ (d = c /\ n = m)
      BY <2>2, <2>4 DEF Flushing
    <3>3. \A d \in Connection, n \in Message : Has(d, n) => Has(d, n)'
      BY <2>3, <3>1, <3>2 DEF Has
    <3>4. QED
      BY <2>1, <3>3 DEF KeepsSafe
  <2>8. NobodyCloses => \A n \in offered : Safe(n) => Safe(n)'
    BY <1>1, <2>7, KeepsSafeKeeps
  <2>9. QED
    BY <2>1, <2>6, <2>8 DEF LosesNone
<1>3. ASSUME NEW c \in Connection, RealOpens(c)
      PROVE  LosesNone
  <2>1. /\ UNCHANGED <<readyState, tasks, received, prevented, sends, offered, current>>
        /\ ToSet(dispatching) = {}
    BY <1>3, IdleHoldsNothing DEF RealOpens, sendVars
  <2>2. /\ received[c] = <<>>
        /\ \A d \in Connection : d # c => real'[d] = real[d]
        /\ \A d \in Connection : real'[d].closer = real[d].closer
        /\ \A m \in ToSet(real[c].deferred) :
             \E l \in ToSet(dispatching') : l.do = "flush" /\ l.of = m /\ l.on = c
    BY <1>1, <1>3, RealOpensDoes
  <2>3. PICK r, d, g : r = received[c] /\ d = real[c].deferred /\ g = Given(c)
    OBVIOUS
  <2>4. /\ g = r \o d /\ r = <<>>
        /\ r \in Seq(Message \cup {Extra}) /\ d \in Seq(Message \cup {Extra})
    BY <1>1, <2>2, <2>3, ConnectionParts DEF Given
  <2>5. ToSet(g) = ToSet(d)
    BY <2>4, GivenParts
  <2>6. \A e \in Connection : e # c => Given(e)' = Given(e)
    BY <2>1, <2>2 DEF Given
  <2>7. \A m \in ToSet(g) : Flushing(c, m)'
    BY <2>2, <2>3, <2>5 DEF Flushing
  <2>8. \A e \in Connection, m \in Message : Has(e, m) => Has(e, m)'
    BY <2>1, <2>3, <2>6, <2>7 DEF Has, Flushing
  <2>9. KeepsSafe
    BY <2>1, <2>8 DEF KeepsSafe
  <2>10. NobodyCloses' => NobodyCloses
    BY <2>2 DEF NobodyCloses
  <2>11. \A m \in offered : Safe(m) => Safe(m)'
    BY <1>1, <2>9, KeepsSafeKeeps
  <2>12. QED
    BY <2>1, <2>10, <2>11 DEF LosesNone
<1>4. QED
  BY <1>2, <1>3

\* Nothing is offered at the start, and every step keeps what is offered safe.
LEMMA NoLossInductive ==
  /\ Init => NoLoss
  /\ NoLoss /\ [Next]_vars => NoLoss'
<1>1. Init => NoLoss
  <2> SUFFICES ASSUME Init
               PROVE  NoLoss
    OBVIOUS
  <2>1. offered = {} /\ \A c \in Connection : real[c].deferred = <<>>
    BY DEF Init, NoConnection
  <2>2. QED
    BY <2>1, InitStructure DEF NoLoss, Offers
<1>2. ASSUME NoLoss, [Next]_vars
      PROVE  NoLoss'
  <2>1. /\ Structure /\ Structure'
        /\ \A c \in Connection : real'[c].state = "NONE" => real'[c].deferred = <<>>
    BY <1>2, StepStructure, NoneDeferred DEF NoLoss
  <2>2. ASSUME /\ Offers'
               /\ readyState' = "OPEN" /\ NobodyCloses' => \A m \in offered' : Safe(m)'
        PROVE  NoLoss'
    BY <2>1, <2>2 DEF NoLoss
  <2>3. LosesNone => NoLoss'
    BY <1>2, <2>2, LosesNoneKeeps
  <2>4. CASE Application
    <3>1. CASE AppSends
      BY <1>2, <2>2, <3>1, AppSendsKept
    <3>2. CASE AppCloses
      BY <1>2, <2>1, <2>3, <3>2, StepKinds, HandlesLoseNone
    <3>3. QED
      BY <2>4, <3>1, <3>2 DEF Application
  <2>5. CASE Interceptor
    <3>1. CASE \E isError \in BOOLEAN : ListenersThrow(isError)
      <4>1. ListenersThrow(TRUE) \/ ListenersThrow(FALSE)
        BY <3>1
      <4>2. QED
        BY <1>2, <2>1, <2>3, <4>1, StepKinds, HandlesLoseNone
    <3>2. CASE MockSends \/ MockCloses \/ ListenersEnd
      BY <1>2, <2>1, <2>3, <3>2, StepKinds, HandlesLoseNone
    <3>3. CASE ServerConnects \/ ServerSends \/ ServerCloses
      BY <1>2, <2>1, <2>3, <3>3, StepKinds, ConnectsLoseNone, ServerSendsLoseNone, EndsLoseNone
    <3>4. QED
      BY <2>5, <3>1, <3>2, <3>3 DEF Interceptor
  <2>6. CASE Library
    <3>1. CASE \/ RunConnection \/ RunOpen \/ RunDeliver \/ RunClose \/ RunServerClosed
               \/ CallMessage
      BY <1>2, <2>3, <3>1, HandlesLoseNone
    <3>2. CASE RunForward \/ CallFlush \/ CallMockClose
      BY <1>2, <2>3, <3>2, RunForwardLosesNone, FlushesLoseNone, EndsLoseNone
    <3>3. CASE PassesThrough
      BY <1>2, <2>1, <2>3, <3>3, StepKinds, ConnectsLoseNone
    <3>4. CASE \E prevents \in BOOLEAN : RunOutgoing(prevents)
      BY <1>2, <2>3, <3>4, RunOutgoingLosesNone
    <3>5. QED
      BY <2>6, <3>1, <3>2, <3>3, <3>4 DEF Library
  <2>7. CASE OriginalServer
    BY <1>2, <2>3, <2>7, FlushesLoseNone, EndsLoseNone DEF OriginalServer
  <2>8. CASE UNCHANGED vars
    <3>1. /\ UNCHANGED <<readyState, tasks, dispatching, real, received, prevented, sends>>
          /\ UNCHANGED <<offered, current>>
      BY <2>8 DEF vars, clientVars, taskVars, serverVars, sendVars
    <3>2. \A m : Safe(m) <=> Safe(m)'
      BY <3>1 DEF Safe, Has, Flushing, Given
    <3>3. LosesNone
      BY <3>1, <3>2 DEF LosesNone, NobodyCloses
    <3>4. QED
      BY <2>3, <3>3
  <2>9. QED
    BY <1>2, <2>4, <2>5, <2>6, <2>7, <2>8 DEF Next
<1>3. QED
  BY <1>1, <1>2

\* While the client is open and nobody has closed a connection, no message of the
\* application sent after server.connect() is lost.
THEOREM OfferedMessagesAreNotLost == Spec => []NothingLost
<1>1. NoLoss => NothingLost
  <2> SUFFICES ASSUME NoLoss, Idle, readyState = "OPEN", NobodyCloses, NEW m \in offered
               PROVE  Reached(m)
    BY DEF NothingLost, NobodyCloses
  <2>1. Safe(m)
    BY DEF NoLoss
  <2>2. ToSet(tasks) = {} /\ ToSet(dispatching) = {}
    BY IdleHoldsNothing
  <2>3. m \in prevented \/ \E c \in Connection : m \in ToSet(Given(c))
    BY <2>1, <2>2 DEF Safe, Has, Flushing
  <2>4. m # Extra
    BY BoundsAssumption DEF NoLoss, Structure, TypeOK, Message, Extra
  <2>5. QED
    BY <2>3, <2>4 DEF Reached, Sent
<1>2. QED
  BY <1>1, NoLossInductive, PTL DEF Spec

-----------------------------------------------------------------------------
(* The client and its connections end together.                              *)

\* The client's end is still to be told to the server handle.
EndCalled == \E l \in ToSet(dispatching) : l.do = "mockClose"

\* Why a connection ended, and what that closes: with a connection the server
\* handle listens to the client until a connection's end has closed it.
EndsTold ==
  /\ current # 0 => closeHooked \/ mockAborted
  /\ mockAborted => \E c \in 1..current : real[c].state = "CLOSED"
  /\ EndCalled => readyState = "CLOSED"
  /\ \A c \in Connection :
       /\ real[c].closer = "client" => readyState = "CLOSED"
       /\ real[c].closer = "server" => real[c].state = "CLOSED"

\* The first connection while it is the only one.
FirstEnds ==
  current = 1 =>
    /\ closeHooked \/ Ending(real[1].state)
    /\ real[1].hooked \/ real[1].closer \in {"client", "interceptor"} \/ real[1].state = "CLOSED"
    /\ readyState = "CLOSED" /\ ~real[1].late =>
         Ending(real[1].state) \/ EndCalled
    /\ real[1].state = "CLOSED" /\ ~real[1].kept /\ real[1].closer # "interceptor" =>
         Ending(readyState)

\* The server handle hears once of a connection's end: from the connection while
\* it is hooked, else from the microtask of server.close().
ReportedOnce ==
  /\ \A t, u : Precedes(tasks, t, u) =>
       ~(t.do = "serverClosed" /\ u.do = "serverClosed" /\ t.of = u.of)
  /\ \A t \in ToSet(tasks) : t.do = "serverClosed" =>
       Ending(real[t.of].state) /\ ~real[t.of].hooked /\ serverCloses[t.of] = 0
  /\ \A c \in Connection :
       \/ serverCloses[c] = 0
       \/ /\ serverCloses[c] = 1
          /\ Ending(real[c].state) /\ (real[c].hooked => real[c].state = "CLOSED")

EndsMatch == Structure /\ EndsTold /\ FirstEnds /\ ReportedOnce

\* A step that ends neither the client nor a connection.
EndsNothing ==
  /\ UNCHANGED <<current, closeHooked, mockAborted, serverCloses>>
  /\ \A c \in Connection :
       /\ real'[c].state = real[c].state /\ real'[c].closer = real[c].closer
       /\ real'[c].late = real[c].late /\ real'[c].hooked = real[c].hooked
       /\ real'[c].kept = real[c].kept
  /\ readyState' = readyState \/ (~Ending(readyState) /\ readyState' # "CLOSED")
  /\ EndCalled' <=> EndCalled
  /\ Unqueued("serverClosed")

\* It leaves the ends matched.
LEMMA EndsNothingKeeps ==
  ASSUME EndsMatch, EndsNothing
  PROVE  EndsTold' /\ FirstEnds' /\ ReportedOnce'
<1>1. /\ UNCHANGED <<current, closeHooked, mockAborted, serverCloses>>
      /\ \A c \in Connection :
           /\ real'[c].state = real[c].state /\ real'[c].closer = real[c].closer
           /\ real'[c].late = real[c].late /\ real'[c].hooked = real[c].hooked
           /\ real'[c].kept = real[c].kept
      /\ readyState' = readyState \/ (~Ending(readyState) /\ readyState' # "CLOSED")
      /\ EndCalled' <=> EndCalled
      /\ \A t \in ToSet(tasks') : t.do = "serverClosed" => t \in ToSet(tasks)
      /\ \A t, u : Precedes(tasks', t, u) /\ t.do = "serverClosed" /\ u.do = "serverClosed" =>
           Precedes(tasks, t, u)
  BY DEF EndsNothing, Unqueued
<1>2. /\ Structure /\ 1 \in Connection /\ 1..current \subseteq Connection
      /\ \A t \in ToSet(tasks) : t.do = "serverClosed" => t.of \in Connection
  BY BoundsAssumption DEF EndsMatch, Structure, TypeOK, TasksMeant, Connection
<1>3. EndsTold'
  <2>1. ASSUME mockAborted'
        PROVE  \E c \in 1..current' : real'[c].state = "CLOSED"
    <3>1. PICK c \in 1..current : real[c].state = "CLOSED"
      BY <1>1, <2>1 DEF EndsMatch, EndsTold
    <3>2. QED
      BY <1>1, <1>2, <3>1
  <2>2. \A c \in Connection :
          /\ real'[c].closer = "client" => readyState' = "CLOSED"
          /\ real'[c].closer = "server" => real'[c].state = "CLOSED"
    BY <1>1 DEF EndsMatch, EndsTold, Ending
  <2>3. QED
    BY <1>1, <2>1, <2>2 DEF EndsMatch, EndsTold, Ending
<1>4. FirstEnds'
  BY <1>1, <1>2 DEF EndsMatch, FirstEnds, Ending
<1>5. ReportedOnce'
  <2>1. \A t, u : Precedes(tasks', t, u) =>
          ~(t.do = "serverClosed" /\ u.do = "serverClosed" /\ t.of = u.of)
    BY <1>1 DEF EndsMatch, ReportedOnce
  <2>2. \A t \in ToSet(tasks') : t.do = "serverClosed" =>
          Ending(real'[t.of].state) /\ ~real'[t.of].hooked /\ serverCloses'[t.of] = 0
    BY <1>1, <1>2 DEF EndsMatch, ReportedOnce
  <2>3. \A c \in Connection :
          \/ serverCloses'[c] = 0
          \/ /\ serverCloses'[c] = 1
             /\ Ending(real'[c].state) /\ (real'[c].hooked => real'[c].state = "CLOSED")
    BY <1>1 DEF EndsMatch, ReportedOnce
  <2>4. QED
    BY <2>1, <2>2, <2>3 DEF ReportedOnce, Ending
<1>6. QED
  BY <1>3, <1>4, <1>5

\* Most steps are of that kind.
LEMMA EndsNothingSteps ==
  ASSUME Structure
  PROVE  /\ AppSends \/ ClosesClient \/ MockSends \/ ServerSends \/ ListenersEnd
            \/ ListenersThrow(FALSE) => EndsNothing
         /\ RunConnection \/ RunOpen \/ RunForward \/ RunDeliver \/ CallMessage \/ CallFlush =>
              EndsNothing
         /\ \A prevents \in BOOLEAN : RunOutgoing(prevents) => EndsNothing
<1>1. TypeOK /\ TasksMeant /\ ConnectionsKept
  BY DEF Structure
<1>2. ASSUME KClose(tasks)
      PROVE  readyState' = readyState \/ (~Ending(readyState) /\ readyState' # "CLOSED")
  BY <1>1, <1>2, ClientClosed DEF Ending, KClose
<1>3. UNCHANGED dispatching => (EndCalled' <=> EndCalled)
  BY DEF EndCalled
<1>4. ASSUME NEW c \in Connection, c <= current, NEW m \in Message \cup {Extra}, KSend(c, m)
      PROVE  \A d \in Connection :
               /\ real'[d].state = real[d].state /\ real'[d].closer = real[d].closer
               /\ real'[d].late = real[d].late /\ real'[d].hooked = real[d].hooked
               /\ real'[d].kept = real[d].kept
  BY <1>1, <1>4, ServerSent
<1>5. AppSends => EndsNothing
  <2> SUFFICES ASSUME AppSends
               PROVE  EndsNothing
    OBVIOUS
  <2>1. readyState' = readyState \/ (~Ending(readyState) /\ readyState' # "CLOSED")
    BY <1>1, AppSendsQueues DEF TypeOK, ReadyState, Ending, AppSends
  <2>2. UNCHANGED <<current, closeHooked, mockAborted, serverCloses, real, dispatching>>
    BY DEF AppSends, serverVars
  <2>3. QED
    BY <1>3, <2>1, <2>2, QueueSteps DEF EndsNothing
<1>6. ClosesClient => EndsNothing
  BY <1>2, <1>3, QuietQueues DEF ClosesClient, serverVars, EndsNothing, NoneQueued
<1>7. MockSends \/ ListenersEnd \/ ListenersThrow(FALSE) => EndsNothing
  BY <1>3, QueueSteps, QuietQueues DEF MockSends, ListenersEnd, ListenersThrow, clientVars,
                     serverVars, EndsNothing, NoneQueued
<1>8. ServerSends => EndsNothing
  <2> SUFFICES ASSUME ServerSends
               PROVE  EndsNothing
    OBVIOUS
  <2>1. PICK c, m : c = current /\ m = Extra
    OBVIOUS
  <2>2. c \in Connection /\ c <= current /\ m \in Message \cup {Extra} /\ KSend(c, m)
    BY <1>1, <2>1, BoundsAssumption DEF ServerSends, TypeOK, Connection
  <2>3. UNCHANGED <<current, closeHooked, mockAborted, serverCloses, readyState>>
    BY DEF ServerSends, clientVars
  <2>4. UNCHANGED dispatching /\ Unqueued("serverClosed")
    BY QuietQueues DEF ServerSends, taskVars, NoneQueued
  <2>5. QED
    BY <1>3, <1>4, <2>2, <2>3, <2>4 DEF EndsNothing
<1>9. RunForward => EndsNothing
  <2> SUFFICES ASSUME RunForward
               PROVE  EndsNothing
    OBVIOUS
  <2>1. PICK c, m : c = current /\ m = Subject
    OBVIOUS
  <2>2. c \in Connection /\ c <= current /\ m \in Message \cup {Extra}
    BY <2>1, ForwardMeant DEF RunForward
  <2>3. UNCHANGED real \/ KSend(c, m)
    BY <2>1 DEF RunForward
  <2>4. /\ UNCHANGED <<current, closeHooked, mockAborted, serverCloses, readyState>>
        /\ UNCHANGED dispatching /\ Unqueued("serverClosed")
    BY QuietQueues DEF RunForward, clientVars, NoneQueued
  <2>5. QED
    BY <1>3, <1>4, <2>2, <2>3, <2>4 DEF EndsNothing
<1>10. RunConnection \/ RunDeliver => EndsNothing
  BY <1>3, QuietQueues DEF RunConnection, RunDeliver, clientVars, serverVars, EndsNothing,
                     NoneQueued
<1>11. RunOpen => EndsNothing
  <2> SUFFICES ASSUME RunOpen
               PROVE  EndsNothing
    OBVIOUS
  <2>1. UNCHANGED <<current, closeHooked, mockAborted, serverCloses, real>>
    BY DEF RunOpen, serverVars
  <2>2. Unqueued("serverClosed") /\ ToSet(dispatching) = {}
    BY QuietQueues, EmptyOrder DEF RunOpen, Runs, NoneQueued
  <2>3. readyState' = readyState \/ (~Ending(readyState) /\ readyState' # "CLOSED")
    BY RunOpenCalls DEF Ending
  <2>4. EndCalled' <=> EndCalled
    BY <2>2, RunOpenCalls DEF EndCalled
  <2>5. QED
    BY <2>1, <2>2, <2>3, <2>4 DEF EndsNothing
<1>12. ASSUME CallMessage \/ CallFlush
       PROVE  EndsNothing
  <2>1. /\ UNCHANGED <<current, closeHooked, mockAborted, serverCloses, real, readyState>>
        /\ UNCHANGED tasks
    BY <1>12 DEF CallMessage, CallFlush, serverVars, clientVars
  <2>2. EndCalled' <=> EndCalled
    <3>1. /\ ToSet(dispatching) = ToSet(dispatching') \cup {Listener}
          /\ Listener.do # "mockClose"
      BY <1>1, <1>12, Called DEF CallMessage, CallFlush
    <3>2. QED
      BY <3>1 DEF EndCalled
  <2>3. QED
    BY <2>1, <2>2, QuietQueues DEF EndsNothing, NoneQueued
<1>13. ASSUME NEW prevents \in BOOLEAN, RunOutgoing(prevents)
       PROVE  EndsNothing
  <2>1. UNCHANGED <<current, closeHooked, mockAborted, serverCloses, real, readyState, dispatching>>
    BY <1>13 DEF RunOutgoing, clientVars, serverVars
  <2>2. QED
    BY <1>3, <1>13, <2>1, QueueSteps DEF EndsNothing
<1>14. QED
  BY <1>5, <1>6, <1>7, <1>8, <1>9, <1>10, <1>11, <1>12, <1>13

\* A connection is made: hooked on both sides if it is the first.
LEMMA ConnectsEnds ==
  ASSUME EndsMatch, ConnectsServer
  PROVE  EndsTold' /\ FirstEnds' /\ ReportedOnce'
<1>1. /\ Structure /\ TypeOK /\ ConnectionsKept /\ Decided /\ TasksMeant
      /\ current \in Nat /\ current' = current + 1 /\ current' \in Connection
  BY Connected DEF EndsMatch, Structure, TypeOK, ConnectsServer
<1>2. /\ \A c \in Connection : c # current' => real'[c] = real[c]
      /\ real'[current'] = FreshConnection
      /\ FreshConnection.state = "CONNECTING" /\ FreshConnection.closer = "nobody"
      /\ FreshConnection.late <=> readyState = "CLOSED"
      /\ FreshConnection.hooked <=> ~realAborted
      /\ closeHooked' <=> closeHooked \/ ~mockAborted
      /\ UNCHANGED <<mockAborted, realAborted, serverCloses>>
  BY <1>1, Connected DEF ConnectsServer
<1>3. UNCHANGED <<readyState, tasks, dispatching>>
  BY DEF ConnectsServer, clientVars, taskVars
<1>4. real[current'].state = "NONE"
  <2>1. current' > current
    BY <1>1
  <2>2. QED
    BY <1>1, <2>1 DEF ConnectionsKept
<1>5. EndCalled' <=> EndCalled
  BY <1>3 DEF EndCalled
<1>6. EndsTold'
  <2>1. ASSUME mockAborted'
        PROVE  \E c \in 1..current' : real'[c].state = "CLOSED"
    <3>1. PICK c \in 1..current : real[c].state = "CLOSED"
      BY <1>2, <2>1 DEF EndsMatch, EndsTold
    <3>2. c \in 1..current' /\ c \in Connection /\ c # current'
      BY <1>1, <3>1, BoundsAssumption DEF Connection, TypeOK
    <3>3. QED
      BY <1>2, <3>1, <3>2
  <2>2. \A c \in Connection :
          /\ real'[c].closer = "client" => readyState' = "CLOSED"
          /\ real'[c].closer = "server" => real'[c].state = "CLOSED"
    BY <1>2, <1>3 DEF EndsMatch, EndsTold
  <2>3. closeHooked' \/ mockAborted'
    BY <1>2
  <2>4. QED
    BY <1>3, <1>5, <2>1, <2>2, <2>3 DEF EndsMatch, EndsTold
<1>7. FirstEnds'
  <2> SUFFICES ASSUME current' = 1
               PROVE  /\ closeHooked' \/ Ending(real'[1].state)
                      /\ real'[1].hooked \/ real'[1].closer \in {"client", "interceptor"}
                         \/ real'[1].state = "CLOSED"
                      /\ readyState' = "CLOSED" /\ ~real'[1].late =>
                           Ending(real'[1].state) \/ EndCalled'
                      /\ real'[1].state = "CLOSED" /\ ~real'[1].kept
                         /\ real'[1].closer # "interceptor" => Ending(readyState')
    BY DEF FirstEnds, Ending
  <2>1. ~mockAborted /\ ~realAborted
    BY <1>1 DEF Decided
  <2>2. real'[1].state = "CONNECTING" /\ real'[1].hooked
    BY <1>2, <2>1
  <2>3. real'[1].late <=> readyState = "CLOSED"
    BY <1>2
  <2>4. QED
    BY <1>2, <1>3, <2>1, <2>2, <2>3
<1>8. ReportedOnce'
  <2>1. \A t \in ToSet(tasks) : t.do = "serverClosed" => t.of \in Connection /\ t.of # current'
    BY <1>1, BoundsAssumption DEF TasksMeant, Connection, TypeOK
  <2>2. \A t \in ToSet(tasks') : t.do = "serverClosed" =>
          Ending(real'[t.of].state) /\ ~real'[t.of].hooked /\ serverCloses'[t.of] = 0
    BY <1>2, <1>3, <2>1 DEF EndsMatch, ReportedOnce
  <2>3. \A c \in Connection :
          \/ serverCloses'[c] = 0
          \/ /\ serverCloses'[c] = 1
             /\ Ending(real'[c].state) /\ (real'[c].hooked => real'[c].state = "CLOSED")
    <3>1. serverCloses[current'] = 0
      BY <1>1, <1>4 DEF EndsMatch, ReportedOnce, Ending
    <3>2. QED
      BY <1>2, <3>1 DEF EndsMatch, ReportedOnce
  <2>4. QED
    BY <1>3, <2>2, <2>3 DEF EndsMatch, ReportedOnce, Ending
<1>9. QED
  BY <1>6, <1>7, <1>8

\* server.close() closes the last connection and unhooks all: that end is
\* reported by the microtask alone.
LEMMA ServerClosesEnds ==
  ASSUME EndsMatch, ServerCloses
  PROVE  EndsTold' /\ FirstEnds' /\ ReportedOnce'
<1>1. /\ Structure /\ TypeOK /\ ConnectionsKept /\ TasksMeant
      /\ UNCHANGED <<readyState, dispatching, current, closeHooked, mockAborted, serverCloses>>
  BY DEF EndsMatch, Structure, ServerCloses, clientVars
<1>2. PICK c : c = current
  OBVIOUS
<1>3. /\ c \in Connection /\ c \in Nat
      /\ \A d \in Connection :
           /\ real'[d].late = real[d].late /\ real'[d].kept = real[d].kept /\ ~real'[d].hooked
           /\ d # c => real'[d].state = real[d].state /\ real'[d].closer = real[d].closer
      /\ Ending(real[c].state) =>
           real'[c].state = real[c].state /\ real'[c].closer = real[c].closer
      /\ ~Ending(real[c].state) => real'[c].state = "CLOSING" /\ real'[c].closer = "interceptor"
  BY <1>1, <1>2, ServerClosesReal
<1>4. \A d \in Connection :
        /\ Ending(real[d].state) =>
             real'[d].state = real[d].state /\ real'[d].closer = real[d].closer
        /\ ~Ending(real[d].state) =>
             \/ real'[d].state = real[d].state /\ real'[d].closer = real[d].closer
             \/ real'[d].state = "CLOSING" /\ real'[d].closer = "interceptor"
  BY <1>3
<1>5. EndCalled' <=> EndCalled
  BY <1>1 DEF EndCalled
<1>6. EndsTold'
  <2>1. ASSUME mockAborted'
        PROVE  \E d \in 1..current' : real'[d].state = "CLOSED"
    <3>1. PICK d \in 1..current : real[d].state = "CLOSED"
      BY <1>1, <2>1 DEF EndsMatch, EndsTold
    <3>2. d \in Connection
      BY <1>1, <3>1, BoundsAssumption DEF Connection, TypeOK
    <3>3. QED
      BY <1>1, <1>4, <3>1, <3>2 DEF Ending
  <2>2. \A d \in Connection :
          /\ real'[d].closer = "client" => readyState' = "CLOSED"
          /\ real'[d].closer = "server" => real'[d].state = "CLOSED"
    BY <1>1, <1>4 DEF EndsMatch, EndsTold
  <2>3. QED
    BY <1>1, <1>5, <2>1, <2>2 DEF EndsMatch, EndsTold
<1>7. FirstEnds'
  <2> SUFFICES ASSUME current' = 1
               PROVE  /\ closeHooked' \/ Ending(real'[1].state)
                      /\ real'[1].hooked \/ real'[1].closer \in {"client", "interceptor"}
                         \/ real'[1].state = "CLOSED"
                      /\ readyState' = "CLOSED" /\ ~real'[1].late =>
                           Ending(real'[1].state) \/ EndCalled'
                      /\ real'[1].state = "CLOSED" /\ ~real'[1].kept
                         /\ real'[1].closer # "interceptor" => Ending(readyState')
    BY DEF FirstEnds, Ending
  <2>1. c = 1 /\ 1 \in Connection /\ current = 1
    BY <1>1, <1>2, <1>3
  <2>2. CASE Ending(real[1].state)
    <3>1. real'[1].state = real[1].state /\ real'[1].closer = real[1].closer
      BY <1>3, <2>1, <2>2
    <3>2. real[1].closer \in {"client", "interceptor"} \/ real[1].state = "CLOSED"
      <4>1. real[1].closer # "nobody" /\ (real[1].closer = "server" => real[1].state = "CLOSED")
        BY <1>1, <2>1, <2>2 DEF ConnectionsKept, EndsMatch, EndsTold, Ending
      <4>2. QED
        BY <1>1, <2>1, <4>1, ConnectionParts
    <3>3. QED
      BY <1>1, <1>3, <2>1, <2>2, <3>1, <3>2 DEF EndsMatch, FirstEnds
  <2>3. CASE ~Ending(real[1].state)
    <3>1. real'[1].state = "CLOSING" /\ real'[1].closer = "interceptor"
      BY <1>3, <2>1, <2>3
    <3>2. QED
      BY <3>1 DEF Ending
  <2>4. QED
    BY <2>2, <2>3
<1>8. ReportedOnce'
  <2>1. PICK t : t = [do |-> "serverClosed", of |-> c]
    OBVIOUS
  <2>2. t \in Microtask /\ t.do = "serverClosed" /\ t.of = c
    BY <1>3, <2>1, Records
  <2>3. \/ Ending(real[c].state) /\ tasks' = tasks
        \/ ~Ending(real[c].state) /\ tasks' = Append(tasks, t)
    BY <1>2, <2>1 DEF ServerCloses
  <2>4. CASE Ending(real[c].state) /\ tasks' = tasks
    <3>1. \A u \in ToSet(tasks') : u.do = "serverClosed" =>
            Ending(real'[u.of].state) /\ ~real'[u.of].hooked /\ serverCloses'[u.of] = 0
      <4>1. \A u \in ToSet(tasks) : u.do = "serverClosed" => u.of \in Connection
        BY <1>1, BoundsAssumption DEF TasksMeant, Connection, TypeOK
      <4>2. QED
        BY <1>1, <1>3, <1>4, <2>4, <4>1 DEF EndsMatch, ReportedOnce
    <3>2. \A d \in Connection :
            \/ serverCloses'[d] = 0
            \/ /\ serverCloses'[d] = 1
               /\ Ending(real'[d].state) /\ (real'[d].hooked => real'[d].state = "CLOSED")
      BY <1>1, <1>3, <1>4 DEF EndsMatch, ReportedOnce
    <3>3. QED
      BY <1>1, <2>4, <3>1, <3>2 DEF EndsMatch, ReportedOnce, Ending
  <2>5. CASE ~Ending(real[c].state) /\ tasks' = Append(tasks, t)
    <3>1. /\ ToSet(tasks') = ToSet(tasks) \cup {t}
          /\ \A a, b : Precedes(tasks', a, b) <=>
               Precedes(tasks, a, b) \/ (a \in ToSet(tasks) /\ b = t)
      BY <1>1, <2>2, <2>5, Queued
    <3>2. /\ \A u \in ToSet(tasks) : u.do = "serverClosed" => u.of \in Connection /\ u.of # c
          /\ serverCloses[c] = 0
      <4>1. \A u \in ToSet(tasks) : u.do = "serverClosed" => u.of \in Connection
        BY <1>1, BoundsAssumption DEF TasksMeant, Connection, TypeOK
      <4>2. \A u \in ToSet(tasks) : u.do = "serverClosed" => Ending(real[u.of].state)
        BY DEF EndsMatch, ReportedOnce
      <4>3. serverCloses[c] = 0
        BY <1>3, <2>5 DEF EndsMatch, ReportedOnce
      <4>4. QED
        BY <2>5, <4>1, <4>2, <4>3
    <3>3. \A u, v : Precedes(tasks', u, v) =>
            ~(u.do = "serverClosed" /\ v.do = "serverClosed" /\ u.of = v.of)
      BY <2>2, <3>1, <3>2 DEF EndsMatch, ReportedOnce
    <3>4. \A u \in ToSet(tasks') : u.do = "serverClosed" =>
            Ending(real'[u.of].state) /\ ~real'[u.of].hooked /\ serverCloses'[u.of] = 0
      <4>1. Ending(real'[c].state) /\ ~real'[c].hooked /\ serverCloses'[c] = 0
        BY <1>1, <1>3, <2>5, <3>2 DEF Ending
      <4>2. QED
        BY <1>1, <1>3, <2>2, <3>1, <3>2, <4>1 DEF EndsMatch, ReportedOnce
    <3>5. \A d \in Connection :
            \/ serverCloses'[d] = 0
            \/ /\ serverCloses'[d] = 1
               /\ Ending(real'[d].state) /\ (real'[d].hooked => real'[d].state = "CLOSED")
      BY <1>1, <1>3, <1>4, <3>2 DEF EndsMatch, ReportedOnce
    <3>6. QED
      BY <3>3, <3>4, <3>5 DEF ReportedOnce, Ending
  <2>6. QED
    BY <2>3, <2>4, <2>5
<1>9. QED
  BY <1>6, <1>7, <1>8

\* A step that reports no end leaves each reported once, if what has ended stays
\* so and the hooks stay.
LEMMA ReportsKept ==
  ASSUME EndsMatch, UNCHANGED serverCloses, Unqueued("serverClosed"),
         \A c \in Connection :
           /\ Ending(real[c].state) => Ending(real'[c].state)
           /\ real[c].state = "CLOSED" => real'[c].state = "CLOSED"
           /\ real'[c].hooked = real[c].hooked
  PROVE  ReportedOnce'
<1>1. /\ \A t \in ToSet(tasks') : t.do = "serverClosed" => t \in ToSet(tasks)
      /\ \A t, u : Precedes(tasks', t, u) /\ t.do = "serverClosed" /\ u.do = "serverClosed" =>
           Precedes(tasks, t, u)
  BY DEF Unqueued
<1>2. \A t \in ToSet(tasks) : t.do = "serverClosed" => t.of \in Connection
  BY BoundsAssumption DEF EndsMatch, Structure, TypeOK, TasksMeant, Connection
<1>3. \A t, u : Precedes(tasks', t, u) =>
        ~(t.do = "serverClosed" /\ u.do = "serverClosed" /\ t.of = u.of)
  BY <1>1 DEF EndsMatch, ReportedOnce
<1>4. \A t \in ToSet(tasks') : t.do = "serverClosed" =>
        Ending(real'[t.of].state) /\ ~real'[t.of].hooked /\ serverCloses'[t.of] = 0
  BY <1>1, <1>2 DEF EndsMatch, ReportedOnce
<1>5. \A c \in Connection :
        \/ serverCloses'[c] = 0
        \/ /\ serverCloses'[c] = 1
           /\ Ending(real'[c].state) /\ (real'[c].hooked => real'[c].state = "CLOSED")
  BY DEF EndsMatch, ReportedOnce
<1>6. QED
  BY <1>3, <1>4, <1>5 DEF ReportedOnce, Ending

\* The client's end is told to the server handle, or has been.
LEMMA RunCloseEnds ==
  ASSUME EndsMatch, RunClose
  PROVE  EndsTold' /\ FirstEnds' /\ ReportedOnce'
<1>1. /\ Structure /\ readyState' = "CLOSED"
      /\ dispatching' = IF closeHooked THEN <<MockClose>> ELSE <<>>
      /\ UNCHANGED <<real, current, closeHooked, mockAborted, serverCloses>>
  BY DEF EndsMatch, RunClose, serverVars
<1>2. closeHooked => EndCalled'
  <2>1. MockClose \in ListenerLeft /\ MockClose.do = "mockClose"
    BY Records DEF MockClose
  <2>2. ToSet(<<MockClose>>) = {MockClose}
    BY <2>1, SingleOrder
  <2>3. QED
    BY <1>1, <2>1, <2>2 DEF EndCalled
<1>3. EndsTold'
  BY <1>1 DEF EndsMatch, EndsTold
<1>4. FirstEnds'
  BY <1>1, <1>2 DEF EndsMatch, FirstEnds, Ending
<1>5. ReportedOnce'
  BY <1>1, QuietQueues, ReportsKept DEF RunClose, NoneQueued
<1>6. QED
  BY <1>3, <1>4, <1>5

\* handleMockClose() closes the last connection.
LEMMA CallMockCloseEnds ==
  ASSUME EndsMatch, CallMockClose
  PROVE  EndsTold' /\ FirstEnds' /\ ReportedOnce'
<1>1. /\ Structure /\ TypeOK
      /\ UNCHANGED <<readyState, tasks, current, closeHooked, mockAborted, serverCloses>>
  BY DEF EndsMatch, Structure, CallMockClose, clientVars
<1>2. readyState = "CLOSED"
  <2>1. EndCalled
    BY <1>1, Called DEF CallMockClose, EndCalled
  <2>2. QED
    BY <2>1 DEF EndsMatch, EndsTold
<1>3. PICK c : c = current
  OBVIOUS
<1>4. /\ c \in Connection
      /\ \A d \in Connection :
           /\ d # c => real'[d] = real[d]
           /\ real'[d].late = real[d].late /\ real'[d].kept = real[d].kept
           /\ real'[d].hooked = real[d].hooked
      /\ Ending(real[c].state) => real' = real
      /\ ~Ending(real[c].state) => real'[c].state = "CLOSING" /\ real'[c].closer = "client"
  BY <1>1, <1>3, MockCloseReal
<1>5. \A d \in Connection :
        /\ Ending(real[d].state) =>
             real'[d].state = real[d].state /\ real'[d].closer = real[d].closer
        /\ real'[d].closer = "server" => real[d].closer = "server"
        /\ real'[d].closer = "server" => real'[d].state = real[d].state
  BY <1>4
<1>6. EndsTold'
  <2>1. ASSUME mockAborted'
        PROVE  \E d \in 1..current' : real'[d].state = "CLOSED"
    <3>1. PICK d \in 1..current : real[d].state = "CLOSED"
      BY <1>1, <2>1 DEF EndsMatch, EndsTold
    <3>2. d \in Connection
      BY <1>1, <3>1, BoundsAssumption DEF Connection, TypeOK
    <3>3. QED
      BY <1>1, <1>5, <3>1, <3>2 DEF Ending
  <2>2. \A d \in Connection : real'[d].closer = "server" => real'[d].state = "CLOSED"
    BY <1>5 DEF EndsMatch, EndsTold
  <2>3. QED
    BY <1>1, <1>2, <2>1, <2>2 DEF EndsMatch, EndsTold
<1>7. FirstEnds'
  <2> SUFFICES ASSUME current' = 1
               PROVE  /\ closeHooked' \/ Ending(real'[1].state)
                      /\ real'[1].hooked \/ real'[1].closer \in {"client", "interceptor"}
                         \/ real'[1].state = "CLOSED"
                      /\ readyState' = "CLOSED" /\ ~real'[1].late =>
                           Ending(real'[1].state) \/ EndCalled'
                      /\ real'[1].state = "CLOSED" /\ ~real'[1].kept
                         /\ real'[1].closer # "interceptor" => Ending(readyState')
    BY DEF FirstEnds, Ending
  <2>1. c = 1 /\ 1 \in Connection /\ current = 1
    BY <1>1, <1>3, <1>4
  <2>2. CASE Ending(real[1].state)
    BY <1>1, <1>2, <1>4, <2>1, <2>2 DEF EndsMatch, FirstEnds, Ending
  <2>3. CASE ~Ending(real[1].state)
    BY <1>1, <1>2, <1>4, <2>1, <2>3 DEF Ending
  <2>4. QED
    BY <2>2, <2>3
<1>8. ReportedOnce'
  <2>1. \A d \in Connection :
          /\ Ending(real[d].state) => Ending(real'[d].state)
          /\ real[d].state = "CLOSED" => real'[d].state = "CLOSED"
          /\ real'[d].hooked = real[d].hooked
    BY <1>4, <1>5 DEF Ending
  <2>2. Unqueued("serverClosed")
    BY <1>1, QuietQueues DEF NoneQueued
  <2>3. QED
    BY <1>1, <2>1, <2>2, ReportsKept
<1>9. QED
  BY <1>6, <1>7, <1>8

\* A connection that opens has not been ended, so its hooks stand.
LEMMA RealOpensEnds ==
  ASSUME EndsMatch, NEW c \in Connection, RealOpens(c)
  PROVE  EndsTold' /\ FirstEnds' /\ ReportedOnce'
<1>1. /\ Structure /\ TypeOK /\ Idle
      /\ UNCHANGED <<readyState, tasks, current, closeHooked, mockAborted, serverCloses>>
  BY DEF EndsMatch, Structure, RealOpens
<1>2. /\ real'[c].state = "OPEN" /\ real[c].state = "CONNECTING" /\ real[c].closer = "nobody"
      /\ c \in 1..current
      /\ \A d \in Connection :
           /\ d # c => real'[d] = real[d]
           /\ real'[d].late = real[d].late /\ real'[d].kept = real[d].kept
           /\ real'[d].hooked = real[d].hooked /\ real'[d].closer = real[d].closer
      /\ \A l \in ToSet(dispatching') : l.do = "flush"
  BY <1>1, RealOpensDoes
<1>3. ~EndCalled /\ ~EndCalled'
  BY <1>1, <1>2, IdleHoldsNothing DEF EndCalled
<1>4. EndsTold'
  <2>1. ASSUME mockAborted'
        PROVE  \E d \in 1..current' : real'[d].state = "CLOSED"
    <3>1. PICK d \in 1..current : real[d].state = "CLOSED"
      BY <1>1, <2>1 DEF EndsMatch, EndsTold
    <3>2. d \in Connection /\ d # c
      BY <1>1, <1>2, <3>1, BoundsAssumption DEF Connection, TypeOK
    <3>3. QED
      BY <1>1, <1>2, <3>1, <3>2
  <2>2. \A d \in Connection :
          /\ real'[d].closer = "client" => readyState' = "CLOSED"
          /\ real'[d].closer = "server" => real'[d].state = "CLOSED"
    BY <1>1, <1>2 DEF EndsMatch, EndsTold
  <2>3. QED
    BY <1>1, <1>3, <2>1, <2>2 DEF EndsMatch, EndsTold
<1>5. FirstEnds'
  <2> SUFFICES ASSUME current' = 1
               PROVE  /\ closeHooked' \/ Ending(real'[1].state)
                      /\ real'[1].hooked \/ real'[1].closer \in {"client", "interceptor"}
                         \/ real'[1].state = "CLOSED"
                      /\ readyState' = "CLOSED" /\ ~real'[1].late =>
                           Ending(real'[1].state) \/ EndCalled'
                      /\ real'[1].state = "CLOSED" /\ ~real'[1].kept
                         /\ real'[1].closer # "interceptor" => Ending(readyState')
    BY DEF FirstEnds, Ending
  <2>1. c = 1 /\ current = 1
    BY <1>1, <1>2
  <2>2. ~Ending(real[1].state) /\ real[1].closer = "nobody" /\ real'[1].state = "OPEN"
    BY <1>2, <2>1 DEF Ending
  <2>3. closeHooked /\ real[1].hooked /\ ~(readyState = "CLOSED" /\ ~real[1].late)
    BY <1>3, <2>1, <2>2 DEF EndsMatch, FirstEnds, Ending
  <2>4. QED
    BY <1>1, <1>2, <2>1, <2>2, <2>3
<1>6. ReportedOnce'
  <2>1. \A d \in Connection :
          /\ Ending(real[d].state) => Ending(real'[d].state)
          /\ real[d].state = "CLOSED" => real'[d].state = "CLOSED"
          /\ real'[d].hooked = real[d].hooked
    BY <1>2 DEF Ending
  <2>2. Unqueued("serverClosed")
    BY <1>1, QuietQueues DEF NoneQueued
  <2>3. QED
    BY <1>1, <2>1, <2>2, ReportsKept
<1>7. QED
  BY <1>4, <1>5, <1>6

\* The end of a connection closes the client and is reported, while it is hooked;
\* one that is not was closed by the client or by server.close().
LEMMA RealClosesEnds ==
  ASSUME EndsMatch, NEW c \in Connection, NEW prevents \in BOOLEAN, RealCloses(c, prevents)
  PROVE  EndsTold' /\ FirstEnds' /\ ReportedOnce'
<1>1. /\ Structure /\ TypeOK /\ TasksMeant /\ Idle
      /\ UNCHANGED <<dispatching, current>>
  BY DEF EndsMatch, Structure, RealCloses
<1>2. /\ real[c].state \in {"CONNECTING", "OPEN", "CLOSING"} /\ c \in 1..current
      /\ real'[c].state = "CLOSED" /\ real'[c].kept = prevents
      /\ real'[c].closer = IF real[c].closer = "nobody" THEN "server" ELSE real[c].closer
      /\ \A d \in Connection :
           /\ d # c => real'[d] = real[d]
           /\ real'[d].late = real[d].late /\ real'[d].hooked = real[d].hooked
  BY <1>1, RealClosesDoes
<1>3. CASE real[c].hooked
  <2>1. /\ mockAborted' /\ serverCloses' = [serverCloses EXCEPT ![c] = @ + 1]
        /\ prevents \/ KClose(tasks)
        /\ KClose(tasks) \/ UNCHANGED <<readyState, tasks>>
    BY <1>3 DEF RealCloses
  <2>2. readyState = "CLOSED" => readyState' = "CLOSED"
    BY <1>1, <2>1, ClientClosed
  <2>3. prevents \/ Ending(readyState')
    BY <1>1, <2>1, ClientClosed DEF Ending
  <2>4. \A t \in ToSet(tasks') : t.do # "serverClosed"
    <3>1. ToSet(tasks) = {}
      BY <1>1, IdleHoldsNothing
    <3>2. QED
      BY <1>1, <2>1, <3>1, ClientClosed
  <2>5. serverCloses'[c] = 1
    <3>1. serverCloses[c] = 0
      BY <1>2, <1>3 DEF EndsMatch, ReportedOnce
    <3>2. QED
      BY <1>1, <2>1, <3>1 DEF TypeOK
  <2>6. \A d \in Connection : d # c => serverCloses'[d] = serverCloses[d]
    BY <1>1, <2>1 DEF TypeOK
  <2>7. EndsTold'
    <3>1. \A d \in Connection :
            /\ real'[d].closer = "client" => readyState' = "CLOSED"
            /\ real'[d].closer = "server" => real'[d].state = "CLOSED"
      BY <1>2, <2>2 DEF EndsMatch, EndsTold
    <3>2. EndCalled' => readyState' = "CLOSED"
      BY <1>1, <2>2 DEF EndsMatch, EndsTold, EndCalled
    <3>3. \E d \in 1..current' : real'[d].state = "CLOSED"
      BY <1>1, <1>2
    <3>4. QED
      BY <2>1, <3>1, <3>2, <3>3 DEF EndsTold
  <2>8. FirstEnds'
    BY <1>1, <1>2, <2>3 DEF FirstEnds, Ending
  <2>9. ReportedOnce'
    <3>1. \A t, u : Precedes(tasks', t, u) =>
            ~(t.do = "serverClosed" /\ u.do = "serverClosed" /\ t.of = u.of)
      <4>1. tasks' \in Seq(Microtask)
        BY <1>1, <2>1, ClientClosed DEF TypeOK
      <4>2. \A t, u : Precedes(tasks', t, u) => t \in ToSet(tasks')
        BY <4>1, ElementsOf
      <4>3. QED
        BY <2>4, <4>2
    <3>2. \A d \in Connection :
            \/ serverCloses'[d] = 0
            \/ /\ serverCloses'[d] = 1
               /\ Ending(real'[d].state) /\ (real'[d].hooked => real'[d].state = "CLOSED")
      <4>1. Ending(real'[c].state)
        BY <1>2 DEF Ending
      <4>2. QED
        BY <1>2, <2>5, <2>6, <4>1 DEF EndsMatch, ReportedOnce
    <3>3. QED
      BY <2>4, <3>1, <3>2 DEF ReportedOnce, Ending
  <2>10. QED
    BY <2>7, <2>8, <2>9
<1>4. CASE ~real[c].hooked
  <2>1. UNCHANGED <<readyState, tasks, mockAborted, closeHooked, serverCloses>>
    BY <1>4 DEF RealCloses
  <2>2. EndsTold'
    <3>1. \A d \in Connection :
            /\ real'[d].closer = "client" => readyState' = "CLOSED"
            /\ real'[d].closer = "server" => real'[d].state = "CLOSED"
      BY <1>2, <2>1 DEF EndsMatch, EndsTold
    <3>2. EndCalled' => readyState' = "CLOSED"
      BY <1>1, <2>1 DEF EndsMatch, EndsTold, EndCalled
    <3>3. \E d \in 1..current' : real'[d].state = "CLOSED"
      BY <1>1, <1>2
    <3>4. current' # 0 => closeHooked' \/ mockAborted'
      BY <1>1, <2>1 DEF EndsMatch, EndsTold
    <3>5. QED
      BY <3>1, <3>2, <3>3, <3>4 DEF EndsTold
  <2>3. FirstEnds'
    <3> SUFFICES ASSUME current' = 1, real'[1].closer # "interceptor"
                 PROVE  Ending(readyState')
      BY <1>1, <1>2 DEF FirstEnds, Ending
    <3>1. c = 1 /\ current = 1
      BY <1>1, <1>2
    <3>2. real[1].closer = "client"
      BY <1>2, <1>4, <3>1 DEF EndsMatch, FirstEnds
    <3>3. readyState = "CLOSED"
      BY <3>1, <3>2 DEF EndsMatch, EndsTold
    <3>4. QED
      BY <2>1, <3>3 DEF Ending
  <2>4. ReportedOnce'
    <3>1. \A d \in Connection :
            /\ Ending(real[d].state) => Ending(real'[d].state)
            /\ real[d].state = "CLOSED" => real'[d].state = "CLOSED"
            /\ real'[d].hooked = real[d].hooked
      BY <1>2 DEF Ending
    <3>2. Unqueued("serverClosed")
      BY <1>1, <2>1, QuietQueues DEF NoneQueued
    <3>3. QED
      BY <2>1, <3>1, <3>2, ReportsKept
  <2>5. QED
    BY <2>2, <2>3, <2>4
<1>5. QED
  BY <1>3, <1>4

\* The microtask of server.close() reports the end, as nothing has or will.
LEMMA RunServerClosedEnds ==
  ASSUME EndsMatch, RunServerClosed
  PROVE  EndsTold' /\ FirstEnds' /\ ReportedOnce'
<1>1. /\ Structure /\ TypeOK /\ TasksMeant /\ Runs("serverClosed") /\ tasks' = Tail(tasks)
      /\ serverCloses' = [serverCloses EXCEPT ![Subject] = @ + 1]
      /\ UNCHANGED <<readyState, dispatching, real, current, closeHooked, mockAborted>>
  BY DEF EndsMatch, Structure, RunServerClosed, clientVars
<1>2. PICK h, c : h = Head(tasks) /\ c = h.of
  OBVIOUS
<1>3. /\ h \in ToSet(tasks) /\ h.do = "serverClosed" /\ c = Subject
      /\ \A t \in ToSet(tasks') : t \in ToSet(tasks) /\ Precedes(tasks, h, t)
      /\ \A t, u : Precedes(tasks', t, u) => Precedes(tasks, t, u)
  BY <1>1, <1>2, Taken DEF Subject
<1>4. \A t \in ToSet(tasks) : t.do = "serverClosed" => t.of \in Connection
  BY BoundsAssumption DEF EndsMatch, Structure, TypeOK, TasksMeant, Connection
<1>5. /\ c \in Connection /\ Ending(real[c].state) /\ ~real[c].hooked /\ serverCloses[c] = 0
      /\ \A t \in ToSet(tasks') : t.do = "serverClosed" => t.of # c
  BY <1>2, <1>3, <1>4 DEF EndsMatch, ReportedOnce
<1>6. /\ serverCloses'[c] = 1
      /\ \A d \in Connection : d # c => serverCloses'[d] = serverCloses[d]
  <2>1. serverCloses \in [Connection -> Nat]
    BY <1>1 DEF TypeOK
  <2>2. serverCloses' = [serverCloses EXCEPT ![c] = @ + 1]
    BY <1>1, <1>3
  <2>3. QED
    BY <1>5, <2>1, <2>2
<1>7. EndCalled' <=> EndCalled
  BY <1>1 DEF EndCalled
<1>8. EndsTold' /\ FirstEnds'
  BY <1>1, <1>7 DEF EndsMatch, EndsTold, FirstEnds
<1>9. ReportedOnce'
  <2>1. \A t, u : Precedes(tasks', t, u) =>
          ~(t.do = "serverClosed" /\ u.do = "serverClosed" /\ t.of = u.of)
    BY <1>3 DEF EndsMatch, ReportedOnce
  <2>2. \A t \in ToSet(tasks') : t.do = "serverClosed" =>
          Ending(real'[t.of].state) /\ ~real'[t.of].hooked /\ serverCloses'[t.of] = 0
    BY <1>1, <1>3, <1>4, <1>5, <1>6 DEF EndsMatch, ReportedOnce
  <2>3. \A d \in Connection :
          \/ serverCloses'[d] = 0
          \/ /\ serverCloses'[d] = 1
             /\ Ending(real'[d].state) /\ (real'[d].hooked => real'[d].state = "CLOSED")
    BY <1>1, <1>5, <1>6 DEF EndsMatch, ReportedOnce
  <2>4. QED
    BY <2>1, <2>2, <2>3 DEF ReportedOnce, Ending
<1>10. QED
  BY <1>8, <1>9

\* Nothing has ended at the start, and every step keeps the ends matched.
LEMMA EndsMatchInductive ==
  /\ Init => EndsMatch
  /\ EndsMatch /\ [Next]_vars => EndsMatch'
<1>1. Init => EndsMatch
  <2> SUFFICES ASSUME Init
               PROVE  EndsMatch
    OBVIOUS
  <2>1. /\ current = 0 /\ ~mockAborted /\ dispatching = <<>>
        /\ tasks = <<[do |-> "connection", of |-> 0]>>
        /\ \A c \in Connection : real[c].closer = "nobody" /\ serverCloses[c] = 0
    BY DEF Init, NoConnection
  <2>2. PICK first : first = [do |-> "connection", of |-> 0]
    OBVIOUS
  <2>3. ToSet(tasks) = {first} /\ first.do = "connection" /\ \A t, u : ~Precedes(tasks, t, u)
    BY <2>1, <2>2, SingleOrder
  <2>4. EndsTold /\ FirstEnds
    BY <2>1, EmptyOrder DEF EndsTold, FirstEnds, EndCalled
  <2>5. ReportedOnce
    BY <2>1, <2>3 DEF ReportedOnce
  <2>6. QED
    BY <2>4, <2>5, InitStructure DEF EndsMatch
<1>2. ASSUME EndsMatch, [Next]_vars
      PROVE  EndsMatch'
  <2>1. Structure /\ Structure'
    BY <1>2, StepStructure DEF EndsMatch
  <2>2. EndsTold' /\ FirstEnds' /\ ReportedOnce' => EndsMatch'
    BY <2>1 DEF EndsMatch
  <2>3. EndsNothing => EndsMatch'
    BY <1>2, <2>2, EndsNothingKeeps
  <2>4. CASE Application
    BY <2>1, <2>3, <2>4, StepKinds, EndsNothingSteps DEF Application
  <2>5. CASE Interceptor
    <3>1. CASE \E isError \in BOOLEAN : ListenersThrow(isError)
      <4>1. ListenersThrow(TRUE) \/ ListenersThrow(FALSE)
        BY <3>1
      <4>2. QED
        BY <2>1, <2>3, <4>1, StepKinds, EndsNothingSteps
    <3>2. CASE MockSends \/ MockCloses \/ ServerSends \/ ListenersEnd
      BY <2>1, <2>3, <3>2, StepKinds, EndsNothingSteps
    <3>3. CASE ServerConnects \/ ServerCloses
      BY <1>2, <2>1, <2>2, <3>3, StepKinds, ConnectsEnds, ServerClosesEnds
    <3>4. QED
      BY <2>5, <3>1, <3>2, <3>3 DEF Interceptor
  <2>6. CASE Library
    <3>1. CASE \/ RunConnection \/ RunOpen \/ RunForward \/ RunDeliver \/ CallMessage
               \/ CallFlush
      BY <2>1, <2>3, <3>1, EndsNothingSteps
    <3>2. CASE \E prevents \in BOOLEAN : RunOutgoing(prevents)
      BY <2>1, <2>3, <3>2, EndsNothingSteps
    <3>3. CASE RunClose \/ RunServerClosed \/ CallMockClose
      BY <1>2, <2>2, <3>3, RunCloseEnds, RunServerClosedEnds, CallMockCloseEnds
    <3>4. CASE PassesThrough
      BY <1>2, <2>1, <2>2, <3>4, StepKinds, ConnectsEnds
    <3>5. QED
      BY <2>6, <3>1, <3>2, <3>3, <3>4 DEF Library
  <2>7. CASE OriginalServer
    BY <1>2, <2>2, <2>7, RealOpensEnds, RealClosesEnds DEF OriginalServer
  <2>8. CASE UNCHANGED vars
    <3>1. UNCHANGED <<readyState, tasks, dispatching, real, current, closeHooked, mockAborted,
                      serverCloses>>
      BY <2>8 DEF vars, clientVars, taskVars, serverVars
    <3>2. EndsNothing
      BY <2>1, <3>1, QuietQueues DEF EndsNothing, EndCalled, NoneQueued
    <3>3. QED
      BY <2>3, <3>2
  <2>9. QED
    BY <1>2, <2>4, <2>5, <2>6, <2>7, <2>8 DEF Next
<1>3. QED
  BY <1>1, <1>2

\* The first connection made for a client and the client end together, and the
\* server handle hears of each connection's end at most once.
THEOREM ClientAndConnectionEndTogether == Spec => []ClosesTogether
<1>1. EndsMatch => ClosesTogether
  <2> SUFFICES ASSUME EndsMatch
               PROVE  ClosesTogether
    OBVIOUS
  <2>1. ASSUME Idle, current = 1
        PROVE  /\ readyState = "CLOSED" /\ ~real[1].late => Ending(real[1].state)
               /\ real[1].state = "CLOSED" /\ ~real[1].kept /\ real[1].closer # "interceptor" =>
                    readyState = "CLOSED"
    <3>1. ~EndCalled
      BY <2>1, IdleHoldsNothing DEF EndCalled
    <3>2. readyState # "CLOSING"
      BY <2>1, IdleHoldsNothing DEF EndsMatch, Structure, TypeOK
    <3>3. QED
      BY <2>1, <3>1, <3>2 DEF EndsMatch, FirstEnds, Ending
  <2>2. \A c \in Connection : serverCloses[c] <= 1
    <3>1. \A c \in Connection : serverCloses[c] \in {0, 1}
      BY DEF EndsMatch, ReportedOnce
    <3>2. QED
      BY <3>1
  <2>3. QED
    BY <2>1, <2>2 DEF ClosesTogether
<1>2. QED
  BY <1>1, EndsMatchInductive, PTL DEF Spec
=============================================================================
