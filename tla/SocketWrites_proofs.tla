-------------------------- MODULE SocketWrites_proofs --------------------------
(***************************************************************************)
(* Proofs about SocketWrites, for any number of subscribers, writes and     *)
(* exchanges.                                                               *)
(*                                                                          *)
(* The inductive invariant is built in four layers, each proved with the    *)
(* ones before it: what a state is made of and how often a callback may     *)
(* still be invoked (Structure); in which order the subscribers hear of the *)
(* writes (PushOrder); what has become of every write (Fates); and in which *)
(* order the writes left (SendOrder).  Two small invariants stand beside    *)
(* them: the exchange a write is due in (Due), and the target of the         *)
(* connection in use (OnTarget).                                             *)
(***************************************************************************)
EXTENDS SocketWrites, SequenceTheorems, WellFoundedInduction, TLAPS

-----------------------------------------------------------------------------
(* The structure of a state.                                                 *)

\* The verdicts awaited are those of the subscribers yet to decline, and nobody
\* declines before the event.
Counted ==
  /\ announced => awaited + declined >= subscribers
  /\ ~announced => declined = 0

\* The write being handled is the last one issued.
LastIssued == writing \in {0, issued}

\* How often the callback of a write was invoked, counting the invocation a real
\* connection owes it.
Invocations(w) == acks[w] + (IF w \in carried THEN 1 ELSE 0)

\* A buffered write that holds its callback has not been acknowledged in any
\* way; one that holds it was so once at most, through a real connection.
Budget ==
  \A w \in Write :
    /\ Invocations(w) <= 2
    /\ w \notin Issued => Invocations(w) = 0
    /\ w \in callbacks => Invocations(w) <= 1
    /\ w \in callbacks /\ w \in ToSet(buffer) => Invocations(w) = 0

\* Nothing waits in a buffer that was not issued.
BufferedIssued == ToSet(buffer) \subseteq Issued

\* Only the write being handled waits in the buffer of a connection that passed
\* through.
FlushedBuffer ==
  readyState = "PASSTHROUGH" => buffer = <<>> \/ (writing # 0 /\ buffer = <<writing>>)

Structure ==
  TypeOK /\ Counted /\ LastIssued /\ Budget /\ BufferedIssued /\ FlushedBuffer

-----------------------------------------------------------------------------
(* What became of the writes.                                                *)

\* Whether the verdict on the exchange was reached in the push of this write.
DecidedInPush == "verdict" \in during

\* during and straddling say what happened in the push of the write.
PushRecorded ==
  /\ writing = 0 => during = {}
  /\ during = {"verdict", "reset"} => writing \in straddling

\* Only the write being handled waits unanswered in the buffer of a claimed
\* connection.
ClaimedBuffer == readyState = "CLAIMED" => ToSet(buffer) \subseteq mocked \cup {writing}

\* What is buffered for a verdict was neither sent nor answered before.
BufferUndecided ==
  /\ ToSet(buffer) \cap Sent \subseteq straddling
  /\ readyState # "CLAIMED" => ToSet(buffer) \cap mocked \subseteq straddling

\* The write being handled, until a verdict in its push decides it.
WritingUndecided ==
  writing # 0 /\ writing \notin straddling =>
    /\ readyState # "PASSTHROUGH" \/ ~DecidedInPush =>
         Invocations(writing) = 0 /\ writing \notin Sent
    /\ readyState # "CLAIMED" \/ ~DecidedInPush => writing \notin mocked
    /\ readyState = "PENDING" => writing \in ToSet(buffer) \/ "reset" \in during
    /\ readyState = "PASSTHROUGH" => writing \in ToSet(buffer) \cup Sent

SentIssued == Sent \subseteq Issued

\* A callback is invoked once, or owed one invocation, but for the writes that
\* straddle two exchanges.
OneInvocation == \A w \in Issued \ straddling : Invocations(w) <= 1

Fates ==
  /\ PushRecorded /\ ClaimedBuffer /\ BufferUndecided /\ WritingUndecided
  /\ SentIssued /\ MockedStaysLocal /\ NothingLost /\ OneInvocation

-----------------------------------------------------------------------------
(* The order of the writes.                                                  *)

\* A live client has one connection, the one it passes through, and shares its
\* handle once it is open; an idle open connection has dispatched its queue.
OneConnection ==
  /\ ~destroyed =>
       /\ passthroughSocket # 0 => real[passthroughSocket].status # "destroyed"
       /\ \A c \in DOMAIN real : c # passthroughSocket => real[c].status = "destroyed"
       /\ swapped => passthroughSocket # 0 /\ real[passthroughSocket].status = "open"
  /\ \A c \in DOMAIN real :
       real[c].status = "open" /\ real[c].own = {} => real[c].queue = <<>>

\* One write may follow another on a connection.
Follows(w, v, overlapped) ==
  v \notin straddling /\ w \notin straddling =>
    IF overlapped THEN v # w ELSE v < w

\* SentOnceInOrder, of what a connection sent and of what it still queues.
InOrder(r) ==
  /\ \A i, j \in DOMAIN r.wire : i < j => Follows(r.wire[j], r.wire[i], r.overlapped)
  /\ \A i, j \in DOMAIN r.queue : i < j => Follows(r.queue[j], r.queue[i], r.overlapped)
  /\ \A v \in ToSet(r.wire), w \in ToSet(r.queue) : Follows(w, v, r.overlapped)

\* No two connections were given the same write.
Apart ==
  \A c, d \in DOMAIN real :
    c # d => ToSet(Given(real[c])) \cap ToSet(Given(real[d])) \subseteq straddling

\* What waits for a verdict comes after everything that was sent, in order.
BufferLast ==
  /\ readyState = "PENDING" => Increasing(buffer)
  /\ \A v \in Sent, w \in ToSet(buffer) : Follows(w, v, FALSE)

SendOrder ==
  /\ OneConnection /\ Apart /\ BufferLast
  /\ \A c \in DOMAIN real : InOrder(real[c])

\* The pushes, and after them the deferred ones, follow the client's order;
\* before the event is emitted, every push is deferred.
PushOrder ==
  /\ Increasing(pushed) /\ ToSet(pushed) \subseteq Issued
  /\ \A i \in DOMAIN ticks : ticks[i].kind = "push" =>
       /\ ticks[i].write \in Issued
       /\ \A w \in ToSet(pushed) : w < ticks[i].write
       /\ \A j \in DOMAIN ticks :
            j < i /\ ticks[j].kind = "push" => ticks[j].write < ticks[i].write
  /\ ~announced => readyState = "PENDING"
  /\ \A i \in DOMAIN ticks :
       /\ ticks[i].kind = "announce" => i = 1 /\ ~announced
       /\ ticks[i].kind = "passthrough" => announced

-----------------------------------------------------------------------------
(* Sequences.                                                                *)

\* The elements of the sequences the model builds.
LEMMA ElementsOfSeq ==
  ASSUME NEW S, NEW s \in Seq(S)
  PROVE  /\ ToSet(s) \subseteq S
         /\ ToSet(s) = {} <=> s = <<>>
         /\ \A t \in Seq(S) : ToSet(s \o t) = ToSet(s) \cup ToSet(t)
         /\ \A e \in S : ToSet(Append(s, e)) = ToSet(s) \cup {e}
         /\ s # <<>> =>
              /\ Head(s) \in S /\ Tail(s) \in Seq(S)
              /\ ToSet(s) = {Head(s)} \cup ToSet(Tail(s))
<1>1. ToSet(s) \subseteq S /\ (ToSet(s) = {} <=> s = <<>>)
  BY DEF ToSet
<1>2. ASSUME NEW t \in Seq(S)
      PROVE  ToSet(s \o t) = ToSet(s) \cup ToSet(t)
  <2>1. \A i \in 1..Len(t) : Len(s) + i \in 1..Len(s \o t) /\ (s \o t)[Len(s) + i] = t[i]
    OBVIOUS
  <2>2. \A i \in 1..Len(s) : i \in 1..Len(s \o t) /\ (s \o t)[i] = s[i]
    OBVIOUS
  <2>3. \A i \in 1..Len(s \o t) :
          \/ i \in 1..Len(s) /\ (s \o t)[i] = s[i]
          \/ i - Len(s) \in 1..Len(t) /\ (s \o t)[i] = t[i - Len(s)]
    OBVIOUS
  <2>4. DOMAIN s = 1..Len(s) /\ DOMAIN t = 1..Len(t) /\ DOMAIN (s \o t) = 1..Len(s \o t)
    OBVIOUS
  <2> DEFINE u == s \o t
  <2> HIDE DEF u
  <2>5. ToSet(u) \subseteq ToSet(s) \cup ToSet(t)
    BY <2>3, <2>4 DEF ToSet, u
  <2>6. ToSet(s) \subseteq ToSet(u) /\ ToSet(t) \subseteq ToSet(u)
    BY <2>1, <2>2, <2>4 DEF ToSet, u
  <2>7. QED
    BY <2>5, <2>6 DEF u
<1>3. ASSUME NEW e \in S
      PROVE  ToSet(Append(s, e)) = ToSet(s) \cup {e}
  <2>1. /\ DOMAIN s = 1..Len(s) /\ DOMAIN Append(s, e) = 1..Len(s) + 1
        /\ Append(s, e)[Len(s) + 1] = e /\ Len(s) \in Nat
        /\ \A i \in 1..Len(s) : Append(s, e)[i] = s[i]
    OBVIOUS
  <2>2. \A i \in 1..Len(s) + 1 : i \in 1..Len(s) \/ i = Len(s) + 1
    BY <2>1
  <2>3. \A i \in 1..Len(s) : i \in 1..Len(s) + 1
    BY <2>1
  <2>4. Len(s) + 1 \in 1..Len(s) + 1
    BY <2>1
  <2>5. QED
    BY <2>1, <2>2, <2>3, <2>4 DEF ToSet
<1>4. ASSUME s # <<>>
      PROVE  /\ Head(s) \in S /\ Tail(s) \in Seq(S)
             /\ ToSet(s) = {Head(s)} \cup ToSet(Tail(s))
  <2>1. /\ Head(s) \in S /\ Tail(s) \in Seq(S) /\ Len(s) \in Nat \ {0}
        /\ DOMAIN s = 1..Len(s) /\ DOMAIN Tail(s) = 1..Len(s) - 1
        /\ Head(s) = s[1] /\ \A i \in 1..Len(s) - 1 : Tail(s)[i] = s[i + 1]
    BY <1>4
  <2>2. \A i \in 1..Len(s) : i = 1 \/ (i - 1 \in 1..Len(s) - 1 /\ s[i] = Tail(s)[i - 1])
    BY <2>1
  <2>3. \A i \in 1..Len(s) - 1 : i + 1 \in 1..Len(s)
    BY <2>1
  <2>4. 1 \in 1..Len(s)
    BY <2>1
  <2>5. QED
    BY ZenonT(60), <2>1, <2>2, <2>3, <2>4 DEF ToSet
<1>5. QED
  BY <1>1, <1>2, <1>3, <1>4

\* The first entry of a queue may move to the end of what precedes the queue.
LEMMA HeadMoved ==
  ASSUME NEW S, NEW s \in Seq(S), NEW t \in Seq(S), t # <<>>
  PROVE  Append(s, Head(t)) \o Tail(t) = s \o t
<1> DEFINE u == Append(s, Head(t))
           v == Tail(t)
           a == u \o v
           b == s \o t
<1>1. /\ u \in Seq(S) /\ Len(u) = Len(s) + 1 /\ u[Len(s) + 1] = t[1]
      /\ \A i \in 1..Len(s) : u[i] = s[i]
  OBVIOUS
<1>2. /\ v \in Seq(S) /\ Len(v) = Len(t) - 1 /\ \A i \in 1..Len(v) : v[i] = t[i + 1]
  OBVIOUS
<1> HIDE DEF u, v
<1>3. /\ a \in Seq(S) /\ Len(a) = Len(u) + Len(v)
      /\ \A i \in 1..Len(u) + Len(v) : a[i] = IF i <= Len(u) THEN u[i] ELSE v[i - Len(u)]
  BY <1>1, <1>2, ConcatProperties
<1>4. /\ b \in Seq(S) /\ Len(b) = Len(s) + Len(t)
      /\ \A i \in 1..Len(s) + Len(t) : b[i] = IF i <= Len(s) THEN s[i] ELSE t[i - Len(s)]
  BY ConcatProperties
<1>5. Len(s) \in Nat /\ Len(t) \in Nat \ {0}
  OBVIOUS
<1> HIDE DEF a, b
<1>6. Len(a) = Len(b) /\ \A i \in 1..Len(a) : a[i] = b[i]
  <2>1. PICK p \in Nat, q \in Nat \ {0} : p = Len(s) /\ q = Len(t)
    BY <1>5
  <2>2. Len(u) = p + 1 /\ Len(v) = q - 1 /\ Len(a) = p + q /\ Len(b) = p + q
    BY <1>1, <1>2, <1>3, <1>4, <2>1
  <2>3. ASSUME NEW i \in 1..p + q
        PROVE  a[i] = b[i]
    <3>1. /\ i <= p + 1 => a[i] = u[i]
          /\ i > p + 1 => a[i] = v[i - (p + 1)]
      BY <1>3, <2>2
    <3>2. /\ i <= p => b[i] = s[i]
          /\ i > p => b[i] = t[i - p]
      BY <1>4, <2>1
    <3>3. CASE i <= p
      BY <1>1, <2>1, <3>1, <3>2, <3>3
    <3>4. CASE i = p + 1
      <4>1. i - p = 1 /\ a[i] = u[i] /\ b[i] = t[i - p]
        BY <3>1, <3>2, <3>4
      <4>2. QED
        BY <1>1, <2>1, <3>4, <4>1
    <3>5. CASE i > p + 1
      <4>1. i - (p + 1) \in 1..q - 1 /\ i - (p + 1) + 1 = i - p
        BY <3>5
      <4>2. v[i - (p + 1)] = t[i - p]
        BY <1>2, <2>2, <4>1
      <4>3. QED
        BY <3>1, <3>2, <3>5, <4>2
    <3>6. QED
      BY <3>3, <3>4, <3>5
  <2>4. QED
    BY <2>2, <2>3
<1>7. a = b
  BY <1>3, <1>4, <1>6, SeqEqual
<1>8. QED
  BY <1>7 DEF a, b, u, v

\* Removing an entry leaves some of the others; of a single one, nothing.
LEMMA RemovedEntry ==
  ASSUME NEW S, NEW s \in Seq(S), NEW e \in S
  PROVE  /\ RemoveFirst(s, e) \in Seq(S)
         /\ ToSet(RemoveFirst(s, e)) \subseteq ToSet(s)
         /\ RemoveFirst(<<e>>, e) = <<>>
<1> DEFINE I(t) == {i \in 1..Len(t) : t[i] = e}
<1>1. ASSUME NEW t \in Seq(S), \E i \in 1..Len(t) : t[i] = e
      PROVE  \E i \in 1..Len(t) : t[i] = e /\ RemoveFirst(t, e) = RemoveAt(t, i)
  <2>1. SelectInSeq(t, LAMBDA v : v = e) = Min(I(t))
    BY <1>1 DEF SelectInSeq
  <2>2. Min(I(t)) \in I(t)
    <3>1. I(t) \in SUBSET Nat /\ I(t) # {}
      BY <1>1
    <3>2. \E x \in I(t) : \A y \in I(t) : x <= y
      <4> DEFINE Less == {pair \in Nat \X Nat : pair[1] < pair[2]}
      <4>1. IsWellFoundedOn(Less, Nat)
        BY NatLessThanWellFounded, Zenon DEF OpToRel
      <4>2. \A x, y \in Nat : <<y, x>> \notin Less => x <= y
        OBVIOUS
      <4> HIDE DEF I, Less
      <4>3. PICK x \in I(t) : \A y \in I(t) : ~(<<y, x>> \in Less)
        BY <3>1, <4>1, WFMin
      <4>4. QED
        BY <3>1, <4>2, <4>3
    <3>3. QED
      BY <3>2 DEF Min
  <2>3. QED
    BY <1>1, <2>1, <2>2 DEF RemoveFirst
<1>2. ASSUME NEW t \in Seq(S), NEW i \in 1..Len(t)
      PROVE  /\ RemoveAt(t, i) \in Seq(S)
             /\ ToSet(RemoveAt(t, i)) \subseteq ToSet(t)
  <2>1. /\ SubSeq(t, 1, i - 1) \in Seq(S) /\ SubSeq(t, i + 1, Len(t)) \in Seq(S)
        /\ DOMAIN SubSeq(t, 1, i - 1) = 1..i - 1
        /\ \A k \in 1..i - 1 : SubSeq(t, 1, i - 1)[k] = t[k]
        /\ DOMAIN SubSeq(t, i + 1, Len(t)) = 1..Len(t) - i
        /\ \A k \in 1..Len(t) - i : SubSeq(t, i + 1, Len(t))[k] = t[i + k]
    OBVIOUS
  <2>2. \A k \in 1..i - 1 : k \in DOMAIN t
    OBVIOUS
  <2>3. \A k \in 1..Len(t) - i : i + k \in DOMAIN t
    OBVIOUS
  <2>4. /\ ToSet(SubSeq(t, 1, i - 1)) \subseteq ToSet(t)
        /\ ToSet(SubSeq(t, i + 1, Len(t))) \subseteq ToSet(t)
    BY <2>1, <2>2, <2>3 DEF ToSet
  <2> DEFINE before == SubSeq(t, 1, i - 1)
             after == SubSeq(t, i + 1, Len(t))
  <2>5. before \in Seq(S) /\ after \in Seq(S)
    BY <2>1
  <2>6. ToSet(before) \subseteq ToSet(t) /\ ToSet(after) \subseteq ToSet(t)
    BY <2>4
  <2>7. RemoveAt(t, i) = before \o after
    BY DEF RemoveAt
  <2> HIDE DEF before, after
  <2>8. /\ before \o after \in Seq(S)
        /\ ToSet(before \o after) = ToSet(before) \cup ToSet(after)
    BY <2>5, ElementsOfSeq
  <2>9. QED
    BY <2>6, <2>7, <2>8
<1>3. /\ RemoveFirst(s, e) \in Seq(S)
      /\ ToSet(RemoveFirst(s, e)) \subseteq ToSet(s)
  BY <1>1, <1>2 DEF RemoveFirst
<1>4. RemoveFirst(<<e>>, e) = <<>>
  <2>1. /\ <<e>> \in Seq(S) /\ Len(<<e>>) = 1 /\ <<e>>[1] = e
        /\ RemoveAt(<<e>>, 1) = <<>>
    BY DEF RemoveAt
  <2>2. 1 \in 1..1 /\ \A i \in 1..1 : i = 1
    OBVIOUS
  <2>3. QED
    BY <1>1, <2>1, <2>2
<1>5. QED
  BY <1>3, <1>4

\* A write that was alone in the buffer leaves it empty.
LEMMA EntryRemoved == \A w \in Write : RemoveFirst(<<w>>, w) = <<>>
<1>1. ASSUME NEW w \in Write
      PROVE  RemoveFirst(<<w>>, w) = <<>>
  <2>1. <<w>> \in Seq(Write)
    OBVIOUS
  <2>2. QED
    BY <2>1, RemovedEntry
<1>2. QED
  BY <1>1

-----------------------------------------------------------------------------
(* The operations of a real connection.                                      *)

\* An open connection that has nothing of its own in flight has sent its queue.
Dispatched(r) == r.status = "open" /\ r.own = {} => r.queue = <<>>

\* What a connection was given is what it sent and what it queues.
LEMMA GivenWrites ==
  ASSUME NEW r \in Connection
  PROVE  /\ r.wire \in Seq(Write) /\ r.queue \in Seq(Write)
         /\ Given(r) \in Seq(Write)
         /\ ToSet(Given(r)) = ToSet(r.wire) \cup ToSet(r.queue)
         /\ ToSet(Given(r)) \subseteq Write
<1>1. r.wire \in Seq(Write) /\ r.queue \in Seq(Write)
  BY DEF Connection
<1>2. QED
  BY <1>1, ElementsOfSeq DEF Given

\* Dispatching sends the first queued write: the connection was given the same.
LEMMA PumpKeeps ==
  ASSUME NEW r \in Connection, NEW y, y = Pump(r)
  PROVE  /\ y \in Connection /\ y.status = r.status /\ y.target = r.target
         /\ Given(y) = Given(r) /\ Dispatched(y)
         /\ InOrder(r) => InOrder(y)
<1>1. CASE r.status # "open" \/ r.own # {} \/ r.queue = <<>>
  BY <1>1 DEF Pump, Dispatched
<1>2. CASE ~(r.status # "open" \/ r.own # {} \/ r.queue = <<>>)
  <2> DEFINE w == Head(r.queue)
             rest == Tail(r.queue)
  <2>1. r.wire \in Seq(Write) /\ r.queue \in Seq(Write) /\ r.queue # <<>>
    BY <1>2, GivenWrites
  <2>2. /\ w \in Write /\ rest \in Seq(Write) /\ ToSet(r.queue) = {w} \cup ToSet(rest)
        /\ Len(rest) = Len(r.queue) - 1 /\ w = r.queue[1]
        /\ \A i \in 1..Len(rest) : rest[i] = r.queue[i + 1]
    BY <2>1, ElementsOfSeq
  <2>3. Append(r.wire, w) \o rest = r.wire \o r.queue
    BY <2>1, HeadMoved
  <2>4. Append(r.wire, w) \in Seq(Write) /\ ToSet(Append(r.wire, w)) = ToSet(r.wire) \cup {w}
    BY <2>1, <2>2, ElementsOfSeq
  <2>5. y = [r EXCEPT !.wire = Append(@, w), !.queue = rest, !.own = {w},
                      !.overlapped = @ \/ r.direct # {}]
    BY <1>2 DEF Pump
  <2> HIDE DEF w, rest
  <2>6. /\ y \in Connection /\ y.status = r.status /\ y.target = r.target
        /\ y.wire = Append(r.wire, w) /\ y.queue = rest /\ y.own = {w}
        /\ (r.overlapped => y.overlapped) /\ y.overlapped \in BOOLEAN
    <3>1. {w} \in SUBSET Write /\ (r.overlapped \/ r.direct # {}) \in BOOLEAN
      BY <2>2
    <3> DEFINE o == r.overlapped \/ r.direct # {}
    <3>2. y = [r EXCEPT !.wire = Append(r.wire, w), !.queue = rest, !.own = {w},
                        !.overlapped = o]
      BY <2>5
    <3>3. o \in BOOLEAN /\ (r.overlapped => o)
      OBVIOUS
    <3> HIDE DEF o
    <3>4. QED
      BY <2>2, <2>4, <3>1, <3>2, <3>3 DEF Connection
  <2>7. Given(y) = Given(r) /\ Dispatched(y)
    BY <2>3, <2>6 DEF Given, Dispatched
  <2>8. ASSUME InOrder(r)
        PROVE  InOrder(y)
    <3>0. \A v, u \in Write : Follows(u, v, r.overlapped) => Follows(u, v, y.overlapped)
      <4>1. \A v, u \in Write : v < u => v # u
        BY BoundsAssumption DEF Write
      <4>2. QED
        BY <2>6, <4>1 DEF Follows
    <3>1. \A i, j \in DOMAIN y.wire : i < j => Follows(y.wire[j], y.wire[i], y.overlapped)
      <4>1. SUFFICES ASSUME NEW i \in DOMAIN y.wire, NEW j \in DOMAIN y.wire, i < j
                     PROVE  Follows(y.wire[j], y.wire[i], y.overlapped)
        OBVIOUS
      <4>2. /\ i \in 1..Len(r.wire) /\ y.wire[i] = r.wire[i] /\ r.wire[i] \in Write
            /\ r.wire[i] \in ToSet(r.wire)
        BY <2>1, <2>2, <2>6, <4>1 DEF ToSet
      <4>3. CASE j \in 1..Len(r.wire)
        <5>1. y.wire[j] = r.wire[j] /\ r.wire[j] \in Write
          BY <2>1, <2>2, <2>6, <4>3
        <5>2. Follows(r.wire[j], r.wire[i], r.overlapped)
          BY <2>1, <2>8, <4>1, <4>2, <4>3 DEF InOrder
        <5>3. QED
          BY <3>0, <4>2, <5>1, <5>2
      <4>4. CASE j = Len(r.wire) + 1
        <5>1. y.wire[j] = w
          BY <2>1, <2>2, <2>6, <4>4
        <5>2. Follows(w, r.wire[i], r.overlapped)
          BY <2>2, <2>8, <4>2 DEF InOrder
        <5>3. QED
          BY <2>2, <3>0, <4>2, <5>1, <5>2
      <4>5. QED
        BY <2>1, <2>2, <2>6, <4>3, <4>4
    <3>2. \A i, j \in DOMAIN y.queue : i < j => Follows(y.queue[j], y.queue[i], y.overlapped)
      <4>1. SUFFICES ASSUME NEW i \in DOMAIN rest, NEW j \in DOMAIN rest, i < j
                     PROVE  Follows(rest[j], rest[i], y.overlapped)
        BY <2>6
      <4>2. /\ i + 1 \in DOMAIN r.queue /\ j + 1 \in DOMAIN r.queue /\ i + 1 < j + 1
            /\ rest[i] = r.queue[i + 1] /\ rest[j] = r.queue[j + 1]
            /\ rest[i] \in Write /\ rest[j] \in Write
        BY SMTT(30), <2>1, <2>2, <4>1
      <4>3. Follows(r.queue[j + 1], r.queue[i + 1], r.overlapped)
        BY <2>8, <4>2 DEF InOrder
      <4>4. QED
        BY <3>0, <4>2, <4>3
    <3>3. \A v \in ToSet(y.wire), u \in ToSet(y.queue) : Follows(u, v, y.overlapped)
      <4>1. SUFFICES ASSUME NEW v \in ToSet(r.wire) \cup {w}, NEW u \in ToSet(rest)
                     PROVE  Follows(u, v, y.overlapped)
        BY <2>4, <2>6
      <4>2. u \in ToSet(r.queue) /\ u \in Write /\ v \in Write
        BY <2>1, <2>2, ElementsOfSeq
      <4>3. CASE v \in ToSet(r.wire)
        BY <2>8, <3>0, <4>2, <4>3 DEF InOrder
      <4>4. CASE v = w
        <5>1. PICK i \in DOMAIN rest : u = rest[i]
          BY DEF ToSet
        <5>2. i + 1 \in DOMAIN r.queue /\ 1 \in DOMAIN r.queue /\ 1 < i + 1
              /\ u = r.queue[i + 1]
          BY <2>1, <2>2, <5>1
        <5>3. Follows(u, v, r.overlapped)
          BY <2>2, <2>8, <4>4, <5>2 DEF InOrder
        <5>4. QED
          BY <3>0, <4>2, <5>3
      <4>5. QED
        BY <4>3, <4>4
    <3>4. QED
      BY <3>1, <3>2, <3>3 DEF InOrder
  <2>9. QED
    BY <2>6, <2>7, <2>8
<1>3. QED
  BY <1>1, <1>2

\* What is given last follows all that was given before.
FollowsAll(w, r) == \A v \in ToSet(Given(r)) : Follows(w, v, FALSE)

\* Following in the order of the client is following at all.
LEMMA FollowsWeakly ==
  ASSUME NEW v \in Write, NEW w \in Write, NEW overlapped \in BOOLEAN,
         Follows(w, v, FALSE)
  PROVE  Follows(w, v, overlapped)
<1>1. v < w => v # w
  BY BoundsAssumption DEF Write
<1>2. QED
  BY <1>1 DEF Follows

\* The flush gives a connection the writes of the buffer.
LEMMA EnqueueGives ==
  ASSUME NEW r \in Connection, NEW writes \in Seq(Write), NEW y, y = Enqueue(r, writes)
  PROVE  /\ y \in Connection /\ y.status = r.status /\ y.target = r.target
         /\ ToSet(Given(y)) = ToSet(Given(r)) \cup ToSet(writes)
         /\ Dispatched(y)
         /\ /\ InOrder(r) /\ Increasing(writes)
            /\ \A w \in ToSet(writes) : FollowsAll(w, r)
            => InOrder(y)
<1> DEFINE z == [r EXCEPT !.queue = @ \o writes]
<1>1. /\ r.wire \in Seq(Write) /\ r.queue \in Seq(Write)
      /\ ToSet(Given(r)) = ToSet(r.wire) \cup ToSet(r.queue) /\ r.overlapped \in BOOLEAN
  BY GivenWrites DEF Connection
<1>2. /\ r.queue \o writes \in Seq(Write)
      /\ ToSet(r.queue \o writes) = ToSet(r.queue) \cup ToSet(writes)
  BY <1>1, ElementsOfSeq
<1>3. /\ z \in Connection /\ z.status = r.status /\ z.target = r.target
      /\ z.wire = r.wire /\ z.queue = r.queue \o writes /\ z.overlapped = r.overlapped
  BY <1>2 DEF Connection
<1>4. y = Pump(z)
  BY DEF Enqueue
<1> HIDE DEF z
<1>5. /\ y \in Connection /\ y.status = z.status /\ y.target = z.target
      /\ Given(y) = Given(z) /\ Dispatched(y) /\ (InOrder(z) => InOrder(y))
  BY <1>3, <1>4, PumpKeeps
<1>6. ToSet(Given(y)) = ToSet(Given(r)) \cup ToSet(writes)
  BY <1>1, <1>2, <1>3, <1>5, GivenWrites
<1>7. ASSUME InOrder(r), Increasing(writes), \A w \in ToSet(writes) : FollowsAll(w, r)
      PROVE  InOrder(z)
  <2>1. \A v \in ToSet(r.wire) \cup ToSet(r.queue), w \in ToSet(writes) :
          Follows(w, v, r.overlapped)
    <3>1. ToSet(r.wire) \subseteq Write /\ ToSet(r.queue) \subseteq Write
          /\ ToSet(writes) \subseteq Write
      BY <1>1, ElementsOfSeq
    <3>2. QED
      BY <1>1, <1>7, <3>1, FollowsWeakly DEF FollowsAll
  <2>2. \A i, j \in DOMAIN z.wire : i < j => Follows(z.wire[j], z.wire[i], z.overlapped)
    BY <1>3, <1>7 DEF InOrder
  <2>3. \A v \in ToSet(z.wire), w \in ToSet(z.queue) : Follows(w, v, z.overlapped)
    BY <1>2, <1>3, <1>7, <2>1 DEF InOrder
  <2>4. ASSUME NEW i \in DOMAIN z.queue, NEW j \in DOMAIN z.queue, i < j
        PROVE  Follows(z.queue[j], z.queue[i], z.overlapped)
    <3>1. PICK n \in Nat, m \in Nat : n = Len(r.queue) /\ m = Len(writes)
      BY <1>1
    <3>2. /\ DOMAIN z.queue = 1..n + m
          /\ \A k \in 1..n + m : z.queue[k] = IF k <= n THEN r.queue[k] ELSE writes[k - n]
      BY <1>1, <1>2, <1>3, <3>1, ConcatProperties
    <3>3. CASE j <= n
      BY <1>3, <1>7, <2>4, <3>1, <3>2, <3>3, <1>1 DEF InOrder
    <3>4. CASE i <= n /\ j > n
      <4>1. z.queue[i] = r.queue[i] /\ i \in DOMAIN r.queue
        BY <1>1, <2>4, <3>1, <3>2, <3>4
      <4>2. z.queue[j] = writes[j - n] /\ j - n \in DOMAIN writes
        BY <2>4, <3>1, <3>2, <3>4
      <4>3. z.queue[i] \in ToSet(r.queue) /\ z.queue[j] \in ToSet(writes)
        BY <4>1, <4>2 DEF ToSet
      <4>4. QED
        BY <1>3, <2>1, <4>3
    <3>5. CASE i > n
      <4>1. /\ z.queue[i] = writes[i - n] /\ i - n \in DOMAIN writes
            /\ z.queue[j] = writes[j - n] /\ j - n \in DOMAIN writes
            /\ i - n < j - n
        <5>1. DOMAIN writes = 1..m
          BY <1>1, <3>1
        <5>2. i \in 1..n + m /\ j \in 1..n + m /\ i < j
          BY <2>4, <3>2
        <5>3. /\ ~(i <= n) /\ ~(j <= n) /\ i - n < j - n
              /\ i - n \in 1..m /\ j - n \in 1..m
          BY ONLY <3>1, <3>5, <5>2
        <5>4. QED
          BY <3>2, <5>1, <5>2, <5>3
      <4>2. /\ z.queue[i] < z.queue[j]
            /\ z.queue[i] \in Write /\ z.queue[j] \in Write
        BY <1>7, <4>1 DEF Increasing
      <4>3. Follows(z.queue[j], z.queue[i], FALSE)
        BY <4>2 DEF Follows
      <4>4. QED
        BY <1>1, <1>3, <4>2, <4>3, FollowsWeakly
    <3>6. QED
      BY <2>4, <3>1, <3>2, <3>3, <3>4, <3>5
  <2>5. QED
    BY <2>2, <2>3, <2>4 DEF InOrder
<1>8. QED
  BY <1>3, <1>5, <1>6, <1>7

\* The client gives the shared handle a write.
LEMMA WriteDirectlyGives ==
  ASSUME NEW r \in Connection, NEW w \in Write, NEW y, y = WriteDirectly(r, w)
  PROVE  /\ y \in Connection /\ y.status = r.status /\ y.target = r.target
         /\ ToSet(Given(y)) = ToSet(Given(r)) \cup {w}
         /\ Dispatched(r) => Dispatched(y)
         /\ InOrder(r) /\ FollowsAll(w, r) /\ Dispatched(r) /\ r.status = "open"
            => InOrder(y)
<1>1. /\ r.wire \in Seq(Write) /\ r.queue \in Seq(Write)
      /\ ToSet(Given(r)) = ToSet(r.wire) \cup ToSet(r.queue) /\ r.overlapped \in BOOLEAN
  BY GivenWrites DEF Connection
<1>2. Append(r.wire, w) \in Seq(Write) /\ ToSet(Append(r.wire, w)) = ToSet(r.wire) \cup {w}
  BY <1>1, ElementsOfSeq
<1>3. /\ y \in Connection /\ y.status = r.status /\ y.target = r.target
      /\ y.wire = Append(r.wire, w) /\ y.queue = r.queue /\ y.own = r.own
      /\ (r.overlapped => y.overlapped) /\ (r.own # {} => y.overlapped)
      /\ y.overlapped \in BOOLEAN
  <2> DEFINE o == r.overlapped \/ r.own # {}
  <2>1. y = [r EXCEPT !.wire = Append(r.wire, w), !.direct = {w}, !.overlapped = o]
    BY DEF WriteDirectly
  <2>2. o \in BOOLEAN /\ (r.overlapped => o) /\ (r.own # {} => o) /\ {w} \in SUBSET Write
    OBVIOUS
  <2> HIDE DEF o
  <2>3. QED
    BY <1>2, <2>1, <2>2 DEF Connection
<1>4. ToSet(Given(y)) = ToSet(Given(r)) \cup {w}
  BY <1>1, <1>2, <1>3, GivenWrites
<1>5. ASSUME InOrder(r), FollowsAll(w, r), Dispatched(r), r.status = "open"
      PROVE  InOrder(y)
  <2>0. \A v, u \in Write : Follows(u, v, r.overlapped) => Follows(u, v, y.overlapped)
    <3>1. \A v, u \in Write : v < u => v # u
      BY BoundsAssumption DEF Write
    <3>2. QED
      BY <1>1, <1>3, <3>1 DEF Follows
  <2>1. \A v \in ToSet(r.wire) \cup ToSet(r.queue) : v \in Write /\ Follows(w, v, y.overlapped)
    <3>1. ToSet(r.wire) \subseteq Write /\ ToSet(r.queue) \subseteq Write
      BY <1>1, ElementsOfSeq
    <3>2. QED
      BY <1>1, <1>3, <1>5, <3>1, FollowsWeakly DEF FollowsAll
  <2>2. ASSUME NEW i \in DOMAIN y.wire, NEW j \in DOMAIN y.wire, i < j
        PROVE  Follows(y.wire[j], y.wire[i], y.overlapped)
    <3>1. PICK n \in Nat : n = Len(r.wire)
      BY <1>1
    <3>2. /\ DOMAIN y.wire = 1..n + 1 /\ y.wire[n + 1] = w
          /\ \A k \in 1..n : y.wire[k] = r.wire[k] /\ r.wire[k] \in Write
          /\ DOMAIN r.wire = 1..n
      BY <1>1, <1>3, <3>1
    <3>3. CASE j <= n
      <4>1. Follows(r.wire[j], r.wire[i], r.overlapped)
        BY <1>5, <2>2, <3>2, <3>3 DEF InOrder
      <4>2. i \in 1..n /\ j \in 1..n
        BY <2>2, <3>2, <3>3
      <4>3. Follows(r.wire[j], r.wire[i], y.overlapped)
        BY <2>0, <3>2, <4>1, <4>2
      <4>4. QED
        BY <3>2, <4>2, <4>3
    <3>4. CASE j = n + 1
      <4>1. i \in 1..n /\ r.wire[i] \in ToSet(r.wire)
        BY <2>2, <3>2, <3>4 DEF ToSet
      <4>2. QED
        BY <2>1, <3>2, <3>4, <4>1
    <3>5. QED
      BY <2>2, <3>2, <3>3, <3>4
  <2>3. \A i, j \in DOMAIN y.queue : i < j => Follows(y.queue[j], y.queue[i], y.overlapped)
    BY <1>1, <1>3, <1>5, <2>0 DEF InOrder
  <2>4. ASSUME NEW v \in ToSet(y.wire), NEW u \in ToSet(y.queue)
        PROVE  Follows(u, v, y.overlapped)
    <3>1. u \in ToSet(r.queue) /\ u \in Write /\ v \in ToSet(r.wire) \cup {w}
      BY <1>2, <1>3, <2>1, <2>4
    <3>2. CASE v \in ToSet(r.wire)
      BY <1>5, <2>0, <2>1, <3>1, <3>2 DEF InOrder
    <3>3. CASE v = w
      <4>1. y.overlapped
        BY <1>1, <1>3, <1>5, <3>1, ElementsOfSeq DEF Dispatched
      <4>2. Follows(w, u, y.overlapped)
        BY <2>1, <3>1
      <4>3. QED
        BY <3>3, <4>1, <4>2 DEF Follows
    <3>4. QED
      BY <3>1, <3>2, <3>3
  <2>5. QED
    BY <2>2, <2>3, <2>4 DEF InOrder
<1>6. Dispatched(r) => Dispatched(y)
  BY <1>3 DEF Dispatched
<1>7. QED
  BY <1>3, <1>4, <1>5, <1>6

\* The state of a connection has no part in what it was given.
LEMMA SameWrites ==
  ASSUME NEW r, NEW y, y.wire = r.wire, y.queue = r.queue, y.overlapped = r.overlapped
  PROVE  Given(y) = Given(r) /\ (InOrder(r) <=> InOrder(y))
BY DEF Given, InOrder

\* A connection that is destroyed sends nothing more.
LEMMA DestroyKeeps ==
  ASSUME NEW r \in Connection, NEW y, y = Destroy(r)
  PROVE  /\ y \in Connection /\ y.status = "destroyed" /\ y.target = r.target
         /\ Given(y) = Given(r) /\ Dispatched(y)
         /\ InOrder(r) => InOrder(y)
<1>1. /\ y \in Connection /\ y.status = "destroyed" /\ y.target = r.target
      /\ y.wire = r.wire /\ y.queue = r.queue /\ y.overlapped = r.overlapped
  BY DEF Destroy, Connection
<1>2. QED
  BY <1>1, SameWrites DEF Dispatched

-----------------------------------------------------------------------------
(* The list of connections.                                                  *)

\* A connection changes.
LEMMA ConnectionChanges ==
  ASSUME real \in Seq(Connection), NEW c \in DOMAIN real, NEW y \in Connection,
         NEW given, ToSet(Given(y)) = ToSet(Given(real[c])) \cup given,
         real' = [real EXCEPT ![c] = y]
  PROVE  /\ real' \in Seq(Connection) /\ DOMAIN real' = DOMAIN real
         /\ real'[c] = y /\ \A d \in DOMAIN real : d # c => real'[d] = real[d]
         /\ Sent' = Sent \cup given
<1>1. /\ real' \in Seq(Connection) /\ DOMAIN real' = DOMAIN real
      /\ real'[c] = y /\ \A d \in DOMAIN real : d # c => real'[d] = real[d]
  OBVIOUS
<1>2. ASSUME NEW w
      PROVE  w \in Sent' <=> w \in Sent \cup given
  <2>1. w \in Sent' <=> \E d \in DOMAIN real' : w \in ToSet(Given(real'[d]))
    BY DEF Sent
  <2>2. w \in Sent <=> \E d \in DOMAIN real : w \in ToSet(Given(real[d]))
    BY DEF Sent
  <2>3. QED
    BY <1>1, <2>1, <2>2
<1>3. QED
  BY <1>1, <1>2

\* A connection is created.
LEMMA ConnectionAdded ==
  ASSUME real \in Seq(Connection), NEW y \in Connection, real' = Append(real, y)
  PROVE  /\ real' \in Seq(Connection) /\ DOMAIN real' = DOMAIN real \cup {Len(real) + 1}
         /\ Len(real) + 1 \notin DOMAIN real
         /\ real'[Len(real) + 1] = y /\ \A d \in DOMAIN real : real'[d] = real[d]
         /\ Sent' = Sent \cup ToSet(Given(y))
<1>1. /\ real' \in Seq(Connection) /\ DOMAIN real' = DOMAIN real \cup {Len(real) + 1}
      /\ Len(real) + 1 \notin DOMAIN real
      /\ real'[Len(real) + 1] = y /\ \A d \in DOMAIN real : real'[d] = real[d]
  OBVIOUS
<1>2. ASSUME NEW w
      PROVE  w \in Sent' <=> w \in Sent \cup ToSet(Given(y))
  <2>1. w \in Sent' <=> \E d \in DOMAIN real' : w \in ToSet(Given(real'[d]))
    BY DEF Sent
  <2>2. w \in Sent <=> \E d \in DOMAIN real : w \in ToSet(Given(real[d]))
    BY DEF Sent
  <2>3. QED
    BY <1>1, <2>1, <2>2
<1>3. QED
  BY <1>1, <1>2

\* A new connection was given nothing.
LEMMA NewConnectionEmpty ==
  ASSUME TypeOK
  PROVE  /\ NewConnection \in Connection /\ NewConnection.status = "connecting"
         /\ NewConnection.target = (IF retargeted THEN "retargeted" ELSE "original")
         /\ ToSet(Given(NewConnection)) = {} /\ Given(NewConnection) = <<>>
         /\ InOrder(NewConnection)
<1>1. <<>> \in Seq(Write)
  OBVIOUS
<1>2. NewConnection \in Connection
  BY <1>1 DEF NewConnection, Connection
<1>3. /\ NewConnection.wire = <<>> /\ NewConnection.queue = <<>>
      /\ NewConnection.status = "connecting"
      /\ NewConnection.target = (IF retargeted THEN "retargeted" ELSE "original")
  BY DEF NewConnection
<1>4. Given(NewConnection) = <<>> /\ ToSet(<<>>) = {}
  BY <1>3 DEF Given, ToSet
<1>5. InOrder(NewConnection)
  BY <1>3 DEF InOrder, ToSet
<1>6. QED
  BY <1>2, <1>3, <1>4, <1>5

\* passthrough() flushes the buffer to the live connection, or to a new one.
LEMMA EstablishGives ==
  ASSUME TypeOK, Establish
  PROVE  /\ real' \in Seq(Connection)
         /\ passthroughSocket' \in DOMAIN real'
         /\ passthroughSocket' = IF Live THEN passthroughSocket ELSE Len(real) + 1
         /\ DOMAIN real \subseteq DOMAIN real'
         /\ DOMAIN real' = DOMAIN real \cup {passthroughSocket'}
         /\ \A d \in DOMAIN real : d # passthroughSocket' => real'[d] = real[d]
         /\ Sent' = Sent \cup ToSet(buffer)
         /\ \E r \in Connection :
              /\ real'[passthroughSocket'] = Enqueue(r, buffer)
              /\ IF Live THEN r = real[passthroughSocket] ELSE r = NewConnection
<1> DEFINE r == IF Live THEN real[passthroughSocket] ELSE NewConnection
           y == Enqueue(r, buffer)
<1>1. /\ real \in Seq(Connection) /\ buffer \in Seq(Write)
      /\ Live => passthroughSocket \in DOMAIN real
  BY DEF TypeOK, Live
<1>2. r \in Connection /\ (~Live => ToSet(Given(r)) = {})
  BY <1>1, NewConnectionEmpty
<1> HIDE DEF r
<1>3. y \in Connection /\ ToSet(Given(y)) = ToSet(Given(r)) \cup ToSet(buffer)
  BY <1>1, <1>2, EnqueueGives
<1>4. CASE Live
  <2>1. real' = [real EXCEPT ![passthroughSocket] = y]
        /\ passthroughSocket' = passthroughSocket /\ r = real[passthroughSocket]
    BY <1>4 DEF Establish, r
  <2> HIDE DEF y
  <2>2. /\ real' \in Seq(Connection) /\ DOMAIN real' = DOMAIN real
        /\ real'[passthroughSocket] = y
        /\ \A d \in DOMAIN real : d # passthroughSocket => real'[d] = real[d]
        /\ Sent' = Sent \cup ToSet(buffer)
    BY <1>1, <1>3, <1>4, <2>1, ConnectionChanges
  <2>3. QED
    BY <1>1, <1>2, <1>4, <2>1, <2>2 DEF y
<1>5. CASE ~Live
  <2>1. real' = Append(real, y) /\ passthroughSocket' = Len(real) + 1 /\ r = NewConnection
    BY <1>5 DEF Establish, r
  <2> HIDE DEF y
  <2>2. /\ real' \in Seq(Connection) /\ DOMAIN real' = DOMAIN real \cup {Len(real) + 1}
        /\ Len(real) + 1 \notin DOMAIN real
        /\ real'[Len(real) + 1] = y /\ \A d \in DOMAIN real : real'[d] = real[d]
        /\ Sent' = Sent \cup ToSet(Given(y))
    BY <1>1, <1>3, <2>1, ConnectionAdded
  <2>3. QED
    BY <1>2, <1>3, <1>5, <2>1, <2>2 DEF y
<1>6. QED
  BY <1>4, <1>5

-----------------------------------------------------------------------------
(* Every step keeps the structure.                                           *)

\* A step that acknowledges nothing, and neither buffers nor sends a write.
LEMMA BudgetKept ==
  ASSUME TypeOK, Budget, LastIssued, BufferedIssued,
         UNCHANGED <<acks, callbacks, issued>>, writing' \in {0, writing},
         carried' \subseteq carried, ToSet(buffer)' \subseteq ToSet(buffer)
  PROVE  Budget' /\ LastIssued' /\ BufferedIssued'
<1>1. LastIssued' /\ BufferedIssued'
  BY DEF LastIssued, BufferedIssued, Issued
<1>2. ASSUME NEW w \in Write
      PROVE  /\ Invocations(w) \in Nat /\ Invocations(w)' \in Nat
             /\ Invocations(w)' <= Invocations(w)
  <2>1. acks \in [Write -> 0..2]
    BY DEF TypeOK
  <2>2. acks[w] \in Nat /\ acks'[w] = acks[w]
    BY <2>1
  <2>3. QED
    BY <2>2 DEF Invocations
<1>3. \A w \in Write :
        /\ w \in ToSet(buffer)' => w \in ToSet(buffer)
        /\ w \in callbacks' <=> w \in callbacks
        /\ w \in Issued' <=> w \in Issued
  BY DEF Issued
<1>4. Budget'
  BY <1>2, <1>3 DEF Budget
<1>5. QED
  BY <1>1, <1>4

\* The verdicts, the announcement and the connecting of the client.
LEMMA StructureAside ==
  ASSUME Structure,
         \/ ScheduleReset \/ Decline \/ AnnounceDestroyed \/ AnnounceAwaiting
         \/ DeferredPush \/ Dial \/ EmulateConnect \/ EmulateNothing
         \/ CompleteClaim \/ UNCHANGED vars
  PROVE  Structure'
<1> USE DEF Structure
<1>1. UNCHANGED <<buffer, writing, issued, callbacks, acks, real, carried,
                  passthroughSocket>>
  BY DEF ScheduleReset, Decline, AnnounceDestroyed, AnnounceAwaiting, DeferredPush,
         Dial, EmulateConnect, EmulateNothing, CompleteClaim, vars, verdictVars,
         writeVars, realVars
<1>2. Budget' /\ LastIssued' /\ BufferedIssued' /\ FlushedBuffer'
  <2>1. readyState' = readyState
    BY DEF ScheduleReset, Decline, AnnounceDestroyed, AnnounceAwaiting, DeferredPush,
           Dial, EmulateConnect, EmulateNothing, CompleteClaim, vars, verdictVars
  <2>2. QED
    BY <1>1, <2>1, BudgetKept DEF FlushedBuffer
<1>3. ticks # <<>> => Head(ticks) \in Tick /\ Tail(ticks) \in Seq(Tick)
  BY ElementsOfSeq DEF TypeOK
<1>4. CASE ScheduleReset
  BY <1>2, <1>4 DEF ScheduleReset, TypeOK, Counted, vars, verdictVars, realVars,
                    connectVars, clientVars, historyVars, recordVars, Issued
<1>5. CASE Decline
  <2>1. Counted'
    BY <1>5, BoundsAssumption
       DEF Decline, Counted, TypeOK, verdictVars
  <2>2. awaited' \in 0..subscribers /\ declined' \in 0..subscribers
    BY <1>5, BoundsAssumption DEF Decline, Counted, TypeOK
  <2>3. ticks' \in Seq(Tick)
    <3>1. [kind |-> "passthrough"] \in Tick
      BY DEF Tick
    <3>2. ticks \in Seq(Tick)
      BY DEF TypeOK
    <3>3. ticks' = ticks \/ ticks' = Append(ticks, [kind |-> "passthrough"])
      BY <1>5 DEF Decline
    <3>4. QED
      BY <3>1, <3>2, <3>3, ElementsOfSeq
  <2>4. TypeOK'
    BY <1>1, <1>5, <2>2, <2>3
       DEF Decline, TypeOK, writeVars, realVars, connectVars, clientVars,
           historyVars, recordVars, Issued
  <2>5. QED
    BY <1>2, <2>1, <2>4
<1>6. CASE AnnounceDestroyed \/ Dial
  <2>1. Counted'
    BY <1>6 DEF AnnounceDestroyed, Dial, Counted, verdictVars
  <2>2. ticks' \in Seq(Tick)
    BY <1>3, <1>6 DEF AnnounceDestroyed, Dial, NextTick
  <2>3. /\ pendingConnection' \in {"waiting", "resolved"} /\ emulationDue' \in BOOLEAN
        /\ UNCHANGED <<verdictVars, writeVars, realVars, connecting, connected,
                       connectEmulated, completionDue, clientVars, historyVars>>
    BY <1>6 DEF AnnounceDestroyed, Dial, TypeOK, connectVars
  <2>5. TypeOK'
    BY <2>2, <2>3
       DEF TypeOK, verdictVars, writeVars, realVars, clientVars, historyVars,
           recordVars, Issued
  <2>6. QED
    BY <1>2, <2>1, <2>5
<1>7. CASE AnnounceAwaiting
  <2>1. awaited' = subscribers /\ UNCHANGED <<subscribers, declined>> /\ announced'
    BY <1>7 DEF AnnounceAwaiting, ListenerCount
  <2>2. Counted'
    BY <2>1, BoundsAssumption DEF Counted, TypeOK
  <2>3. ticks' \in Seq(Tick) /\ awaited' \in 0..subscribers
    BY <1>3, <1>7, <2>1, BoundsAssumption DEF AnnounceAwaiting, NextTick, TypeOK
  <2>4. TypeOK'
    BY <1>1, <1>7, <2>1, <2>3
       DEF AnnounceAwaiting, TypeOK, writeVars, realVars, connectVars, clientVars,
           historyVars, recordVars, Issued
  <2>5. QED
    BY <1>2, <2>2, <2>4
<1>8. CASE DeferredPush
  <2>1. Head(ticks).write \in Write /\ Tail(ticks) \in Seq(Tick)
    BY <1>3, <1>8 DEF DeferredPush, NextTick, Tick
  <2>2. pushed' \in Seq(Write)
    <3>1. pushed \in Seq(Write)
      BY DEF TypeOK
    <3>2. QED
      BY <1>8, <2>1, <3>1, ElementsOfSeq DEF DeferredPush
  <2>3. TypeOK'
    BY SMTT(30), <1>1, <1>8, <2>1, <2>2
       DEF DeferredPush, TypeOK, verdictVars, writeVars, realVars, connectVars,
           clientVars, Issued
  <2>4. Counted'
    BY <1>8 DEF DeferredPush, Counted, verdictVars
  <2>5. QED
    BY <1>2, <2>3, <2>4
<1>9. CASE EmulateConnect \/ EmulateNothing \/ CompleteClaim \/ UNCHANGED vars
  <2>1. Counted'
    BY <1>9 DEF EmulateConnect, EmulateNothing, CompleteClaim, Counted, vars, verdictVars
  <2>2. connecting' \in BOOLEAN /\ connected' \in BOOLEAN
        /\ connectEmulated' \in BOOLEAN /\ emulationDue' \in BOOLEAN
        /\ completionDue' \in BOOLEAN /\ pendingConnection' \in {"waiting", "resolved"}
    BY <1>9
       DEF EmulateConnect, EmulateNothing, CompleteClaim, TypeOK, vars, connectVars
  <2>3. UNCHANGED <<verdictVars, ticks, writeVars, realVars, clientVars, historyVars>>
    BY <1>9 DEF EmulateConnect, EmulateNothing, CompleteClaim, vars
  <2>4. TypeOK'
    BY <2>2, <2>3
       DEF TypeOK, verdictVars, writeVars, realVars, clientVars, historyVars,
           recordVars, Issued
  <2>5. QED
    BY <1>2, <2>1, <2>4
<1>10. QED
  BY <1>4, <1>5, <1>6, <1>7, <1>8, <1>9

\* What a verdict or a reset records.
LEMMA PushTypes ==
  ASSUME TypeOK, LastIssued, NEW event \in {"verdict", "reset"}, InPush(event)
  PROVE  during' \subseteq {"verdict", "reset"} /\ straddling' \subseteq Issued
<1>1. writing # 0 => writing \in Issued
  BY BoundsAssumption DEF LastIssued, Issued, TypeOK
<1>2. QED
  BY <1>1 DEF InPush, TypeOK

\* What a reset does to the exchange.
LEMMA ResetTypes ==
  ASSUME TypeOK, LastIssued, ResetIfSettled
  PROVE  /\ readyState' = "PENDING"
         /\ resetScheduled' \in BOOLEAN /\ connectEmulated' \in BOOLEAN
         /\ pendingConnection' \in {"waiting", "resolved"}
         /\ completionDue' \in BOOLEAN /\ exchange' \in 1..MaxExchanges
         /\ exchange <= exchange'
         /\ during' \subseteq {"verdict", "reset"} /\ straddling' \subseteq Issued
<1>1. CASE ResetNeeded
  <2>1. /\ readyState' = "PENDING" /\ ~resetScheduled' /\ ~connectEmulated'
        /\ resetScheduled' \in BOOLEAN /\ connectEmulated' \in BOOLEAN
        /\ pendingConnection' = "waiting" /\ completionDue' \in BOOLEAN
        /\ exchange < MaxExchanges /\ exchange' = exchange + 1 /\ InPush("reset")
    BY <1>1 DEF ResetIfSettled
  <2>2. exchange' \in 1..MaxExchanges /\ exchange <= exchange'
    BY <2>1, BoundsAssumption DEF TypeOK
  <2>3. during' \subseteq {"verdict", "reset"} /\ straddling' \subseteq Issued
    BY <2>1, PushTypes
  <2>4. QED
    BY <2>1, <2>2, <2>3
<1>2. CASE ~ResetNeeded
  <2>1. /\ UNCHANGED <<readyState, resetScheduled, connectEmulated, pendingConnection,
                       completionDue, exchange, during, straddling>>
        /\ readyState = "PENDING"
    BY <1>2 DEF ResetIfSettled, ResetNeeded
  <2>2. QED
    BY <2>1, BoundsAssumption DEF TypeOK
<1>3. QED
  BY <1>1, <1>2

\* A verdict decides writes in the current exchange.
LEMMA DecideTypes ==
  ASSUME TypeOK, NEW writes, Decide(writes)
  PROVE  decided' \in [Write -> 0..MaxExchanges]
BY BoundsAssumption DEF Decide, TypeOK

\* The buffer after a reset holds nothing new.
LEMMA ResetBuffer ==
  ASSUME TypeOK
  PROVE  /\ BufferAfterReset \in Seq(Write)
         /\ ToSet(BufferAfterReset) \subseteq ToSet(buffer)
BY DEF BufferAfterReset, TypeOK, ToSet

\* Detaching the connection leaves it destroyed.
LEMMA DetachGives ==
  ASSUME TypeOK, DetachPassthroughSocket
  PROVE  /\ real' \in Seq(Connection) /\ DOMAIN real' = DOMAIN real
         /\ passthroughSocket' = 0 /\ carried' \subseteq carried
         /\ swapped' \in BOOLEAN /\ destroyed' \in BOOLEAN /\ (destroyed => destroyed')
         /\ Sent' = Sent
         /\ \A c \in DOMAIN real :
              IF c = passthroughSocket THEN real'[c] = Destroy(real[c])
              ELSE real'[c] = real[c]
<1>1. CASE passthroughSocket # 0
  <2> DEFINE y == Destroy(real[passthroughSocket])
  <2>1. real \in Seq(Connection) /\ passthroughSocket \in DOMAIN real
        /\ real[passthroughSocket] \in Connection
    BY <1>1 DEF TypeOK
  <2>2. y \in Connection /\ ToSet(Given(y)) = ToSet(Given(real[passthroughSocket])) \cup {}
    BY <2>1, DestroyKeeps
  <2>3. real' = [real EXCEPT ![passthroughSocket] = y]
    BY <1>1 DEF DetachPassthroughSocket
  <2>4. /\ passthroughSocket' = 0 /\ carried' \subseteq carried
        /\ swapped' \in BOOLEAN /\ destroyed' \in BOOLEAN /\ (destroyed => destroyed')
    BY <1>1 DEF DetachPassthroughSocket, TypeOK
  <2> HIDE DEF y
  <2>5. /\ real' \in Seq(Connection) /\ DOMAIN real' = DOMAIN real
        /\ real'[passthroughSocket] = y
        /\ \A d \in DOMAIN real : d # passthroughSocket => real'[d] = real[d]
        /\ Sent' = Sent \cup {}
    BY <2>1, <2>2, <2>3, ConnectionChanges
  <2>6. QED
    BY <2>4, <2>5 DEF y
<1>2. CASE passthroughSocket = 0
  BY <1>2 DEF DetachPassthroughSocket, TypeOK, Sent
<1>3. QED
  BY <1>1, <1>2

\* Invocations are counted.
LEMMA InvocationsCount ==
  ASSUME TypeOK, NEW w \in Write
  PROVE  /\ Invocations(w) \in Nat /\ acks[w] \in Nat
         /\ w \in carried => Invocations(w) = acks[w] + 1
         /\ w \notin carried => Invocations(w) = acks[w]
<1>1. acks \in [Write -> 0..2]
  BY DEF TypeOK
<1>2. acks[w] \in Nat
  BY <1>1
<1>3. QED
  BY <1>2 DEF Invocations

\* passthrough(), whoever calls it.
LEMMA StructureEstablish ==
  ASSUME Structure, Establish, Unaffected, UNCHANGED <<awaited, declined>>,
         announced' \in BOOLEAN, Counted', ticks' \in Seq(Tick)
  PROVE  Structure'
<1> USE DEF Structure
<1>1. /\ buffer' = <<>> /\ carried' = carried \cup (ToSet(buffer) \cap callbacks)
      /\ readyState' = "PASSTHROUGH" /\ Decide(ToSet(buffer)) /\ InPush("verdict")
  BY DEF Establish, BufferAfterFlush
<1>2. UNCHANGED <<subscribers, resetScheduled, writing, issued, callbacks, acks,
                  swapped, retargeted, connectVars, clientVars, exchange, opened, pushed,
                  mocked>>
  BY DEF Unaffected
<1>3. /\ real' \in Seq(Connection) /\ passthroughSocket' \in DOMAIN real'
      /\ during' \subseteq {"verdict", "reset"} /\ straddling' \subseteq Issued
      /\ decided' \in [Write -> 0..MaxExchanges]
  BY <1>1, EstablishGives, PushTypes, DecideTypes
<1>4. ToSet(buffer) \subseteq Issued /\ ToSet(buffer)' = {} /\ <<>> \in Seq(Write)
  BY <1>1 DEF BufferedIssued, ToSet
<1>5. TypeOK'
  <2>1. /\ carried' \subseteq Issued' /\ straddling' \subseteq Issued'
        /\ buffer' \in Seq(Write) /\ passthroughSocket' \in {0} \cup DOMAIN real'
    BY <1>1, <1>2, <1>3, <1>4 DEF TypeOK, Issued
  <2>2. UNCHANGED <<subscribers, resetScheduled, writing, issued, callbacks, acks,
                    awaited, declined, swapped, retargeted, connecting, connected,
                    connectEmulated, emulationDue, pendingConnection, completionDue,
                    destroyed, closed, exchange, opened, pushed, mocked>>
    BY <1>2 DEF connectVars, clientVars
  <2>3. QED
    BY <1>1, <1>3, <2>1, <2>2 DEF TypeOK, Issued
<1>6. LastIssued' /\ BufferedIssued' /\ FlushedBuffer'
  BY <1>1, <1>2, <1>4 DEF LastIssued, BufferedIssued, FlushedBuffer, Issued
<1>7. Budget'
  <2>1. SUFFICES ASSUME NEW w \in Write
                 PROVE  /\ Invocations(w)' <= 2
                        /\ w \notin Issued' => Invocations(w)' = 0
                        /\ w \in callbacks' => Invocations(w)' <= 1
                        /\ w \notin ToSet(buffer)'
    BY DEF Budget
  <2>2. acks'[w] = acks[w] /\ (w \in callbacks' <=> w \in callbacks)
        /\ (w \in Issued' <=> w \in Issued) /\ w \notin ToSet(buffer)'
    BY <1>2, <1>4 DEF Issued
  <2>3. CASE w \in ToSet(buffer) \cap callbacks
    <3>1. Invocations(w) = 0 /\ w \in carried'
      BY <1>1, <2>3 DEF Budget
    <3>2. acks[w] = 0
      BY <3>1, InvocationsCount
    <3>3. Invocations(w)' = 1
      BY <2>2, <3>1, <3>2 DEF Invocations
    <3>4. QED
      BY <1>4, <2>2, <2>3, <3>3
  <2>4. CASE w \notin ToSet(buffer) \cap callbacks
    <3>1. w \in carried' <=> w \in carried
      BY <1>1, <2>4
    <3>2. Invocations(w)' = Invocations(w)
      BY <2>2, <3>1 DEF Invocations
    <3>3. QED
      BY <2>2, <3>2 DEF Budget
  <2>5. QED
    BY <2>3, <2>4
<1>8. QED
  BY <1>5, <1>6, <1>7

\* The verdicts and the resets.
LEMMA StructureVerdicts ==
  ASSUME Structure,
         Claim \/ Passthrough \/ AnnounceToNobody \/ DeclinedByAll \/ Reset \/ Retarget
  PROVE  Structure'
<1> USE DEF Structure
<1>1. ticks \in Seq(Tick) /\ (ticks # <<>> => Tail(ticks) \in Seq(Tick))
  BY ElementsOfSeq DEF TypeOK
<1>2. CASE Passthrough
  <2>1. Counted' /\ announced' \in BOOLEAN /\ UNCHANGED <<awaited, declined, ticks>>
    BY <1>2 DEF Passthrough, Counted, Unaffected, TypeOK
  <2>2. QED
    BY <1>1, <1>2, <2>1, StructureEstablish DEF Passthrough
<1>3. CASE AnnounceToNobody
  <2>1. /\ announced' = TRUE /\ UNCHANGED <<awaited, declined, subscribers>>
        /\ subscribers = 0 /\ ticks' = Tail(ticks) /\ ticks # <<>>
    BY <1>3 DEF AnnounceToNobody, NextTick, Unaffected
  <2>2. Counted'
    BY <2>1, BoundsAssumption DEF Counted, TypeOK
  <2>3. QED
    BY <1>1, <1>3, <2>1, <2>2, StructureEstablish DEF AnnounceToNobody
<1>4. CASE DeclinedByAll
  <2>1. ticks' = Tail(ticks) /\ ticks # <<>>
    BY <1>4 DEF DeclinedByAll, NextTick
  <2>2. CASE readyState = "PENDING" /\ ~destroyed
    <3>1. Establish /\ Unaffected /\ UNCHANGED <<awaited, declined, announced>>
      BY <1>4, <2>2 DEF DeclinedByAll
    <3>2. Counted' /\ announced' \in BOOLEAN
      BY <3>1 DEF Counted, Unaffected, TypeOK
    <3>3. QED
      BY <1>1, <2>1, <3>1, <3>2, StructureEstablish
  <2>3. CASE ~(readyState = "PENDING" /\ ~destroyed)
    <3>1. UNCHANGED <<verdictVars, writeVars, realVars, connectVars, clientVars,
                      historyVars>>
      BY <1>4, <2>3 DEF DeclinedByAll
    <3>2. TypeOK'
      BY <1>1, <2>1, <3>1
         DEF TypeOK, verdictVars, writeVars, realVars, connectVars, clientVars,
             historyVars, recordVars, Issued
    <3>3. Counted' /\ FlushedBuffer'
      BY <3>1 DEF Counted, FlushedBuffer, verdictVars, writeVars
    <3>4. Budget' /\ LastIssued' /\ BufferedIssued'
      BY <3>1, BudgetKept DEF writeVars, realVars
    <3>5. QED
      BY <3>2, <3>3, <3>4
  <2>4. QED
    BY <2>2, <2>3
<1>5. CASE Claim
  <2>1. /\ readyState' = "CLAIMED" /\ mocked' = mocked \cup ToSet(buffer)
        /\ Decide(ToSet(buffer)) /\ InPush("verdict")
        /\ buffer' = buffer \/ buffer' = <<>>
        /\ UNCHANGED <<awaited, subscribers, declined, announced, ticks,
                       resetScheduled, writing, issued, callbacks, acks, realVars,
                       connecting, connected, connectEmulated, emulationDue,
                       pendingConnection, clientVars, exchange, opened, pushed>>
    BY <1>5 DEF Claim
  <2>2. /\ during' \subseteq {"verdict", "reset"} /\ straddling' \subseteq Issued
        /\ decided' \in [Write -> 0..MaxExchanges]
    BY <2>1, PushTypes, DecideTypes
  <2>3. /\ ToSet(buffer)' \subseteq ToSet(buffer) /\ buffer' \in Seq(Write)
        /\ ToSet(buffer) \subseteq Issued /\ completionDue' \in BOOLEAN
    <3>1. <<>> \in Seq(Write) /\ ToSet(<<>>) = {} /\ buffer \in Seq(Write)
      BY DEF ToSet, TypeOK
    <3>2. completionDue' \in BOOLEAN
      BY <1>5 DEF Claim, TypeOK
    <3>3. QED
      BY <2>1, <3>1, <3>2 DEF BufferedIssued
  <2>4. TypeOK'
    <3>1. mocked' \subseteq Issued' /\ straddling' \subseteq Issued'
      BY <2>1, <2>2, <2>3 DEF TypeOK, Issued
    <3>2. QED
      BY <2>1, <2>2, <2>3, <3>1 DEF TypeOK, realVars, clientVars, Issued
  <2>5. Budget' /\ LastIssued' /\ BufferedIssued'
    BY <2>1, <2>3, BudgetKept DEF realVars
  <2>6. Counted' /\ FlushedBuffer'
    BY <2>1 DEF Counted, FlushedBuffer
  <2>7. QED
    BY <2>4, <2>5, <2>6
<1>6. CASE Reset
  <2>1. /\ ResetIfSettled /\ buffer' = BufferAfterReset
        /\ UNCHANGED <<awaited, subscribers, declined, announced, ticks, writing,
                       issued, callbacks, acks, realVars, connecting, connected,
                       emulationDue, clientVars, opened, decided, pushed, mocked>>
    BY <1>6 DEF Reset
  <2>2. buffer' \in Seq(Write) /\ ToSet(buffer)' \subseteq ToSet(buffer)
    BY <2>1, ResetBuffer
  <2>3. TypeOK'
    BY <2>1, <2>2, ResetTypes DEF TypeOK, realVars, clientVars, Issued
  <2>4. Budget' /\ LastIssued' /\ BufferedIssued'
    BY <2>1, <2>2, BudgetKept DEF realVars
  <2>5. Counted' /\ FlushedBuffer'
    BY <2>1, ResetTypes DEF Counted, FlushedBuffer
  <2>6. QED
    BY <2>3, <2>4, <2>5
<1>7. CASE Retarget
  <2>1. /\ ResetIfSettled /\ buffer' = BufferAfterReset /\ retargeted' = TRUE
        /\ DetachPassthroughSocket
        /\ UNCHANGED <<awaited, subscribers, declined, announced, ticks, writing,
                       issued, callbacks, acks, connecting, connected, emulationDue,
                       closed, opened, decided, pushed, mocked>>
    BY <1>7 DEF Retarget
  <2>2. buffer' \in Seq(Write) /\ ToSet(buffer)' \subseteq ToSet(buffer)
    BY <2>1, ResetBuffer
  <2>3. /\ real' \in Seq(Connection) /\ passthroughSocket' = 0 /\ carried' \subseteq carried
        /\ swapped' \in BOOLEAN /\ destroyed' \in BOOLEAN
    BY <2>1, DetachGives
  <2>4. TypeOK'
    BY <2>1, <2>2, <2>3, ResetTypes DEF TypeOK, Issued
  <2>5. Budget' /\ LastIssued' /\ BufferedIssued'
    BY <2>1, <2>2, <2>3, BudgetKept
  <2>6. Counted' /\ FlushedBuffer'
    BY <2>1, ResetTypes DEF Counted, FlushedBuffer
  <2>7. QED
    BY <2>4, <2>5, <2>6
<1>8. QED
  BY <1>2, <1>3, <1>4, <1>5, <1>6, <1>7

\* What a write begins with.
LEMMA WriteBegins ==
  ASSUME Structure, WriteBegin
  PROVE  /\ issued' = issued + 1 /\ issued' \in Write /\ issued' \notin Issued
         /\ Issued' = Issued \cup {issued'} /\ issued \in Nat
         /\ writing = 0 /\ writing' = issued' /\ writing' # 0
         /\ callbacks' = callbacks \cup {issued'}
         /\ IF ResetsFirst
            THEN ResetIfSettled /\ buffer' = Append(BufferAfterReset, issued')
            ELSE /\ buffer' = Append(buffer, issued')
                 /\ UNCHANGED <<readyState, resetScheduled, connectEmulated,
                                pendingConnection, completionDue, exchange, during,
                                straddling>>
         /\ \E kept \in Seq(Write) :
              /\ buffer' = Append(kept, issued') /\ ToSet(kept) \subseteq ToSet(buffer)
              /\ \/ kept = buffer /\ readyState' = readyState
                 \/ kept = <<>> /\ readyState # "PENDING" /\ readyState' = "PENDING"
         /\ UNCHANGED <<awaited, subscribers, declined, announced, acks, realVars,
                        connecting, connected, emulationDue, clientVars, decided, mocked>>
<1>1. /\ issued' = issued + 1 /\ writing' = issued + 1 /\ writing = 0
      /\ issued < MaxWrites /\ issued \in Nat /\ callbacks' = callbacks \cup {issued + 1}
  BY BoundsAssumption DEF WriteBegin, ClientWrites, Structure, TypeOK
<1>2. issued' \in Write /\ issued' \notin Issued /\ Issued' = Issued \cup {issued'}
  BY <1>1, BoundsAssumption DEF Write, Issued
<1>3. /\ UNCHANGED <<awaited, subscribers, declined, announced, acks, realVars,
                     connecting, connected, emulationDue, clientVars, decided, mocked>>
      /\ IF ResetsFirst
         THEN ResetIfSettled /\ buffer' = Append(BufferAfterReset, issued')
         ELSE /\ buffer' = Append(buffer, issued')
              /\ UNCHANGED <<readyState, resetScheduled, connectEmulated,
                             pendingConnection, completionDue, exchange, during,
                             straddling>>
  BY <1>1 DEF WriteBegin
<1>4. \E kept \in Seq(Write) :
        /\ buffer' = Append(kept, issued') /\ ToSet(kept) \subseteq ToSet(buffer)
        /\ \/ kept = buffer /\ readyState' = readyState
           \/ kept = <<>> /\ readyState # "PENDING" /\ readyState' = "PENDING"
  <2>1. ResetIfSettled =>
          \/ BufferAfterReset = buffer /\ readyState' = readyState
          \/ /\ BufferAfterReset = <<>> /\ readyState # "PENDING"
             /\ readyState' = "PENDING"
    BY DEF BufferAfterReset, ResetIfSettled, ResetNeeded
  <2>2. TypeOK /\ buffer \in Seq(Write)
    BY DEF Structure, TypeOK
  <2>3. BufferAfterReset \in Seq(Write) /\ ToSet(BufferAfterReset) \subseteq ToSet(buffer)
    BY <2>2, ResetBuffer
  <2>4. QED
    BY <1>3, <2>1, <2>2, <2>3
<1>5. QED
  BY <1>1, <1>2, <1>3, <1>4

\* A write begins.
LEMMA StructureWriteBegin ==
  ASSUME Structure, WriteBegin
  PROVE  Structure'
<1> DEFINE w == issued'
<1>1. /\ issued' = issued + 1 /\ w \in Write /\ w \notin Issued
      /\ Issued' = Issued \cup {w} /\ issued \in Nat /\ writing' = w
      /\ callbacks' = callbacks \cup {w}
      /\ UNCHANGED <<awaited, subscribers, declined, announced, acks, realVars,
                     connecting, connected, emulationDue, clientVars, decided, mocked>>
  BY WriteBegins
<1>2. PICK kept \in Seq(Write) :
        buffer' = Append(kept, w) /\ ToSet(kept) \subseteq ToSet(buffer)
  BY WriteBegins
<1>3. buffer' \in Seq(Write) /\ ToSet(buffer)' = ToSet(kept) \cup {w}
  BY <1>1, <1>2, ElementsOfSeq
<1> USE DEF Structure
<1>4. /\ readyState' \in {"PENDING", "CLAIMED", "PASSTHROUGH"}
      /\ resetScheduled' \in BOOLEAN /\ connectEmulated' \in BOOLEAN
      /\ pendingConnection' \in {"waiting", "resolved"}
      /\ completionDue' \in BOOLEAN /\ exchange' \in 1..MaxExchanges
      /\ during' \subseteq {"verdict", "reset"} /\ straddling' \subseteq Issued
  <2>1. CASE ResetsFirst
    BY <2>1, WriteBegins, ResetTypes
  <2>2. CASE ~ResetsFirst
    BY <2>2, WriteBegins DEF TypeOK
  <2>3. QED
    BY <2>1, <2>2
<1>5. opened' \in [Write -> 0..MaxExchanges + 1]
  <2>1. /\ opened' = [opened EXCEPT ![issued + 1] = IF resetScheduled THEN exchange + 1
                                                    ELSE exchange]
        /\ exchange + 1 \in 0..MaxExchanges + 1 /\ exchange \in 0..MaxExchanges + 1
    BY BoundsAssumption DEF WriteBegin, TypeOK
  <2>2. QED
    BY <2>1 DEF TypeOK
<1>6. ticks' \in Seq(Tick) /\ pushed' \in Seq(Write)
  <2>1. [kind |-> "push", write |-> w] \in Tick
    BY <1>1 DEF Tick
  <2>2. ticks \in Seq(Tick) /\ pushed \in Seq(Write)
    BY DEF TypeOK
  <2>3. /\ ticks' = ticks \/ ticks' = Append(ticks, [kind |-> "push", write |-> w])
        /\ pushed' = pushed \/ pushed' = Append(pushed, w)
    BY <1>1 DEF WriteBegin
  <2>4. Append(pushed, w) \in Seq(Write)
    BY <1>1, <2>2
  <2>5. Append(ticks, [kind |-> "push", write |-> w]) \in Seq(Tick)
    BY <2>1, <2>2
  <2>6. QED
    BY <2>2, <2>3, <2>4, <2>5
<1> HIDE DEF w
<1>7. TypeOK'
  <2>1. /\ issued' \in 0..MaxWrites /\ writing' \in {0} \cup Write
        /\ callbacks' \subseteq Issued' /\ straddling' \subseteq Issued'
        /\ mocked' \subseteq Issued' /\ carried' \subseteq Issued'
    BY <1>1, <1>4, BoundsAssumption DEF TypeOK, Write, realVars, w
  <2>2. QED
    BY <1>1, <1>3, <1>4, <1>5, <1>6, <2>1 DEF TypeOK, realVars, clientVars
<1>8. Counted' /\ LastIssued' /\ BufferedIssued' /\ FlushedBuffer'
  <2>1. readyState' = "PASSTHROUGH" => readyState = "PASSTHROUGH" /\ buffer' = Append(buffer, w)
    <3>1. CASE ResetsFirst
      BY <3>1, WriteBegins, ResetTypes
    <3>2. CASE ~ResetsFirst
      BY <3>2, WriteBegins DEF w
    <3>3. QED
      BY <3>1, <3>2
  <2>2. writing = 0 /\ w # 0 /\ Append(<<>>, w) = <<w>>
    BY <1>1, WriteBegins DEF w
  <2>3. FlushedBuffer'
    BY <1>1, <2>1, <2>2 DEF FlushedBuffer
  <2>4. QED
    BY <1>1, <1>2, <1>3, <2>3 DEF Counted, LastIssued, BufferedIssued, w
<1>9. Budget'
  <2>1. SUFFICES ASSUME NEW v \in Write
                 PROVE  /\ Invocations(v)' <= 2
                        /\ v \notin Issued' => Invocations(v)' = 0
                        /\ v \in callbacks' => Invocations(v)' <= 1
                        /\ v \in callbacks' /\ v \in ToSet(buffer)' => Invocations(v)' = 0
    BY DEF Budget
  <2>2. Invocations(v)' = Invocations(v)
    BY <1>1 DEF Invocations, realVars
  <2>3. QED
    BY <1>1, <1>2, <1>3, <2>2 DEF Budget
<1>10. QED
  BY <1>7, <1>8, <1>9

\* #acknowledgeWrite() invokes a callback the write still holds.
LEMMA AcknowledgeCounts ==
  ASSUME Structure, Acknowledge(writing), writing \in Write, carried' = carried
  PROVE  /\ acks' \in [Write -> 0..2] /\ callbacks' \subseteq callbacks
         /\ callbacks' = callbacks \ {writing}
         /\ \A v \in Write :
              Invocations(v)' = IF v = writing /\ v \in callbacks THEN Invocations(v) + 1
                                ELSE Invocations(v)
<1>1. /\ callbacks' = callbacks \ {writing}
      /\ acks' = [v \in Write |-> IF v \in {writing} \cap callbacks THEN acks[v] + 1
                                  ELSE acks[v]]
  BY DEF Acknowledge, Acked
<1>2. TypeOK
  BY DEF Structure
<1>3. ASSUME NEW v \in Write
      PROVE  /\ Invocations(v)' = IF v = writing /\ v \in callbacks THEN Invocations(v) + 1
                                  ELSE Invocations(v)
             /\ acks'[v] \in 0..2
  <2>1. Invocations(v) \in Nat /\ acks[v] \in 0..2
    BY <1>2, InvocationsCount DEF TypeOK
  <2>2. CASE v = writing /\ v \in callbacks
    <3>1. acks'[v] = acks[v] + 1 /\ Invocations(v) <= 1
      BY <1>1, <2>2 DEF Structure, Budget
    <3>2. acks[v] <= Invocations(v)
      BY <1>2, <2>1, InvocationsCount
    <3>3. QED
      BY <2>1, <2>2, <3>1, <3>2 DEF Invocations
  <2>3. CASE ~(v = writing /\ v \in callbacks)
    BY <1>1, <2>1, <2>3 DEF Invocations
  <2>4. QED
    BY <2>2, <2>3
<1>4. QED
  BY <1>1, <1>3

\* A write ends: the push left it to await the verdict, or it was answered.
LEMMA StructureAcknowledged ==
  ASSUME Structure, WriteAwaitsVerdict \/ WriteMocked
  PROVE  Structure'
<1> USE DEF Structure
<1>1. /\ Acknowledge(writing) /\ writing # 0 /\ writing' = 0 /\ during' = {}
      /\ UNCHANGED <<verdictVars, ticks, resetScheduled, issued, realVars, connectVars,
                     clientVars, exchange, opened, pushed, straddling>>
      /\ \/ /\ buffer' = IF Buffered THEN buffer ELSE Append(buffer, writing)
            /\ UNCHANGED <<mocked, decided>>
         \/ /\ buffer' = RemoveFirst(buffer, writing)
            /\ mocked' = mocked \cup {writing} /\ Decide({writing})
  BY DEF WriteAwaitsVerdict, WriteMocked, WriteReturns, recordVars
<1>2. /\ writing \in Write /\ writing \in Issued /\ buffer \in Seq(Write)
      /\ decided \in [Write -> 0..MaxExchanges]
  BY <1>1, BoundsAssumption DEF TypeOK, LastIssued, Issued
<1>3. /\ acks' \in [Write -> 0..2] /\ callbacks' \subseteq callbacks
      /\ callbacks' = callbacks \ {writing}
      /\ \A v \in Write :
           Invocations(v)' = IF v = writing /\ v \in callbacks THEN Invocations(v) + 1
                             ELSE Invocations(v)
  BY <1>1, <1>2, AcknowledgeCounts DEF realVars
<1>4. buffer' \in Seq(Write) /\ ToSet(buffer)' \subseteq ToSet(buffer) \cup {writing}
  <2>1. CASE buffer' = IF Buffered THEN buffer ELSE Append(buffer, writing)
    BY <1>2, <2>1, ElementsOfSeq
  <2>2. CASE buffer' = RemoveFirst(buffer, writing)
    BY <1>2, <2>2, RemovedEntry
  <2>3. QED
    BY <1>1, <2>1, <2>2
<1>5. TypeOK'
  <2>1. decided' \in [Write -> 0..MaxExchanges] /\ mocked' \subseteq Issued'
    BY <1>1, <1>2, DecideTypes DEF TypeOK, Issued
  <2>2. callbacks' \subseteq Issued' /\ writing' \in {0} \cup Write
        /\ during' \subseteq {"verdict", "reset"}
    BY <1>1, <1>3 DEF TypeOK, Issued
  <2>3. QED
    BY SMTT(30), <1>1, <1>3, <1>4, <2>1, <2>2
       DEF TypeOK, verdictVars, realVars, connectVars, clientVars, Issued
<1>6. Counted' /\ LastIssued' /\ BufferedIssued' /\ FlushedBuffer'
  <2>1. readyState' # "PASSTHROUGH"
    BY DEF WriteAwaitsVerdict, WriteMocked, verdictVars
  <2>2. QED
    BY <1>1, <1>2, <1>4, <2>1
       DEF Counted, LastIssued, BufferedIssued, FlushedBuffer, verdictVars, Issued
<1>7. Budget'
  <2>1. SUFFICES ASSUME NEW v \in Write
                 PROVE  /\ Invocations(v)' <= 2
                        /\ v \notin Issued' => Invocations(v)' = 0
                        /\ v \in callbacks' => Invocations(v)' <= 1
                        /\ v \in callbacks' /\ v \in ToSet(buffer)' => Invocations(v)' = 0
    BY DEF Budget
  <2>2. Invocations(v) \in Nat /\ (v \in Issued' <=> v \in Issued)
    BY <1>1, InvocationsCount DEF Issued
  <2>3. CASE v = writing
    BY <1>2, <1>3, <2>2, <2>3 DEF Budget
  <2>4. CASE v # writing
    BY <1>3, <1>4, <2>2, <2>4 DEF Budget
  <2>5. QED
    BY <2>3, <2>4
<1>8. QED
  BY <1>5, <1>6, <1>7

\* A write ends: it was flushed in its push, or goes to the connection now.
LEMMA WriteThroughGives ==
  ASSUME TypeOK, LastIssued, WriteThrough
  PROVE  LET r == real[passthroughSocket]
             given == IF destroyed \/ ~Live THEN {} ELSE {writing} IN
         /\ writing \in Write /\ writing \in Issued
         /\ real' \in Seq(Connection) /\ DOMAIN real' = DOMAIN real
         /\ Sent' = Sent \cup given
         /\ given = {} => real' = real /\ destroyed' /\ UNCHANGED <<carried, decided>>
         /\ given # {} =>
              /\ passthroughSocket \in DOMAIN real /\ r \in Connection
              /\ r.status # "destroyed" /\ ~destroyed /\ ~destroyed'
              /\ real'[passthroughSocket] = IF swapped THEN WriteDirectly(r, writing)
                                            ELSE Enqueue(r, <<writing>>)
              /\ \A d \in DOMAIN real : d # passthroughSocket => real'[d] = real[d]
              /\ carried' = carried \cup ({writing} \cap callbacks)
              /\ Decide({writing})
         /\ passthroughSocket' = passthroughSocket
<1>1. /\ writing # 0 /\ writing \in Write /\ writing \in Issued
      /\ real \in Seq(Connection) /\ passthroughSocket' = passthroughSocket
  BY BoundsAssumption DEF WriteThrough, TypeOK, LastIssued, Issued
<1>2. CASE destroyed \/ ~Live
  BY <1>1, <1>2 DEF WriteThrough, Sent
<1>3. CASE ~(destroyed \/ ~Live)
  <2> DEFINE r == real[passthroughSocket]
             y == IF swapped THEN WriteDirectly(r, writing) ELSE Enqueue(r, <<writing>>)
  <2>1. passthroughSocket \in DOMAIN real /\ r \in Connection /\ r.status # "destroyed"
    BY <1>1, <1>3 DEF Live, TypeOK
  <2>2. /\ real' = [real EXCEPT ![passthroughSocket] = y]
        /\ carried' = carried \cup ({writing} \cap callbacks)
        /\ Decide({writing}) /\ ~destroyed /\ ~destroyed'
    BY <1>3 DEF WriteThrough
  <2>3. <<writing>> \in Seq(Write) /\ ToSet(<<writing>>) = {writing}
    BY <1>1 DEF ToSet
  <2>4. y \in Connection /\ ToSet(Given(y)) = ToSet(Given(r)) \cup {writing}
    <3> HIDE DEF r
    <3>1. CASE swapped
      <4>1. y = WriteDirectly(r, writing)
        BY <3>1
      <4> HIDE DEF y
      <4>2. QED
        BY <1>1, <2>1, <4>1, WriteDirectlyGives
    <3>2. CASE ~swapped
      <4> DEFINE writes == <<writing>>
      <4>1. y = Enqueue(r, writes) /\ writes \in Seq(Write) /\ ToSet(writes) = {writing}
        BY <2>3, <3>2
      <4> HIDE DEF y, writes
      <4>2. QED
        BY <2>1, <4>1, EnqueueGives
    <3>3. QED
      BY <3>1, <3>2
  <2> HIDE DEF y
  <2>5. /\ real' \in Seq(Connection) /\ DOMAIN real' = DOMAIN real
        /\ real'[passthroughSocket] = y
        /\ \A d \in DOMAIN real : d # passthroughSocket => real'[d] = real[d]
        /\ Sent' = Sent \cup {writing}
    BY <1>1, <2>1, <2>2, <2>4, ConnectionChanges
  <2>6. QED
    BY <1>1, <1>3, <2>1, <2>2, <2>5 DEF y
<1>4. QED
  BY <1>2, <1>3

\* A write ends without an acknowledgement.
LEMMA StructureSent ==
  ASSUME Structure, WriteFlushed \/ WriteThrough
  PROVE  Structure'
<1> USE DEF Structure
<1>1. CASE WriteFlushed
  <2>1. /\ writing' = 0 /\ during' = {}
        /\ UNCHANGED <<verdictVars, ticks, buffer, resetScheduled, issued, callbacks,
                       acks, realVars, connectVars, clientVars, recordVars>>
    BY <1>1 DEF WriteFlushed, WriteReturns
  <2>2. TypeOK'
    BY <2>1
       DEF TypeOK, verdictVars, realVars, connectVars, clientVars, recordVars, Issued
  <2>3. Counted'
    BY <2>1 DEF Counted, verdictVars
  <2>4. Budget' /\ LastIssued' /\ BufferedIssued'
    BY <2>1, BudgetKept DEF realVars
  <2>5. FlushedBuffer'
    BY <1>1, <2>1 DEF WriteFlushed, FlushedBuffer, Buffered, verdictVars, ToSet
  <2>6. QED
    BY <2>2, <2>3, <2>4, <2>5
<1>2. CASE WriteThrough
  <2>1. /\ writing' = 0 /\ during' = {} /\ writing \in ToSet(buffer)
        /\ buffer' = RemoveFirst(buffer, writing)
        /\ UNCHANGED <<verdictVars, ticks, resetScheduled, issued, callbacks,
                       acks, passthroughSocket, swapped, retargeted, connectVars, closed,
                       exchange, opened, mocked, pushed, straddling>>
    BY <1>2 DEF WriteThrough, WriteReturns, Buffered
  <2>2. /\ writing \in Write /\ real' \in Seq(Connection) /\ DOMAIN real' = DOMAIN real
        /\ \/ destroyed' = TRUE /\ UNCHANGED <<carried, decided>>
           \/ /\ carried' = carried \cup ({writing} \cap callbacks)
              /\ Decide({writing}) /\ destroyed' = FALSE
    <3>1. destroyed' \in BOOLEAN /\ (destroyed' => destroyed' = TRUE)
          /\ (~destroyed' => destroyed' = FALSE)
      BY <1>2 DEF WriteThrough, TypeOK
    <3>2. QED
      BY <1>2, <3>1, WriteThroughGives
  <2>3. buffer' \in Seq(Write) /\ ToSet(buffer)' \subseteq ToSet(buffer)
    BY <2>1, <2>2, RemovedEntry DEF TypeOK
  <2>4. carried' \subseteq Issued' /\ decided' \in [Write -> 0..MaxExchanges]
    BY <2>1, <2>2, DecideTypes DEF TypeOK, Issued
  <2>5. TypeOK'
    <3>1. destroyed' \in BOOLEAN /\ passthroughSocket' \in {0} \cup DOMAIN real'
          /\ during' \subseteq {"verdict", "reset"}
      BY <2>1, <2>2 DEF TypeOK
    <3>2. QED
      BY SMTT(30), <2>1, <2>2, <2>3, <2>4, <3>1 DEF TypeOK, verdictVars, connectVars, Issued
  <2>6. Counted' /\ LastIssued' /\ BufferedIssued' /\ FlushedBuffer'
    <3>1. buffer = <<writing>>
      BY <1>2, <2>1 DEF FlushedBuffer, WriteThrough, ToSet
    <3>2. buffer' = <<>>
      BY <2>1, <2>2, <3>1, EntryRemoved
    <3>3. QED
      BY <2>1, <2>3, <3>2
         DEF Counted, LastIssued, BufferedIssued, FlushedBuffer, verdictVars, Issued
  <2>7. Budget'
    <3>1. CASE carried' = carried
      BY <2>1, <2>3, <3>1, BudgetKept
    <3>2. CASE carried' = carried \cup ({writing} \cap callbacks)
      <4>1. SUFFICES ASSUME NEW v \in Write
                     PROVE  /\ Invocations(v)' <= 2
                            /\ v \notin Issued' => Invocations(v)' = 0
                            /\ v \in callbacks' => Invocations(v)' <= 1
                            /\ v \in callbacks' /\ v \in ToSet(buffer)' =>
                                 Invocations(v)' = 0
        BY DEF Budget
      <4>2. Invocations(v) \in Nat /\ acks'[v] = acks[v]
            /\ (v \in Issued' <=> v \in Issued) /\ (v \in callbacks' <=> v \in callbacks)
        BY <2>1, InvocationsCount DEF Issued
      <4>3. CASE v = writing /\ v \in callbacks
        <5>1. acks[v] = 0 /\ v \in carried'
          BY <2>1, <3>2, <4>3, InvocationsCount DEF Budget
        <5>2. Invocations(v)' = 1
          BY <4>2, <5>1 DEF Invocations
        <5>3. v \notin ToSet(buffer)'
          <6>1. buffer = <<writing>>
            BY <1>2, <2>1 DEF FlushedBuffer, WriteThrough, ToSet
          <6>2. buffer' = <<>>
            BY <2>1, <2>2, <6>1, EntryRemoved
          <6>3. QED
            BY <6>2 DEF ToSet
        <5>4. QED
          BY <2>1, <4>2, <4>3, <5>2, <5>3 DEF BufferedIssued
      <4>4. CASE ~(v = writing /\ v \in callbacks)
        <5>1. Invocations(v)' = Invocations(v)
          BY <3>2, <4>2, <4>4 DEF Invocations
        <5>2. QED
          BY <2>3, <4>2, <5>1 DEF Budget
      <4>5. QED
        BY <4>3, <4>4
    <3>3. QED
      BY <2>2, <3>1, <3>2
  <2>8. QED
    BY <2>5, <2>6, <2>7
<1>3. QED
  BY <1>1, <1>2

-----------------------------------------------------------------------------
(* The real connections and the end of the client.                           *)

\* What happens to a real connection changes what it was given in no way.
LEMMA RealIOKeeps ==
  ASSUME TypeOK, NEW c \in DOMAIN real,
         RealConnects(c) \/ RealLost(c) \/ \E w \in Write : RealAccepts(c, w)
  PROVE  /\ real' \in Seq(Connection) /\ DOMAIN real' = DOMAIN real /\ Sent' = Sent
         /\ \A d \in DOMAIN real : d # c => real'[d] = real[d]
         /\ LET r == real[c]
                y == real'[c] IN
            /\ y.target = r.target /\ Given(y) = Given(r) /\ Dispatched(y)
            /\ InOrder(r) => InOrder(y)
            /\ y.status = IF RealLost(c) \/ (RealConnects(c) /\ destroyed)
                          THEN "destroyed"
                          ELSE IF RealConnects(c) THEN "open" ELSE r.status
<1> DEFINE r == real[c]
<1>1. real \in Seq(Connection) /\ r \in Connection
  BY DEF TypeOK
<1> HIDE DEF r
<1>2. ASSUME NEW y \in Connection, real' = [real EXCEPT ![c] = y], Given(y) = Given(r)
      PROVE  /\ real' \in Seq(Connection) /\ DOMAIN real' = DOMAIN real /\ Sent' = Sent
             /\ \A d \in DOMAIN real : d # c => real'[d] = real[d]
             /\ real'[c] = y
  <2>1. ToSet(Given(y)) = ToSet(Given(real[c])) \cup {}
    BY <1>2 DEF r
  <2>2. /\ real' \in Seq(Connection) /\ DOMAIN real' = DOMAIN real
        /\ real'[c] = y /\ \A d \in DOMAIN real : d # c => real'[d] = real[d]
        /\ Sent' = Sent \cup {}
    BY <1>1, <1>2, <2>1, ConnectionChanges
  <2>3. QED
    BY <2>2
<1>3. CASE RealConnects(c)
  <2> DEFINE z == [r EXCEPT !.status = "open"]
             open == Pump(z)
             y == IF destroyed THEN Destroy(open) ELSE open
  <2>1. /\ z \in Connection /\ z.status = "open" /\ z.target = r.target
        /\ z.wire = r.wire /\ z.queue = r.queue /\ z.overlapped = r.overlapped
    BY <1>1 DEF Connection
  <2>2. real' = [real EXCEPT ![c] = y] /\ r.status = "connecting"
    BY <1>3 DEF RealConnects, r
  <2> HIDE DEF z
  <2>3. Given(z) = Given(r) /\ (InOrder(r) <=> InOrder(z))
    BY <2>1, SameWrites
  <2> HIDE DEF open
  <2>4. /\ open \in Connection /\ open.status = "open" /\ open.target = r.target
        /\ Given(open) = Given(r) /\ Dispatched(open) /\ (InOrder(r) => InOrder(open))
    BY <2>1, <2>3, PumpKeeps DEF open
  <2>5. /\ y \in Connection /\ y.target = r.target
        /\ y.status = IF destroyed THEN "destroyed" ELSE "open"
        /\ Given(y) = Given(r) /\ Dispatched(y) /\ (InOrder(r) => InOrder(y))
    <3>1. CASE destroyed
      <4>1. y = Destroy(open)
        BY <3>1
      <4> HIDE DEF y
      <4>2. QED
        BY <2>4, <3>1, <4>1, DestroyKeeps
    <3>2. CASE ~destroyed
      BY <2>4, <3>2
    <3>3. QED
      BY <3>1, <3>2
  <2> HIDE DEF y
  <2>6. /\ real' \in Seq(Connection) /\ DOMAIN real' = DOMAIN real /\ Sent' = Sent
        /\ \A d \in DOMAIN real : d # c => real'[d] = real[d]
        /\ real'[c] = y
    BY <1>2, <2>2, <2>5
  <2>7. ~RealLost(c) \/ destroyed
    <3>1. SUFFICES ASSUME RealLost(c), ~destroyed
                   PROVE  FALSE
      OBVIOUS
    <3>2. destroyed' = TRUE /\ destroyed' = destroyed
      BY <1>3, <3>1 DEF RealLost, RealConnects, clientVars
    <3>3. QED
      BY <3>1, <3>2
  <2>8. QED
    BY <1>3, <2>5, <2>6, <2>7 DEF r
<1>4. CASE ~RealConnects(c) /\ RealLost(c)
  <2> DEFINE y == Destroy(r)
  <2>1. real' = [real EXCEPT ![c] = y]
    BY <1>4 DEF RealLost, r
  <2> HIDE DEF y
  <2>2. /\ y \in Connection /\ y.status = "destroyed" /\ y.target = r.target
        /\ Given(y) = Given(r) /\ Dispatched(y) /\ (InOrder(r) => InOrder(y))
    BY <1>1, DestroyKeeps DEF y
  <2>3. /\ real' \in Seq(Connection) /\ DOMAIN real' = DOMAIN real /\ Sent' = Sent
        /\ \A d \in DOMAIN real : d # c => real'[d] = real[d]
        /\ real'[c] = y
    BY <1>2, <2>1, <2>2
  <2>4. QED
    BY <1>4, <2>2, <2>3 DEF r
<1>5. CASE ~RealConnects(c) /\ ~RealLost(c)
  <2>1. PICK w \in Write : RealAccepts(c, w)
    BY <1>5
  <2> DEFINE z == [r EXCEPT !.own = @ \ {w}, !.direct = @ \ {w}]
             y == Pump(z)
  <2>2. /\ z \in Connection /\ z.status = r.status /\ z.target = r.target
        /\ z.wire = r.wire /\ z.queue = r.queue /\ z.overlapped = r.overlapped
    BY <1>1 DEF Connection
  <2>3. real' = [real EXCEPT ![c] = y]
    BY <2>1 DEF RealAccepts, r
  <2> HIDE DEF z
  <2>4. Given(z) = Given(r) /\ (InOrder(r) <=> InOrder(z))
    BY <2>2, SameWrites
  <2> HIDE DEF y
  <2>5. /\ y \in Connection /\ y.status = r.status /\ y.target = r.target
        /\ Given(y) = Given(r) /\ Dispatched(y) /\ (InOrder(r) => InOrder(y))
    BY <2>2, <2>4, PumpKeeps DEF y
  <2>6. /\ real' \in Seq(Connection) /\ DOMAIN real' = DOMAIN real /\ Sent' = Sent
        /\ \A d \in DOMAIN real : d # c => real'[d] = real[d]
        /\ real'[c] = y
    BY <1>2, <2>3, <2>5
  <2>7. QED
    BY <1>5, <2>5, <2>6 DEF r
<1>6. QED
  BY <1>3, <1>4, <1>5

\* The end of the client destroys at most its connection.
LEMMA ClientEnds ==
  ASSUME TypeOK, ClientDestroys \/ ClientCloses
  PROVE  /\ real' \in Seq(Connection) /\ DOMAIN real' = DOMAIN real /\ Sent' = Sent
         /\ destroyed'
         /\ \A d \in DOMAIN real : real'[d] \in {real[d], Destroy(real[d])}
<1>1. real \in Seq(Connection)
  BY DEF TypeOK
<1>2. destroyed'
  BY DEF ClientDestroys, ClientCloses, clientVars
<1>3. CASE real' = real
  BY <1>1, <1>2, <1>3 DEF Sent
<1>4. CASE Live /\ real' = [real EXCEPT ![passthroughSocket] = Destroy(@)]
  <2> DEFINE r == real[passthroughSocket]
             y == Destroy(r)
  <2>1. passthroughSocket \in DOMAIN real /\ r \in Connection
    BY <1>1, <1>4 DEF TypeOK, Live
  <2>2. y \in Connection /\ Given(y) = Given(r)
    BY <2>1, DestroyKeeps
  <2>3. real' = [real EXCEPT ![passthroughSocket] = y]
    BY <1>4
  <2>4. ToSet(Given(y)) = ToSet(Given(real[passthroughSocket])) \cup {}
    BY <2>2
  <2> HIDE DEF y
  <2>5. /\ real' \in Seq(Connection) /\ DOMAIN real' = DOMAIN real
        /\ real'[passthroughSocket] = y
        /\ \A d \in DOMAIN real : d # passthroughSocket => real'[d] = real[d]
        /\ Sent' = Sent \cup {}
    BY <1>1, <2>1, <2>2, <2>3, <2>4, ConnectionChanges
  <2>6. QED
    BY <1>2, <2>5 DEF y
<1>5. QED
  BY <1>3, <1>4 DEF ClientDestroys, ClientCloses

\* The real connections, and the client's end, keep the structure.
LEMMA StructureRealIO ==
  ASSUME Structure, RealIO \/ ClientDestroys \/ ClientCloses
  PROVE  Structure'
<1> USE DEF Structure
<1>1. CASE RealIO
  <2>1. PICK c \in DOMAIN real :
          RealConnects(c) \/ RealLost(c) \/ \E w \in Write : RealAccepts(c, w)
    BY <1>1 DEF RealIO
  <2>2. real' \in Seq(Connection) /\ DOMAIN real' = DOMAIN real
    BY <2>1, RealIOKeeps
  <2>3. /\ UNCHANGED <<verdictVars, ticks, buffer, resetScheduled, writing, issued,
                       callbacks, passthroughSocket, retargeted, historyVars, closed,
                       connectEmulated, emulationDue, pendingConnection, completionDue>>
        /\ swapped' \in BOOLEAN /\ connecting' \in BOOLEAN /\ connected' \in BOOLEAN
        /\ destroyed' \in BOOLEAN
    BY <2>1
       DEF RealConnects, RealLost, RealAccepts, TypeOK, writeVars, connectVars, clientVars
  <2>4. Counted' /\ LastIssued' /\ BufferedIssued' /\ FlushedBuffer'
    BY <2>3
       DEF Counted, LastIssued, BufferedIssued, FlushedBuffer, verdictVars, Issued
  <2>5. Budget' /\ acks' \in [Write -> 0..2] /\ carried' \subseteq carried
    <3>1. CASE \E w \in Write : RealAccepts(c, w)
      <4>1. PICK w \in Write : RealAccepts(c, w)
        BY <3>1
      <4>2. /\ carried' = carried \ {w}
            /\ acks' = [v \in Write |-> IF v \in {w} \cap carried THEN acks[v] + 1
                                        ELSE acks[v]]
        BY <4>1 DEF RealAccepts, Acked
      <4>3. ASSUME NEW v \in Write
            PROVE  Invocations(v)' = Invocations(v) /\ acks'[v] \in 0..2
        <5>1. Invocations(v) \in Nat /\ acks[v] \in Nat /\ Invocations(v) <= 2
          BY InvocationsCount DEF Budget
        <5>2. CASE v = w /\ v \in carried
          <6>1. acks'[v] = acks[v] + 1 /\ v \notin carried' /\ Invocations(v) = acks[v] + 1
            BY <4>2, <5>2, InvocationsCount
          <6>2. QED
            BY <5>1, <6>1 DEF Invocations
        <5>3. CASE ~(v = w /\ v \in carried)
          <6>1. acks'[v] = acks[v] /\ (v \in carried' <=> v \in carried)
            BY <4>2, <5>3
          <6>2. acks[v] \in 0..2
            BY DEF TypeOK
          <6>3. QED
            BY <6>1, <6>2 DEF Invocations
        <5>4. QED
          BY <5>2, <5>3
      <4>4. acks' \in [Write -> 0..2]
        BY <4>2, <4>3
      <4>5. Budget'
        BY <2>3, <4>3 DEF Budget, Issued
      <4>6. QED
        BY <4>2, <4>4, <4>5
    <3>2. CASE RealConnects(c) \/ RealLost(c)
      <4>1. UNCHANGED <<acks, carried>>
        BY <3>2 DEF RealConnects, RealLost, writeVars
      <4>2. QED
        BY <2>3, <4>1, BudgetKept DEF TypeOK
    <3>3. QED
      BY <2>1, <3>1, <3>2
  <2>6. TypeOK'
    <3>1. carried' \subseteq Issued' /\ passthroughSocket' \in {0} \cup DOMAIN real'
      BY <2>2, <2>3, <2>5 DEF TypeOK, Issued
    <3>2. QED
      BY <2>2, <2>3, <2>5, <3>1 DEF TypeOK, verdictVars, historyVars, recordVars, Issued
  <2>7. QED
    BY <2>4, <2>5, <2>6
<1>2. CASE ClientDestroys \/ ClientCloses
  <2>1. real' \in Seq(Connection) /\ DOMAIN real' = DOMAIN real
    BY <1>2, ClientEnds
  <2>2. /\ UNCHANGED <<verdictVars, ticks, resetScheduled, writing, issued, callbacks,
                       acks, swapped, retargeted, carried, connectVars, historyVars>>
        /\ destroyed' \in BOOLEAN /\ closed' \in BOOLEAN
        /\ buffer' = buffer \/ buffer' = <<>>
        /\ passthroughSocket' \in {0, passthroughSocket}
    BY <1>2 DEF ClientDestroys, ClientCloses, TypeOK, writeVars, clientVars
  <2>3. buffer' \in Seq(Write) /\ ToSet(buffer)' \subseteq ToSet(buffer)
    <3>1. buffer \in Seq(Write) /\ <<>> \in Seq(Write) /\ ToSet(<<>>) = {}
      BY DEF TypeOK, ToSet
    <3>2. QED
      BY <2>2, <3>1
  <2>4. TypeOK'
    <3>1. passthroughSocket' \in {0} \cup DOMAIN real'
      BY <2>1, <2>2 DEF TypeOK
    <3>2. QED
      BY <2>1, <2>2, <2>3, <3>1
         DEF TypeOK, verdictVars, connectVars, historyVars, recordVars, Issued
  <2>5. Budget' /\ LastIssued' /\ BufferedIssued'
    BY <2>2, <2>3, BudgetKept
  <2>6. Counted' /\ FlushedBuffer'
    BY <2>2 DEF Counted, FlushedBuffer, verdictVars
  <2>7. QED
    BY <2>4, <2>5, <2>6
<1>3. QED
  BY <1>1, <1>2

\* The structure holds throughout.
LEMMA StructureHolds == Spec => []Structure
<1>1. Init => Structure
  <2> SUFFICES ASSUME Init
               PROVE  Structure
    OBVIOUS
  <2>1. TypeOK
    <3>1. [kind |-> "announce"] \in Tick /\ [kind |-> "dial"] \in Tick
      BY DEF Tick
    <3>2. ticks \in Seq(Tick)
      BY <3>1 DEF Init
    <3>3. acks \in [Write -> 0..2]
      BY DEF Init
    <3>4. /\ opened \in [Write -> 0..MaxExchanges + 1]
          /\ decided \in [Write -> 0..MaxExchanges]
      BY BoundsAssumption DEF Init
    <3>5. <<>> \in Seq(Write) /\ <<>> \in Seq(Connection)
      OBVIOUS
    <3>6. /\ subscribers \in 0..MaxSubscribers /\ awaited \in 0..subscribers
          /\ declined \in 0..subscribers /\ issued \in 0..MaxWrites
          /\ exchange \in 1..MaxExchanges /\ writing \in {0} \cup Write
      BY BoundsAssumption DEF Init
    <3>7. /\ announced \in BOOLEAN /\ resetScheduled \in BOOLEAN /\ swapped \in BOOLEAN
          /\ retargeted \in BOOLEAN /\ connecting \in BOOLEAN /\ connected \in BOOLEAN
          /\ connectEmulated \in BOOLEAN /\ emulationDue \in BOOLEAN
          /\ completionDue \in BOOLEAN /\ destroyed \in BOOLEAN /\ closed \in BOOLEAN
      BY DEF Init
    <3>8. /\ readyState = "PENDING" /\ pendingConnection = "waiting"
          /\ passthroughSocket = 0 /\ real = <<>> /\ buffer = <<>> /\ pushed = <<>>
          /\ callbacks = {} /\ carried = {} /\ mocked = {} /\ during = {}
          /\ straddling = {}
      BY DEF Init
    <3>9. QED
      BY <3>2, <3>3, <3>4, <3>5, <3>6, <3>7, <3>8 DEF TypeOK
  <2>2. Counted /\ LastIssued /\ BufferedIssued /\ FlushedBuffer
    BY BoundsAssumption
       DEF Init, Counted, LastIssued, BufferedIssued, FlushedBuffer, ToSet
  <2>3. Budget
    BY DEF Init, Budget, Invocations
  <2>4. QED
    BY <2>1, <2>2, <2>3 DEF Structure
<1>2. Structure /\ [Next]_vars => Structure'
  <2> SUFFICES ASSUME Structure, [Next]_vars
               PROVE  Structure'
    OBVIOUS
  <2>1. CASE WriteBegin
    BY <2>1, StructureWriteBegin
  <2>2. CASE WriteEnd
    BY <2>2, StructureAcknowledged, StructureSent DEF WriteEnd
  <2>3. CASE RunTick
    BY <2>3, StructureAside, StructureVerdicts DEF RunTick
  <2>4. CASE Subscriber
    BY <2>4, StructureAside, StructureVerdicts DEF Subscriber
  <2>5. CASE EmulateConnect \/ EmulateNothing \/ CompleteClaim \/ UNCHANGED vars
    BY <2>5, StructureAside
  <2>6. CASE RealIO \/ ClientDestroys \/ ClientCloses
    BY <2>6, StructureRealIO
  <2>7. QED
    BY <2>1, <2>2, <2>3, <2>4, <2>5, <2>6 DEF Next
<1>3. QED
  BY <1>1, <1>2, PTL DEF Spec

\* TypeOK is an invariant of the socket and its writes: every bound of the state
\* holds, the count of awaited verdicts and the acknowledgements included.
THEOREM TypeCorrectness == Spec => []TypeOK
<1>1. Structure => TypeOK
  BY DEF Structure
<1>2. QED
  BY <1>1, StructureHolds, PTL

-----------------------------------------------------------------------------
(* The order of the pushes.                                                  *)

\* A sequence of writes grows in order by one that comes after all of it.
LEMMA IncreasingAppend ==
  ASSUME NEW s \in Seq(Write), NEW w \in Write, Increasing(s), \A v \in ToSet(s) : v < w
  PROVE  Increasing(Append(s, w))
<1> DEFINE t == Append(s, w)
<1>1. PICK n \in Nat : n = Len(s)
  OBVIOUS
<1>2. /\ DOMAIN t = 1..n + 1 /\ t[n + 1] = w /\ DOMAIN s = 1..n
      /\ \A i \in 1..n : t[i] = s[i]
  BY <1>1
<1> HIDE DEF t
<1>3. ASSUME NEW i \in 1..n + 1, NEW j \in 1..n + 1, i < j
      PROVE  t[i] < t[j]
  <2>1. i \in 1..n /\ t[i] = s[i] /\ s[i] \in ToSet(s)
    BY <1>2, <1>3 DEF ToSet
  <2>2. CASE j \in 1..n
    BY <1>2, <1>3, <2>1, <2>2 DEF Increasing
  <2>3. CASE j = n + 1
    BY <1>2, <2>1, <2>3
  <2>4. QED
    BY <1>3, <2>2, <2>3
<1>4. QED
  BY <1>2, <1>3 DEF Increasing, t

\* The callbacks of process.nextTick(), once the first has run.
LEMMA TailOfTicks ==
  ASSUME TypeOK, ticks # <<>>, ticks' = Tail(ticks)
  PROVE  \A i \in DOMAIN ticks' :
           i + 1 \in DOMAIN ticks /\ ticks'[i] = ticks[i + 1] /\ i \in Nat /\ i > 0
<1>1. ticks \in Seq(Tick)
  BY DEF TypeOK
<1>2. QED
  BY <1>1

\* Steps that neither push nor issue a write.
LEMMA PushesAside ==
  ASSUME Structure, PushOrder, UNCHANGED <<pushed, issued>>, announced => announced',
         \/ ticks' = ticks
         \/ ticks # <<>> /\ ticks' = Tail(ticks)
         \/ announced /\ ticks' = Append(ticks, [kind |-> "passthrough"]),
         ~announced' => readyState' = "PENDING",
         \/ announced' = announced
         \/ ticks # <<>> /\ ticks' = Tail(ticks)
  PROVE  PushOrder'
<1> USE DEF Structure
<1>1. ticks \in Seq(Tick)
  BY DEF TypeOK
<1>2. CASE ticks # <<>> /\ ticks' = Tail(ticks)
  <2>1. \A i \in DOMAIN ticks' :
          i + 1 \in DOMAIN ticks /\ ticks'[i] = ticks[i + 1] /\ i \in Nat /\ i > 0
    BY <1>2, TailOfTicks
  <2>2. \A i \in DOMAIN ticks' :
          /\ ticks'[i].kind # "announce"
          /\ ticks'[i].kind = "passthrough" => announced'
    BY <2>1 DEF PushOrder
  <2>3. ASSUME NEW i \in DOMAIN ticks', ticks'[i].kind = "push"
        PROVE  /\ ticks'[i].write \in Issued
               /\ \A w \in ToSet(pushed) : w < ticks'[i].write
               /\ \A j \in DOMAIN ticks' :
                    j < i /\ ticks'[j].kind = "push" => ticks'[j].write < ticks'[i].write
    BY <2>1, <2>3 DEF PushOrder
  <2>4. QED
    BY <2>2, <2>3 DEF PushOrder, Issued
<1>3. CASE ticks' = ticks
  BY <1>3 DEF PushOrder, Issued
<1>4. CASE announced /\ ticks' = Append(ticks, [kind |-> "passthrough"])
  <2>1. PICK n \in Nat : n = Len(ticks)
    BY <1>1
  <2>2. /\ DOMAIN ticks = 1..n /\ DOMAIN ticks' = 1..n + 1
        /\ \A i \in 1..n : ticks'[i] = ticks[i]
        /\ ticks'[n + 1] = [kind |-> "passthrough"]
    BY <1>1, <1>4, <2>1
  <2>3. ticks'[n + 1].kind = "passthrough"
    BY <2>2
  <2>4. \A i \in DOMAIN ticks' : i \in DOMAIN ticks \/ i = n + 1
    BY <2>2
  <2>5. \A i \in DOMAIN ticks' :
          /\ ticks'[i].kind = "announce" => i = 1 /\ ~announced'
          /\ ticks'[i].kind = "passthrough" => announced'
    BY <1>4, <2>2, <2>3, <2>4 DEF PushOrder
  <2>6. ASSUME NEW i \in DOMAIN ticks', ticks'[i].kind = "push"
        PROVE  /\ ticks'[i].write \in Issued
               /\ \A w \in ToSet(pushed) : w < ticks'[i].write
               /\ \A j \in DOMAIN ticks' :
                    j < i /\ ticks'[j].kind = "push" => ticks'[j].write < ticks'[i].write
    BY <2>2, <2>3, <2>4, <2>6 DEF PushOrder
  <2>7. QED
    BY <2>5, <2>6 DEF PushOrder, Issued
<1>5. QED
  BY <1>2, <1>3, <1>4

\* A deferred push reaches the subscribers.
LEMMA PushesDeferred ==
  ASSUME Structure, PushOrder, DeferredPush
  PROVE  PushOrder'
<1> USE DEF Structure
<1> DEFINE w == ticks[1].write
<1>1. /\ ticks # <<>> /\ ticks' = Tail(ticks) /\ ticks \in Seq(Tick)
      /\ 1 \in DOMAIN ticks /\ Head(ticks) = ticks[1] /\ ticks[1] \in Tick
  BY DEF DeferredPush, NextTick, TypeOK
<1>2. /\ ticks[1].kind = "push" /\ pushed' = Append(pushed, w)
      /\ UNCHANGED <<issued, announced, readyState>>
  BY <1>1 DEF DeferredPush, NextTick, verdictVars, writeVars
<1>3. w \in Issued /\ w \in Write /\ (\A v \in ToSet(pushed) : v < w) /\ pushed \in Seq(Write)
  BY <1>1, <1>2 DEF PushOrder, Tick, TypeOK
<1> HIDE DEF w
<1>4. Increasing(pushed') /\ ToSet(pushed') = ToSet(pushed) \cup {w}
  BY <1>2, <1>3, IncreasingAppend, ElementsOfSeq DEF PushOrder
<1>5. \A i \in DOMAIN ticks' :
        i + 1 \in DOMAIN ticks /\ ticks'[i] = ticks[i + 1] /\ i \in Nat /\ i > 0
  BY <1>1, TailOfTicks
<1>6. \A i \in DOMAIN ticks' :
        /\ ticks'[i].kind # "announce"
        /\ ticks'[i].kind = "passthrough" => announced'
  BY <1>2, <1>5 DEF PushOrder
<1>7. ASSUME NEW i \in DOMAIN ticks', ticks'[i].kind = "push"
      PROVE  /\ ticks'[i].write \in Issued
             /\ \A v \in ToSet(pushed') : v < ticks'[i].write
             /\ \A j \in DOMAIN ticks' :
                  j < i /\ ticks'[j].kind = "push" => ticks'[j].write < ticks'[i].write
  <2>1. w < ticks'[i].write
    <3>1. 1 < i + 1 /\ i + 1 \in DOMAIN ticks
      BY <1>5, <1>7
    <3>2. QED
      BY <1>1, <1>2, <1>5, <1>7, <3>1 DEF PushOrder, w
  <2>2. QED
    BY <1>4, <1>5, <1>7, <2>1 DEF PushOrder
<1>8. QED
  BY <1>2, <1>3, <1>4, <1>6, <1>7 DEF PushOrder, Issued

\* A write is pushed as it begins, when nobody waits for an earlier one.
LEMMA PushesBegin ==
  ASSUME Structure, PushOrder, WriteBegin
  PROVE  PushOrder'
<1> DEFINE w == issued'
<1>1. /\ w = issued + 1 /\ w \in Write /\ w \notin Issued /\ issued \in Nat
      /\ Issued' = Issued \cup {w} /\ UNCHANGED <<announced, subscribers>>
  BY WriteBegins
<1>2. ticks \in Seq(Tick) /\ pushed \in Seq(Write) /\ TypeOK
  BY DEF Structure, TypeOK
<1>3. \A v \in Issued : v < w
  BY <1>1 DEF Issued
<1>4. ~announced' => readyState' = "PENDING"
  <2>1. CASE ResetsFirst
    BY <1>2, <2>1, WriteBegins, ResetTypes DEF Structure
  <2>2. CASE ~ResetsFirst
    BY <1>1, <2>2, WriteBegins DEF PushOrder
  <2>3. QED
    BY <2>1, <2>2
<1>5. \/ /\ readyState' = "PENDING" /\ ~Listening
         /\ ticks' = Append(ticks, [kind |-> "push", write |-> w]) /\ pushed' = pushed
      \/ /\ ~(readyState' = "PENDING" /\ ~Listening)
         /\ pushed' = Append(pushed, w) /\ ticks' = ticks
  BY <1>1 DEF WriteBegin
<1> HIDE DEF w
<1>6. CASE ticks' = Append(ticks, [kind |-> "push", write |-> w]) /\ pushed' = pushed
  <2>1. PICK n \in Nat : n = Len(ticks)
    BY <1>2
  <2>2. /\ DOMAIN ticks = 1..n /\ DOMAIN ticks' = 1..n + 1
        /\ \A i \in 1..n : ticks'[i] = ticks[i]
        /\ ticks'[n + 1] = [kind |-> "push", write |-> w]
    BY <1>2, <1>6, <2>1
  <2>3. ticks'[n + 1].kind = "push" /\ ticks'[n + 1].write = w
    BY <2>2
  <2>4. \A i \in DOMAIN ticks' : i \in DOMAIN ticks \/ i = n + 1
    BY <2>2
  <2>5. \A i \in DOMAIN ticks' :
          /\ ticks'[i].kind = "announce" => i = 1 /\ ~announced'
          /\ ticks'[i].kind = "passthrough" => announced'
    BY <1>1, <2>2, <2>3, <2>4 DEF PushOrder
  <2>6. ASSUME NEW i \in DOMAIN ticks', ticks'[i].kind = "push"
        PROVE  /\ ticks'[i].write \in Issued'
               /\ \A v \in ToSet(pushed) : v < ticks'[i].write
               /\ \A j \in DOMAIN ticks' :
                    j < i /\ ticks'[j].kind = "push" => ticks'[j].write < ticks'[i].write
    <3>1. CASE i \in DOMAIN ticks
      BY <1>1, <2>2, <2>3, <2>4, <2>6, <3>1 DEF PushOrder
    <3>2. CASE i = n + 1
      <4>1. ASSUME NEW j \in DOMAIN ticks', j < i, ticks'[j].kind = "push"
            PROVE  ticks'[j].write < w
        <5>1. j \in DOMAIN ticks /\ ticks'[j] = ticks[j]
          BY <2>2, <3>2, <4>1
        <5>2. ticks[j].write \in Issued
          BY <4>1, <5>1 DEF PushOrder
        <5>3. QED
          BY <1>3, <5>1, <5>2
      <4>2. \A v \in ToSet(pushed) : v < w
        BY <1>3 DEF PushOrder
      <4>3. QED
        BY <1>1, <2>3, <3>2, <4>1, <4>2
    <3>3. QED
      BY <2>4, <3>1, <3>2
  <2>7. Increasing(pushed') /\ ToSet(pushed') \subseteq Issued'
    BY <1>1, <1>6 DEF PushOrder
  <2>8. QED
    BY <1>4, <1>6, <2>5, <2>6, <2>7 DEF PushOrder
<1>7. CASE ~(readyState' = "PENDING" /\ ~Listening) /\ pushed' = Append(pushed, w)
           /\ ticks' = ticks
  <2>1. announced
    BY <1>1, <1>4, <1>7 DEF Listening
  <2>2. ticks = <<>>
    <3>1. SUFFICES ASSUME ticks # <<>>
                   PROVE  FALSE
      OBVIOUS
    <3>2. ticks[1].kind = "announce" /\ 1 \in DOMAIN ticks
      BY <1>2, <3>1 DEF WriteBegin, ClientWrites
    <3>3. QED
      BY <2>1, <3>2 DEF PushOrder
  <2>3. DOMAIN ticks' = {}
    BY <1>7, <2>2
  <2>4. \A v \in ToSet(pushed) : v < w
    BY <1>3 DEF PushOrder
  <2>5. Increasing(pushed') /\ ToSet(pushed') = ToSet(pushed) \cup {w}
    BY <1>1, <1>2, <1>7, <2>4, IncreasingAppend, ElementsOfSeq DEF PushOrder
  <2>6. QED
    BY <1>1, <1>4, <2>3, <2>5 DEF PushOrder
<1>8. QED
  BY <1>5, <1>6, <1>7

\* The pushes are in order throughout.
LEMMA PushOrderHolds == Spec => []PushOrder
<1>1. Init => PushOrder
  <2> SUFFICES ASSUME Init
               PROVE  PushOrder
    OBVIOUS
  <2>1. /\ ticks = <<[kind |-> "announce"], [kind |-> "dial"]>> /\ DOMAIN pushed = {}
        /\ ~announced /\ readyState = "PENDING"
    BY DEF Init
  <2>2. DOMAIN ticks = {1, 2} /\ ticks[1].kind = "announce" /\ ticks[2].kind = "dial"
    BY <2>1
  <2>3. QED
    BY <2>1, <2>2 DEF PushOrder, Increasing, ToSet
<1>2. Structure /\ PushOrder /\ [Next]_vars => PushOrder'
  <2> SUFFICES ASSUME Structure, PushOrder, [Next]_vars
               PROVE  PushOrder'
    OBVIOUS
  <2>1. CASE WriteBegin
    BY <2>1, PushesBegin
  <2>2. CASE DeferredPush
    BY <2>2, PushesDeferred
  <2>3. CASE WriteEnd \/ EmulateConnect \/ EmulateNothing \/ CompleteClaim
             \/ RealIO \/ ClientDestroys \/ ClientCloses \/ UNCHANGED vars
    <3>1. UNCHANGED <<pushed, issued, announced, ticks, readyState>>
      BY <2>3
         DEF WriteEnd, WriteAwaitsVerdict, WriteMocked, WriteFlushed, WriteThrough,
             EmulateConnect, EmulateNothing, CompleteClaim, RealIO, RealConnects,
             RealLost, RealAccepts, ClientDestroys, ClientCloses, vars, verdictVars,
             writeVars, historyVars, recordVars
    <3>2. QED
      BY <3>1, PushesAside DEF PushOrder
  <2>4. CASE AnnounceDestroyed \/ AnnounceAwaiting \/ Dial
    <3>1. /\ UNCHANGED <<pushed, issued, readyState>>
          /\ (announced => announced') /\ (~announced' => ~announced)
          /\ ticks # <<>> /\ ticks' = Tail(ticks)
      BY <2>4
         DEF AnnounceDestroyed, AnnounceAwaiting, Dial, NextTick, verdictVars,
             writeVars, historyVars, recordVars
    <3>2. QED
      BY <3>1, PushesAside DEF PushOrder
  <2>5. CASE AnnounceToNobody
    <3>1. /\ UNCHANGED <<pushed, issued>> /\ announced' = TRUE
          /\ ticks # <<>> /\ ticks' = Tail(ticks)
      BY <2>5 DEF AnnounceToNobody, NextTick, Unaffected
    <3>2. QED
      BY <3>1, PushesAside
  <2>6. CASE DeclinedByAll
    <3>1. /\ UNCHANGED <<pushed, issued, announced>>
          /\ ticks # <<>> /\ ticks' = Tail(ticks) /\ Head(ticks).kind = "passthrough"
      BY <2>6
         DEF DeclinedByAll, NextTick, Unaffected, verdictVars, writeVars, historyVars,
             recordVars
    <3>2. ticks \in Seq(Tick)
      BY DEF Structure, TypeOK
    <3>3. announced
      BY <3>1, <3>2 DEF PushOrder
    <3>4. QED
      BY <3>1, <3>3, PushesAside
  <2>7. CASE Decline
    <3>1. /\ UNCHANGED <<pushed, issued, announced, readyState>> /\ announced
          /\ ticks' = ticks \/ ticks' = Append(ticks, [kind |-> "passthrough"])
      BY <2>7 DEF Decline, writeVars, historyVars, recordVars
    <3>2. QED
      BY <3>1, PushesAside
  <2>8. CASE Claim \/ Passthrough \/ Reset \/ Retarget \/ ScheduleReset
    <3>1. UNCHANGED <<pushed, issued, announced, ticks>> /\ announced
      BY <2>8
         DEF Claim, Passthrough, Reset, Retarget, ScheduleReset, Unaffected, Listening,
             verdictVars, historyVars, recordVars
    <3>2. QED
      BY <3>1, PushesAside
  <2>9. QED
    BY <2>1, <2>2, <2>3, <2>4, <2>5, <2>6, <2>7, <2>8 DEF Next, RunTick, Subscriber
<1>3. QED
  BY <1>1, <1>2, StructureHolds, PTL DEF Spec

-----------------------------------------------------------------------------
(* What becomes of the writes.                                               *)

\* Writes are positive numbers, of which the first have been issued.
LEMMA IssuedWrites ==
  ASSUME TypeOK
  PROVE  Issued \subseteq Write /\ 0 \notin Issued /\ 0 \notin Write
BY BoundsAssumption DEF TypeOK, Issued, Write

\* Steps that decide nothing: what is buffered stays, unless the client is gone.
LEMMA FatesAside ==
  ASSUME Structure, Fates, Sent' = Sent, destroyed => destroyed',
         UNCHANGED <<readyState, writing, issued, mocked, during, straddling>>,
         \A w \in Write : Invocations(w)' \in Nat /\ Invocations(w)' <= Invocations(w),
         buffer' = buffer \/ (buffer' = <<>> /\ destroyed' /\ writing = 0)
  PROVE  Fates'
<1> USE DEF Fates
<1>1. Issued' = Issued /\ Issued \subseteq Write /\ ToSet(<<>>) = {}
      /\ ToSet(buffer)' \subseteq ToSet(buffer)
      /\ (writing # 0 => ToSet(buffer)' = ToSet(buffer))
      /\ (~destroyed' => ToSet(buffer)' = ToSet(buffer))
  BY IssuedWrites DEF Issued, ToSet, Structure
<1>2. writing # 0 => writing \in Write /\ Invocations(writing) \in Nat
  BY InvocationsCount DEF Structure, TypeOK
<1>3. PushRecorded' /\ ClaimedBuffer' /\ BufferUndecided'
  BY <1>1 DEF PushRecorded, ClaimedBuffer, BufferUndecided
<1>4. WritingUndecided'
  <2>1. Invocations(writing) = 0 /\ writing # 0 => Invocations(writing)' = 0
    BY <1>2
  <2>2. writing' = writing /\ readyState' = readyState /\ during' = during
        /\ mocked' = mocked /\ straddling' = straddling
    OBVIOUS
  <2>3. Invocations(writing)' = acks'[writing] + (IF writing \in carried' THEN 1 ELSE 0)
    BY <2>2 DEF Invocations
  <2>4. writing # 0 /\ writing \notin straddling =>
          /\ readyState # "PASSTHROUGH" \/ "verdict" \notin during =>
               Invocations(writing)' = 0 /\ writing \notin Sent
          /\ readyState # "CLAIMED" \/ "verdict" \notin during => writing \notin mocked
          /\ readyState = "PENDING" => writing \in ToSet(buffer)' \/ "reset" \in during
          /\ readyState = "PASSTHROUGH" => writing \in ToSet(buffer)' \cup Sent
    BY <1>1, <2>1 DEF WritingUndecided, DecidedInPush
  <2>5. QED
    BY <2>2, <2>4 DEF WritingUndecided, DecidedInPush, Invocations
<1>5. SentIssued' /\ MockedStaysLocal' /\ NothingLost'
  BY <1>1 DEF SentIssued, MockedStaysLocal, NothingLost
<1>6. OneInvocation'
  <2>1. \A w \in Issued : Invocations(w) \in Nat
    BY <1>1, InvocationsCount DEF Structure
  <2>2. QED
    BY <1>1, <2>1 DEF OneInvocation
<1>7. QED
  BY <1>3, <1>4, <1>5, <1>6

\* What a verdict or a reset in the push of a write records.
LEMMA PushRecords ==
  ASSUME TypeOK, PushRecorded, NEW event \in {"verdict", "reset"}, InPush(event),
         writing' = writing
  PROVE  /\ PushRecorded' /\ straddling \subseteq straddling'
         /\ writing # 0 => event \in during'
         /\ writing # 0 /\ (\E other \in during : other # event) =>
              writing \in straddling'
<1>1. during \subseteq {"verdict", "reset"} /\ "verdict" # "reset"
  BY DEF TypeOK
<1>2. /\ during' = IF writing = 0 THEN {} ELSE during \cup {event}
      /\ straddling' = IF writing # 0 /\ during \cup {event} = {"verdict", "reset"}
                       THEN straddling \cup {writing} ELSE straddling
  BY DEF InPush
<1>3. straddling \subseteq straddling' /\ (writing # 0 => event \in during')
  BY <1>2
<1>4. writing # 0 /\ (\E other \in during : other # event) => writing \in straddling'
  BY <1>1, <1>2
<1>5. PushRecorded'
  BY <1>2 DEF PushRecorded
<1>6. QED
  BY <1>3, <1>4, <1>5

\* The end of an exchange: a verdict was reached on all that was buffered, but for
\* the write being handled.
LEMMA FatesReset ==
  ASSUME Structure, Fates, ResetIfSettled, buffer' = BufferAfterReset, Sent' = Sent,
         destroyed => destroyed', UNCHANGED <<writing, issued, mocked>>,
         \A w \in Write : Invocations(w)' \in Nat /\ Invocations(w)' <= Invocations(w)
  PROVE  Fates'
<1> USE DEF Fates
<1>1. CASE ~ResetNeeded
  <2>1. /\ UNCHANGED <<readyState, writing, issued, mocked, during, straddling>>
        /\ buffer' = buffer
    BY <1>1 DEF ResetIfSettled, BufferAfterReset
  <2>2. QED
    BY <2>1, FatesAside
<1>2. CASE ResetNeeded
  <2>1. /\ readyState # "PENDING" /\ readyState' = "PENDING" /\ InPush("reset")
        /\ ToSet(buffer)' = {} /\ Issued' = Issued
    BY <1>2 DEF ResetIfSettled, BufferAfterReset, ResetNeeded, ToSet, Issued
  <2>2. TypeOK /\ readyState \in {"PENDING", "CLAIMED", "PASSTHROUGH"}
    BY DEF Structure, TypeOK
  <2>3. /\ PushRecorded' /\ straddling \subseteq straddling'
        /\ writing # 0 => "reset" \in during'
        /\ writing # 0 /\ DecidedInPush => writing \in straddling'
    BY <2>1, <2>2, PushRecords DEF DecidedInPush
  <2>4. ClaimedBuffer' /\ BufferUndecided' /\ SentIssued' /\ MockedStaysLocal'
    BY <2>1, <2>3
       DEF ClaimedBuffer, BufferUndecided, SentIssued, MockedStaysLocal
  <2>5. WritingUndecided'
    <3>1. ASSUME writing # 0, writing \notin straddling'
          PROVE  /\ Invocations(writing) = 0 /\ writing \notin Sent
                 /\ writing \notin mocked /\ "reset" \in during'
      BY <2>3, <3>1 DEF WritingUndecided
    <3>2. writing # 0 => writing \in Write /\ Invocations(writing) \in Nat
      BY <2>2, InvocationsCount DEF TypeOK
    <3>3. writing # 0 /\ Invocations(writing) = 0 => Invocations(writing)' = 0
      <4>1. Invocations(writing)' = acks'[writing] + (IF writing \in carried' THEN 1 ELSE 0)
        BY DEF Invocations
      <4>2. QED
        BY <3>2, <4>1 DEF Invocations
    <3>4. QED
      BY <2>1, <3>1, <3>3 DEF WritingUndecided, Invocations
  <2>6. NothingLost'
    <3>1. ToSet(buffer) \subseteq mocked \cup {writing}
      BY <2>1, <2>2 DEF Structure, FlushedBuffer, ClaimedBuffer, ToSet
    <3>2. QED
      BY <2>1, <2>3, <3>1 DEF NothingLost
  <2>7. OneInvocation'
    <3>1. \A w \in Issued : w \in Write /\ Invocations(w) \in Nat
      BY <2>2, IssuedWrites, InvocationsCount
    <3>2. QED
      BY <2>1, <2>3, <3>1 DEF OneInvocation
  <2>8. QED
    BY <2>3, <2>4, <2>5, <2>6, <2>7
<1>3. QED
  BY <1>1, <1>2

\* passthrough() owes the callbacks it flushes one invocation.
LEMMA EstablishOwes ==
  ASSUME Structure, Establish, Unaffected
  PROVE  \A w \in Write :
           /\ Invocations(w) \in Nat
           /\ Invocations(w)' = IF w \in ToSet(buffer) \cap callbacks THEN 1
                                ELSE Invocations(w)
<1>1. /\ carried' = carried \cup (ToSet(buffer) \cap callbacks) /\ acks' = acks
      /\ TypeOK /\ Budget
  BY DEF Establish, Unaffected, Structure
<1>2. SUFFICES ASSUME NEW w \in Write
               PROVE  Invocations(w)' = IF w \in ToSet(buffer) \cap callbacks THEN 1
                                        ELSE Invocations(w)
  BY <1>1, InvocationsCount
<1>3. CASE w \in ToSet(buffer) \cap callbacks
  <2>1. Invocations(w) = 0 /\ w \in carried'
    BY <1>1, <1>3 DEF Budget
  <2>2. acks[w] = 0
    BY <1>1, <2>1, InvocationsCount
  <2>3. QED
    BY <1>1, <1>3, <2>1, <2>2 DEF Invocations
<1>4. CASE w \notin ToSet(buffer) \cap callbacks
  BY <1>1, <1>4 DEF Invocations
<1>5. QED
  BY <1>3, <1>4

\* The connection passes through.
LEMMA FatesEstablish ==
  ASSUME Structure, Fates, readyState = "PENDING", Establish, Unaffected
  PROVE  Fates'
<1> USE DEF Fates
<1>1. /\ ToSet(buffer)' = {} /\ readyState' = "PASSTHROUGH" /\ InPush("verdict")
      /\ Sent' = Sent \cup ToSet(buffer) /\ TypeOK
      /\ UNCHANGED <<writing, issued, mocked, destroyed>> /\ Issued' = Issued
  BY EstablishGives
     DEF Establish, Unaffected, BufferAfterFlush, ToSet, Structure, Issued, clientVars
<1>2. /\ PushRecorded' /\ straddling \subseteq straddling'
      /\ writing # 0 => "verdict" \in during'
      /\ writing # 0 /\ "reset" \in during => writing \in straddling'
  BY <1>1, PushRecords
<1>3. ClaimedBuffer' /\ BufferUndecided'
  BY <1>1 DEF ClaimedBuffer, BufferUndecided
<1>4. WritingUndecided'
  BY <1>1, <1>2 DEF WritingUndecided, DecidedInPush
<1>5. SentIssued' /\ MockedStaysLocal' /\ NothingLost'
  BY <1>1, <1>2
     DEF SentIssued, MockedStaysLocal, NothingLost, BufferUndecided, Structure,
         BufferedIssued
<1>6. OneInvocation'
  <2>1. ASSUME NEW w \in Issued \ straddling
        PROVE  Invocations(w)' <= 1
    BY <1>1, <2>1, IssuedWrites, EstablishOwes DEF OneInvocation
  <2>2. QED
    BY <1>1, <1>2, <2>1 DEF OneInvocation
<1>7. QED
  BY <1>2, <1>3, <1>4, <1>5, <1>6

\* The connection is claimed.
LEMMA FatesClaim ==
  ASSUME Structure, Fates, Claim
  PROVE  Fates'
<1> USE DEF Fates
<1>1. /\ readyState = "PENDING" /\ readyState' = "CLAIMED" /\ InPush("verdict")
      /\ mocked' = mocked \cup ToSet(buffer) /\ TypeOK
      /\ UNCHANGED <<writing, issued, acks, callbacks, realVars, destroyed>>
      /\ buffer' = buffer \/ buffer' = <<>>
  BY DEF Claim, Structure, clientVars
<1>2. /\ ToSet(buffer)' \subseteq ToSet(buffer) /\ Sent' = Sent /\ Issued' = Issued
      /\ UNCHANGED <<real, carried>>
  BY <1>1 DEF ToSet, Sent, realVars, Issued
<1>3. /\ PushRecorded' /\ straddling \subseteq straddling'
      /\ writing # 0 => "verdict" \in during'
  BY <1>1, PushRecords
<1>4. ClaimedBuffer' /\ BufferUndecided'
  BY <1>1, <1>2, <1>3 DEF ClaimedBuffer, BufferUndecided
<1>5. WritingUndecided'
  BY <1>1, <1>2, <1>3 DEF WritingUndecided, DecidedInPush, Invocations
<1>6. SentIssued' /\ MockedStaysLocal' /\ NothingLost'
  BY <1>1, <1>2, <1>3 DEF SentIssued, MockedStaysLocal, NothingLost, BufferUndecided
<1>7. OneInvocation'
  BY <1>1, <1>2, <1>3 DEF OneInvocation, Invocations
<1>8. QED
  BY <1>3, <1>4, <1>5, <1>6, <1>7

\* A write begins undecided.
LEMMA FatesWriteBegin ==
  ASSUME Structure, Fates, WriteBegin
  PROVE  Fates'
<1> USE DEF Fates
<1>0. PICK w : w = issued'
  OBVIOUS
<1>1. TypeOK /\ Budget /\ 0 \notin Issued /\ mocked \subseteq Issued
  BY IssuedWrites DEF Structure, TypeOK
<1>2. /\ w \in Write /\ w \notin Issued /\ Issued' = Issued \cup {w}
      /\ writing = 0 /\ writing' = w /\ w # 0
      /\ UNCHANGED <<acks, carried, mocked, destroyed, real>>
  BY <1>0, WriteBegins DEF realVars, clientVars
<1>3. Sent' = Sent
  BY <1>2 DEF Sent
<1>4. PICK kept \in Seq(Write) :
        /\ buffer' = Append(kept, w) /\ ToSet(kept) \subseteq ToSet(buffer)
        /\ \/ kept = buffer /\ readyState' = readyState
           \/ kept = <<>> /\ readyState # "PENDING" /\ readyState' = "PENDING"
  BY <1>0, WriteBegins
<1>5. during' = {} /\ straddling' = straddling
  <2>1. during = {}
    BY <1>2 DEF PushRecorded
  <2>2. UNCHANGED <<during, straddling>> \/ InPush("reset")
    BY WriteBegins DEF ResetIfSettled
  <2>3. QED
    BY <1>2, <2>1, <2>2 DEF InPush
<1>6. w \notin Sent /\ w \notin mocked /\ Invocations(w) = 0 /\ Invocations(w)' = 0
  BY <1>1, <1>2 DEF SentIssued, Budget, Invocations
<1>7. ToSet(buffer)' = ToSet(kept) \cup {w}
  BY <1>2, <1>4, ElementsOfSeq
<1>8. PushRecorded' /\ WritingUndecided'
  BY <1>2, <1>3, <1>5, <1>6, <1>7
     DEF PushRecorded, WritingUndecided, DecidedInPush, Invocations
<1>9. ToSet(<<>>) = {}
  BY DEF ToSet
<1>10. ClaimedBuffer'
  <2>1. CASE readyState = "CLAIMED" /\ kept = buffer
    <3>1. ToSet(kept) \subseteq mocked
      BY <1>1, <1>2, <2>1 DEF ClaimedBuffer, Structure, BufferedIssued
    <3>2. QED
      BY <1>2, <1>7, <3>1 DEF ClaimedBuffer
  <2>2. CASE readyState' # "CLAIMED"
    BY <2>2 DEF ClaimedBuffer
  <2>3. QED
    BY <1>4, <2>1, <2>2
<1>11. BufferUndecided'
  BY <1>2, <1>3, <1>4, <1>5, <1>6, <1>7, <1>9 DEF BufferUndecided
<1>12. SentIssued' /\ MockedStaysLocal'
  BY <1>2, <1>3, <1>5 DEF SentIssued, MockedStaysLocal
<1>13. NothingLost'
  <2>1. ToSet(buffer) \subseteq ToSet(kept) \cup mocked
    <3>1. CASE kept = buffer
      BY <3>1
    <3>2. CASE readyState # "PENDING"
      <4>1. readyState = "CLAIMED" \/ readyState = "PASSTHROUGH"
        BY <1>1, <3>2 DEF TypeOK
      <4>2. ToSet(buffer) \subseteq mocked \/ buffer = <<>>
        BY <1>1, <1>2, <4>1
           DEF ClaimedBuffer, Structure, BufferedIssued, FlushedBuffer
      <4>3. QED
        BY <1>9, <4>2
    <3>3. QED
      BY <1>4, <3>1, <3>2
  <2>2. ~destroyed => Issued \ straddling \subseteq ToSet(buffer) \cup mocked \cup Sent
    BY <1>1, <1>2 DEF NothingLost
  <2>3. QED
    BY <1>2, <1>3, <1>5, <1>7, <2>1, <2>2 DEF NothingLost
<1>14. OneInvocation'
  <2>1. \A v \in Write : Invocations(v)' = Invocations(v)
    BY <1>2 DEF Invocations
  <2>2. QED
    BY <1>1, <1>2, <1>5, <1>6, <2>1, IssuedWrites DEF OneInvocation
<1>15. QED
  BY <1>8, <1>10, <1>11, <1>12, <1>13, <1>14

\* A write ends: it awaits the verdict, or was answered locally.
LEMMA FatesAcknowledged ==
  ASSUME Structure, Fates, WriteAwaitsVerdict \/ WriteMocked
  PROVE  Fates'
<1> USE DEF Fates
<1>1. /\ Acknowledge(writing) /\ writing # 0 /\ writing' = 0 /\ during' = {}
      /\ UNCHANGED <<readyState, issued, real, carried, destroyed, straddling>>
  BY DEF WriteAwaitsVerdict, WriteMocked, WriteReturns, verdictVars, realVars,
         clientVars, recordVars
<1>2. /\ TypeOK /\ Budget /\ writing \in Write /\ buffer \in Seq(Write)
      /\ Sent' = Sent /\ Issued' = Issued
  BY <1>1 DEF Structure, TypeOK, Sent, Issued
<1>3. PushRecorded' /\ WritingUndecided' /\ SentIssued'
  BY <1>1, <1>2 DEF PushRecorded, WritingUndecided, SentIssued
<1>4. \A v \in Write :
        Invocations(v)' = IF v = writing /\ v \in callbacks THEN Invocations(v) + 1
                          ELSE Invocations(v)
  BY <1>1, <1>2, AcknowledgeCounts
<1>5. readyState # "PASSTHROUGH"
  BY DEF WriteAwaitsVerdict, WriteMocked
<1>6. OneInvocation'
  <2>1. ASSUME NEW v \in Issued \ straddling
        PROVE  Invocations(v)' <= 1
    <3>1. v = writing => Invocations(v) = 0
      BY <1>1, <1>5, <2>1 DEF WritingUndecided
    <3>2. v \in Write /\ Invocations(v) <= 1
      BY <1>2, <2>1, IssuedWrites DEF OneInvocation
    <3>3. QED
      BY <1>4, <3>1, <3>2
  <2>2. QED
    BY <1>1, <1>2, <2>1 DEF OneInvocation
<1>7. CASE WriteAwaitsVerdict
  <2>1. /\ readyState = "PENDING" /\ mocked' = mocked
        /\ ToSet(buffer)' = ToSet(buffer) \cup {writing}
    <3>1. ToSet(Append(buffer, writing)) = ToSet(buffer) \cup {writing}
      BY <1>2, ElementsOfSeq
    <3>2. QED
      BY <1>7, <3>1 DEF WriteAwaitsVerdict, Buffered, recordVars
  <2>2. ClaimedBuffer' /\ BufferUndecided'
    BY <1>1, <1>2, <2>1 DEF ClaimedBuffer, BufferUndecided, WritingUndecided
  <2>3. MockedStaysLocal' /\ NothingLost'
    BY <1>1, <1>2, <2>1 DEF MockedStaysLocal, NothingLost
  <2>4. QED
    BY <1>3, <1>6, <2>2, <2>3
<1>8. CASE WriteMocked
  <2>1. /\ readyState = "CLAIMED" /\ mocked' = mocked \cup {writing}
        /\ ToSet(buffer)' \subseteq ToSet(buffer)
    BY <1>2, <1>8, RemovedEntry DEF WriteMocked
  <2>2. ClaimedBuffer' /\ BufferUndecided'
    BY <1>1, <1>2, <2>1 DEF ClaimedBuffer, BufferUndecided
  <2>3. MockedStaysLocal' /\ NothingLost'
    BY <1>1, <1>2, <2>1
       DEF MockedStaysLocal, NothingLost, WritingUndecided, ClaimedBuffer
  <2>4. QED
    BY <1>3, <1>6, <2>2, <2>3
<1>9. QED
  BY <1>7, <1>8

\* A write ends: it was flushed in its push.
LEMMA FatesFlushed ==
  ASSUME Structure, Fates, WriteFlushed
  PROVE  Fates'
<1> USE DEF Fates
<1>1. /\ writing # 0 /\ readyState = "PASSTHROUGH" /\ writing \notin ToSet(buffer)
      /\ writing' = 0 /\ during' = {}
      /\ UNCHANGED <<readyState, buffer, issued, acks, real, carried, mocked, destroyed,
                     straddling>>
  BY DEF WriteFlushed, Buffered, WriteReturns, verdictVars, realVars, clientVars,
         recordVars
<1>2. Sent' = Sent /\ Issued' = Issued
  BY <1>1 DEF Sent, Issued
<1>3. PushRecorded' /\ WritingUndecided' /\ SentIssued' /\ MockedStaysLocal'
  BY <1>1, <1>2 DEF PushRecorded, WritingUndecided, SentIssued, MockedStaysLocal
<1>4. ClaimedBuffer' /\ BufferUndecided'
  BY <1>1, <1>2 DEF ClaimedBuffer, BufferUndecided
<1>5. NothingLost'
  BY <1>1, <1>2 DEF NothingLost, WritingUndecided
<1>6. OneInvocation'
  BY <1>1, <1>2 DEF OneInvocation, Invocations
<1>7. QED
  BY <1>3, <1>4, <1>5, <1>6

\* A write ends: it goes to the connection, or fails with it.
LEMMA FatesThrough ==
  ASSUME Structure, Fates, WriteThrough
  PROVE  Fates'
<1> USE DEF Fates
<1> DEFINE given == IF destroyed \/ ~Live THEN {} ELSE {writing}
<1>1. /\ writing # 0 /\ readyState = "PASSTHROUGH" /\ writing \in ToSet(buffer)
      /\ writing' = 0 /\ during' = {}
      /\ UNCHANGED <<readyState, issued, acks, callbacks, mocked, straddling>>
  BY DEF WriteThrough, Buffered, WriteReturns, verdictVars
<1>2. /\ TypeOK /\ LastIssued /\ Budget /\ Issued' = Issued /\ writing \in Write
      /\ writing \in Issued
  BY <1>1, WriteThroughGives DEF Structure, Issued
<1>3. /\ Sent' = Sent \cup given /\ (given = {} => destroyed')
      /\ given \subseteq {writing} /\ (given # {} => given = {writing})
      /\ given = {} => carried' = carried
      /\ given # {} => carried' = carried \cup ({writing} \cap callbacks)
      /\ destroyed => destroyed'
  <2>1. Sent' = Sent \cup given /\ (given = {} => destroyed' /\ carried' = carried)
        /\ (given # {} => carried' = carried \cup ({writing} \cap callbacks))
    BY <1>2, WriteThroughGives
  <2>2. QED
    BY <2>1
<1> HIDE DEF given
<1>4. buffer = <<writing>> /\ ToSet(buffer)' = {}
  <2>1. buffer # <<>>
    BY <1>1 DEF ToSet
  <2>2. buffer = <<writing>>
    BY <1>1, <2>1 DEF Structure, FlushedBuffer
  <2>3. buffer' = <<>>
    BY <1>2, <2>2, EntryRemoved DEF WriteThrough
  <2>4. QED
    BY <2>2, <2>3 DEF ToSet
<1>5. PushRecorded' /\ WritingUndecided' /\ ClaimedBuffer' /\ BufferUndecided'
  BY <1>1, <1>4 DEF PushRecorded, WritingUndecided, ClaimedBuffer, BufferUndecided
<1>6. SentIssued' /\ MockedStaysLocal'
  BY <1>1, <1>2, <1>3 DEF SentIssued, MockedStaysLocal, WritingUndecided
<1>7. NothingLost'
  <2>1. ToSet(buffer) = {writing}
    BY <1>4 DEF ToSet
  <2>2. QED
    BY <1>1, <1>2, <1>3, <2>1 DEF NothingLost
<1>8. OneInvocation'
  <2>1. ASSUME NEW w \in Issued \ straddling
        PROVE  Invocations(w)' <= 1
    <3>1. w \in Write /\ Invocations(w) <= 1 /\ Invocations(w) \in Nat
      BY <1>2, <2>1, IssuedWrites, InvocationsCount DEF OneInvocation
    <3>2. CASE w = writing /\ w \in callbacks
      <4>1. Invocations(w) = 0
        BY <1>1, <1>2, <3>1, <3>2 DEF Budget
      <4>2. acks[w] = 0 /\ acks'[w] = 0
        BY <1>1, <1>2, <3>1, <4>1, InvocationsCount
      <4>3. QED
        BY <4>2 DEF Invocations
    <3>3. CASE ~(w = writing /\ w \in callbacks)
      <4>1. w \in carried' <=> w \in carried
        BY <1>3, <3>3
      <4>2. QED
        BY <1>1, <3>1, <4>1 DEF Invocations
    <3>4. QED
      BY <3>2, <3>3
  <2>2. QED
    BY <1>1, <1>2, <2>1 DEF OneInvocation
<1>9. QED
  BY <1>5, <1>6, <1>7, <1>8

\* The invocation a real connection owes becomes an invocation.
LEMMA InvocationsSettle ==
  ASSUME TypeOK, NEW a \in Write, carried' = carried \ {a}, acks' = Acked({a} \cap carried)
  PROVE  \A w \in Write : Invocations(w)' = Invocations(w)
<1>1. SUFFICES ASSUME NEW w \in Write
               PROVE  Invocations(w)' = Invocations(w)
  OBVIOUS
<1>2. acks[w] \in Nat
  BY InvocationsCount
<1>3. acks'[w] = IF w = a /\ a \in carried THEN acks[w] + 1 ELSE acks[w]
  BY DEF Acked
<1>4. QED
  BY <1>2, <1>3 DEF Invocations

\* The fate of every write is as described throughout.
LEMMA FatesHolds == Spec => []Fates
<1>1. Init => Fates
  <2> SUFFICES ASSUME Init
               PROVE  Fates
    OBVIOUS
  <2>1. ToSet(buffer) = {} /\ Sent = {} /\ Issued = {} /\ writing = 0 /\ during = {}
        /\ mocked = {}
    BY DEF Init, ToSet, Sent, Issued
  <2>2. QED
    BY <2>1
       DEF Fates, PushRecorded, ClaimedBuffer, BufferUndecided, WritingUndecided,
           SentIssued, MockedStaysLocal, NothingLost, OneInvocation
<1>2. Structure /\ PushOrder /\ Fates /\ [Next]_vars => Fates'
  <2> SUFFICES ASSUME Structure, PushOrder, Fates, [Next]_vars
               PROVE  Fates'
    OBVIOUS
  <2>1. TypeOK /\ ticks \in Seq(Tick)
    BY DEF Structure, TypeOK
  <2>2. UNCHANGED <<acks, carried>> =>
          \A w \in Write : Invocations(w)' \in Nat /\ Invocations(w)' <= Invocations(w)
    <3>1. \A w \in Write : Invocations(w) \in Nat
      BY <2>1, InvocationsCount
    <3>2. QED
      BY <3>1 DEF Invocations
  <2>3. CASE WriteBegin
    BY <2>3, FatesWriteBegin
  <2>4. CASE WriteEnd
    BY <2>4, FatesAcknowledged, FatesFlushed, FatesThrough DEF WriteEnd
  <2>5. CASE Claim
    BY <2>5, FatesClaim
  <2>6. CASE Passthrough
    BY <2>6, FatesEstablish DEF Passthrough
  <2>7. CASE AnnounceToNobody
    <3>1. ticks # <<>> /\ Head(ticks).kind = "announce"
      BY <2>7 DEF AnnounceToNobody, NextTick
    <3>2. 1 \in DOMAIN ticks /\ Head(ticks) = ticks[1]
      BY <2>1, <3>1
    <3>3. readyState = "PENDING"
      BY <3>1, <3>2 DEF PushOrder
    <3>4. QED
      BY <2>7, <3>3, FatesEstablish DEF AnnounceToNobody
  <2>8. CASE DeclinedByAll /\ readyState = "PENDING" /\ ~destroyed
    BY <2>8, FatesEstablish DEF DeclinedByAll
  <2>9. CASE Reset
    <3>1. /\ ResetIfSettled /\ buffer' = BufferAfterReset
          /\ UNCHANGED <<writing, issued, mocked, destroyed, acks, carried, real>>
      BY <2>9 DEF Reset, realVars, clientVars
    <3>2. Sent' = Sent
      BY <3>1 DEF Sent
    <3>3. QED
      BY <2>2, <3>1, <3>2, FatesReset
  <2>10. CASE Retarget
    <3>1. /\ ResetIfSettled /\ buffer' = BufferAfterReset /\ DetachPassthroughSocket
          /\ UNCHANGED <<writing, issued, mocked, acks>>
      BY <2>10 DEF Retarget
    <3>2. Sent' = Sent /\ carried' \subseteq carried /\ (destroyed => destroyed')
      BY <2>1, <3>1, DetachGives
    <3>3. \A w \in Write : Invocations(w)' \in Nat /\ Invocations(w)' <= Invocations(w)
      <4>1. \A w \in Write : acks[w] \in Nat
        BY <2>1, InvocationsCount
      <4>2. QED
        BY <3>1, <3>2, <4>1 DEF Invocations
    <3>4. QED
      BY <3>1, <3>2, <3>3, FatesReset
  <2>11. CASE \/ ScheduleReset \/ Decline \/ AnnounceDestroyed \/ AnnounceAwaiting
              \/ DeferredPush \/ Dial \/ EmulateConnect \/ EmulateNothing
              \/ CompleteClaim \/ UNCHANGED vars
              \/ (DeclinedByAll /\ ~(readyState = "PENDING" /\ ~destroyed))
    <3>1. UNCHANGED <<readyState, writing, issued, mocked, during, straddling, buffer,
                      acks, carried, real, destroyed>>
      BY <2>11
         DEF ScheduleReset, Decline, AnnounceDestroyed, AnnounceAwaiting, DeferredPush,
             Dial, EmulateConnect, EmulateNothing, CompleteClaim, DeclinedByAll, vars,
             verdictVars, writeVars, realVars, clientVars, historyVars, recordVars
    <3>2. Sent' = Sent
      BY <3>1 DEF Sent
    <3>3. QED
      BY <2>2, <3>1, <3>2, FatesAside
  <2>12. CASE RealIO
    <3>1. PICK c \in DOMAIN real :
            RealConnects(c) \/ RealLost(c) \/ \E w \in Write : RealAccepts(c, w)
      BY <2>12 DEF RealIO
    <3>2. Sent' = Sent
      BY <2>1, <3>1, RealIOKeeps
    <3>3. /\ UNCHANGED <<readyState, writing, issued, mocked, during, straddling, buffer>>
          /\ destroyed => destroyed'
      <4>1. CASE RealConnects(c)
        BY <4>1 DEF RealConnects, verdictVars, clientVars, historyVars, recordVars
      <4>2. CASE RealLost(c)
        BY <4>2 DEF RealLost, verdictVars, writeVars, historyVars, recordVars
      <4>3. CASE \E w \in Write : RealAccepts(c, w)
        BY <4>3 DEF RealAccepts, verdictVars, clientVars, historyVars, recordVars
      <4>4. QED
        BY <3>1, <4>1, <4>2, <4>3
    <3>4. \A w \in Write : Invocations(w)' \in Nat /\ Invocations(w)' <= Invocations(w)
      <4>1. CASE RealConnects(c) \/ RealLost(c)
        BY <2>2, <4>1 DEF RealConnects, RealLost, writeVars
      <4>2. CASE \E w \in Write : RealAccepts(c, w)
        <5>1. \A w \in Write : Invocations(w)' = Invocations(w)
          BY <2>1, <4>2, InvocationsSettle DEF RealAccepts
        <5>2. QED
          BY <2>1, <5>1, InvocationsCount
      <4>3. QED
        BY <3>1, <4>1, <4>2
    <3>5. QED
      BY <3>2, <3>3, <3>4, FatesAside
  <2>13. CASE ClientDestroys \/ ClientCloses
    <3>1. /\ UNCHANGED <<readyState, writing, issued, mocked, during, straddling, acks,
                         carried>>
          /\ buffer' = buffer \/ (buffer' = <<>> /\ writing = 0)
      BY <2>13
         DEF ClientDestroys, ClientCloses, Turn, verdictVars, writeVars, historyVars,
             recordVars
    <3>2. Sent' = Sent /\ destroyed'
      BY <2>1, <2>13, ClientEnds
    <3>3. QED
      BY <2>2, <3>1, <3>2, FatesAside
  <2>14. QED
    BY <2>3, <2>4, <2>5, <2>6, <2>7, <2>8, <2>9, <2>10, <2>11, <2>12, <2>13
       DEF Next, RunTick, Subscriber
<1>3. QED
  BY <1>1, <1>2, StructureHolds, PushOrderHolds, PTL DEF Spec

\* A write a claim settled is never sent to a real connection, by the flush of a
\* later exchange or otherwise, but for a write that straddles two exchanges.
THEOREM MockedWritesStayLocal == Spec => []MockedStaysLocal
<1>1. Fates => MockedStaysLocal
  BY DEF Fates
<1>2. QED
  BY <1>1, FatesHolds, PTL

\* While the client lives, no write is dropped: by a reset, a flush or a claim.
THEOREM NoWriteLost == Spec => []NothingLost
<1>1. Fates => NothingLost
  BY DEF Fates
<1>2. QED
  BY <1>1, FatesHolds, PTL

\* The safety half of AcknowledgedOnce.
AcknowledgedAtMostOnce == \A w \in Issued \ straddling : acks[w] <= 1

\* The callback of a write is invoked at most once, by the acknowledgement on
\* buffering, by a claim, or by the real connection it was flushed to: the safety
\* half of AcknowledgedOnce.
THEOREM NoSecondAcknowledgement == Spec => []AcknowledgedAtMostOnce
<1>1. Structure /\ Fates => AcknowledgedAtMostOnce
  <2> SUFFICES ASSUME Structure, Fates, NEW w \in Issued \ straddling
               PROVE  acks[w] <= 1
    BY DEF AcknowledgedAtMostOnce
  <2>1. Invocations(w) <= 1 /\ w \in Write
    BY IssuedWrites DEF Fates, OneInvocation, Structure
  <2>2. acks[w] \in Nat /\ acks[w] <= Invocations(w) /\ Invocations(w) \in Nat
    BY <2>1, InvocationsCount DEF Structure
  <2>3. QED
    BY <2>1, <2>2
<1>2. QED
  BY <1>1, StructureHolds, FatesHolds, PTL

-----------------------------------------------------------------------------
(* The order in which the writes leave.                                      *)

\* What is in order stays so when fewer writes are to be ordered.
LEMMA InOrderLater ==
  ASSUME NEW r, InOrder(r), straddling \subseteq straddling'
  PROVE  InOrder(r)'
BY DEF InOrder, Follows

\* A step that gives one connection new writes, and changes no other one.
LEMMA ConnectionsKeepOrder ==
  ASSUME real \in Seq(Connection), Apart, straddling \subseteq straddling',
         NEW given, given \cap Sent \subseteq straddling, NEW c \in Nat,
         \A d \in DOMAIN real' :
           /\ InOrder(real'[d])
           /\ d = c \/ d \in DOMAIN real
           /\ ToSet(Given(real'[d])) \subseteq
                (IF d = c THEN given ELSE {})
                \cup (IF d \in DOMAIN real THEN ToSet(Given(real[d])) ELSE {})
  PROVE  Apart' /\ (\A d \in DOMAIN real : InOrder(real[d]))'
<1>1. Apart'
  <2>1. SUFFICES ASSUME NEW d \in DOMAIN real', NEW e \in DOMAIN real', d # e, NEW w,
                        w \in ToSet(Given(real'[d])), w \in ToSet(Given(real'[e]))
                 PROVE  w \in straddling
    BY DEF Apart
  <2>2. ASSUME NEW f \in DOMAIN real', f # c
        PROVE  /\ f \in DOMAIN real
               /\ ToSet(Given(real'[f])) \subseteq ToSet(Given(real[f]))
    BY <2>2
  <2>3. \A f \in DOMAIN real : ToSet(Given(real[f])) \subseteq Sent
    BY DEF Sent
  <2>4. CASE d # c /\ e # c
    BY <2>1, <2>2, <2>4 DEF Apart
  <2>5. CASE d = c
    <3>1. e \in DOMAIN real /\ w \in ToSet(Given(real[e])) /\ w \in Sent
      BY <2>1, <2>2, <2>3, <2>5
    <3>2. w \in given \/ (d \in DOMAIN real /\ w \in ToSet(Given(real[d])))
      BY <2>1, <2>5
    <3>3. QED
      BY <2>1, <3>1, <3>2 DEF Apart
  <2>6. CASE e = c
    <3>1. d \in DOMAIN real /\ w \in ToSet(Given(real[d])) /\ w \in Sent
      BY <2>1, <2>2, <2>3, <2>6
    <3>2. w \in given \/ (e \in DOMAIN real /\ w \in ToSet(Given(real[e])))
      BY <2>1, <2>6
    <3>3. QED
      BY <2>1, <3>1, <3>2 DEF Apart
  <2>7. QED
    BY <2>4, <2>5, <2>6
<1>2. ASSUME NEW d \in DOMAIN real'
      PROVE  InOrder(real[d])'
  <2>1. PICK y : y = real'[d]
    OBVIOUS
  <2>2. InOrder(y)
    BY <1>2, <2>1
  <2>3. InOrder(y)'
    BY <2>2, InOrderLater
  <2>4. QED
    BY <2>1, <2>3 DEF InOrder
<1>3. QED
  BY <1>1, <1>2

\* Steps that give the connections nothing: dispatching, failing, ending.
LEMMA SameKeepOrder ==
  ASSUME real \in Seq(Connection), SendOrder, straddling \subseteq straddling',
         DOMAIN real' = DOMAIN real,
         \A d \in DOMAIN real :
           /\ Given(real'[d]) = Given(real[d])
           /\ InOrder(real[d]) => InOrder(real'[d])
  PROVE  Apart' /\ (\A d \in DOMAIN real : InOrder(real[d]))'
<1>1. PICK given : given = {}
  OBVIOUS
<1>2. given \cap Sent \subseteq straddling
  BY <1>1
<1>3. \A d \in DOMAIN real' :
        /\ InOrder(real'[d])
        /\ d = 0 \/ d \in DOMAIN real
        /\ ToSet(Given(real'[d])) \subseteq
             (IF d = 0 THEN given ELSE {})
             \cup (IF d \in DOMAIN real THEN ToSet(Given(real[d])) ELSE {})
  BY <1>1 DEF SendOrder
<1>4. Apart
  BY DEF SendOrder
<1>5. QED
  BY <1>2, <1>3, <1>4, ConnectionsKeepOrder

\* A smaller buffer still comes last.
LEMMA BufferStaysLast ==
  ASSUME BufferLast, Sent' = Sent, straddling \subseteq straddling',
         \/ buffer' = <<>>
         \/ buffer' = buffer /\ (readyState' = "PENDING" => readyState = "PENDING")
         \/ readyState' # "PENDING" /\ ToSet(buffer)' \subseteq ToSet(buffer)
  PROVE  BufferLast'
<1>1. ToSet(buffer)' \subseteq ToSet(buffer)
  BY DEF ToSet
<1>2. readyState' = "PENDING" => Increasing(buffer')
  BY DEF BufferLast, Increasing
<1>3. QED
  BY <1>1, <1>2 DEF BufferLast, Follows

\* Steps that touch neither the connections nor, but to empty it, the buffer.
LEMMA SendOrderAside ==
  ASSUME Structure, SendOrder, straddling \subseteq straddling',
         UNCHANGED <<real, passthroughSocket, swapped, destroyed>>,
         \/ buffer' = <<>>
         \/ buffer' = buffer /\ (readyState' = "PENDING" => readyState = "PENDING")
         \/ readyState' # "PENDING" /\ ToSet(buffer)' \subseteq ToSet(buffer)
  PROVE  SendOrder'
<1>1. real \in Seq(Connection) /\ Sent' = Sent
  BY DEF Structure, TypeOK, Sent
<1>2. OneConnection'
  BY DEF SendOrder, OneConnection
<1>3. BufferLast'
  BY <1>1, BufferStaysLast DEF SendOrder
<1>4. Apart' /\ (\A d \in DOMAIN real : InOrder(real[d]))'
  BY <1>1, SameKeepOrder
<1>5. QED
  BY <1>2, <1>3, <1>4 DEF SendOrder

\* What is buffered follows everything that was sent.
LEMMA BufferedFollows ==
  ASSUME BufferLast, NEW c \in DOMAIN real, NEW w \in ToSet(buffer)
  PROVE  FollowsAll(w, real[c])
BY DEF BufferLast, FollowsAll, Sent

\* The connection passes through.
LEMMA SendOrderEstablish ==
  ASSUME Structure, Fates, SendOrder, readyState = "PENDING", Establish, Unaffected
  PROVE  SendOrder'
<1> DEFINE c == passthroughSocket'
<1>1. /\ TypeOK /\ real \in Seq(Connection) /\ buffer \in Seq(Write)
      /\ ToSet(buffer) \cap Sent \subseteq straddling
      /\ Apart /\ BufferLast /\ Increasing(buffer) /\ OneConnection
      /\ \A d \in DOMAIN real : InOrder(real[d])
  BY DEF Structure, TypeOK, Fates, BufferUndecided, SendOrder, BufferLast
<1>2. /\ real' \in Seq(Connection) /\ DOMAIN real' = DOMAIN real \cup {c}
      /\ c = IF Live THEN passthroughSocket ELSE Len(real) + 1
      /\ \A d \in DOMAIN real : d # c => real'[d] = real[d]
      /\ \E r \in Connection :
           /\ real'[c] = Enqueue(r, buffer)
           /\ IF Live THEN r = real[passthroughSocket] ELSE r = NewConnection
  BY <1>1, EstablishGives
<1>3. /\ UNCHANGED <<swapped, destroyed>> /\ buffer' = <<>>
      /\ readyState' = "PASSTHROUGH" /\ straddling \subseteq straddling'
  BY DEF Establish, Unaffected, BufferAfterFlush, InPush, clientVars
<1>4. Live => passthroughSocket \in DOMAIN real
  BY <1>1 DEF Live, TypeOK
<1>5. PICK r \in Connection :
        /\ real'[c] = Enqueue(r, buffer)
        /\ IF Live THEN r = real[passthroughSocket] ELSE r = NewConnection
  BY <1>2
<1>6. /\ InOrder(r) /\ (\A w \in ToSet(buffer) : FollowsAll(w, r))
      /\ ToSet(Given(r)) \subseteq
           (IF c \in DOMAIN real THEN ToSet(Given(real[c])) ELSE {})
      /\ r.status # "destroyed" /\ (~Live => c \notin DOMAIN real)
  <2>1. CASE Live
    <3>1. r = real[c] /\ c \in DOMAIN real
      BY <1>2, <1>4, <1>5, <2>1
    <3>2. \A w \in ToSet(buffer) : FollowsAll(w, r)
      BY <1>1, <3>1, BufferedFollows
    <3>3. QED
      BY <1>1, <1>2, <2>1, <3>1, <3>2 DEF Live
  <2>2. CASE ~Live
    <3>1. r = NewConnection /\ c \notin DOMAIN real
      BY <1>1, <1>2, <1>5, <2>2
    <3>2. ToSet(Given(r)) = {} /\ InOrder(r) /\ r.status = "connecting"
      BY <1>1, <3>1, NewConnectionEmpty
    <3>3. QED
      BY <2>2, <3>1, <3>2 DEF FollowsAll
  <2>3. QED
    BY <2>1, <2>2
<1> HIDE DEF c
<1>7. /\ InOrder(real'[c]) /\ real'[c].status = r.status /\ Dispatched(real'[c])
      /\ ToSet(Given(real'[c])) = ToSet(Given(r)) \cup ToSet(buffer)
  BY <1>1, <1>5, <1>6, EnqueueGives
<1>8. Apart' /\ (\A d \in DOMAIN real : InOrder(real[d]))'
  <2>1. PICK given, k : given = ToSet(buffer) /\ k = c
    OBVIOUS
  <2>2. \A d \in DOMAIN real' :
          /\ InOrder(real'[d])
          /\ d = k \/ d \in DOMAIN real
          /\ ToSet(Given(real'[d])) \subseteq
               (IF d = k THEN given ELSE {})
               \cup (IF d \in DOMAIN real THEN ToSet(Given(real[d])) ELSE {})
    BY <1>1, <1>2, <1>6, <1>7, <2>1
  <2>3. given \cap Sent \subseteq straddling
    BY <1>1, <2>1
  <2>4. k \in Nat /\ real \in Seq(Connection) /\ Apart /\ straddling \subseteq straddling'
    BY <1>1, <1>2, <1>3, <1>4, <2>1
  <2>5. QED
    BY <2>2, <2>3, <2>4, ConnectionsKeepOrder
<1>9. OneConnection'
  <2>1. \A d \in DOMAIN real' :
          real'[d].status = "open" /\ real'[d].own = {} => real'[d].queue = <<>>
    BY <1>1, <1>2, <1>7 DEF Dispatched, OneConnection
  <2>2. ASSUME ~destroyed'
        PROVE  /\ real'[c].status # "destroyed"
               /\ \A d \in DOMAIN real' : d # c => real'[d].status = "destroyed"
               /\ swapped' => c # 0 /\ real'[c].status = "open"
    <3>1. CASE Live
      BY <1>1, <1>2, <1>3, <1>4, <1>5, <1>6, <1>7, <2>2, <3>1 DEF OneConnection
    <3>2. CASE ~Live
      <4>1. passthroughSocket = 0
        BY <1>1, <1>3, <2>2, <3>2 DEF OneConnection, Live
      <4>2. 0 \notin DOMAIN real
        BY <1>1
      <4>3. QED
        BY <1>1, <1>2, <1>3, <1>6, <1>7, <2>2, <4>1, <4>2 DEF OneConnection
    <3>3. QED
      BY <3>1, <3>2
  <2>3. QED
    BY <2>1, <2>2 DEF OneConnection, c
<1>10. BufferLast'
  BY <1>3 DEF BufferLast, ToSet
<1>11. QED
  BY <1>8, <1>9, <1>10 DEF SendOrder

\* A write goes to the connection.
LEMMA SendOrderThrough ==
  ASSUME Structure, Fates, SendOrder, WriteThrough
  PROVE  SendOrder'
<1> DEFINE given == IF destroyed \/ ~Live THEN {} ELSE {writing}
           c == passthroughSocket
           r == real[c]
<1>1. /\ TypeOK /\ LastIssued /\ real \in Seq(Connection)
      /\ writing \in ToSet(buffer) /\ ToSet(buffer) \cap Sent \subseteq straddling
      /\ readyState' = "PASSTHROUGH"
      /\ Apart /\ BufferLast /\ OneConnection /\ \A d \in DOMAIN real : InOrder(real[d])
      /\ UNCHANGED <<swapped, straddling, passthroughSocket>>
  BY DEF Structure, TypeOK, Fates, BufferUndecided, SendOrder, WriteThrough, Buffered,
         verdictVars
<1>2. ToSet(buffer)' = {}
  <2>1. buffer = <<writing>> /\ writing \in Write
    <3>1. buffer # <<>>
      BY <1>1 DEF ToSet
    <3>2. QED
      BY <1>1, <3>1, WriteThroughGives DEF Structure, FlushedBuffer, WriteThrough
  <2>2. buffer' = <<>>
    BY <2>1, EntryRemoved DEF WriteThrough
  <2>3. QED
    BY <2>2 DEF ToSet
<1>3. BufferLast'
  BY <1>1, <1>2 DEF BufferLast
<1>4. /\ writing \in Write
      /\ real' \in Seq(Connection) /\ DOMAIN real' = DOMAIN real
      /\ given = {} => real' = real /\ destroyed'
      /\ given # {} =>
           /\ c \in DOMAIN real /\ r \in Connection
           /\ r.status # "destroyed" /\ ~destroyed
           /\ real'[c] = IF swapped THEN WriteDirectly(r, writing)
                         ELSE Enqueue(r, <<writing>>)
           /\ \A d \in DOMAIN real : d # c => real'[d] = real[d]
  BY <1>1, WriteThroughGives
<1>5. CASE given = {}
  <2>1. real' = real /\ destroyed'
    BY <1>4, <1>5
  <2>2. OneConnection'
    BY <1>1, <2>1 DEF OneConnection
  <2>3. Apart' /\ (\A d \in DOMAIN real : InOrder(real[d]))'
    BY <1>1, <2>1, SameKeepOrder
  <2>4. QED
    BY <1>3, <2>2, <2>3 DEF SendOrder
<1>6. CASE given = {writing}
  <2>1. /\ c \in DOMAIN real /\ r \in Connection
        /\ r.status # "destroyed" /\ ~destroyed
        /\ real'[c] = IF swapped THEN WriteDirectly(r, writing)
                      ELSE Enqueue(r, <<writing>>)
        /\ \A d \in DOMAIN real : d # c => real'[d] = real[d]
    BY <1>4, <1>6
  <2>2. InOrder(r) /\ FollowsAll(writing, r) /\ Dispatched(r)
        /\ (swapped => r.status = "open")
    BY <1>1, <2>1, BufferedFollows DEF Dispatched, OneConnection
  <2> HIDE DEF r, c, given
  <2>3. /\ ToSet(Given(real'[c])) = ToSet(Given(r)) \cup {writing}
        /\ InOrder(real'[c]) /\ real'[c].status = r.status /\ Dispatched(real'[c])
    <3>1. CASE swapped
      BY <1>4, <2>1, <2>2, <3>1, WriteDirectlyGives
    <3>2. CASE ~swapped
      <4>1. PICK writes : writes = <<writing>>
        OBVIOUS
      <4>2. /\ writes \in Seq(Write) /\ ToSet(writes) = {writing}
            /\ Increasing(writes)
        BY <1>4, <4>1 DEF ToSet, Increasing
      <4>3. real'[c] = Enqueue(r, writes) /\ \A w \in ToSet(writes) : FollowsAll(w, r)
        BY <2>1, <2>2, <3>2, <4>1, <4>2
      <4>4. QED
        BY <2>1, <2>2, <4>2, <4>3, EnqueueGives
    <3>3. QED
      BY <3>1, <3>2
  <2>4. Apart' /\ (\A d \in DOMAIN real : InOrder(real[d]))'
    <3>0. PICK one, k : one = {writing} /\ k = c
      OBVIOUS
    <3>1. \A d \in DOMAIN real' :
            /\ InOrder(real'[d])
            /\ d = k \/ d \in DOMAIN real
            /\ ToSet(Given(real'[d])) \subseteq
                 (IF d = k THEN one ELSE {})
                 \cup (IF d \in DOMAIN real THEN ToSet(Given(real[d])) ELSE {})
      BY <1>1, <1>4, <2>1, <2>3, <3>0 DEF r
    <3>2. one \cap Sent \subseteq straddling
      BY <1>1, <3>0
    <3>3. k \in Nat /\ real \in Seq(Connection) /\ Apart /\ straddling \subseteq straddling'
      BY <1>1, <2>1, <3>0
    <3>4. QED
      BY <3>1, <3>2, <3>3, ConnectionsKeepOrder
  <2>5. OneConnection'
    <3>1. \A d \in DOMAIN real' : real'[d].status = real[d].status
      BY <1>4, <2>1, <2>3 DEF r
    <3>2. \A d \in DOMAIN real' :
            real'[d].status = "open" /\ real'[d].own = {} => real'[d].queue = <<>>
      BY <1>1, <1>4, <2>1, <2>3 DEF Dispatched, OneConnection
    <3>3. passthroughSocket \in DOMAIN real'
      BY <1>4, <2>1 DEF c
    <3>4. QED
      BY <1>1, <1>4, <2>1, <3>1, <3>2, <3>3 DEF OneConnection
  <2>6. QED
    BY <1>3, <2>4, <2>5 DEF SendOrder
<1>7. QED
  BY <1>5, <1>6

\* A write is buffered last.
LEMMA BufferGrows ==
  ASSUME Structure, SendOrder, NEW w \in Write, NEW kept \in Seq(Write),
         buffer' = Append(kept, w), Sent' = Sent, straddling' = straddling,
         kept = <<>> \/ kept = buffer,
         readyState' = "PENDING" => readyState = "PENDING" \/ kept = <<>>,
         \A v \in ToSet(kept) : v < w,
         \A v \in Sent : v < w \/ v \in straddling \/ w \in straddling
  PROVE  BufferLast'
<1>1. ToSet(buffer)' = ToSet(kept) \cup {w} /\ ToSet(kept) \subseteq ToSet(buffer)
  <2>1. ToSet(Append(kept, w)) = ToSet(kept) \cup {w}
    BY ElementsOfSeq
  <2>2. QED
    BY <2>1 DEF ToSet
<1>2. readyState' = "PENDING" => Increasing(buffer')
  <2>1. readyState' = "PENDING" => Increasing(kept)
    BY DEF SendOrder, BufferLast, Increasing
  <2>2. Increasing(kept) => Increasing(Append(kept, w))
    BY IncreasingAppend
  <2>3. QED
    BY <2>1, <2>2
<1>3. QED
  BY <1>1, <1>2 DEF SendOrder, BufferLast, Follows

\* A write begins: it comes after all that was issued before.
LEMMA SendOrderWriteBegin ==
  ASSUME Structure, Fates, SendOrder, WriteBegin
  PROVE  SendOrder'
<1>1. PICK w : w = issued'
  OBVIOUS
<1>2. PICK kept \in Seq(Write) :
        /\ buffer' = Append(kept, w) /\ ToSet(kept) \subseteq ToSet(buffer)
        /\ \/ kept = buffer /\ readyState' = readyState
           \/ kept = <<>> /\ readyState # "PENDING" /\ readyState' = "PENDING"
  BY <1>1, WriteBegins
<1>3. /\ w \in Write /\ w = issued + 1 /\ issued \in Nat
      /\ UNCHANGED <<real, passthroughSocket, swapped, destroyed>> /\ writing = 0
  BY <1>1, WriteBegins DEF realVars, clientVars
<1>4. straddling' = straddling
  <2>1. UNCHANGED <<during, straddling>> \/ InPush("reset")
    BY WriteBegins DEF ResetIfSettled
  <2>2. QED
    BY <1>3, <2>1 DEF InPush
<1>5. /\ Sent' = Sent /\ real \in Seq(Connection)
      /\ ToSet(kept) \subseteq Issued /\ Sent \subseteq Issued
  BY <1>2, <1>3 DEF Sent, Structure, TypeOK, BufferedIssued, Fates, SentIssued
<1>6. \A v \in Issued : v < w
  BY <1>3 DEF Issued
<1>7. BufferLast'
  BY <1>2, <1>3, <1>4, <1>5, <1>6, BufferGrows
<1>8. OneConnection'
  BY <1>3 DEF SendOrder, OneConnection
<1>9. Apart' /\ (\A d \in DOMAIN real : InOrder(real[d]))'
  BY <1>3, <1>4, <1>5, SameKeepOrder
<1>10. QED
  BY <1>7, <1>8, <1>9 DEF SendOrder

\* A write awaits the verdict: it comes after all that was sent before.
LEMMA SendOrderAwaitsVerdict ==
  ASSUME Structure, Fates, SendOrder, WriteAwaitsVerdict
  PROVE  SendOrder'
<1>1. /\ UNCHANGED <<readyState, real, passthroughSocket, swapped, destroyed,
                     straddling>>
      /\ writing # 0 /\ readyState = "PENDING"
  BY DEF WriteAwaitsVerdict, verdictVars, realVars, clientVars, recordVars
<1>2. CASE Buffered
  BY <1>1, <1>2, SendOrderAside DEF WriteAwaitsVerdict
<1>3. CASE ~Buffered
  <2>1. /\ writing \in Write /\ issued \in Nat /\ writing = issued
        /\ buffer \in Seq(Write) /\ ToSet(buffer) \subseteq Issued /\ Sent \subseteq Issued
        /\ real \in Seq(Connection) /\ Sent' = Sent
    BY <1>1, BoundsAssumption
       DEF Structure, TypeOK, LastIssued, BufferedIssued, Fates, SentIssued, Sent
  <2>2. \A v \in Issued : v < writing \/ v = writing
    BY <2>1 DEF Issued
  <2>3. \A v \in ToSet(buffer) : v < writing
    BY <1>3, <2>1, <2>2 DEF Buffered
  <2>4. \A v \in Sent : v < writing \/ v \in straddling \/ writing \in straddling
    BY <1>1, <2>1, <2>2 DEF Fates, WritingUndecided
  <2>5. buffer' = Append(buffer, writing)
    BY <1>3 DEF WriteAwaitsVerdict
  <2>6. BufferLast'
    BY <1>1, <2>1, <2>3, <2>4, <2>5, BufferGrows
  <2>7. OneConnection'
    BY <1>1 DEF SendOrder, OneConnection
  <2>8. Apart' /\ (\A d \in DOMAIN real : InOrder(real[d]))'
    BY <1>1, <2>1, SameKeepOrder
  <2>9. QED
    BY <2>6, <2>7, <2>8 DEF SendOrder
<1>4. QED
  BY <1>2, <1>3

\* The exchange ends, and with it what waited for its verdict.
LEMMA SendOrderReset ==
  ASSUME Structure, SendOrder, Reset \/ Retarget
  PROVE  SendOrder'
<1>1. /\ buffer' = <<>> \/ (buffer' = buffer /\ readyState' = readyState)
      /\ straddling \subseteq straddling'
  BY DEF Reset, Retarget, ResetIfSettled, BufferAfterReset, InPush
<1>2. CASE Reset
  <2>1. UNCHANGED <<real, passthroughSocket, swapped, destroyed>>
    BY <1>2 DEF Reset, realVars, clientVars
  <2>2. QED
    BY <1>1, <2>1, SendOrderAside
<1>3. CASE Retarget
  <2>1. TypeOK /\ DetachPassthroughSocket /\ real \in Seq(Connection)
    BY <1>3 DEF Retarget, Structure, TypeOK
  <2>2. /\ DOMAIN real' = DOMAIN real /\ passthroughSocket' = 0
        /\ (destroyed => destroyed') /\ Sent' = Sent
        /\ \A c \in DOMAIN real :
             IF c = passthroughSocket THEN real'[c] = Destroy(real[c])
             ELSE real'[c] = real[c]
    BY <2>1, DetachGives
  <2>3. \A c \in DOMAIN real :
          LET y == Destroy(real[c]) IN
          /\ y.status = "destroyed" /\ Given(y) = Given(real[c]) /\ Dispatched(y)
          /\ InOrder(real[c]) => InOrder(y)
    BY <2>1, DestroyKeeps
  <2>4. \A c \in DOMAIN real :
          /\ Given(real'[c]) = Given(real[c])
          /\ InOrder(real[c]) => InOrder(real'[c])
          /\ c = passthroughSocket => real'[c].status = "destroyed"
          /\ c # passthroughSocket => real'[c] = real[c]
          /\ c = passthroughSocket => Dispatched(real'[c])
    BY <2>2, <2>3
  <2>5. Apart' /\ (\A d \in DOMAIN real : InOrder(real[d]))'
    BY <1>1, <2>1, <2>2, <2>4, SameKeepOrder DEF SendOrder
  <2>6. OneConnection'
    <3>1. \A d \in DOMAIN real' :
            real'[d].status = "open" /\ real'[d].own = {} => real'[d].queue = <<>>
      BY <2>2, <2>4 DEF SendOrder, Dispatched, OneConnection
    <3>2. ~destroyed' => \A d \in DOMAIN real' : real'[d].status = "destroyed"
      BY <2>2, <2>4 DEF SendOrder, OneConnection
    <3>3. ~destroyed' => ~swapped'
      BY <2>1, <2>2 DEF DetachPassthroughSocket, SendOrder, OneConnection
    <3>4. QED
      BY <2>2, <3>1, <3>2, <3>3 DEF OneConnection
  <2>7. BufferLast'
    BY <1>1, <2>2, BufferStaysLast DEF SendOrder
  <2>8. QED
    BY <2>5, <2>6, <2>7 DEF SendOrder
<1>4. QED
  BY <1>2, <1>3

\* The real connections dispatch, fail and end; so does the client.
LEMMA SendOrderRealIO ==
  ASSUME Structure, SendOrder, RealIO \/ ClientDestroys \/ ClientCloses
  PROVE  SendOrder'
<1>1. TypeOK /\ real \in Seq(Connection)
  BY DEF Structure, TypeOK
<1>2. CASE RealIO
  <2>1. PICK c \in DOMAIN real :
          RealConnects(c) \/ RealLost(c) \/ \E w \in Write : RealAccepts(c, w)
    BY <1>2 DEF RealIO
  <2>2. /\ DOMAIN real' = DOMAIN real /\ Sent' = Sent
        /\ \A d \in DOMAIN real : d # c => real'[d] = real[d]
        /\ Given(real'[c]) = Given(real[c]) /\ Dispatched(real'[c])
        /\ InOrder(real[c]) => InOrder(real'[c])
        /\ real'[c].status = IF RealLost(c) \/ (RealConnects(c) /\ destroyed)
                             THEN "destroyed"
                             ELSE IF RealConnects(c) THEN "open" ELSE real[c].status
    BY <1>1, <2>1, RealIOKeeps
  <2>3. UNCHANGED <<readyState, buffer, straddling, passthroughSocket>>
    <3>1. CASE RealConnects(c)
      BY <3>1 DEF RealConnects, verdictVars, historyVars, recordVars
    <3>2. CASE RealLost(c)
      BY <3>2 DEF RealLost, verdictVars, writeVars, historyVars, recordVars
    <3>3. CASE \E w \in Write : RealAccepts(c, w)
      BY <3>3 DEF RealAccepts, verdictVars, historyVars, recordVars
    <3>4. QED
      BY <2>1, <3>1, <3>2, <3>3
  <2>4. Apart' /\ (\A d \in DOMAIN real : InOrder(real[d]))'
    BY <1>1, <2>2, <2>3, SameKeepOrder
  <2>5. BufferLast'
    BY <2>2, <2>3, BufferStaysLast DEF SendOrder
  <2>6. OneConnection'
    <3>1. \A d \in DOMAIN real' :
            real'[d].status = "open" /\ real'[d].own = {} => real'[d].queue = <<>>
      BY <2>2 DEF SendOrder, Dispatched, OneConnection
    <3>2. CASE destroyed'
      BY <3>1, <3>2 DEF OneConnection
    <3>3. CASE ~destroyed' /\ RealConnects(c)
      <4>1. ~destroyed /\ real[c].status = "connecting" /\ ~RealLost(c)
        BY <3>3 DEF RealConnects, RealLost, clientVars
      <4>2. c = passthroughSocket
        BY <4>1 DEF SendOrder, OneConnection
      <4>3. real'[c].status = "open" /\ c # 0
        BY <1>1, <2>1, <2>2, <3>3, <4>1
      <4>4. \A d \in DOMAIN real' : d # c => real'[d].status = "destroyed"
        BY <2>2, <4>1, <4>2 DEF SendOrder, OneConnection
      <4>5. QED
        BY <2>3, <3>1, <4>2, <4>3, <4>4 DEF OneConnection
    <3>4. CASE ~destroyed' /\ ~RealConnects(c)
      <4>1. ~RealLost(c) /\ \E w \in Write : RealAccepts(c, w)
        BY <2>1, <3>4 DEF RealLost
      <4>2. UNCHANGED <<swapped, destroyed>>
        BY <4>1 DEF RealAccepts, clientVars
      <4>3. real'[c].status = real[c].status
        BY <2>2, <3>4, <4>1
      <4>4. \A d \in DOMAIN real : real'[d].status = real[d].status
        BY <2>2, <4>3
      <4>5. passthroughSocket # 0 => passthroughSocket \in DOMAIN real
        BY <1>1 DEF TypeOK
      <4>6. QED
        BY <2>2, <2>3, <3>1, <4>2, <4>4, <4>5 DEF SendOrder, OneConnection
    <3>5. QED
      BY <3>2, <3>3, <3>4
  <2>7. QED
    BY <2>4, <2>5, <2>6 DEF SendOrder
<1>3. CASE ClientDestroys \/ ClientCloses
  <2>1. /\ DOMAIN real' = DOMAIN real /\ Sent' = Sent /\ destroyed'
        /\ \A d \in DOMAIN real : real'[d] \in {real[d], Destroy(real[d])}
    BY <1>1, <1>3, ClientEnds
  <2>2. /\ UNCHANGED <<readyState, straddling>>
        /\ buffer' = buffer \/ buffer' = <<>>
    BY <1>3
       DEF ClientDestroys, ClientCloses, verdictVars, writeVars, historyVars, recordVars
  <2>3. \A d \in DOMAIN real :
          /\ Given(real'[d]) = Given(real[d])
          /\ InOrder(real[d]) => InOrder(real'[d])
          /\ Dispatched(real[d]) => Dispatched(real'[d])
    <3>1. ASSUME NEW d \in DOMAIN real
          PROVE  /\ Given(real'[d]) = Given(real[d])
                 /\ InOrder(real[d]) => InOrder(real'[d])
                 /\ Dispatched(real[d]) => Dispatched(real'[d])
      <4>1. CASE real'[d] = real[d]
        BY <4>1
      <4>2. CASE real'[d] = Destroy(real[d])
        <5>1. real[d] \in Connection
          BY <1>1
        <5>2. QED
          BY <4>2, <5>1, DestroyKeeps
      <4>3. QED
        BY <2>1, <4>1, <4>2
    <3>2. QED
      BY <3>1
  <2>4. Apart' /\ (\A d \in DOMAIN real : InOrder(real[d]))'
    BY <1>1, <2>1, <2>2, <2>3, SameKeepOrder
  <2>5. BufferLast'
    BY <2>1, <2>2, BufferStaysLast DEF SendOrder
  <2>6. OneConnection'
    BY <2>1, <2>3 DEF SendOrder, OneConnection, Dispatched
  <2>7. QED
    BY <2>4, <2>5, <2>6 DEF SendOrder
<1>4. QED
  BY <1>2, <1>3

\* The writes leave in order throughout.
LEMMA SendOrderHolds == Spec => []SendOrder
<1>1. Init => SendOrder
  <2> SUFFICES ASSUME Init
               PROVE  SendOrder
    OBVIOUS
  <2>1. /\ DOMAIN real = {} /\ passthroughSocket = 0 /\ swapped = FALSE
        /\ ToSet(buffer) = {} /\ DOMAIN buffer = {}
    BY DEF Init, ToSet
  <2>2. QED
    BY <2>1 DEF SendOrder, OneConnection, Apart, BufferLast, Increasing
<1>2. Structure /\ PushOrder /\ Fates /\ SendOrder /\ [Next]_vars => SendOrder'
  <2> SUFFICES ASSUME Structure, PushOrder, Fates, SendOrder, [Next]_vars
               PROVE  SendOrder'
    OBVIOUS
  <2>1. TypeOK /\ ticks \in Seq(Tick) /\ buffer \in Seq(Write)
    BY DEF Structure, TypeOK
  <2>2. CASE WriteBegin
    BY <2>2, SendOrderWriteBegin
  <2>3. CASE WriteAwaitsVerdict
    BY <2>3, SendOrderAwaitsVerdict
  <2>4. CASE WriteThrough
    BY <2>4, SendOrderThrough
  <2>5. CASE WriteMocked
    <3>1. /\ UNCHANGED <<readyState, real, passthroughSocket, swapped, destroyed,
                         straddling>>
          /\ readyState = "CLAIMED" /\ buffer' = RemoveFirst(buffer, writing)
          /\ writing \in Write
      BY <2>1, <2>5 DEF WriteMocked, verdictVars, realVars, clientVars, TypeOK
    <3>2. ToSet(buffer)' \subseteq ToSet(buffer)
      BY <2>1, <3>1, RemovedEntry
    <3>3. QED
      BY <3>1, <3>2, SendOrderAside
  <2>6. CASE Claim
    <3>1. /\ UNCHANGED <<real, passthroughSocket, swapped, destroyed>>
          /\ readyState' = "CLAIMED" /\ straddling \subseteq straddling'
          /\ buffer' = buffer \/ buffer' = <<>>
      BY <2>6 DEF Claim, InPush, realVars, clientVars
    <3>2. QED
      BY <3>1, SendOrderAside
  <2>7. CASE Passthrough
    BY <2>7, SendOrderEstablish DEF Passthrough
  <2>8. CASE AnnounceToNobody
    <3>1. ticks # <<>> /\ Head(ticks).kind = "announce"
      BY <2>8 DEF AnnounceToNobody, NextTick
    <3>2. 1 \in DOMAIN ticks /\ Head(ticks) = ticks[1]
      BY <2>1, <3>1
    <3>3. readyState = "PENDING"
      BY <3>1, <3>2 DEF PushOrder
    <3>4. QED
      BY <2>8, <3>3, SendOrderEstablish DEF AnnounceToNobody
  <2>9. CASE DeclinedByAll /\ readyState = "PENDING" /\ ~destroyed
    BY <2>9, SendOrderEstablish DEF DeclinedByAll
  <2>10. CASE Reset \/ Retarget
    BY <2>10, SendOrderReset
  <2>11. CASE RealIO \/ ClientDestroys \/ ClientCloses
    BY <2>11, SendOrderRealIO
  <2>12. CASE \/ ScheduleReset \/ Decline \/ AnnounceDestroyed \/ AnnounceAwaiting
              \/ DeferredPush \/ Dial \/ EmulateConnect \/ EmulateNothing
              \/ CompleteClaim \/ WriteFlushed \/ UNCHANGED vars
              \/ (DeclinedByAll /\ ~(readyState = "PENDING" /\ ~destroyed))
    <3>1. UNCHANGED <<readyState, straddling, buffer, real, passthroughSocket, swapped,
                      destroyed>>
      BY <2>12
         DEF ScheduleReset, Decline, AnnounceDestroyed, AnnounceAwaiting, DeferredPush,
             Dial, EmulateConnect, EmulateNothing, CompleteClaim, WriteFlushed,
             DeclinedByAll, vars, verdictVars, writeVars, realVars, clientVars,
             historyVars, recordVars
    <3>2. QED
      BY <3>1, SendOrderAside
  <2>13. QED
    BY <2>2, <2>3, <2>4, <2>5, <2>6, <2>7, <2>8, <2>9, <2>10, <2>11, <2>12
       DEF Next, RunTick, WriteEnd, Subscriber
<1>3. QED
  BY <1>1, <1>2, StructureHolds, PushOrderHolds, FatesHolds, PTL DEF Spec

\* What a connection was given, by position: its queue goes on where its handle's
\* bytes end.
LEMMA GivenInOrder ==
  ASSUME NEW r \in Connection, InOrder(r), NEW i \in DOMAIN Given(r),
         NEW j \in DOMAIN Given(r), i < j
  PROVE  Follows(Given(r)[j], Given(r)[i], r.overlapped)
<1> DEFINE s == r.wire
           t == r.queue
           g == Given(r)
<1>1. s \in Seq(Write) /\ t \in Seq(Write)
  BY GivenWrites
<1>2. PICK p \in Nat, q \in Nat : p = Len(s) /\ q = Len(t)
  BY <1>1
<1>3. /\ DOMAIN s = 1..p /\ DOMAIN t = 1..q /\ DOMAIN g = 1..p + q
      /\ \A k \in 1..p : g[k] = s[k]
      /\ \A k \in 1..p + q : k > p => g[k] = t[k - p] /\ k - p \in 1..q
  <2>1. g = s \o t
    BY DEF Given
  <2> HIDE DEF s, t, g
  <2>2. /\ Len(s \o t) = p + q /\ DOMAIN (s \o t) = 1..Len(s \o t)
        /\ DOMAIN s = 1..Len(s) /\ DOMAIN t = 1..Len(t)
        /\ \A k \in 1..p + q : (s \o t)[k] = IF k <= p THEN s[k] ELSE t[k - p]
    BY <1>1, <1>2, ConcatProperties
  <2>3. \A k \in 1..p + q : k > p => k - p \in 1..q /\ ~(k <= p)
    BY <1>2
  <2>4. \A k \in 1..p : k \in 1..p + q /\ k <= p
    BY <1>2
  <2>5. QED
    BY <1>2, <2>1, <2>2, <2>3, <2>4
<1>4. /\ \A a, b \in DOMAIN s : a < b => Follows(s[b], s[a], r.overlapped)
      /\ \A a, b \in DOMAIN t : a < b => Follows(t[b], t[a], r.overlapped)
      /\ \A v \in ToSet(s), w \in ToSet(t) : Follows(w, v, r.overlapped)
  BY DEF InOrder
<1>5. i \in DOMAIN g /\ j \in DOMAIN g
  OBVIOUS
<1> HIDE DEF s, t, g
<1>6. i \in 1..p + q /\ j \in 1..p + q
  BY <1>3, <1>5
<1>7. CASE j <= p
  <2>1. i \in 1..p /\ j \in 1..p
    BY <1>6, <1>7
  <2>2. QED
    BY <1>3, <1>4, <2>1 DEF g
<1>8. CASE i <= p /\ j > p
  <2>1. i \in 1..p
    BY <1>6, <1>8
  <2>2. /\ g[i] = s[i] /\ i \in DOMAIN s
        /\ g[j] = t[j - p] /\ j - p \in DOMAIN t
    BY <1>3, <1>6, <1>8, <2>1
  <2>3. g[i] \in ToSet(s) /\ g[j] \in ToSet(t)
    BY <2>2 DEF ToSet
  <2>4. QED
    BY <1>4, <2>3 DEF g
<1>9. CASE i > p
  <2>1. j > p /\ i - p < j - p
    BY <1>6, <1>9
  <2>2. /\ g[i] = t[i - p] /\ i - p \in DOMAIN t
        /\ g[j] = t[j - p] /\ j - p \in DOMAIN t
    BY <1>3, <1>6, <1>9, <2>1
  <2>3. QED
    BY <1>4, <2>1, <2>2 DEF g
<1>10. QED
  BY <1>6, <1>7, <1>8, <1>9

\* The subscribers hear of every write once and in order, and every connection is
\* given the client's writes in order, at most once, and no write of another one.
THEOREM EveryWriteOnceInOrder == Spec => []SentOnceInOrder
<1>1. Structure /\ PushOrder /\ SendOrder => SentOnceInOrder
  <2> SUFFICES ASSUME Structure, PushOrder, SendOrder
               PROVE  SentOnceInOrder
    OBVIOUS
  <2>1. Increasing(pushed)
    BY DEF PushOrder
  <2>2. \A c, d \in DOMAIN real :
          c # d => ToSet(Given(real[c])) \cap ToSet(Given(real[d])) \subseteq straddling
    BY DEF SendOrder, Apart
  <2>3. ASSUME NEW c \in DOMAIN real, NEW i \in DOMAIN Given(real[c]),
               NEW j \in DOMAIN Given(real[c]), i < j,
               Given(real[c])[i] \notin straddling, Given(real[c])[j] \notin straddling
        PROVE  IF real[c].overlapped THEN Given(real[c])[i] # Given(real[c])[j]
               ELSE Given(real[c])[i] < Given(real[c])[j]
    <3>1. real[c] \in Connection /\ InOrder(real[c])
      BY DEF Structure, TypeOK, SendOrder
    <3>2. Follows(Given(real[c])[j], Given(real[c])[i], real[c].overlapped)
      BY <2>3, <3>1, GivenInOrder
    <3>3. QED
      BY <2>3, <3>2 DEF Follows
  <2>4. QED
    BY <2>1, <2>2, <2>3 DEF SentOnceInOrder
<1>2. QED
  BY <1>1, StructureHolds, PushOrderHolds, SendOrderHolds, PTL

-----------------------------------------------------------------------------
(* The exchange a write is decided in.                                       *)

\* No write is due in an exchange that is yet to be opened, and what is decided
\* was due.  A client that pipelines past a boundary breaks this: reset() keeps
\* the scheduled reset of a pending exchange for the next write.
Due ==
  /\ \A w \in Issued : opened[w] <= exchange
  /\ \A w \in Write \ Issued : decided[w] = 0
  /\ DecidedInItsExchange

\* A verdict decides writes in the current exchange, which is no earlier than the
\* one they were due in.
LEMMA DueDecided ==
  ASSUME TypeOK, Due, UNCHANGED <<issued, opened, exchange>>, NEW writes,
         writes \subseteq Issued, Decide(writes)
  PROVE  Due'
<1>1. /\ Issued' = Issued /\ Issued \subseteq Write
      /\ decided' = [w \in Write |-> IF w \in writes THEN exchange ELSE decided[w]]
  BY IssuedWrites DEF Issued, Decide
<1>2. \A w \in Issued : decided'[w] # 0 => decided'[w] >= opened'[w]
  BY <1>1 DEF Due, DecidedInItsExchange, TypeOK
<1>3. QED
  BY <1>1, <1>2 DEF Due, DecidedInItsExchange

\* Steps that decide nothing, be it that they open the next exchange.
LEMMA DueAside ==
  ASSUME TypeOK, Due, UNCHANGED <<issued, opened, decided>>, exchange <= exchange',
         exchange' \in Nat
  PROVE  Due'
<1>1. /\ opened \in [Write -> 0..MaxExchanges + 1] /\ exchange \in Nat
      /\ MaxExchanges \in Nat /\ Issued' = Issued /\ Issued \subseteq Write
  BY IssuedWrites, BoundsAssumption DEF TypeOK, Issued
<1>2. \A w \in Issued : opened'[w] <= exchange'
  <2>1. \A w \in Issued : opened[w] \in Nat /\ opened[w] <= exchange
    BY <1>1 DEF Due
  <2>2. QED
    BY <1>1, <2>1
<1>3. QED
  BY <1>1, <1>2 DEF Due, DecidedInItsExchange

\* A write past a boundary opens the next exchange as it begins.
LEMMA DueWriteBegin ==
  ASSUME ~Pipelining, Structure, Due, WriteBegin
  PROVE  Due'
<1>1. PICK w : w = issued'
  OBVIOUS
<1>2. TypeOK /\ LastIssued /\ exchange \in Nat /\ MaxExchanges \in Nat
  BY BoundsAssumption DEF Structure, TypeOK
<1>3. /\ w \in Write /\ w \notin Issued /\ Issued' = Issued \cup {w} /\ w = issued + 1
      /\ decided' = decided
  BY <1>1, WriteBegins
<1>4. opened' = [opened EXCEPT ![w] = IF resetScheduled THEN exchange + 1 ELSE exchange]
  BY <1>3 DEF WriteBegin
<1>5. /\ exchange <= exchange' /\ exchange' \in Nat
      /\ resetScheduled => exchange' = exchange + 1
  <2>1. CASE resetScheduled
    <3>1. readyState # "PENDING"
      BY <2>1 DEF WriteBegin, ClientWrites
    <3>2. ResetIfSettled
      BY <2>1, WriteBegins DEF ResetsFirst
    <3>3. QED
      BY <1>2, <3>1, <3>2 DEF ResetIfSettled, ResetNeeded
  <2>2. CASE ~resetScheduled
    <3>1. exchange' = exchange
      BY <2>2, WriteBegins DEF ResetsFirst
    <3>2. QED
      BY <1>2, <2>2, <3>1
  <2>3. QED
    BY <2>1, <2>2
<1>6. opened \in [Write -> 0..MaxExchanges + 1] /\ Issued \subseteq Write
  BY <1>2, IssuedWrites DEF TypeOK
<1>7. \A v \in Issued : opened'[v] = opened[v] /\ opened[v] \in Nat /\ opened[v] <= exchange
  BY <1>2, <1>3, <1>4, <1>6 DEF Due
<1>8. opened'[w] <= exchange'
  BY <1>2, <1>3, <1>4, <1>5, <1>6
<1>9. \A v \in Issued' : opened'[v] <= exchange'
  BY <1>2, <1>3, <1>5, <1>7, <1>8
<1>10. decided'[w] = 0
  BY <1>3 DEF Due
<1>11. QED
  BY <1>3, <1>7, <1>9, <1>10 DEF Due, DecidedInItsExchange

\* A client that waits for the verdict at a boundary has every write decided in
\* the exchange the write belongs to, or a later one.
THEOREM DecidedPastTheBoundary ==
  ASSUME ~Pipelining
  PROVE  Spec => []DecidedInItsExchange
<1>1. Init => Due
  <2> SUFFICES ASSUME Init
               PROVE  Due
    OBVIOUS
  <2>1. Issued = {} /\ decided = [w \in Write |-> 0]
    BY DEF Init, Issued
  <2>2. QED
    BY <2>1 DEF Due, DecidedInItsExchange
<1>2. Structure /\ Due /\ [Next]_vars => Due'
  <2> SUFFICES ASSUME Structure, Due, [Next]_vars
               PROVE  Due'
    OBVIOUS
  <2>1. /\ TypeOK /\ LastIssued /\ exchange \in Nat /\ ToSet(buffer) \subseteq Issued
        /\ exchange <= exchange
    BY BoundsAssumption DEF Structure, TypeOK, BufferedIssued
  <2>2. CASE WriteBegin
    BY <2>2, DueWriteBegin
  <2>3. CASE Claim
    BY <2>1, <2>3, DueDecided DEF Claim
  <2>4. CASE \/ Passthrough \/ AnnounceToNobody
             \/ DeclinedByAll /\ readyState = "PENDING" /\ ~destroyed
    <3>1. Establish /\ Unaffected
      BY <2>4 DEF Passthrough, AnnounceToNobody, DeclinedByAll
    <3>2. Decide(ToSet(buffer)) /\ UNCHANGED <<issued, opened, exchange>>
      BY <3>1 DEF Establish, Unaffected
    <3>3. QED
      BY <2>1, <3>2, DueDecided
  <2>5. CASE WriteMocked
    <3>1. PICK writes : writes = {writing}
      OBVIOUS
    <3>2. writing \in Issued
      BY <2>1, <2>5, BoundsAssumption DEF WriteMocked, LastIssued, TypeOK, Issued
    <3>3. Decide(writes) /\ UNCHANGED <<issued, opened, exchange>>
      BY <2>5, <3>1 DEF WriteMocked
    <3>4. QED
      BY <2>1, <3>1, <3>2, <3>3, DueDecided
  <2>6. CASE WriteThrough
    <3>1. UNCHANGED <<issued, opened, exchange>>
      BY <2>6 DEF WriteThrough
    <3>2. PICK writes : writes = {writing}
      OBVIOUS
    <3>3. writing \in Issued /\ (decided' = decided \/ Decide(writes))
      BY <2>1, <2>6, <3>2, WriteThroughGives DEF WriteThrough
    <3>4. QED
      BY <2>1, <3>1, <3>2, <3>3, DueDecided, DueAside
  <2>7. CASE Reset \/ Retarget
    <3>1. ResetIfSettled /\ UNCHANGED <<issued, opened, decided>>
      BY <2>7 DEF Reset, Retarget
    <3>2. exchange <= exchange' /\ exchange' \in Nat
      BY <2>1, <3>1 DEF ResetIfSettled
    <3>3. QED
      BY <2>1, <3>1, <3>2, DueAside
  <2>8. CASE \/ ScheduleReset \/ Decline \/ AnnounceDestroyed \/ AnnounceAwaiting
             \/ DeferredPush \/ Dial \/ EmulateConnect \/ EmulateNothing
             \/ CompleteClaim \/ WriteFlushed \/ WriteAwaitsVerdict \/ UNCHANGED vars
             \/ (DeclinedByAll /\ ~(readyState = "PENDING" /\ ~destroyed))
    <3>1. UNCHANGED <<issued, opened, decided, exchange>>
      BY <2>8
         DEF ScheduleReset, Decline, AnnounceDestroyed, AnnounceAwaiting, DeferredPush,
             Dial, EmulateConnect, EmulateNothing, CompleteClaim, WriteFlushed,
             WriteAwaitsVerdict, DeclinedByAll, vars, writeVars, historyVars, recordVars
    <3>2. QED
      BY <2>1, <3>1, DueAside
  <2>9. CASE RealIO \/ ClientDestroys \/ ClientCloses
    <3>1. UNCHANGED <<issued, opened, decided, exchange>>
      BY <2>9
         DEF RealIO, RealConnects, RealLost, RealAccepts, ClientDestroys, ClientCloses,
             writeVars, historyVars, recordVars
    <3>2. QED
      BY <2>1, <3>1, DueAside
  <2>10. QED
    BY <2>2, <2>3, <2>4, <2>5, <2>6, <2>7, <2>8, <2>9
       DEF Next, RunTick, WriteEnd, Subscriber
<1>3. Due => DecidedInItsExchange
  BY DEF Due
<1>4. QED
  BY <1>1, <1>2, <1>3, StructureHolds, PTL DEF Spec

-----------------------------------------------------------------------------
(* The target of the connection.                                             *)

\* A retargeted client passes through to its new target only.
OnTarget ==
  retargeted /\ passthroughSocket # 0 => real[passthroughSocket].target = "retargeted"

\* What RetargetedForGood says of a step.
GivenToTarget ==
  retargeted =>
    \A c \in DOMAIN real' :
      real'[c].target = "original" =>
        c \in DOMAIN real /\ Len(Given(real'[c])) = Len(Given(real[c]))

\* passthrough() gives the writes to a connection to the target in force.
LEMMA TargetEstablish ==
  ASSUME TypeOK, OnTarget, Establish, Unaffected
  PROVE  OnTarget' /\ GivenToTarget
<1> DEFINE c == passthroughSocket'
<1>1. /\ c \in DOMAIN real' /\ DOMAIN real' = DOMAIN real \cup {c}
      /\ c = IF Live THEN passthroughSocket ELSE Len(real) + 1
      /\ \A d \in DOMAIN real : d # c => real'[d] = real[d]
      /\ \E r \in Connection :
           /\ real'[c] = Enqueue(r, buffer)
           /\ IF Live THEN r = real[passthroughSocket] ELSE r = NewConnection
  BY EstablishGives
<1>2. retargeted' = retargeted /\ buffer \in Seq(Write)
  BY DEF Unaffected, TypeOK
<1>3. PICK r \in Connection :
        /\ real'[c] = Enqueue(r, buffer)
        /\ IF Live THEN r = real[passthroughSocket] ELSE r = NewConnection
  BY <1>1
<1>4. retargeted => r.target = "retargeted"
  BY <1>3, NewConnectionEmpty DEF OnTarget, Live
<1> HIDE DEF c
<1>5. real'[c].target = r.target
  BY <1>2, <1>3, EnqueueGives
<1>6. retargeted => real'[c].target = "retargeted"
  BY <1>4, <1>5
<1>7. OnTarget'
  BY <1>2, <1>6 DEF OnTarget, c
<1>8. GivenToTarget
  BY <1>1, <1>6 DEF GivenToTarget
<1>9. QED
  BY <1>7, <1>8

\* Steps that give the connections nothing.
LEMMA TargetAside ==
  ASSUME OnTarget, DOMAIN real' = DOMAIN real,
         \A d \in DOMAIN real :
           real'[d].target = real[d].target /\ Given(real'[d]) = Given(real[d]),
         passthroughSocket' = 0
           \/ (UNCHANGED <<passthroughSocket, retargeted>>
               /\ passthroughSocket \in {0} \cup DOMAIN real)
  PROVE  OnTarget' /\ GivenToTarget
BY DEF OnTarget, GivenToTarget

\* A write in progress goes to the connection that passes through.
LEMMA TargetThrough ==
  ASSUME TypeOK, LastIssued, OnTarget, WriteThrough
  PROVE  OnTarget' /\ GivenToTarget
<1> DEFINE given == IF destroyed \/ ~Live THEN {} ELSE {writing}
           c == passthroughSocket
           r == real[c]
<1>1. /\ writing \in Write /\ DOMAIN real' = DOMAIN real
      /\ given = {} => real' = real
      /\ given # {} =>
           /\ c \in DOMAIN real /\ r \in Connection
           /\ real'[c] = IF swapped THEN WriteDirectly(r, writing)
                         ELSE Enqueue(r, <<writing>>)
           /\ \A d \in DOMAIN real : d # c => real'[d] = real[d]
      /\ UNCHANGED <<passthroughSocket, retargeted>>
      /\ passthroughSocket \in {0} \cup DOMAIN real
  BY WriteThroughGives DEF WriteThrough, TypeOK
<1>2. CASE given = {}
  BY <1>1, <1>2, TargetAside
<1>3. CASE given # {}
  <2>1. /\ c \in DOMAIN real /\ r \in Connection
        /\ real'[c] = IF swapped THEN WriteDirectly(r, writing)
                      ELSE Enqueue(r, <<writing>>)
        /\ \A d \in DOMAIN real : d # c => real'[d] = real[d]
    BY <1>1, <1>3
  <2>2. retargeted /\ c # 0 => r.target = "retargeted"
    BY DEF OnTarget
  <2>3. c # 0
    BY <1>3 DEF Live
  <2> HIDE DEF r
  <2>4. real'[c].target = r.target
    <3>1. CASE swapped
      BY <1>1, <2>1, <3>1, WriteDirectlyGives
    <3>2. CASE ~swapped
      <4>1. PICK writes : writes = <<writing>>
        OBVIOUS
      <4>2. writes \in Seq(Write) /\ real'[c] = Enqueue(r, writes)
        BY <1>1, <2>1, <3>2, <4>1
      <4>3. QED
        BY <2>1, <4>2, EnqueueGives
    <3>3. QED
      BY <3>1, <3>2
  <2>5. QED
    BY <1>1, <2>1, <2>2, <2>3, <2>4 DEF OnTarget, GivenToTarget
<1>4. QED
  BY <1>2, <1>3

\* Once retargeted, the client's data never reaches the original target: neither a
\* detached connection nor one created later is given any of it.
THEOREM RetargetingIsFinal == Spec => RetargetedForGood
<1>1. Init => OnTarget
  BY DEF Init, OnTarget
<1>2. Structure /\ OnTarget /\ [Next]_vars => OnTarget' /\ GivenToTarget
  <2> SUFFICES ASSUME Structure, OnTarget, [Next]_vars
               PROVE  OnTarget' /\ GivenToTarget
    OBVIOUS
  <2>1. /\ TypeOK /\ LastIssued /\ real \in Seq(Connection)
        /\ passthroughSocket \in {0} \cup DOMAIN real
    BY DEF Structure, TypeOK
  <2>2. \A d \in DOMAIN real :
          /\ Destroy(real[d]).target = real[d].target
          /\ Given(Destroy(real[d])) = Given(real[d])
    BY <2>1, DestroyKeeps
  <2>3. CASE \/ Passthrough \/ AnnounceToNobody
             \/ DeclinedByAll /\ readyState = "PENDING" /\ ~destroyed
    BY <2>1, <2>3, TargetEstablish DEF Passthrough, AnnounceToNobody, DeclinedByAll
  <2>4. CASE WriteThrough
    BY <2>1, <2>4, TargetThrough
  <2>5. CASE Retarget
    <3>1. DetachPassthroughSocket
      BY <2>5 DEF Retarget
    <3>2. /\ DOMAIN real' = DOMAIN real /\ passthroughSocket' = 0
          /\ \A d \in DOMAIN real :
               IF d = passthroughSocket THEN real'[d] = Destroy(real[d])
               ELSE real'[d] = real[d]
      BY <2>1, <3>1, DetachGives
    <3>3. QED
      BY <2>2, <3>2, TargetAside
  <2>6. CASE RealIO
    <3>1. PICK c \in DOMAIN real :
            RealConnects(c) \/ RealLost(c) \/ \E w \in Write : RealAccepts(c, w)
      BY <2>6 DEF RealIO
    <3>2. /\ DOMAIN real' = DOMAIN real
          /\ \A d \in DOMAIN real : d # c => real'[d] = real[d]
          /\ real'[c].target = real[c].target /\ Given(real'[c]) = Given(real[c])
      BY <2>1, <3>1, RealIOKeeps
    <3>3. UNCHANGED <<passthroughSocket, retargeted>>
      BY <3>1 DEF RealConnects, RealLost, RealAccepts
    <3>4. \A d \in DOMAIN real :
            real'[d].target = real[d].target /\ Given(real'[d]) = Given(real[d])
      BY <3>2
    <3>5. QED
      BY <2>1, <3>2, <3>3, <3>4, TargetAside
  <2>7. CASE ClientDestroys \/ ClientCloses
    <3>1. /\ DOMAIN real' = DOMAIN real
          /\ \A d \in DOMAIN real : real'[d] \in {real[d], Destroy(real[d])}
      BY <2>1, <2>7, ClientEnds
    <3>2. passthroughSocket' = 0 \/ UNCHANGED <<passthroughSocket, retargeted>>
      BY <2>7 DEF ClientDestroys, ClientCloses
    <3>3. \A d \in DOMAIN real :
            real'[d].target = real[d].target /\ Given(real'[d]) = Given(real[d])
      BY <2>2, <3>1
    <3>4. QED
      BY <2>1, <3>1, <3>2, <3>3, TargetAside
  <2>8. CASE \/ WriteBegin \/ WriteAwaitsVerdict \/ WriteMocked \/ WriteFlushed
             \/ Claim \/ Decline \/ Reset \/ ScheduleReset
             \/ AnnounceDestroyed \/ AnnounceAwaiting \/ DeferredPush \/ Dial
             \/ EmulateConnect \/ EmulateNothing \/ CompleteClaim \/ UNCHANGED vars
             \/ (DeclinedByAll /\ ~(readyState = "PENDING" /\ ~destroyed))
    <3>1. UNCHANGED <<real, passthroughSocket, retargeted>>
      BY <2>8
         DEF WriteBegin, WriteAwaitsVerdict, WriteMocked, WriteFlushed, Claim, Decline,
             Reset, ScheduleReset, AnnounceDestroyed, AnnounceAwaiting, DeferredPush,
             Dial, EmulateConnect, EmulateNothing, CompleteClaim, DeclinedByAll, vars,
             realVars
    <3>2. QED
      BY <2>1, <3>1, TargetAside
  <2>9. QED
    BY <2>3, <2>4, <2>5, <2>6, <2>7, <2>8 DEF Next, RunTick, WriteEnd, Subscriber
<1>3. QED
  BY <1>1, <1>2, StructureHolds, PTL DEF Spec, RetargetedForGood, GivenToTarget
=============================================================================
