------------------------- MODULE Interceptors_proofs -------------------------
(***************************************************************************)
(* Proofs about Interceptors, for any interceptors, setups and listeners.   *)
(***************************************************************************)
EXTENDS Interceptors, SequenceOrder

-----------------------------------------------------------------------------
(* Setups and the calls in progress.                                         *)

\* An interceptor is in a higher layer than those it applies.
Layer ==
  CHOOSE layer \in [Interceptor -> 0..3] :
    \A x \in Interceptor : \A c \in ChildrenOf(x) : layer[c] < layer[x]

AtApply(f) == f.at <= Len(Setup[f.of]) /\ Setup[f.of][f.at].do = "apply"
AtPatch(f) == f.at <= Len(Setup[f.of]) /\ Setup[f.of][f.at].do = "patch"

\* A setup() is at one of its steps, of which it has not replaced all keys.
Steps(f) ==
  /\ f.at \in 1..Len(Setup[f.of]) + 1
  /\ f.held # <<>> => AtPatch(f)
  /\ AtPatch(f) => /\ Len(f.held) < Len(Setup[f.of][f.at].keys)
                   /\ \A n \in DOMAIN f.held : f.held[n] = Setup[f.of][f.at].keys[n]

\* What calls what: a setup() the one of a child, which may fail; a disposal that
\* of a child.
Calls(f, g) ==
  /\ g.of \in ChildrenOf(f.of)
  /\ f.op = "setup" => /\ AtApply(f) /\ Setup[f.of][f.at].child = g.of
                       /\ g.op = "setup" => g.owner = f.of
                       /\ g.op = "dispose" => g.rethrows
  /\ f.op = "dispose" => g.op = "dispose" /\ ~g.rethrows

Nested(s) ==
  /\ \A i \in DOMAIN s : s[i].op = "setup" => Steps(s[i])
  /\ \A i, j \in DOMAIN s : i < j => Layer[s[j].of] < Layer[s[i].of]
  /\ \A i \in DOMAIN s : i < Len(s) => Calls(s[i], s[i + 1])
  /\ s # <<>> /\ s[1].op = "setup" => s[1].owner = s[1].of

\* The globals that setup() of an interceptor replaces.
Replaces(x) ==
  UNION {ToSet(Setup[x][i].keys) : i \in {j \in DOMAIN Setup[x] : Setup[x][j].do = "patch"}}

\* A subscription undoes something that setup() of its interceptor does.
Undoable(x, s) ==
  /\ s.undo = "dispose" => s.child \in ChildrenOf(x)
  /\ s.undo = "patch" => s.key \in Replaces(x)
  /\ s.undo = "forward" => Forwards(x)
  /\ s.undo = "bridge" => x \in Batch

\* An event is recorded by a batch that heard it.
Recorded ==
  \A b \in Batch, e \in Event : heard[b][e] = IF e \in forwardedEvents[b] THEN 1 ELSE 0

\* Children are in a lower layer.
LEMMA Layers ==
  /\ Layer \in [Interceptor -> 0..3]
  /\ \A x \in Interceptor : \A c \in ChildrenOf(x) : Layer[c] < Layer[x]
<1>1. \E layer \in [Interceptor -> 0..3] :
        \A x \in Interceptor : \A c \in ChildrenOf(x) : layer[c] < layer[x]
  BY SetupAssumption
<1>2. QED
  BY <1>1 DEF Layer

\* What a step of a setup() is about.
LEMMA StepParts ==
  ASSUME NEW x \in Interceptor, NEW i \in DOMAIN Setup[x]
  PROVE  /\ Setup[x][i].do \in {"apply", "patch", "forward", "bridge"}
         /\ Setup[x][i].do = "apply" =>
              /\ Setup[x][i].child \in Interceptor /\ Setup[x][i].child \in ChildrenOf(x)
              /\ Setup[x][i].child # x /\ Layer[Setup[x][i].child] < Layer[x]
         /\ Setup[x][i].do = "patch" =>
              /\ Setup[x][i].keys \in Seq(Key) /\ Setup[x][i].keys # <<>>
              /\ Setup[x][i].keys \in Groups
              /\ ToSet(Setup[x][i].keys) \subseteq Replaces(x)
         /\ Setup[x][i].do = "forward" => Forwards(x)
         /\ Setup[x][i].do = "bridge" => x \in Batch
<1>1. Setup[x][i] \in Step
  BY SetupAssumption
<1>2. PICK s : s = Setup[x][i]
  OBVIOUS
<1>3. /\ s.do \in {"apply", "patch", "forward", "bridge"}
      /\ s.do = "apply" => s.child \in Interceptor
      /\ s.do = "patch" => s.keys \in Seq(Key) /\ s.keys # <<>>
  BY <1>1, <1>2 DEF Step
<1>4. s.do = "apply" => s.child \in ChildrenOf(x)
  BY <1>2 DEF ChildrenOf
<1>5. s.do = "apply" => Layer[s.child] < Layer[x] /\ s.child # x
  <2>1. \A y \in Interceptor : ~(Layer[y] < Layer[y])
    BY Layers
  <2>2. QED
    BY <1>3, <1>4, <2>1, Layers
<1>6. s.do = "patch" => s.keys \in Groups
  BY <1>2 DEF Groups
<1>7. s.do = "patch" => ToSet(s.keys) \subseteq Replaces(x)
  BY <1>2 DEF Replaces
<1>8. s.do = "forward" => Forwards(x)
  BY <1>2 DEF Forwards
<1>9. s.do = "bridge" => x \in Batch
  BY <1>2, SetupAssumption
<1>10. QED
  BY <1>2, <1>3, <1>4, <1>5, <1>6, <1>7, <1>8, <1>9

\* What a frame is.
LEMMA FrameParts ==
  ASSUME NEW f \in Frame
  PROVE  /\ f.op \in {"setup", "dispose"} /\ f.of \in Interceptor
         /\ f.op = "setup" => f.owner \in Interceptor /\ f.at \in Nat /\ f.held \in Seq(Key)
         /\ f.op = "dispose" => f.rethrows \in BOOLEAN
  BY DEF Frame

\* The stack without its last one or two frames.
LEMMA Fronts ==
  ASSUME NEW S, NEW s \in Seq(S), s # <<>>
  PROVE  /\ Len(s) \in Nat \ {0} /\ Last(s) = s[Len(s)] /\ Last(s) \in S
         /\ Front(s) \in Seq(S) /\ Len(Front(s)) = Len(s) - 1
         /\ \A i \in 1..Len(s) - 1 : Front(s)[i] = s[i]
         /\ Front(s) = <<>> <=> Len(s) = 1
<1>1. Len(s) \in Nat \ {0} /\ Last(s) = s[Len(s)] /\ s[Len(s)] \in S
  BY DEF Last
<1>2. Front(s) = SubSeq(s, 1, Len(s) - 1)
  BY DEF Front
<1>3. /\ Front(s) \in Seq(S) /\ Len(Front(s)) = Len(s) - 1
      /\ \A i \in 1..Len(s) - 1 : Front(s)[i] = s[i]
  <2>1. Len(s) - 1 \in Nat /\ Len(s) - 1 <= Len(s) /\ 1..Len(s) - 1 \subseteq 1..Len(s)
    BY <1>1
  <2>2. \A i \in 1..Len(s) - 1 : s[i] \in S
    BY <2>1
  <2>3. SubSeq(s, 1, Len(s) - 1) \in Seq(S)
    BY <1>1, <2>1, <2>2, SubSeqProperties
  <2>4. /\ Len(SubSeq(s, 1, Len(s) - 1)) = Len(s) - 1
        /\ \A i \in 1..Len(s) - 1 : SubSeq(s, 1, Len(s) - 1)[i] = s[i]
    <3>1. PICK n \in Nat : n = Len(s) - 1
      BY <2>1
    <3>2. \A i \in 1..n : s[i] \in S
      BY <2>2, <3>1
    <3>3. /\ Len(SubSeq(s, 1, n)) = IF 1 <= n THEN n - 1 + 1 ELSE 0
          /\ \A i \in 1..n - 1 + 1 : SubSeq(s, 1, n)[i] = s[1 + i - 1]
      BY <3>2, SubSeqProperties
    <3>4. /\ Len(SubSeq(s, 1, n)) = n
          /\ \A i \in 1..n : SubSeq(s, 1, n)[i] = s[i]
      BY <3>3
    <3>5. QED
      BY <3>1, <3>4
  <2>5. QED
    BY <1>2, <2>3, <2>4
<1>4. Front(s) = <<>> <=> Len(s) = 1
  BY <1>1, <1>3
<1>5. QED
  BY <1>1, <1>3, <1>4

\* The calls in progress keep their nesting while only the last one changes.
LEMMA NestedKept ==
  ASSUME NEW s \in Seq(Frame), Nested(s), NEW t \in Seq(Frame),
         t # <<>>, Len(t) - 1 <= Len(s),
         \A i \in 1..Len(t) - 1 : t[i] = s[i],
         NEW f, f = t[Len(t)],
         f.op = "setup" => Steps(f),
         \A i \in 1..Len(t) - 1 : Layer[f.of] < Layer[s[i].of],
         Len(t) = 1 => (f.op = "setup" => f.owner = f.of),
         Len(t) > 1 => Calls(s[Len(t) - 1], f)
  PROVE  Nested(t)
<1> DEFINE m == Len(t)
<1>1. m \in Nat \ {0} /\ Len(s) \in Nat /\ DOMAIN t = 1..m /\ DOMAIN s = 1..Len(s)
  OBVIOUS
<1>2. m - 1 <= Len(s) /\ (\A i \in 1..m - 1 : t[i] = s[i]) /\ f = t[m]
  OBVIOUS
<1> HIDE DEF m
<1>3. \A i \in 1..m - 1 : i \in DOMAIN s
  BY <1>1, <1>2
<1>4. \A i \in DOMAIN t : t[i].op = "setup" => Steps(t[i])
  <2>1. \A i \in 1..m : i \in 1..m - 1 \/ i = m
    BY <1>1
  <2>2. QED
    BY <1>1, <1>2, <1>3, <2>1 DEF Nested
<1>5. \A i, j \in DOMAIN t : i < j => Layer[t[j].of] < Layer[t[i].of]
  <2> SUFFICES ASSUME NEW i \in 1..m, NEW j \in 1..m, i < j
               PROVE  Layer[t[j].of] < Layer[t[i].of]
    BY <1>1
  <2>1. i \in 1..m - 1
    BY <1>1
  <2>2. CASE j = m
    BY <1>2, <2>1, <2>2 DEF m
  <2>3. CASE j # m
    <3>1. j \in 1..m - 1
      BY <1>1, <2>3
    <3>2. QED
      BY <1>2, <1>3, <2>1, <3>1 DEF Nested
  <2>4. QED
    BY <2>2, <2>3
<1>6. \A i \in DOMAIN t : i < Len(t) => Calls(t[i], t[i + 1])
  <2> SUFFICES ASSUME NEW i \in 1..m, i < m
               PROVE  Calls(t[i], t[i + 1])
    BY <1>1 DEF m
  <2>1. i \in 1..m - 1 /\ i \in DOMAIN s
    BY <1>1, <1>3
  <2>2. CASE i + 1 = m
    <3>1. i = m - 1 /\ m > 1
      BY <1>1, <2>2
    <3>2. QED
      BY <1>2, <2>1, <2>2, <3>1 DEF m
  <2>3. CASE i + 1 # m
    <3>1. i + 1 \in 1..m - 1 /\ i < Len(s)
      BY <1>1, <1>2, <2>1, <2>3
    <3>2. QED
      BY <1>2, <2>1, <3>1 DEF Nested
  <2>4. QED
    BY <2>2, <2>3
<1>7. t # <<>> /\ t[1].op = "setup" => t[1].owner = t[1].of
  <2>1. CASE m = 1
    BY <1>2, <2>1 DEF m
  <2>2. CASE m # 1
    <3>1. 1 \in 1..m - 1 /\ 1 \in DOMAIN s
      BY <1>1, <1>3, <2>2
    <3>2. s # <<>>
      BY <1>1, <3>1
    <3>3. QED
      BY <1>2, <3>1, <3>2 DEF Nested
  <2>3. QED
    BY <2>1, <2>2
<1>8. QED
  BY <1>4, <1>5, <1>6, <1>7 DEF Nested

\* The frame of a setup() that has come to its next step.
LEMMA AdvancedParts ==
  ASSUME NEW f \in Frame, f.op = "setup", Steps(f), f.at <= Len(Setup[f.of])
  PROVE  /\ Advanced(f) \in Frame /\ Advanced(f).op = "setup" /\ Advanced(f).of = f.of
         /\ Advanced(f).owner = f.owner /\ Advanced(f).at = f.at + 1
         /\ Advanced(f).held = <<>> /\ Steps(Advanced(f))
<1>1. f \in [op: {"setup"}, of: Interceptor, owner: Interceptor, at: Nat, held: Seq(Key)]
  BY DEF Frame
<1>2. PICK g : g = [f EXCEPT !.at = f.at + 1, !.held = <<>>]
  OBVIOUS
<1>3. g = Advanced(f)
  BY <1>2 DEF Advanced
<1>4. /\ g \in [op: {"setup"}, of: Interceptor, owner: Interceptor, at: Nat, held: Seq(Key)]
      /\ g.of = f.of /\ g.owner = f.owner /\ g.at = f.at + 1 /\ g.held = <<>>
  <2>1. f.at + 1 \in Nat
    BY <1>1
  <2>2. PICK at \in Nat : at = f.at + 1
    BY <2>1
  <2>3. PICK none \in Seq(Key) : none = <<>>
    BY EmptyOrder
  <2>4. g = [f EXCEPT !.at = at, !.held = none]
    BY <1>2, <2>2, <2>3
  <2>5. PICK h : h = [f EXCEPT !.at = at]
    OBVIOUS
  <2>6. h \in [op: {"setup"}, of: Interceptor, owner: Interceptor, at: Nat, held: Seq(Key)]
    BY <1>1, <2>5
  <2>7. h.of = f.of /\ h.owner = f.owner /\ h.at = at
    BY <1>1, <2>5
  <2>8. g = [h EXCEPT !.held = none]
    BY <2>4, <2>5
  <2>9. g \in [op: {"setup"}, of: Interceptor, owner: Interceptor, at: Nat, held: Seq(Key)]
    BY <2>6, <2>8
  <2>10. g.of = h.of /\ g.owner = h.owner /\ g.at = h.at /\ g.held = none
    BY <2>6, <2>8
  <2>11. QED
    BY <2>2, <2>3, <2>7, <2>9, <2>10
<1>5. g \in Frame /\ g.op = "setup"
  BY <1>4 DEF Frame
<1>6. Steps(g)
  <2>1. g.at \in 1..Len(Setup[g.of]) + 1
    <3>1. f.of \in Interceptor /\ Len(Setup[f.of]) \in Nat
      BY <1>1, SetupAssumption
    <3>2. QED
      BY <1>1, <1>4, <3>1
  <2>2. AtPatch(g) => Len(g.held) < Len(Setup[g.of][g.at].keys)
    <3> SUFFICES ASSUME AtPatch(g)
                 PROVE  0 < Len(Setup[g.of][g.at].keys)
      BY <1>4
    <3>1. g.of \in Interceptor /\ g.at \in DOMAIN Setup[g.of]
      BY <1>1, <1>4, <2>1, SetupAssumption DEF AtPatch
    <3>2. PICK keys : keys = Setup[g.of][g.at].keys
      OBVIOUS
    <3>3. keys \in Seq(Key) /\ keys # <<>>
      BY <3>1, <3>2, StepParts DEF AtPatch
    <3>4. QED
      BY <3>2, <3>3
  <2>3. \A n \in DOMAIN g.held : g.held[n] = Setup[g.of][g.at].keys[n]
    BY <1>4
  <2>4. QED
    BY <1>4, <2>1, <2>2, <2>3 DEF Steps
<1>7. QED
  BY <1>3, <1>4, <1>5, <1>6

\* A sequence is its front and its last element.
LEMMA FrontOrder ==
  ASSUME NEW S, NEW s \in Seq(S), s # <<>>
  PROVE  /\ Front(s) \in Seq(S) /\ Last(s) \in S
         /\ ToSet(s) = ToSet(Front(s)) \cup {Last(s)}
         /\ \A a, b : Precedes(s, a, b) <=>
              Precedes(Front(s), a, b) \/ (a \in ToSet(Front(s)) /\ b = Last(s))
<1>1. PICK t \in Seq(S), e \in S : t = Front(s) /\ e = Last(s)
  BY Fronts
<1>2. Append(t, e) = s
  <2>1. Len(t) = Len(s) - 1 /\ \A i \in 1..Len(s) - 1 : t[i] = s[i]
    BY <1>1, Fronts
  <2>2. Len(s) \in Nat \ {0} /\ e = s[Len(s)]
    BY <1>1, Fronts
  <2>3. PICK u \in Seq(S) : u = Append(t, e)
    BY AppendOrder
  <2>4. Len(u) = Len(s)
    BY <2>1, <2>2, <2>3
  <2>5. \A i \in 1..Len(s) : u[i] = s[i]
    <3> SUFFICES ASSUME NEW i \in 1..Len(s)
                 PROVE  u[i] = s[i]
      OBVIOUS
    <3>1. CASE i = Len(s)
      BY <2>1, <2>2, <2>3, <3>1
    <3>2. CASE i # Len(s)
      <4>1. i \in 1..Len(s) - 1 /\ i \in 1..Len(t)
        BY <2>1, <2>2, <3>2
      <4>2. u[i] = t[i]
        BY <2>3, <4>1
      <4>3. QED
        BY <2>1, <4>1, <4>2
    <3>3. QED
      BY <3>1, <3>2
  <2>6. u = s
    BY <2>4, <2>5
  <2>7. QED
    BY <2>3, <2>6
<1>3. /\ ToSet(Append(t, e)) = ToSet(t) \cup {e}
      /\ \A a, b : Precedes(Append(t, e), a, b) <=>
           Precedes(t, a, b) \/ (a \in ToSet(t) /\ b = e)
  BY AppendOrder
<1>4. QED
  BY <1>1, <1>2, <1>3

\* A call that begins, within those in progress.
LEMMA Push ==
  ASSUME NEW s \in Seq(Frame), Nested(s), NEW g \in Frame,
         g.op = "setup" => Steps(g),
         s = <<>> => (g.op = "setup" => g.owner = g.of),
         s # <<>> => Calls(Last(s), g)
  PROVE  /\ Append(s, g) \in Seq(Frame) /\ Nested(Append(s, g)) /\ Append(s, g) # <<>>
         /\ ToSet(Append(s, g)) = ToSet(s) \cup {g}
         /\ \A f \in ToSet(s) : Layer[g.of] < Layer[f.of]
<1>1. /\ Append(s, g) # <<>>
      /\ ToSet(Append(s, g)) = ToSet(s) \cup {g}
  BY AppendOrder
<1>2. PICK t \in Seq(Frame) : t = Append(s, g)
  BY AppendOrder
<1>3. /\ Len(s) \in Nat /\ Len(t) = Len(s) + 1 /\ t[Len(t)] = g /\ DOMAIN s = 1..Len(s)
      /\ \A i \in 1..Len(s) : t[i] = s[i]
  BY <1>2
<1>4. \A i \in 1..Len(s) : Layer[g.of] < Layer[s[i].of]
  <2> SUFFICES ASSUME NEW i \in 1..Len(s)
               PROVE  Layer[g.of] < Layer[s[i].of]
    OBVIOUS
  <2>0. s # <<>> /\ i \in Nat /\ 1 <= i /\ i <= Len(s) /\ Len(s) \in Nat
    BY <1>3
  <2>1. s # <<>> /\ Len(s) \in 1..Len(s) /\ Last(s) = s[Len(s)]
    <3>1. Last(s) = s[Len(s)]
      BY <2>0, Fronts
    <3>2. Len(s) \in 1..Len(s)
      BY <1>3, <2>0
    <3>3. QED
      BY <2>0, <3>1, <3>2
  <2>2. /\ s[i] \in Frame /\ s[Len(s)] \in Frame /\ s[i].of \in Interceptor
        /\ s[Len(s)].of \in Interceptor /\ g.of \in Interceptor
    BY <2>1, FrameParts
  <2>3. g.of \in ChildrenOf(s[Len(s)].of)
    BY <2>1 DEF Calls
  <2>4. Layer[g.of] < Layer[s[Len(s)].of]
    BY <2>2, <2>3, Layers
  <2>5. i # Len(s) => Layer[s[Len(s)].of] < Layer[s[i].of]
    <3>1. i # Len(s) => i < Len(s)
      <4>1. PICK n \in Nat : n = Len(s)
        BY <2>0
      <4>2. i # n => i < n
        BY <2>0, <4>1
      <4>3. QED
        BY <4>1, <4>2
    <3>2. QED
      BY <1>3, <2>1, <3>1 DEF Nested
  <2>6. Layer[g.of] \in Int /\ Layer[s[Len(s)].of] \in Int /\ Layer[s[i].of] \in Int
    BY <2>2, Layers
  <2>7. QED
    BY <2>4, <2>5, <2>6
<1>5. \A f \in ToSet(s) : Layer[g.of] < Layer[f.of]
  BY <1>3, <1>4 DEF ToSet
<1>6. Nested(t)
  <2>1. t # <<>> /\ Len(t) - 1 = Len(s)
    BY <1>3
  <2>2. Len(t) - 1 <= Len(s) /\ \A i \in 1..Len(t) - 1 : t[i] = s[i] /\ Layer[g.of] < Layer[s[i].of]
    BY <1>3, <1>4, <2>1
  <2>3. Len(t) = 1 => (g.op = "setup" => g.owner = g.of)
    BY <1>3
  <2>4. Len(t) > 1 => Calls(s[Len(t) - 1], g)
    <3>1. Len(t) > 1 => s # <<>>
      BY <1>3
    <3>2. s # <<>> => Last(s) = s[Len(s)]
      BY Fronts
    <3>3. QED
      BY <2>1, <3>1, <3>2
  <2>5. QED
    BY <1>3, <2>1, <2>2, <2>3, <2>4, NestedKept
<1>7. QED
  BY <1>1, <1>2, <1>5, <1>6

\* A call that ends, and what is known of it and of its caller.
LEMMA Pop ==
  ASSUME NEW s \in Seq(Frame), Nested(s), s # <<>>
  PROVE  /\ Front(s) \in Seq(Frame) /\ Nested(Front(s)) /\ Last(s) \in Frame
         /\ ToSet(s) = ToSet(Front(s)) \cup {Last(s)}
         /\ \A f \in ToSet(Front(s)) : Layer[Last(s).of] < Layer[f.of] /\ f.of # Last(s).of
         /\ Last(s).op = "setup" => Steps(Last(s))
         /\ Front(s) = <<>> /\ Last(s).op = "setup" => Last(s).owner = Last(s).of
         /\ Front(s) # <<>> => /\ Calls(Last(Front(s)), Last(s))
                               /\ Last(Front(s)) \in ToSet(Front(s))
<1>1. /\ Front(s) \in Seq(Frame) /\ Last(s) \in Frame
      /\ ToSet(s) = ToSet(Front(s)) \cup {Last(s)}
  BY FrontOrder
<1>2. PICK t \in Seq(Frame) : t = Front(s)
  BY <1>1
<1>3. /\ Len(s) \in Nat \ {0} /\ Last(s) = s[Len(s)] /\ Len(t) = Len(s) - 1
      /\ \A i \in 1..Len(s) - 1 : t[i] = s[i]
      /\ t = <<>> <=> Len(s) = 1
  BY <1>2, Fronts
<1>4. DOMAIN s = 1..Len(s) /\ DOMAIN t = 1..Len(s) - 1 /\ Len(s) \in 1..Len(s)
      /\ \A i \in 1..Len(s) - 1 : i \in 1..Len(s) /\ i < Len(s)
  BY <1>3
<1>5. \A f \in ToSet(t) : Layer[Last(s).of] < Layer[f.of] /\ f.of # Last(s).of
  <2>1. \A i \in 1..Len(s) - 1 : Layer[Last(s).of] < Layer[s[i].of]
    BY <1>3, <1>4 DEF Nested
  <2>2. Layer[Last(s).of] \in Int
    <3>1. PICK y \in Interceptor : y = Last(s).of
      BY <1>1, FrameParts
    <3>2. Layer[y] \in Int
      BY Layers
    <3>3. QED
      BY <3>1, <3>2
  <2>3. ~(Layer[Last(s).of] < Layer[Last(s).of])
    BY <2>2
  <2>4. \A f \in ToSet(t) : Layer[Last(s).of] < Layer[f.of]
    <3>1. SUFFICES ASSUME NEW i \in DOMAIN t
                   PROVE  Layer[Last(s).of] < Layer[t[i].of]
      BY DEF ToSet
    <3>2. i \in 1..Len(s) - 1 /\ t[i] = s[i]
      BY <1>3, <1>4
    <3>3. QED
      BY <2>1, <3>2
  <2>5. QED
    BY <2>3, <2>4
<1>6. Last(s).op = "setup" => Steps(Last(s))
  BY <1>3, <1>4 DEF Nested
<1>7. t = <<>> /\ Last(s).op = "setup" => Last(s).owner = Last(s).of
  BY <1>3 DEF Nested
<1>8. t # <<>> => Calls(Last(t), Last(s)) /\ Last(t) \in ToSet(t)
  <2> SUFFICES ASSUME t # <<>>
               PROVE  Calls(Last(t), Last(s)) /\ Last(t) \in ToSet(t)
    OBVIOUS
  <2>1. Last(t) = t[Len(s) - 1] /\ Len(s) - 1 \in 1..Len(s) - 1
    <3>1. Last(t) = t[Len(t)] /\ Len(t) \in Nat \ {0}
      BY <1>2, Fronts
    <3>2. Len(t) \in 1..Len(t)
      BY <3>1
    <3>3. QED
      BY <1>3, <3>1, <3>2
  <2>2. Last(t) = s[Len(s) - 1] /\ Last(t) \in ToSet(t)
    BY <1>3, <1>4, <2>1 DEF ToSet
  <2>3. Calls(s[Len(s) - 1], s[Len(s) - 1 + 1])
    BY <1>4, <2>1 DEF Nested
  <2>4. Len(s) - 1 + 1 = Len(s)
    BY <1>3
  <2>5. QED
    BY <1>3, <2>2, <2>3, <2>4
<1>9. Nested(t)
  <2>1. \A i \in DOMAIN t : t[i].op = "setup" => Steps(t[i])
    BY <1>3, <1>4 DEF Nested
  <2>2. \A i, j \in DOMAIN t : i < j => Layer[t[j].of] < Layer[t[i].of]
    BY <1>3, <1>4 DEF Nested
  <2>3. \A i \in DOMAIN t : i < Len(t) => Calls(t[i], t[i + 1])
    <3>1. \A i \in DOMAIN t : i < Len(t) => i + 1 \in 1..Len(s) - 1 /\ i < Len(s)
      BY <1>3, <1>4
    <3>2. QED
      BY <1>3, <1>4, <3>1 DEF Nested
  <2>4. t # <<>> /\ t[1].op = "setup" => t[1].owner = t[1].of
    <3>1. t # <<>> => 1 \in 1..Len(s) - 1
      BY <1>3
    <3>2. QED
      BY <1>3, <3>1 DEF Nested
  <2>5. QED
    BY <2>1, <2>2, <2>3, <2>4 DEF Nested
<1>10. QED
  BY <1>1, <1>2, <1>5, <1>6, <1>7, <1>8, <1>9

\* The last call goes on in another way: setup() comes to another step, or fails.
LEMMA Replace ==
  ASSUME NEW s \in Seq(Frame), Nested(s), s # <<>>, Last(s).op = "setup",
         NEW g \in Frame, g.of = Last(s).of,
         g.op = "setup" => Steps(g) /\ g.owner = Last(s).owner,
         g.op = "dispose" => g.rethrows
  PROVE  /\ Append(Front(s), g) \in Seq(Frame) /\ Nested(Append(Front(s), g))
         /\ Append(Front(s), g) # <<>>
         /\ ToSet(Append(Front(s), g)) = ToSet(Front(s)) \cup {g}
<1>1. PICK t \in Seq(Frame) : t = Front(s) /\ Nested(t)
  BY Pop
<1>2. t = <<>> => (g.op = "setup" => g.owner = g.of)
  BY <1>1, Pop
<1>3. t # <<>> => Calls(Last(t), g)
  <2> SUFFICES ASSUME t # <<>>
               PROVE  Calls(Last(t), g)
    OBVIOUS
  <2>1. Calls(Last(t), Last(s))
    BY <1>1, Pop
  <2>2. Last(t).op # "dispose"
    BY <2>1 DEF Calls
  <2>3. QED
    BY <2>1, <2>2 DEF Calls
<1>4. QED
  BY <1>1, <1>2, <1>3, Push

\* The call that is running and those that wait for it.
LEMMA TopCall ==
  ASSUME TypeOK, Nested(stack), stack # <<>>
  PROVE  /\ stack \in Seq(Frame) /\ Current \in Frame /\ Current.of \in Interceptor
         /\ Callers \in Seq(Frame) /\ Nested(Callers)
         /\ ToSet(stack) = ToSet(Callers) \cup {Current}
         /\ \A f \in ToSet(Callers) :
              /\ f \in Frame /\ f.of \in Interceptor
              /\ Layer[Current.of] < Layer[f.of] /\ f.of # Current.of
         /\ Current.op = "setup" =>
              /\ Steps(Current) /\ Current.owner \in Interceptor
              /\ Current.at \in Nat /\ Current.held \in Seq(Key)
         /\ Callers = <<>> /\ Current.op = "setup" => Current.owner = Current.of
         /\ Callers # <<>> => /\ Calls(Last(Callers), Current)
                              /\ Last(Callers) \in ToSet(Callers)
<1>1. stack \in Seq(Frame)
  BY DEF TypeOK
<1>2. /\ Current \in Frame /\ Callers \in Seq(Frame) /\ Nested(Callers)
      /\ ToSet(stack) = ToSet(Callers) \cup {Current}
      /\ \A f \in ToSet(Callers) : Layer[Current.of] < Layer[f.of] /\ f.of # Current.of
      /\ Current.op = "setup" => Steps(Current)
      /\ Callers = <<>> /\ Current.op = "setup" => Current.owner = Current.of
      /\ Callers # <<>> => /\ Calls(Last(Callers), Current)
                           /\ Last(Callers) \in ToSet(Callers)
  BY <1>1, Pop DEF Current, Callers
<1>3. \A f \in ToSet(Callers) : f \in Frame /\ f.of \in Interceptor
  <2>1. ToSet(Callers) \subseteq Frame
    BY <1>2, ElementsOf
  <2>2. QED
    BY <2>1, FrameParts
<1>4. /\ Current.of \in Interceptor
      /\ Current.op = "setup" => /\ Current.owner \in Interceptor
                                 /\ Current.at \in Nat /\ Current.held \in Seq(Key)
  BY <1>2, FrameParts
<1>5. QED
  BY <1>1, <1>2, <1>3, <1>4

\* A setup() goes on to its next step.
LEMMA Advancing ==
  ASSUME NEW s \in Seq(Frame), Nested(s), s # <<>>, Last(s).op = "setup",
         Last(s).at <= Len(Setup[Last(s).of])
  PROVE  /\ Append(Front(s), Advanced(Last(s))) \in Seq(Frame)
         /\ Nested(Append(Front(s), Advanced(Last(s))))
         /\ ToSet(Append(Front(s), Advanced(Last(s))))
              = ToSet(Front(s)) \cup {Advanced(Last(s))}
         /\ Advanced(Last(s)) \in Frame /\ Advanced(Last(s)).op = "setup"
         /\ Advanced(Last(s)).of = Last(s).of /\ Advanced(Last(s)).owner = Last(s).owner
         /\ Advanced(Last(s)).at = Last(s).at + 1 /\ Advanced(Last(s)).held = <<>>
         /\ Append(Front(s), Advanced(Last(s))) # <<>>
<1>1. Last(s) \in Frame /\ Steps(Last(s))
  BY Pop
<1>2. PICK g : g = Advanced(Last(s))
  OBVIOUS
<1>3. /\ g \in Frame /\ g.op = "setup" /\ g.of = Last(s).of
      /\ g.owner = Last(s).owner /\ g.at = Last(s).at + 1
      /\ g.held = <<>> /\ Steps(g)
  <2>1. PICK f \in Frame : f = Last(s)
    BY <1>1
  <2>2. QED
    BY <1>1, <1>2, <2>1, AdvancedParts
<1>4. /\ Append(Front(s), g) \in Seq(Frame) /\ Nested(Append(Front(s), g))
      /\ Append(Front(s), g) # <<>>
      /\ ToSet(Append(Front(s), g)) = ToSet(Front(s)) \cup {g}
  BY <1>3, Replace
<1>5. QED
  BY <1>2, <1>3, <1>4

\* Frames of new calls.
LEMMA NewFrames ==
  /\ \A x, o \in Interceptor :
       /\ SetupFrame(x, o) \in Frame /\ SetupFrame(x, o).op = "setup"
       /\ SetupFrame(x, o).of = x /\ SetupFrame(x, o).owner = o
       /\ SetupFrame(x, o).at = 1 /\ SetupFrame(x, o).held = <<>>
       /\ Steps(SetupFrame(x, o))
  /\ \A x \in Interceptor : \A r \in BOOLEAN :
       /\ DisposeFrame(x, r) \in Frame /\ DisposeFrame(x, r).op = "dispose"
       /\ DisposeFrame(x, r).of = x /\ DisposeFrame(x, r).rethrows = r
<1>1. ASSUME NEW x \in Interceptor, NEW o \in Interceptor
      PROVE  /\ SetupFrame(x, o) \in Frame /\ SetupFrame(x, o).op = "setup"
             /\ SetupFrame(x, o).of = x /\ SetupFrame(x, o).owner = o
             /\ SetupFrame(x, o).at = 1 /\ SetupFrame(x, o).held = <<>>
             /\ Steps(SetupFrame(x, o))
  <2>1. PICK g : g = SetupFrame(x, o)
    OBVIOUS
  <2>2. PICK none \in Seq(Key) : none = <<>>
    BY EmptyOrder
  <2>3. g = [op |-> "setup", of |-> x, owner |-> o, at |-> 1, held |-> none]
    BY <2>1, <2>2 DEF SetupFrame
  <2>4. g \in [op: {"setup"}, of: Interceptor, owner: Interceptor, at: Nat, held: Seq(Key)]
    BY <2>3
  <2>5. g.op = "setup" /\ g.of = x /\ g.owner = o /\ g.at = 1 /\ g.held = <<>>
    BY <2>2, <2>3
  <2>6. Steps(g)
    <3>1. Len(Setup[g.of]) \in Nat /\ DOMAIN Setup[g.of] = 1..Len(Setup[g.of])
      BY <2>5, SetupAssumption
    <3>2. g.at \in 1..Len(Setup[g.of]) + 1
      BY <2>5, <3>1
    <3>3. AtPatch(g) => Len(g.held) < Len(Setup[g.of][g.at].keys)
      <4> SUFFICES ASSUME AtPatch(g)
                   PROVE  0 < Len(Setup[g.of][g.at].keys)
        BY <2>5
      <4>1. g.at \in DOMAIN Setup[g.of]
        BY <2>5, <3>1 DEF AtPatch
      <4>2. PICK keys : keys = Setup[g.of][g.at].keys
        OBVIOUS
      <4>3. keys \in Seq(Key) /\ keys # <<>>
        BY <2>5, <4>1, <4>2, StepParts DEF AtPatch
      <4>4. QED
        BY <4>2, <4>3
    <3>4. \A n \in DOMAIN g.held : g.held[n] = Setup[g.of][g.at].keys[n]
      BY <2>5
    <3>5. QED
      BY <2>5, <3>2, <3>3, <3>4 DEF Steps
  <2>7. QED
    BY <2>1, <2>4, <2>5, <2>6 DEF Frame
<1>2. ASSUME NEW x \in Interceptor, NEW r \in BOOLEAN
      PROVE  /\ DisposeFrame(x, r) \in Frame /\ DisposeFrame(x, r).op = "dispose"
             /\ DisposeFrame(x, r).of = x /\ DisposeFrame(x, r).rethrows = r
  BY DEF DisposeFrame, Frame
<1>3. QED
  BY <1>1, <1>2

\* A setup() fails and is undone.
LEMMA Failing ==
  ASSUME NEW s \in Seq(Frame), Nested(s), s # <<>>, Last(s).op = "setup"
  PROVE  /\ Append(Front(s), DisposeFrame(Last(s).of, TRUE)) \in Seq(Frame)
         /\ Nested(Append(Front(s), DisposeFrame(Last(s).of, TRUE)))
         /\ ToSet(Append(Front(s), DisposeFrame(Last(s).of, TRUE)))
              = ToSet(Front(s)) \cup {DisposeFrame(Last(s).of, TRUE)}
         /\ Append(Front(s), DisposeFrame(Last(s).of, TRUE)) # <<>>
<1>1. Last(s) \in Frame /\ Last(s).of \in Interceptor
  BY Pop, FrameParts
<1>2. PICK g \in Frame : /\ g = DisposeFrame(Last(s).of, TRUE)
                         /\ g.op = "dispose" /\ g.of = Last(s).of /\ g.rethrows
  BY <1>1, NewFrames
<1>3. /\ Append(Front(s), g) \in Seq(Frame) /\ Nested(Append(Front(s), g))
      /\ Append(Front(s), g) # <<>>
      /\ ToSet(Append(Front(s), g)) = ToSet(Front(s)) \cup {g}
  BY <1>2, Replace
<1>4. QED
  BY <1>2, <1>3

\* The step of a setup() that is running.
LEMMA RunningStep ==
  ASSUME TypeOK, Nested(stack), NEW do, AtStep(do)
  PROVE  /\ stack # <<>> /\ Current.op = "setup" /\ Current.at <= Len(Setup[Current.of])
         /\ Current.at \in DOMAIN Setup[Current.of] /\ Current.of \in Interceptor
         /\ TheStep = Setup[Current.of][Current.at] /\ TheStep.do = do
<1>1. /\ stack # <<>> /\ Current.op = "setup" /\ Current.at <= Len(Setup[Current.of])
      /\ TheStep = Setup[Current.of][Current.at] /\ TheStep.do = do
  BY DEF AtStep, Running, Current, TheStep
<1>2. Current.of \in Interceptor /\ Steps(Current)
  BY <1>1, TopCall
<1>3. Current.at \in 1..Len(Setup[Current.of]) + 1
  BY <1>2 DEF Steps
<1>4. Setup[Current.of] \in Seq(Step)
  BY <1>2, SetupAssumption
<1>5. Current.at \in DOMAIN Setup[Current.of]
  BY <1>1, <1>3, <1>4
<1>6. QED
  BY <1>1, <1>2, <1>5

\* The next key to replace of a group, and the group as far as it is replaced then.
LEMMA NextOfGroup ==
  ASSUME TypeOK, Nested(stack), AtStep("patch"),
         NEW keys, keys = TheStep.keys, NEW held, held = Current.held
  PROVE  /\ keys \in Seq(Key) /\ keys \in Groups /\ ToSet(keys) \subseteq Replaces(Current.of)
         /\ held \in Seq(Key) /\ Append(held, NextKey) \in Seq(Key)
         /\ Len(held) \in Nat /\ Len(held) + 1 \in DOMAIN keys
         /\ NextKey = keys[Len(held) + 1] /\ NextKey \in Key
         /\ \A n \in DOMAIN held : n \in DOMAIN keys /\ held[n] = keys[n] /\ n < Len(held) + 1
         /\ ToSet(held) = {keys[n] : n \in {m \in DOMAIN keys : m < Len(held) + 1}}
         /\ Len(Append(held, NextKey)) <= Len(keys)
         /\ \A n \in DOMAIN Append(held, NextKey) : Append(held, NextKey)[n] = keys[n]
         /\ Append(held, NextKey) = keys <=> Len(held) + 1 = Len(keys)
<1>1. /\ stack # <<>> /\ Current.op = "setup" /\ Current.of \in Interceptor
      /\ Current.at \in DOMAIN Setup[Current.of] /\ Current.at <= Len(Setup[Current.of])
      /\ TheStep = Setup[Current.of][Current.at] /\ TheStep.do = "patch"
  BY RunningStep
<1>2. /\ keys \in Seq(Key) /\ keys \in Groups /\ ToSet(keys) \subseteq Replaces(Current.of)
  BY <1>1, StepParts
<1>3. held \in Seq(Key) /\ Steps(Current) /\ AtPatch(Current)
  BY <1>1, TopCall DEF AtPatch
<1>4. /\ Len(held) < Len(keys)
      /\ \A n \in DOMAIN held : held[n] = keys[n]
  BY <1>1, <1>3 DEF Steps
<1>5. /\ Len(held) \in Nat /\ Len(keys) \in Nat /\ DOMAIN held = 1..Len(held)
      /\ DOMAIN keys = 1..Len(keys)
  BY <1>2, <1>3
<1>6. Len(held) + 1 \in DOMAIN keys
  BY <1>4, <1>5
<1>7. NextKey = keys[Len(held) + 1]
  BY DEF NextKey
<1>8. NextKey \in Key
  <2>1. PICK n \in DOMAIN keys : n = Len(held) + 1
    BY <1>6
  <2>2. keys[n] \in Key
    BY <1>2
  <2>3. QED
    BY <1>7, <2>1, <2>2
<1>9. \A n \in DOMAIN held : n \in DOMAIN keys /\ held[n] = keys[n] /\ n < Len(held) + 1
  BY <1>4, <1>5
<1>10. ToSet(held) = {keys[n] : n \in {m \in DOMAIN keys : m < Len(held) + 1}}
  <2>1. \A m \in DOMAIN keys : m < Len(held) + 1 => m \in DOMAIN held
    BY <1>5
  <2>2. QED
    BY <1>9, <2>1 DEF ToSet
<1>11. PICK new \in Seq(Key) : new = Append(held, NextKey)
  BY <1>3, <1>8, AppendOrder
<1>12. /\ Len(new) = Len(held) + 1 /\ DOMAIN new = 1..Len(held) + 1
       /\ new[Len(held) + 1] = NextKey
       /\ \A n \in 1..Len(held) : new[n] = held[n]
  BY <1>3, <1>5, <1>8, <1>11
<1>13. Len(new) <= Len(keys)
  BY <1>4, <1>5, <1>12
<1>14. \A n \in DOMAIN new : new[n] = keys[n]
  <2>1. \A n \in DOMAIN new : n \in 1..Len(held) \/ n = Len(held) + 1
    BY <1>5, <1>12
  <2>2. QED
    BY <1>5, <1>7, <1>9, <1>12, <2>1
<1>15. new = keys <=> Len(held) + 1 = Len(keys)
  BY <1>2, <1>5, <1>12, <1>14
<1>16. QED
  BY <1>2, <1>3, <1>5, <1>6, <1>7, <1>8, <1>9, <1>10, <1>11, <1>13, <1>14, <1>15

\* One more key of the group is replaced.
LEMMA HoldingMore ==
  ASSUME TypeOK, Nested(stack), AtStep("patch"),
         NEW new, new = Append(Current.held, NextKey), new # TheStep.keys,
         NEW g, g = [Current EXCEPT !.held = new]
  PROVE  /\ g \in Frame /\ g.op = "setup" /\ g.of = Current.of /\ g.owner = Current.owner
         /\ g.at = Current.at /\ g.held = new /\ Steps(g)
         /\ Append(Callers, g) \in Seq(Frame) /\ Nested(Append(Callers, g))
         /\ Append(Callers, g) # <<>>
         /\ ToSet(Append(Callers, g)) = ToSet(Callers) \cup {g}
<1>1. /\ stack # <<>> /\ Current.op = "setup" /\ Current.of \in Interceptor
      /\ TheStep = Setup[Current.of][Current.at] /\ TheStep.do = "patch"
      /\ Current.at <= Len(Setup[Current.of])
  BY RunningStep
<1>2. stack \in Seq(Frame) /\ Current \in Frame /\ Steps(Current)
  BY <1>1, TopCall
<1>3. PICK keys : keys = TheStep.keys
  OBVIOUS
<1>4. PICK held : held = Current.held
  OBVIOUS
<1>5. /\ new \in Seq(Key) /\ Len(new) <= Len(keys) /\ keys \in Seq(Key)
      /\ \A n \in DOMAIN new : new[n] = keys[n]
      /\ new = keys <=> Len(held) + 1 = Len(keys)
      /\ Len(new) = Len(held) + 1
  <2>1. /\ new \in Seq(Key) /\ Len(new) <= Len(keys) /\ keys \in Seq(Key)
        /\ \A n \in DOMAIN new : new[n] = keys[n]
        /\ new = keys <=> Len(held) + 1 = Len(keys)
        /\ held \in Seq(Key) /\ NextKey \in Key
    BY <1>3, <1>4, NextOfGroup
  <2>2. Len(new) = Len(held) + 1
    BY <1>4, <2>1
  <2>3. QED
    BY <2>1, <2>2
<1>6. /\ g \in [op: {"setup"}, of: Interceptor, owner: Interceptor, at: Nat, held: Seq(Key)]
      /\ g.of = Current.of /\ g.owner = Current.owner /\ g.at = Current.at /\ g.held = new
  <2>1. Current \in [op: {"setup"}, of: Interceptor, owner: Interceptor, at: Nat, held: Seq(Key)]
    BY <1>1, <1>2 DEF Frame
  <2>2. QED
    BY <1>5, <2>1
<1>7. g \in Frame /\ g.op = "setup"
  BY <1>6 DEF Frame
<1>8. Steps(g)
  <2>1. AtPatch(g) /\ Setup[g.of][g.at].keys = keys
    BY <1>1, <1>3, <1>6 DEF AtPatch
  <2>2. Len(new) < Len(keys)
    <3>1. Len(new) \in Nat /\ Len(keys) \in Nat
      BY <1>5
    <3>2. QED
      BY <1>3, <1>5, <3>1
  <2>3. QED
    BY <1>2, <1>5, <1>6, <2>1, <2>2 DEF Steps
<1>9. /\ Append(Callers, g) \in Seq(Frame) /\ Nested(Append(Callers, g))
      /\ Append(Callers, g) # <<>>
      /\ ToSet(Append(Callers, g)) = ToSet(Callers) \cup {g}
  BY <1>1, <1>2, <1>6, <1>7, <1>8, Replace DEF Current, Callers
<1>10. QED
  BY <1>6, <1>7, <1>8, <1>9

-----------------------------------------------------------------------------
(* Types, the nesting of calls and what the subscriptions undo.              *)

Subscriptions ==
  /\ subscriptions \in [Interceptor -> Seq(Subscription)]
  /\ \A x \in Interceptor : \A s \in ToSet(subscriptions[x]) : Undoable(x, s)

\* More subscriptions of one interceptor.
LEMMA Subscribing ==
  ASSUME Subscriptions, NEW x \in Interceptor, NEW undos \in Seq(Subscription),
         subscriptions' = Subscribed(x, undos)
  PROVE  /\ subscriptions' \in [Interceptor -> Seq(Subscription)]
         /\ subscriptions'[x] = subscriptions[x] \o undos
         /\ ToSet(subscriptions'[x]) = ToSet(subscriptions[x]) \cup ToSet(undos)
         /\ \A a, b : Precedes(subscriptions'[x], a, b) <=>
              \/ Precedes(subscriptions[x], a, b) \/ Precedes(undos, a, b)
              \/ (a \in ToSet(subscriptions[x]) /\ b \in ToSet(undos))
         /\ \A y \in Interceptor : y # x => subscriptions'[y] = subscriptions[y]
         /\ (\A s \in ToSet(undos) : Undoable(x, s)) => Subscriptions'
<1>1. PICK old \in Seq(Subscription) : old = subscriptions[x]
  BY DEF Subscriptions
<1>2. PICK new \in Seq(Subscription) : new = old \o undos
  BY ConcatOrder
<1>3. subscriptions' = [subscriptions EXCEPT ![x] = new]
  BY <1>1, <1>2 DEF Subscribed
<1>4. subscriptions' \in [Interceptor -> Seq(Subscription)] /\ subscriptions'[x] = new
  BY <1>3 DEF Subscriptions
<1>5. \A y \in Interceptor : y # x => subscriptions'[y] = subscriptions[y]
  BY <1>3 DEF Subscriptions
<1>6. /\ ToSet(new) = ToSet(old) \cup ToSet(undos)
      /\ \A a, b : Precedes(new, a, b) <=>
           \/ Precedes(old, a, b) \/ Precedes(undos, a, b)
           \/ (a \in ToSet(old) /\ b \in ToSet(undos))
  BY <1>2, ConcatOrder
<1>7. ASSUME \A s \in ToSet(undos) : Undoable(x, s)
      PROVE  Subscriptions'
  <2>1. \A y \in Interceptor : \A s \in ToSet(subscriptions'[y]) : Undoable(y, s)
    BY <1>1, <1>4, <1>5, <1>6, <1>7 DEF Subscriptions
  <2>2. QED
    BY <1>4, <2>1 DEF Subscriptions, Undoable
<1>8. QED
  BY <1>1, <1>2, <1>4, <1>5, <1>6, <1>7

\* One subscription less.
LEMMA Unsubscribing ==
  ASSUME TypeOK, Nested(stack), Subscriptions, NEW undo, Undoes(undo),
         NEW x, x = Current.of
  PROVE  /\ stack # <<>> /\ Current.op = "dispose" /\ x \in Interceptor
         /\ subscriptions[x] # <<>>
         /\ TheUndo \in Subscription /\ TheUndo.undo = undo /\ Undoable(x, TheUndo)
         /\ subscriptions' \in [Interceptor -> Seq(Subscription)]
         /\ ToSet(subscriptions[x]) = ToSet(subscriptions'[x]) \cup {TheUndo}
         /\ \A a, b : Precedes(subscriptions[x], a, b) <=>
              \/ Precedes(subscriptions'[x], a, b)
              \/ (a \in ToSet(subscriptions'[x]) /\ b = TheUndo)
         /\ \A y \in Interceptor : y # x => subscriptions'[y] = subscriptions[y]
         /\ Subscriptions'
<1>1. /\ stack # <<>> /\ Current.op = "dispose" /\ subscriptions[x] # <<>>
      /\ TheUndo = Last(subscriptions[x]) /\ TheUndo.undo = undo
      /\ subscriptions' = [subscriptions EXCEPT ![x] = Front(@)]
  BY DEF Undoes, Running, Current, TheUndo
<1>2. x \in Interceptor
  BY <1>1, TopCall
<1>3. PICK old \in Seq(Subscription) : old = subscriptions[x]
  BY <1>2 DEF Subscriptions
<1>4. /\ Front(old) \in Seq(Subscription) /\ Last(old) \in Subscription
      /\ ToSet(old) = ToSet(Front(old)) \cup {Last(old)}
      /\ \A a, b : Precedes(old, a, b) <=>
           Precedes(Front(old), a, b) \/ (a \in ToSet(Front(old)) /\ b = Last(old))
  BY <1>1, <1>3, FrontOrder
<1>5. PICK new \in Seq(Subscription) : new = Front(old)
  BY <1>4
<1>6. subscriptions' = [subscriptions EXCEPT ![x] = new]
  BY <1>1, <1>3, <1>5
<1>7. subscriptions' \in [Interceptor -> Seq(Subscription)] /\ subscriptions'[x] = new
  BY <1>2, <1>6 DEF Subscriptions
<1>8. \A y \in Interceptor : y # x => subscriptions'[y] = subscriptions[y]
  BY <1>6 DEF Subscriptions
<1>9. Undoable(x, TheUndo)
  BY <1>1, <1>2, <1>3, <1>4 DEF Subscriptions
<1>10. \A y \in Interceptor : \A s \in ToSet(subscriptions'[y]) : Undoable(y, s)
  BY <1>2, <1>3, <1>4, <1>5, <1>7, <1>8 DEF Subscriptions
<1>11. Subscriptions'
  BY <1>7, <1>10 DEF Subscriptions, Undoable
<1>12. QED
  BY <1>1, <1>2, <1>3, <1>4, <1>5, <1>7, <1>8, <1>9, <1>11

\* The subscriptions that undo one thing.
LEMMA Undos ==
  /\ \A c \in Interceptor :
       /\ [undo |-> "dispose", child |-> c] \in Subscription
       /\ DisposeOf(c) \in Seq(Subscription)
       /\ ToSet(DisposeOf(c)) = {[undo |-> "dispose", child |-> c]}
       /\ \A a, b : ~Precedes(DisposeOf(c), a, b)
  /\ \A u \in {"forward", "bridge"} :
       /\ [undo |-> u] \in Subscription
       /\ <<[undo |-> u]>> \in Seq(Subscription)
       /\ ToSet(<<[undo |-> u]>>) = {[undo |-> u]}
       /\ \A a, b : ~Precedes(<<[undo |-> u]>>, a, b)
<1>1. ASSUME NEW c \in Interceptor
      PROVE  /\ [undo |-> "dispose", child |-> c] \in Subscription
             /\ DisposeOf(c) \in Seq(Subscription)
             /\ ToSet(DisposeOf(c)) = {[undo |-> "dispose", child |-> c]}
             /\ \A a, b : ~Precedes(DisposeOf(c), a, b)
  <2>1. [undo |-> "dispose", child |-> c] \in Subscription
    BY DEF Subscription
  <2>2. PICK s \in Subscription : s = [undo |-> "dispose", child |-> c]
    BY <2>1
  <2>3. /\ <<s>> \in Seq(Subscription) /\ ToSet(<<s>>) = {s}
        /\ \A a, b : ~Precedes(<<s>>, a, b)
    BY SingleOrder
  <2>4. QED
    BY <2>1, <2>2, <2>3 DEF DisposeOf
<1>2. ASSUME NEW u \in {"forward", "bridge"}
      PROVE  /\ [undo |-> u] \in Subscription
             /\ <<[undo |-> u]>> \in Seq(Subscription)
             /\ ToSet(<<[undo |-> u]>>) = {[undo |-> u]}
             /\ \A a, b : ~Precedes(<<[undo |-> u]>>, a, b)
  <2>1. [undo |-> u] \in Subscription
    BY DEF Subscription
  <2>2. PICK s \in Subscription : s = [undo |-> u]
    BY <2>1
  <2>3. /\ <<s>> \in Seq(Subscription) /\ ToSet(<<s>>) = {s}
        /\ \A a, b : ~Precedes(<<s>>, a, b)
    BY SingleOrder
  <2>4. QED
    BY <2>1, <2>2, <2>3
<1>3. QED
  BY <1>1, <1>2

\* The disposal of a child undoes its apply().
LEMMA DisposeUndoable ==
  ASSUME NEW x \in Interceptor, NEW c \in ChildrenOf(x), c \in Interceptor
  PROVE  \A s \in ToSet(DisposeOf(c)) : Undoable(x, s)
<1>1. PICK t : t = [undo |-> "dispose", child |-> c]
  OBVIOUS
<1>2. ToSet(DisposeOf(c)) = {t}
  BY <1>1, Undos
<1>3. t.undo = "dispose" /\ t.child = c
  BY <1>1
<1>4. Undoable(x, t)
  BY <1>3 DEF Undoable
<1>5. QED
  BY <1>2, <1>4

Restores(held) == [i \in DOMAIN held |-> [undo |-> "patch", key |-> held[i]]]

\* The subscriptions that restore a group of keys, in their order.
LEMMA RestoresOrder ==
  ASSUME NEW held \in Seq(Key)
  PROVE  /\ Restores(held) \in Seq(Subscription)
         /\ ToSet(Restores(held)) = {[undo |-> "patch", key |-> k] : k \in ToSet(held)}
         /\ \A a, b \in Key :
              Precedes(Restores(held), [undo |-> "patch", key |-> a], [undo |-> "patch", key |-> b])
                <=> Precedes(held, a, b)
<1>1. PICK undos : undos = Restores(held)
  OBVIOUS
<1>2. /\ DOMAIN undos = DOMAIN held
      /\ \A i \in DOMAIN held : undos[i] = [undo |-> "patch", key |-> held[i]]
  BY <1>1 DEF Restores
<1>3. \A k \in Key : [undo |-> "patch", key |-> k] \in Subscription
  BY DEF Subscription
<1>4. undos \in Seq(Subscription)
  <2>1. DOMAIN held = 1..Len(held) /\ Len(held) \in Nat /\ \A i \in DOMAIN held : held[i] \in Key
    OBVIOUS
  <2>2. \A i \in 1..Len(held) : [undo |-> "patch", key |-> held[i]] \in Subscription
    BY <1>3, <2>1
  <2>3. undos = [i \in 1..Len(held) |-> [undo |-> "patch", key |-> held[i]]]
    BY <1>1, <2>1 DEF Restores
  <2>4. undos \in [1..Len(held) -> Subscription]
    BY <2>2, <2>3
  <2>5. QED
    BY <2>1, <2>4
<1>5. ToSet(undos) = {[undo |-> "patch", key |-> k] : k \in ToSet(held)}
  BY <1>2 DEF ToSet
<1>6. \A a, b : [undo |-> "patch", key |-> a] = [undo |-> "patch", key |-> b] => a = b
  <2>1. \A a : [undo |-> "patch", key |-> a].key = a
    OBVIOUS
  <2>2. QED
    BY <2>1
<1>7. \A a, b \in Key :
        Precedes(undos, [undo |-> "patch", key |-> a], [undo |-> "patch", key |-> b])
          <=> Precedes(held, a, b)
  <2> SUFFICES ASSUME NEW a \in Key, NEW b \in Key
               PROVE  Precedes(undos, [undo |-> "patch", key |-> a], [undo |-> "patch", key |-> b])
                        <=> Precedes(held, a, b)
    OBVIOUS
  <2>1. PICK s, t : s = [undo |-> "patch", key |-> a] /\ t = [undo |-> "patch", key |-> b]
    OBVIOUS
  <2>2. \A i \in DOMAIN held : (undos[i] = s <=> held[i] = a) /\ (undos[i] = t <=> held[i] = b)
    BY <1>2, <1>6, <2>1
  <2>3. Precedes(undos, s, t) <=> Precedes(held, a, b)
    BY <1>2, <2>2 DEF Precedes
  <2>4. QED
    BY <2>1, <2>3
<1>8. QED
  BY <1>1, <1>4, <1>5, <1>7

\* No call, and one call of a user.
LEMMA FirstCall ==
  /\ <<>> \in Seq(Frame) /\ Nested(<<>>) /\ ToSet(<<>>) = {}
  /\ \A g \in Frame : (g.op = "setup" => Steps(g) /\ g.owner = g.of) =>
       /\ <<g>> \in Seq(Frame) /\ Nested(<<g>>) /\ ToSet(<<g>>) = {g} /\ <<g>> # <<>>
       /\ Append(<<>>, g) = <<g>>
<1>1. <<>> \in Seq(Frame) /\ Nested(<<>>) /\ ToSet(<<>>) = {}
  <2>1. DOMAIN <<>> = {}
    OBVIOUS
  <2>2. QED
    BY <2>1, EmptyOrder DEF Nested
<1>2. ASSUME NEW g \in Frame, g.op = "setup" => Steps(g) /\ g.owner = g.of
      PROVE  /\ <<g>> \in Seq(Frame) /\ Nested(<<g>>) /\ ToSet(<<g>>) = {g} /\ <<g>> # <<>>
             /\ Append(<<>>, g) = <<g>>
  <2>1. PICK none \in Seq(Frame) : none = <<>> /\ Nested(none)
    BY <1>1
  <2>2. Append(<<>>, g) = <<g>>
    OBVIOUS
  <2>3. Nested(Append(none, g)) /\ Append(none, g) \in Seq(Frame)
    BY <1>2, <2>1, Push
  <2>4. QED
    BY <2>1, <2>2, <2>3, SingleOrder
<1>3. QED
  BY <1>1, <1>2

\* A call begins the disposal of a child that it owned alone.
LEMMA DisposingChild ==
  ASSUME TypeOK, Nested(stack), Subscriptions, Undoes("dispose")
  PROVE  /\ TheUndo.child \in Interceptor /\ TheUndo.child \in ChildrenOf(Current.of)
         /\ TheUndo = [undo |-> "dispose", child |-> TheUndo.child]
         /\ Layer[TheUndo.child] < Layer[Current.of] /\ TheUndo.child # Current.of
         /\ \A f \in ToSet(stack) : f.of # TheUndo.child
         /\ Append(stack, DisposeFrame(TheUndo.child, FALSE)) \in Seq(Frame)
         /\ Nested(Append(stack, DisposeFrame(TheUndo.child, FALSE)))
         /\ ToSet(Append(stack, DisposeFrame(TheUndo.child, FALSE)))
              = ToSet(stack) \cup {DisposeFrame(TheUndo.child, FALSE)}
<1>1. /\ stack # <<>> /\ Current.op = "dispose" /\ Current.of \in Interceptor
      /\ TheUndo \in Subscription /\ TheUndo.undo = "dispose"
      /\ Undoable(Current.of, TheUndo)
  BY Unsubscribing
<1>2. PICK c : c = TheUndo.child
  OBVIOUS
<1>3. c \in Interceptor /\ c \in ChildrenOf(Current.of) /\ TheUndo = [undo |-> "dispose", child |-> c]
  BY <1>1, <1>2 DEF Subscription, Undoable
<1>4. PICK g \in Frame : /\ g = DisposeFrame(c, FALSE)
                         /\ g.op = "dispose" /\ g.of = c /\ ~g.rethrows
  <2>1. /\ DisposeFrame(c, FALSE) \in Frame /\ DisposeFrame(c, FALSE).op = "dispose"
        /\ DisposeFrame(c, FALSE).of = c
    BY <1>3, NewFrames
  <2>2. ~DisposeFrame(c, FALSE).rethrows
    BY DEF DisposeFrame
  <2>3. QED
    BY <2>1, <2>2
<1>5. Calls(Current, g)
  BY <1>1, <1>3, <1>4 DEF Calls
<1>6. /\ Append(stack, g) \in Seq(Frame) /\ Nested(Append(stack, g))
      /\ ToSet(Append(stack, g)) = ToSet(stack) \cup {g}
      /\ \A f \in ToSet(stack) : Layer[g.of] < Layer[f.of]
  <2>1. stack \in Seq(Frame) /\ Current = Last(stack)
    BY DEF TypeOK, Current
  <2>2. QED
    BY <1>1, <1>4, <1>5, <2>1, Push
<1>7. Layer[c] < Layer[Current.of] /\ ~(Layer[c] < Layer[c])
  BY <1>1, <1>3, Layers
<1>8. \A f \in ToSet(stack) : f.of # c
  BY <1>4, <1>6, <1>7
<1>9. QED
  BY <1>2, <1>3, <1>4, <1>6, <1>7, <1>8

\* A setup() applies a child that has to be set up.
LEMMA ApplyingChild ==
  ASSUME TypeOK, Nested(stack), AtStep("apply"),
         NEW x, x = Current.of, NEW c, c = TheStep.child
  PROVE  /\ x \in Interceptor /\ c \in Interceptor /\ c \in ChildrenOf(x) /\ c # x
         /\ \A f \in ToSet(stack) : f.of # c
         /\ Append(stack, SetupFrame(c, x)) \in Seq(Frame)
         /\ Nested(Append(stack, SetupFrame(c, x)))
         /\ ToSet(Append(stack, SetupFrame(c, x))) = ToSet(stack) \cup {SetupFrame(c, x)}
<1>1. /\ stack # <<>> /\ Current.op = "setup" /\ Current.at <= Len(Setup[Current.of])
      /\ Current.at \in DOMAIN Setup[Current.of] /\ x \in Interceptor
      /\ TheStep = Setup[Current.of][Current.at] /\ TheStep.do = "apply"
  BY RunningStep
<1>2. c \in Interceptor /\ c \in ChildrenOf(x) /\ c # x
  BY <1>1, StepParts
<1>3. PICK g \in Frame : /\ g = SetupFrame(c, x) /\ g.op = "setup" /\ g.of = c
                         /\ g.owner = x /\ Steps(g)
  BY <1>1, <1>2, NewFrames
<1>4. Calls(Current, g)
  BY <1>1, <1>2, <1>3 DEF Calls, AtApply
<1>5. /\ Append(stack, g) \in Seq(Frame) /\ Nested(Append(stack, g))
      /\ ToSet(Append(stack, g)) = ToSet(stack) \cup {g}
      /\ \A f \in ToSet(stack) : Layer[g.of] < Layer[f.of]
  <2>1. stack \in Seq(Frame) /\ Current = Last(stack)
    BY DEF TypeOK, Current
  <2>2. QED
    BY <1>1, <1>3, <1>4, <2>1, Push
<1>6. ~(Layer[c] < Layer[c])
  BY <1>2, Layers
<1>7. QED
  BY <1>1, <1>2, <1>3, <1>5, <1>6

\* setup() goes on after one of its steps.
LEMMA StepEnds ==
  ASSUME TypeOK, Nested(stack), NEW do, AtStep(do),
         NEW g, g = Advanced(Current)
  PROVE  /\ Append(Callers, g) \in Seq(Frame) /\ Nested(Append(Callers, g))
         /\ ToSet(Append(Callers, g)) = ToSet(Callers) \cup {g}
         /\ g \in Frame /\ g.op = "setup" /\ g.of = Current.of
         /\ g.owner = Current.owner /\ g.at = Current.at + 1 /\ g.held = <<>>
         /\ Append(Callers, g) # <<>>
<1>1. stack # <<>> /\ Current.op = "setup" /\ Current.at <= Len(Setup[Current.of])
  BY RunningStep
<1>2. stack \in Seq(Frame) /\ Current = Last(stack) /\ Callers = Front(stack)
  BY DEF TypeOK, Current, Callers
<1>3. QED
  BY <1>1, <1>2, Advancing

\* The caller of a setup() that returns or fails: it is at the step of applying it.
LEMMA CallerOf ==
  ASSUME TypeOK, Nested(stack), stack # <<>>, Callers # <<>>,
         Current.op = "setup" \/ Current.rethrows,
         NEW f, f = Last(Callers)
  PROVE  /\ f \in Frame /\ f.op = "setup" /\ f.of \in Interceptor /\ f \in ToSet(Callers)
         /\ Steps(f) /\ AtApply(f) /\ Setup[f.of][f.at].child = Current.of
         /\ f.at \in DOMAIN Setup[f.of] /\ f.at <= Len(Setup[f.of])
         /\ f.owner \in Interceptor /\ f.at \in Nat /\ f.held \in Seq(Key)
         /\ Current.of \in ChildrenOf(f.of)
         /\ Current.op = "setup" => Current.owner = f.of
         /\ Front(Callers) \in Seq(Frame)
         /\ ToSet(Callers) = ToSet(Front(Callers)) \cup {f}
         /\ \A h \in ToSet(Front(Callers)) : h.of # f.of
         /\ f.of # Current.of
<1>1. /\ Current \in Frame /\ Current.of \in Interceptor /\ Callers \in Seq(Frame)
      /\ Nested(Callers) /\ Calls(f, Current) /\ f \in ToSet(Callers)
      /\ f \in Frame /\ f.of \in Interceptor /\ f.of # Current.of
  BY TopCall
<1>2. f.op = "setup"
  <2>1. f.op \in {"setup", "dispose"} /\ Current.op \in {"setup", "dispose"}
    BY <1>1, FrameParts
  <2>2. f.op # "dispose"
    BY <1>1 DEF Calls
  <2>3. QED
    BY <2>1, <2>2
<1>3. /\ AtApply(f) /\ Setup[f.of][f.at].child = Current.of /\ Current.of \in ChildrenOf(f.of)
      /\ Current.op = "setup" => Current.owner = f.of
  BY <1>1, <1>2 DEF Calls
<1>4. /\ Steps(f) /\ Front(Callers) \in Seq(Frame)
      /\ ToSet(Callers) = ToSet(Front(Callers)) \cup {f}
      /\ \A h \in ToSet(Front(Callers)) : h.of # f.of
  BY <1>1, <1>2, Pop
<1>5. f.owner \in Interceptor /\ f.at \in Nat /\ f.held \in Seq(Key)
  BY <1>1, <1>2, FrameParts
<1>6. f.at \in DOMAIN Setup[f.of] /\ f.at <= Len(Setup[f.of])
  <2>1. f.at \in 1..Len(Setup[f.of]) + 1
    BY <1>4 DEF Steps
  <2>2. f.at <= Len(Setup[f.of])
    BY <1>3 DEF AtApply
  <2>3. Setup[f.of] \in Seq(Step)
    BY <1>1, SetupAssumption
  <2>4. QED
    BY <2>1, <2>2, <2>3
<1>7. QED
  BY <1>1, <1>2, <1>3, <1>4, <1>5, <1>6

Structure == TypeOK /\ Recorded /\ Nested(stack) /\ Subscriptions

\* The calls in progress stay nested.
LEMMA StackKept ==
  ASSUME Structure, [Next]_vars
  PROVE  stack' \in Seq(Frame) /\ Nested(stack')
<1> USE DEF Structure
<1>1. stack \in Seq(Frame)
  BY DEF TypeOK
<1>2. ASSUME UNCHANGED stack
      PROVE  stack' \in Seq(Frame) /\ Nested(stack')
  BY <1>1, <1>2
<1>3. ASSUME NEW x \in Public, Apply(x)
      PROVE  stack' \in Seq(Frame) /\ Nested(stack')
  <2>1. PICK g \in Frame : /\ g = SetupFrame(x, x) /\ g.op = "setup" /\ g.of = x
                           /\ g.owner = x /\ Steps(g)
    BY NewFrames DEF Public
  <2>2. stack' = <<>> \/ stack' = <<g>>
    BY <1>3, <2>1 DEF Apply
  <2>3. QED
    BY <2>1, <2>2, FirstCall
<1>4. ASSUME NEW x \in Public, Dispose(x)
      PROVE  stack' \in Seq(Frame) /\ Nested(stack')
  <2>0. DisposeFrame(x, FALSE) \in Frame /\ DisposeFrame(x, FALSE).op = "dispose"
    BY NewFrames DEF Public
  <2>1. PICK g \in Frame : g = DisposeFrame(x, FALSE) /\ g.op = "dispose"
    BY <2>0
  <2>2. stack' = <<>> \/ stack' = Append(<<>>, g)
    BY <1>4, <2>1 DEF Dispose, Release
  <2>3. QED
    BY <2>1, <2>2, FirstCall
<1>5. ASSUME SetupBridges \/ SetupForwards
      PROVE  stack' \in Seq(Frame) /\ Nested(stack')
  <2>1. PICK do : AtStep(do) /\ NextStep
    BY <1>5 DEF SetupBridges, SetupForwards
  <2>2. QED
    BY <2>1, StepEnds DEF NextStep
<1>6. ASSUME SetupApplies
      PROVE  stack' \in Seq(Frame) /\ Nested(stack')
  <2>1. PICK x, c : x = Current.of /\ c = TheStep.child
    OBVIOUS
  <2>2. AtStep("apply") /\ (stack' = Append(stack, SetupFrame(c, x)) \/ NextStep)
    BY <1>6, <2>1 DEF SetupApplies
  <2>3. CASE NextStep
    BY <2>2, <2>3, StepEnds DEF NextStep
  <2>4. CASE stack' = Append(stack, SetupFrame(c, x))
    BY <2>1, <2>2, <2>4, ApplyingChild
  <2>5. QED
    BY <2>2, <2>3, <2>4
<1>7. ASSUME SetupPatches
      PROVE  stack' \in Seq(Frame) /\ Nested(stack')
  <2>1. PICK new : new = Append(Current.held, NextKey)
    OBVIOUS
  <2>2. PICK g : g = [Current EXCEPT !.held = new]
    OBVIOUS
  <2>3. /\ AtStep("patch")
        /\ \/ NextStep
           \/ new # TheStep.keys /\ stack' = Append(Callers, g)
    BY <1>7, <2>1, <2>2 DEF SetupPatches
  <2>4. CASE NextStep
    BY <2>3, <2>4, StepEnds DEF NextStep
  <2>5. CASE new # TheStep.keys /\ stack' = Append(Callers, g)
    BY <2>1, <2>2, <2>3, <2>5, HoldingMore
  <2>6. QED
    BY <2>3, <2>4, <2>5
<1>8. ASSUME SetupFails
      PROVE  stack' \in Seq(Frame) /\ Nested(stack')
  <2>1. AtStep("patch") /\ stack' = Append(Callers, DisposeFrame(Current.of, TRUE))
    BY <1>8 DEF SetupFails, Undoing
  <2>2. stack # <<>> /\ Current.op = "setup"
    BY <2>1, RunningStep
  <2>3. QED
    BY <1>1, <2>1, <2>2, Failing DEF Current, Callers
<1>9. ASSUME SetupReturns
      PROVE  stack' \in Seq(Frame) /\ Nested(stack')
  <2>1. /\ stack # <<>> /\ Current.op = "setup"
        /\ \/ stack' = <<>>
           \/ Callers # <<>> /\ stack' = Append(Front(Callers), Advanced(Last(Callers)))
    BY <1>9 DEF SetupReturns, Running, Current
  <2>2. Callers \in Seq(Frame) /\ Nested(Callers)
    BY <2>1, TopCall
  <2>3. Callers # <<>> => Last(Callers).op = "setup" /\ Last(Callers).at <= Len(Setup[Last(Callers).of])
    BY <2>1, CallerOf
  <2>4. CASE stack' = <<>>
    BY <2>4, FirstCall
  <2>5. CASE Callers # <<>> /\ stack' = Append(Front(Callers), Advanced(Last(Callers)))
    BY <2>2, <2>3, <2>5, Advancing
  <2>6. QED
    BY <2>1, <2>4, <2>5
<1>10. ASSUME UndoApply
       PROVE  stack' \in Seq(Frame) /\ Nested(stack')
  <2>1. /\ Undoes("dispose")
        /\ UNCHANGED stack \/ stack' = Append(stack, DisposeFrame(TheUndo.child, FALSE))
    BY <1>10 DEF UndoApply, Release
  <2>2. QED
    BY <1>2, <2>1, DisposingChild
<1>11. ASSUME DisposeEnds
       PROVE  stack' \in Seq(Frame) /\ Nested(stack')
  <2>1. /\ stack # <<>>
        /\ \/ stack' = Callers
           \/ /\ Current.rethrows /\ Callers # <<>>
              /\ stack' = Append(Front(Callers), DisposeFrame(Last(Callers).of, TRUE))
    BY <1>11 DEF DisposeEnds, Running, Undoing
  <2>2. Callers \in Seq(Frame) /\ Nested(Callers)
    BY <2>1, TopCall
  <2>3. CASE stack' = Callers
    BY <2>2, <2>3
  <2>4. CASE /\ Current.rethrows /\ Callers # <<>>
             /\ stack' = Append(Front(Callers), DisposeFrame(Last(Callers).of, TRUE))
    <3>1. Last(Callers).op = "setup"
      BY <2>1, <2>4, CallerOf
    <3>2. QED
      BY <2>2, <2>4, <3>1, Failing
  <2>5. QED
    BY <2>1, <2>3, <2>4
<1>12. ASSUME \/ \E x \in Public : AddListener(x) \/ RemoveListener(x)
              \/ UndoPatch \/ UndoForward \/ UndoBridge
              \/ \E e \in Event, x \in Interceptor : Deliver(e, x)
              \/ UNCHANGED vars
       PROVE  UNCHANGED stack
  BY <1>12 DEF AddListener, RemoveListener, UndoPatch, UndoForward, UndoBridge, Deliver,
     vars, lifecycleVars
<1>13. QED
  BY <1>2, <1>3, <1>4, <1>5, <1>6, <1>7, <1>8, <1>9, <1>10, <1>11, <1>12
     DEF Next, User, Call

\* Each subscription undoes a step of the setup() that made it.
LEMMA SubscriptionsKept ==
  ASSUME Structure, [Next]_vars
  PROVE  Subscriptions'
<1> USE DEF Structure
<1>1. ASSUME UNCHANGED subscriptions
      PROVE  Subscriptions'
  BY <1>1 DEF Subscriptions, Undoable
<1>2. ASSUME NEW do, AtStep(do), NEW undos \in Seq(Subscription),
             subscriptions' = Subscribed(Current.of, undos),
             \A s \in ToSet(undos) : Undoable(Current.of, s)
      PROVE  Subscriptions'
  <2>1. PICK x \in Interceptor : x = Current.of
    BY <1>2, RunningStep
  <2>2. QED
    BY <1>2, <2>1, Subscribing
<1>3. ASSUME SetupBridges
      PROVE  Subscriptions'
  <2>1. AtStep("bridge") /\ subscriptions' = Subscribed(Current.of, <<[undo |-> "bridge"]>>)
    BY <1>3 DEF SetupBridges
  <2>2. Current.of \in Batch
    BY <2>1, RunningStep, StepParts
  <2>3. \A s \in ToSet(<<[undo |-> "bridge"]>>) : Undoable(Current.of, s)
    BY <2>2, Undos DEF Undoable
  <2>4. QED
    BY <1>2, <2>1, <2>3, Undos
<1>4. ASSUME SetupForwards
      PROVE  Subscriptions'
  <2>1. AtStep("forward") /\ subscriptions' = Subscribed(Current.of, <<[undo |-> "forward"]>>)
    BY <1>4 DEF SetupForwards
  <2>2. Forwards(Current.of)
    BY <2>1, RunningStep, StepParts
  <2>3. \A s \in ToSet(<<[undo |-> "forward"]>>) : Undoable(Current.of, s)
    BY <2>2, Undos DEF Undoable
  <2>4. QED
    BY <1>2, <2>1, <2>3, Undos
<1>5. ASSUME SetupApplies
      PROVE  Subscriptions'
  <2>1. /\ AtStep("apply")
        /\ UNCHANGED subscriptions \/ subscriptions' = Subscribed(Current.of, DisposeOf(TheStep.child))
    BY <1>5 DEF SetupApplies
  <2>2. PICK x, c : x = Current.of /\ c = TheStep.child
    OBVIOUS
  <2>3. x \in Interceptor /\ c \in Interceptor /\ c \in ChildrenOf(x)
    BY <2>1, <2>2, ApplyingChild
  <2>4. \A s \in ToSet(DisposeOf(c)) : Undoable(x, s)
    BY <2>3, DisposeUndoable
  <2>5. QED
    BY <1>1, <1>2, <2>1, <2>2, <2>3, <2>4, Undos
<1>6. ASSUME SetupPatches
      PROVE  Subscriptions'
  <2>1. PICK held, keys : held = Current.held /\ keys = TheStep.keys
    OBVIOUS
  <2>2. PICK new : new = Append(held, NextKey)
    OBVIOUS
  <2>3. /\ AtStep("patch")
        /\ \/ UNCHANGED subscriptions
           \/ new = keys /\ subscriptions' = Subscribed(Current.of, Restores(new))
    BY <1>6, <2>1, <2>2 DEF SetupPatches, Restores
  <2>4. new \in Seq(Key) /\ ToSet(keys) \subseteq Replaces(Current.of)
    BY <2>1, <2>2, <2>3, NextOfGroup
  <2>5. new = keys => \A s \in ToSet(Restores(new)) : Undoable(Current.of, s)
    BY <2>4, RestoresOrder DEF Undoable
  <2>6. Restores(new) \in Seq(Subscription)
    BY <2>4, RestoresOrder
  <2>7. QED
    BY <1>1, <1>2, <2>3, <2>5, <2>6
<1>7. ASSUME SetupReturns
      PROVE  Subscriptions'
  <2>1. /\ stack # <<>> /\ Current.op = "setup"
        /\ \/ UNCHANGED subscriptions
           \/ Callers # <<>> /\ subscriptions' = Subscribed(Last(Callers).of, DisposeOf(Current.of))
    BY <1>7 DEF SetupReturns, Running, Current
  <2>2. CASE UNCHANGED subscriptions
    BY <1>1, <2>2
  <2>3. CASE Callers # <<>> /\ subscriptions' = Subscribed(Last(Callers).of, DisposeOf(Current.of))
    <3>1. PICK f : f = Last(Callers)
      OBVIOUS
    <3>2. f.of \in Interceptor /\ Current.of \in ChildrenOf(f.of)
      BY <2>1, <2>3, <3>1, CallerOf
    <3>3. PICK x \in Interceptor, c \in Interceptor : x = f.of /\ c = Current.of
      BY <2>1, <3>2, TopCall
    <3>4. \A s \in ToSet(DisposeOf(c)) : Undoable(x, s)
      BY <3>2, <3>3, DisposeUndoable
    <3>5. DisposeOf(c) \in Seq(Subscription)
      BY Undos
    <3>6. subscriptions' = Subscribed(x, DisposeOf(c))
      BY <2>3, <3>1, <3>3
    <3>7. QED
      BY <3>4, <3>5, <3>6, Subscribing
  <2>4. QED
    BY <2>1, <2>2, <2>3
<1>8. ASSUME UndoApply \/ UndoPatch \/ UndoForward \/ UndoBridge
      PROVE  Subscriptions'
  <2>1. PICK undo : Undoes(undo)
    BY <1>8 DEF UndoApply, UndoPatch, UndoForward, UndoBridge
  <2>2. QED
    BY <2>1, Unsubscribing
<1>9. ASSUME \/ \E x \in Public : Apply(x) \/ Dispose(x) \/ AddListener(x) \/ RemoveListener(x)
             \/ SetupFails \/ DisposeEnds
             \/ \E e \in Event, x \in Interceptor : Deliver(e, x)
             \/ UNCHANGED vars
      PROVE  UNCHANGED subscriptions
  BY <1>9 DEF Apply, Dispose, AddListener, RemoveListener, SetupFails, DisposeEnds, Deliver,
     vars, lifecycleVars
<1>10. QED
  BY <1>1, <1>3, <1>4, <1>5, <1>6, <1>7, <1>8, <1>9 DEF Next, User, Call

\* Owners, states and replaced globals keep their types.
LEMMA LifecycleTypes ==
  ASSUME Structure, [Next]_vars
  PROVE  /\ owners' \in [Interceptor -> SUBSET Interceptor]
         /\ readyState' \in [Interceptor -> {"INACTIVE", "ACTIVE", "DISPOSED"}]
         /\ replaced' \in [Key -> Interceptor \cup {None}]
         /\ before' \in {None} \cup [owners: [Interceptor -> SUBSET Interceptor],
                                     active: SUBSET Interceptor,
                                     replaced: [Key -> Interceptor \cup {None}]]
<1> USE DEF Structure
<1>1. /\ owners \in [Interceptor -> SUBSET Interceptor]
      /\ readyState \in [Interceptor -> {"INACTIVE", "ACTIVE", "DISPOSED"}]
      /\ replaced \in [Key -> Interceptor \cup {None}]
  BY DEF TypeOK
<1>2. owners' \in [Interceptor -> SUBSET Interceptor]
  <2>1. ASSUME NEW c \in Interceptor, NEW x \in Interceptor,
               \/ UNCHANGED owners
               \/ owners' = [owners EXCEPT ![c] = @ \cup {x}]
               \/ owners' = [owners EXCEPT ![c] = @ \ {x}]
        PROVE  owners' \in [Interceptor -> SUBSET Interceptor]
    BY <1>1, <2>1
  <2>2. ASSUME NEW c \in Interceptor, NEW S \in SUBSET Interceptor,
               owners' = [owners EXCEPT ![c] = @ \ S]
        PROVE  owners' \in [Interceptor -> SUBSET Interceptor]
    BY <1>1, <2>2
  <2>3. ASSUME NEW x \in Public, Apply(x) \/ Dispose(x)
        PROVE  owners' \in [Interceptor -> SUBSET Interceptor]
    <3>1. /\ x \in Interceptor
          /\ \/ owners' = [owners EXCEPT ![x] = @ \cup {x}]
             \/ owners' = [owners EXCEPT ![x] = owners[x] \ {x}]
      BY <2>3 DEF Apply, Dispose, Release, OwnersWithout, Public
    <3>2. QED
      BY <2>1, <3>1
  <2>4. ASSUME SetupApplies
        PROVE  owners' \in [Interceptor -> SUBSET Interceptor]
    <3>1. PICK x, c : x = Current.of /\ c = TheStep.child
      OBVIOUS
    <3>2. /\ AtStep("apply")
          /\ UNCHANGED owners \/ owners' = [owners EXCEPT ![c] = @ \cup {x}]
      BY <2>4, <3>1 DEF SetupApplies
    <3>3. x \in Interceptor /\ c \in Interceptor
      BY <3>1, <3>2, ApplyingChild
    <3>4. QED
      BY <2>1, <3>2, <3>3
  <2>5. ASSUME SetupFails
        PROVE  owners' \in [Interceptor -> SUBSET Interceptor]
    <3>1. AtStep("patch") /\ owners' = [owners EXCEPT ![Current.of] = @ \ {Current.owner}]
      BY <2>5 DEF SetupFails, Undoing
    <3>2. Current.of \in Interceptor /\ Current.owner \in Interceptor
      BY <3>1, RunningStep, TopCall
    <3>3. QED
      BY <2>1, <3>1, <3>2
  <2>6. ASSUME UndoApply
        PROVE  owners' \in [Interceptor -> SUBSET Interceptor]
    <3>1. PICK x, c : x = Current.of /\ c = TheUndo.child
      OBVIOUS
    <3>2. /\ Undoes("dispose")
          /\ UNCHANGED owners \/ owners' = [owners EXCEPT ![c] = owners[c] \ {x}]
      BY <2>6, <3>1 DEF UndoApply, Release, OwnersWithout
    <3>3. x \in Interceptor /\ c \in Interceptor
      BY <3>1, <3>2, Unsubscribing, DisposingChild
    <3>4. QED
      BY <2>1, <3>2, <3>3
  <2>7. ASSUME DisposeEnds
        PROVE  owners' \in [Interceptor -> SUBSET Interceptor]
    <3>1. PICK f : f = Last(Callers)
      OBVIOUS
    <3>2. /\ stack # <<>>
          /\ \/ UNCHANGED owners
             \/ /\ Current.rethrows /\ Callers # <<>>
                /\ owners' = [owners EXCEPT ![f.of] = @ \ {f.owner}]
      BY <2>7, <3>1 DEF DisposeEnds, Running, Undoing
    <3>3. Current.rethrows /\ Callers # <<>> => f.of \in Interceptor /\ f.owner \in Interceptor
      BY <3>1, <3>2, CallerOf
    <3>4. QED
      BY <1>1, <2>1, <3>2, <3>3
  <2>8. ASSUME \/ \E x \in Public : AddListener(x) \/ RemoveListener(x)
               \/ SetupBridges \/ SetupForwards \/ SetupPatches \/ SetupReturns
               \/ UndoPatch \/ UndoForward \/ UndoBridge
               \/ \E e \in Event, x \in Interceptor : Deliver(e, x)
               \/ UNCHANGED vars
        PROVE  UNCHANGED owners
    BY <2>8 DEF AddListener, RemoveListener, SetupBridges, SetupForwards, SetupPatches,
       SetupReturns, UndoPatch, UndoForward, UndoBridge, Deliver, vars, lifecycleVars
  <2>9. QED
    BY <1>1, <2>3, <2>4, <2>5, <2>6, <2>7, <2>8 DEF Next, User, Call
<1>3. readyState' \in [Interceptor -> {"INACTIVE", "ACTIVE", "DISPOSED"}]
  <2>1. ASSUME SetupReturns \/ DisposeEnds
        PROVE  readyState' \in [Interceptor -> {"INACTIVE", "ACTIVE", "DISPOSED"}]
    <3>1. \/ readyState' = [readyState EXCEPT ![Current.of] = "ACTIVE"]
          \/ readyState' = [readyState EXCEPT ![Current.of] = "DISPOSED"]
      BY <2>1 DEF SetupReturns, DisposeEnds
    <3>2. QED
      BY <1>1, <3>1
  <2>2. ASSUME \/ \E x \in Public : Apply(x) \/ Dispose(x) \/ AddListener(x) \/ RemoveListener(x)
               \/ SetupBridges \/ SetupApplies \/ SetupForwards \/ SetupPatches \/ SetupFails
               \/ UndoApply \/ UndoPatch \/ UndoForward \/ UndoBridge
               \/ \E e \in Event, x \in Interceptor : Deliver(e, x)
               \/ UNCHANGED vars
        PROVE  UNCHANGED readyState
    BY <2>2 DEF Apply, Dispose, AddListener, RemoveListener, SetupBridges, SetupApplies,
       SetupForwards, SetupPatches, SetupFails, UndoApply, UndoPatch, UndoForward, UndoBridge,
       Deliver, vars, lifecycleVars
  <2>3. QED
    BY <1>1, <2>1, <2>2 DEF Next, User, Call
<1>4. replaced' \in [Key -> Interceptor \cup {None}]
  <2>1. ASSUME SetupPatches
        PROVE  replaced' \in [Key -> Interceptor \cup {None}]
    <3>1. AtStep("patch") /\ replaced' = [replaced EXCEPT ![NextKey] = Current.of]
      BY <2>1 DEF SetupPatches
    <3>2. Current.of \in Interceptor
      BY <3>1, RunningStep
    <3>3. QED
      BY <1>1, <3>1, <3>2
  <2>2. ASSUME UndoPatch
        PROVE  replaced' \in [Key -> Interceptor \cup {None}]
    BY <1>1, <2>2 DEF UndoPatch
  <2>3. ASSUME \/ \E x \in Public : Apply(x) \/ Dispose(x) \/ AddListener(x) \/ RemoveListener(x)
               \/ SetupBridges \/ SetupApplies \/ SetupForwards \/ SetupFails \/ SetupReturns
               \/ UndoApply \/ UndoForward \/ UndoBridge \/ DisposeEnds
               \/ \E e \in Event, x \in Interceptor : Deliver(e, x)
               \/ UNCHANGED vars
        PROVE  UNCHANGED replaced
    BY <2>3 DEF Apply, Dispose, AddListener, RemoveListener, SetupBridges, SetupApplies,
       SetupForwards, SetupFails, SetupReturns, UndoApply, UndoForward, UndoBridge,
       DisposeEnds, Deliver, vars, lifecycleVars
  <2>4. QED
    BY <1>1, <2>1, <2>2, <2>3 DEF Next, User, Call
<1>5. before' \in {None} \cup [owners: [Interceptor -> SUBSET Interceptor],
                               active: SUBSET Interceptor,
                               replaced: [Key -> Interceptor \cup {None}]]
  <2>1. before \in {None} \cup [owners: [Interceptor -> SUBSET Interceptor],
                                active: SUBSET Interceptor,
                                replaced: [Key -> Interceptor \cup {None}]]
    BY DEF TypeOK
  <2>2. Snapshot \/ Remember \/ UNCHANGED before
    <3>1. ASSUME \E x \in Public : Apply(x) \/ Dispose(x) \/ AddListener(x) \/ RemoveListener(x)
          PROVE  Snapshot \/ UNCHANGED before
      BY <3>1 DEF Apply, Dispose, AddListener, RemoveListener
    <3>2. ASSUME Call
          PROVE  Remember \/ UNCHANGED before
      BY <3>2 DEF Call, SetupBridges, SetupApplies, SetupForwards, SetupPatches, SetupFails,
         SetupReturns, UndoApply, UndoPatch, UndoForward, UndoBridge, DisposeEnds
    <3>3. ASSUME \/ \E e \in Event, x \in Interceptor : Deliver(e, x)
                 \/ UNCHANGED vars
          PROVE  UNCHANGED before
      BY <3>3 DEF Deliver, vars
    <3>4. QED
      BY <3>1, <3>2, <3>3 DEF Next, User
  <2>3. CASE Snapshot
    BY <1>1, <2>3 DEF Snapshot
  <2>4. CASE Remember \/ UNCHANGED before
    BY <2>1, <2>4 DEF Remember
  <2>5. QED
    BY <2>2, <2>3, <2>4
<1>6. QED
  BY <1>2, <1>3, <1>4, <1>5

\* Listeners, bridges and relays keep their types.
LEMMA EventTypes ==
  ASSUME Structure, [Next]_vars
  PROVE  /\ listeners' \in [Interceptor -> Nat]
         /\ \A x \in Interceptor : listeners'[x] <= MaxListeners[x]
         /\ relays' \in [Interceptor -> SUBSET Interceptor]
         /\ bridged' \subseteq Batch
         /\ forwarding' \subseteq Interceptor
<1> USE DEF Structure
<1>1. /\ listeners \in [Interceptor -> Nat]
      /\ \A x \in Interceptor : listeners[x] <= MaxListeners[x]
      /\ relays \in [Interceptor -> SUBSET Interceptor]
      /\ bridged \subseteq Batch /\ forwarding \subseteq Interceptor
  BY DEF TypeOK
<1>2. /\ Source \in Interceptor /\ Batch \subseteq Interceptor
      /\ MaxListeners \in [Interceptor -> Nat]
  BY InterceptorsAssumption
<1>3. ASSUME NEW on \in [Interceptor -> SUBSET Interceptor]
      PROVE  /\ \A xs : ListenToSource(on, xs) \in [Interceptor -> SUBSET Interceptor]
             /\ \A xs, counts : LeaveSource(on, xs, counts) \in [Interceptor -> SUBSET Interceptor]
             /\ \A b \in Interceptor : BridgedTo(on, b) \in [Interceptor -> SUBSET Interceptor]
             /\ \A b : Unbridged(on, b) \in [Interceptor -> SUBSET Interceptor]
  <2>1. \A xs : ListenToSource(on, xs) \in [Interceptor -> SUBSET Interceptor]
    <3> SUFFICES ASSUME NEW xs
                 PROVE  ListenToSource(on, xs) \in [Interceptor -> SUBSET Interceptor]
      OBVIOUS
    <3>1. PICK S \in SUBSET Interceptor : S = xs \cap forwarding
      BY <1>1
    <3>2. ListenToSource(on, xs) = [on EXCEPT ![Source] = @ \cup S]
      BY <3>1 DEF ListenToSource
    <3>3. QED
      BY <1>2, <3>2
  <2>2. \A xs, counts : LeaveSource(on, xs, counts) \in [Interceptor -> SUBSET Interceptor]
    <3> SUFFICES ASSUME NEW xs, NEW counts
                 PROVE  LeaveSource(on, xs, counts) \in [Interceptor -> SUBSET Interceptor]
      OBVIOUS
    <3>1. PICK S : S = {x \in xs \cap forwarding : ~HasListeners(x, counts, on)}
      OBVIOUS
    <3>2. LeaveSource(on, xs, counts) = [on EXCEPT ![Source] = @ \ S]
      BY <3>1 DEF LeaveSource
    <3>3. QED
      BY <1>2, <3>2
  <2>3. \A b \in Interceptor : BridgedTo(on, b) \in [Interceptor -> SUBSET Interceptor]
    BY DEF BridgedTo
  <2>4. \A b : Unbridged(on, b) \in [Interceptor -> SUBSET Interceptor]
    BY DEF Unbridged
  <2>5. QED
    BY <2>1, <2>2, <2>3, <2>4
<1>4. ASSUME NEW x, NEW counts, RemoveBridge(x, counts)
      PROVE  relays' \in [Interceptor -> SUBSET Interceptor] /\ bridged' \subseteq Batch
  <2>1. PICK on \in [Interceptor -> SUBSET Interceptor] : on = Unbridged(relays, x)
    BY <1>1, <1>3
  <2>2. bridged' = bridged \ {x} /\ relays' = LeaveSource(on, ChildrenOf(x), counts)
    BY <1>4, <2>1 DEF RemoveBridge
  <2>3. QED
    BY <1>1, <1>3, <2>1, <2>2
<1>5. /\ listeners' \in [Interceptor -> Nat]
      /\ \A x \in Interceptor : listeners'[x] <= MaxListeners[x]
  <2>1. ASSUME NEW x \in Public, AddListener(x)
        PROVE  /\ listeners' \in [Interceptor -> Nat]
               /\ \A y \in Interceptor : listeners'[y] <= MaxListeners[y]
    <3>1. x \in Interceptor /\ listeners[x] < MaxListeners[x]
      BY <2>1 DEF AddListener, Public
    <3>2. listeners' = [listeners EXCEPT ![x] = listeners[x] + 1]
      BY <2>1 DEF AddListener
    <3>3. QED
      BY <1>1, <1>2, <3>1, <3>2
  <2>2. ASSUME NEW x \in Public, RemoveListener(x)
        PROVE  /\ listeners' \in [Interceptor -> Nat]
               /\ \A y \in Interceptor : listeners'[y] <= MaxListeners[y]
    <3>1. x \in Interceptor /\ listeners[x] > 0
      BY <2>2 DEF RemoveListener, Public
    <3>2. listeners' = [listeners EXCEPT ![x] = listeners[x] - 1]
      BY <2>2 DEF RemoveListener
    <3>3. QED
      BY <1>1, <1>2, <3>1, <3>2
  <2>3. ASSUME DisposeEnds
        PROVE  /\ listeners' \in [Interceptor -> Nat]
               /\ \A y \in Interceptor : listeners'[y] <= MaxListeners[y]
    <3>1. listeners' = [listeners EXCEPT ![Current.of] = 0]
      BY <2>3 DEF DisposeEnds
    <3>2. \A y \in Interceptor : 0 <= MaxListeners[y]
      BY <1>2
    <3>3. listeners' \in [Interceptor -> Nat]
      BY <1>1, <3>1
    <3>4. \A y \in Interceptor : listeners'[y] = listeners[y] \/ listeners'[y] = 0
      BY <1>1, <3>1
    <3>5. QED
      BY <1>1, <3>2, <3>3, <3>4
  <2>4. ASSUME \/ \E x \in Public : Apply(x) \/ Dispose(x)
               \/ SetupBridges \/ SetupApplies \/ SetupForwards \/ SetupPatches \/ SetupFails
               \/ SetupReturns \/ UndoApply \/ UndoPatch \/ UndoForward \/ UndoBridge
               \/ \E e \in Event, x \in Interceptor : Deliver(e, x)
               \/ UNCHANGED vars
        PROVE  UNCHANGED listeners
    BY <2>4 DEF Apply, Dispose, SetupBridges, SetupApplies, SetupForwards, SetupPatches,
       SetupFails, SetupReturns, UndoApply, UndoPatch, UndoForward, UndoBridge, Deliver, vars,
       eventVars
  <2>5. QED
    BY <1>1, <2>1, <2>2, <2>3, <2>4 DEF Next, User, Call
<1>6. relays' \in [Interceptor -> SUBSET Interceptor] /\ bridged' \subseteq Batch
  <2>1. ASSUME NEW x \in Public, AddListener(x)
        PROVE  relays' \in [Interceptor -> SUBSET Interceptor] /\ bridged' \subseteq Batch
    <3>1. PICK on \in [Interceptor -> SUBSET Interceptor] : on = BridgedTo(relays, x)
      BY <1>1, <1>3 DEF Public
    <3>2. \/ /\ x \in Batch /\ bridged' = bridged \cup {x}
             /\ UNCHANGED relays \/ relays' = ListenToSource(on, ChildrenOf(x))
          \/ relays' = ListenToSource(relays, {x}) /\ UNCHANGED bridged
      BY <2>1, <3>1 DEF AddListener
    <3>3. QED
      BY <1>1, <1>3, <3>1, <3>2
  <2>2. ASSUME NEW x \in Public, RemoveListener(x)
        PROVE  relays' \in [Interceptor -> SUBSET Interceptor] /\ bridged' \subseteq Batch
    <3>1. PICK counts : counts = listeners'
      OBVIOUS
    <3>2. \/ UNCHANGED <<bridged, relays>>
          \/ RemoveBridge(x, counts)
          \/ relays' = LeaveSource(relays, {x}, counts) /\ UNCHANGED bridged
      BY <2>2, <3>1 DEF RemoveListener, AfterLastListener
    <3>3. QED
      BY <1>1, <1>3, <1>4, <3>2
  <2>3. ASSUME SetupForwards
        PROVE  relays' \in [Interceptor -> SUBSET Interceptor] /\ bridged' \subseteq Batch
    <3>1. /\ AtStep("forward") /\ UNCHANGED bridged
          /\ \/ relays' = [relays EXCEPT ![Source] = @ \cup {Current.of}]
             \/ UNCHANGED relays
      BY <2>3 DEF SetupForwards, ForwardsAtOnce
    <3>2. Current.of \in Interceptor
      BY <3>1, RunningStep
    <3>3. QED
      BY <1>1, <1>2, <3>1, <3>2
  <2>4. ASSUME UndoForward
        PROVE  relays' \in [Interceptor -> SUBSET Interceptor] /\ bridged' \subseteq Batch
    BY <1>1, <1>2, <2>4 DEF UndoForward
  <2>5. ASSUME UndoBridge
        PROVE  relays' \in [Interceptor -> SUBSET Interceptor] /\ bridged' \subseteq Batch
    BY <1>4, <2>5 DEF UndoBridge
  <2>6. ASSUME DisposeEnds
        PROVE  relays' \in [Interceptor -> SUBSET Interceptor] /\ bridged' \subseteq Batch
    BY <1>1, <1>2, <2>6 DEF DisposeEnds
  <2>7. ASSUME \/ \E x \in Public : Apply(x) \/ Dispose(x)
               \/ SetupBridges \/ SetupApplies \/ SetupPatches \/ SetupFails
               \/ SetupReturns \/ UndoApply \/ UndoPatch
               \/ \E e \in Event, x \in Interceptor : Deliver(e, x)
               \/ UNCHANGED vars
        PROVE  UNCHANGED relays /\ UNCHANGED bridged
    BY <2>7 DEF Apply, Dispose, SetupBridges, SetupApplies, SetupPatches,
       SetupFails, SetupReturns, UndoApply, UndoPatch, Deliver, vars, eventVars
  <2>8. QED
    BY <1>1, <2>1, <2>2, <2>3, <2>4, <2>5, <2>6, <2>7 DEF Next, User, Call
<1>7. forwarding' \subseteq Interceptor
  <2>1. ASSUME SetupForwards
        PROVE  forwarding' \subseteq Interceptor
    <3>1. AtStep("forward") /\ forwarding' = forwarding \cup {Current.of}
      BY <2>1 DEF SetupForwards
    <3>2. QED
      BY <1>1, <3>1, RunningStep
  <2>2. ASSUME UndoForward
        PROVE  forwarding' \subseteq Interceptor
    BY <1>1, <2>2 DEF UndoForward
  <2>3. ASSUME \/ \E x \in Public : Apply(x) \/ Dispose(x) \/ AddListener(x) \/ RemoveListener(x)
               \/ SetupBridges \/ SetupApplies \/ SetupPatches \/ SetupFails \/ SetupReturns
               \/ UndoApply \/ UndoPatch \/ UndoBridge \/ DisposeEnds
               \/ \E e \in Event, x \in Interceptor : Deliver(e, x)
               \/ UNCHANGED vars
        PROVE  UNCHANGED forwarding
    BY <2>3 DEF Apply, Dispose, AddListener, RemoveListener, SetupBridges, SetupApplies,
       SetupPatches, SetupFails, SetupReturns, UndoApply, UndoPatch, UndoBridge, DisposeEnds,
       Deliver, vars, eventVars
  <2>4. QED
    BY <1>1, <2>1, <2>2, <2>3 DEF Next, User, Call
<1>8. QED
  BY <1>5, <1>6, <1>7

\* A batch remembers exactly the events its listeners heard, each heard once.
LEMMA RecordedKept ==
  ASSUME Structure, [Next]_vars
  PROVE  /\ Recorded'
         /\ forwardedEvents' \in [Batch -> SUBSET Event]
         /\ delivered' \in [Event -> SUBSET Interceptor]
         /\ heard' \in [Batch -> [Event -> 0..2]]
<1> USE DEF Structure
<1>1. /\ forwardedEvents \in [Batch -> SUBSET Event]
      /\ delivered \in [Event -> SUBSET Interceptor]
      /\ heard \in [Batch -> [Event -> 0..2]]
      /\ \A b \in Batch, e \in Event : heard[b][e] = IF e \in forwardedEvents[b] THEN 1 ELSE 0
  BY DEF TypeOK, Recorded
<1>2. ASSUME SetupBridges
      PROVE  /\ Recorded'
             /\ forwardedEvents' \in [Batch -> SUBSET Event]
             /\ delivered' \in [Event -> SUBSET Interceptor]
             /\ heard' \in [Batch -> [Event -> 0..2]]
  <2>1. PICK x, none : x = Current.of /\ none = [e \in Event |-> 0]
    OBVIOUS
  <2>2. /\ forwardedEvents' = [forwardedEvents EXCEPT ![x] = {}]
        /\ heard' = [heard EXCEPT ![x] = none] /\ UNCHANGED delivered
    BY <1>2, <2>1 DEF SetupBridges
  <2>3. none \in [Event -> 0..2] /\ \A e \in Event : none[e] = 0
    BY <2>1
  <2>4. Recorded'
    <3>1. \A b \in Batch, e \in Event : heard'[b][e] = IF e \in forwardedEvents'[b] THEN 1 ELSE 0
      BY <1>1, <2>2, <2>3
    <3>2. QED
      BY <3>1 DEF Recorded
  <2>5. QED
    BY <1>1, <2>2, <2>3, <2>4
<1>3. ASSUME NEW e \in Event, NEW x \in Interceptor, Deliver(e, x)
      PROVE  /\ Recorded'
             /\ forwardedEvents' \in [Batch -> SUBSET Event]
             /\ delivered' \in [Event -> SUBSET Interceptor]
             /\ heard' \in [Batch -> [Event -> 0..2]]
  <2>1. PICK new : new = {b \in relays[x] : e \notin forwardedEvents[b]}
    OBVIOUS
  <2>2. /\ delivered' = [delivered EXCEPT ![e] = @ \cup {x}]
        /\ forwardedEvents' = [b \in Batch |->
             IF b \in new THEN forwardedEvents[b] \cup {e} ELSE forwardedEvents[b]]
        /\ heard' = [b \in Batch |->
             IF b \in new THEN [heard[b] EXCEPT ![e] = @ + 1] ELSE heard[b]]
    BY <1>3, <2>1 DEF Deliver, RecordForwardedEvent
  <2>3. \A b \in new : e \notin forwardedEvents[b]
    BY <2>1
  <2>4. \A b \in Batch : \A d \in Event :
          /\ heard'[b][d] = IF b \in new /\ d = e THEN heard[b][d] + 1 ELSE heard[b][d]
          /\ d \in forwardedEvents'[b] <=> d \in forwardedEvents[b] \/ (b \in new /\ d = e)
    BY <1>1, <2>2
  <2>5. \A b \in Batch, d \in Event : heard'[b][d] = IF d \in forwardedEvents'[b] THEN 1 ELSE 0
    BY <1>1, <2>3, <2>4
  <2>6. forwardedEvents' \in [Batch -> SUBSET Event]
    BY <1>1, <2>2
  <2>7. delivered' \in [Event -> SUBSET Interceptor]
    BY <1>1, <2>2
  <2>8. heard' \in [Batch -> [Event -> 0..2]]
    <3>1. \A b \in Batch : heard'[b] \in [Event -> 0..2]
      <4> SUFFICES ASSUME NEW b \in Batch
                   PROVE  heard'[b] \in [Event -> 0..2]
        OBVIOUS
      <4>1. PICK h \in [Event -> 0..2] : h = heard[b]
        BY <1>1
      <4>2. b \in new => h[e] = 0
        BY <1>1, <2>3, <4>1
      <4>3. b \in new => [h EXCEPT ![e] = @ + 1] \in [Event -> 0..2]
        BY <4>2
      <4>4. QED
        BY <2>2, <4>1, <4>3
    <3>2. QED
      BY <2>2, <3>1
  <2>9. Recorded'
    BY <2>5 DEF Recorded
  <2>10. QED
    BY <2>6, <2>7, <2>8, <2>9
<1>4. ASSUME \/ \E x \in Public : Apply(x) \/ Dispose(x) \/ AddListener(x) \/ RemoveListener(x)
             \/ SetupApplies \/ SetupForwards \/ SetupPatches \/ SetupFails \/ SetupReturns
             \/ UndoApply \/ UndoPatch \/ UndoForward \/ UndoBridge \/ DisposeEnds
             \/ UNCHANGED vars
      PROVE  UNCHANGED <<forwardedEvents, delivered, heard>>
  BY <1>4 DEF Apply, Dispose, AddListener, RemoveListener, SetupApplies, SetupForwards,
     SetupPatches, SetupFails, SetupReturns, UndoApply, UndoPatch, UndoForward, UndoBridge,
     DisposeEnds, vars, deliveryVars
<1>5. UNCHANGED <<forwardedEvents, delivered, heard>> =>
        /\ Recorded'
        /\ forwardedEvents' \in [Batch -> SUBSET Event]
        /\ delivered' \in [Event -> SUBSET Interceptor]
        /\ heard' \in [Batch -> [Event -> 0..2]]
  BY <1>1 DEF Recorded
<1>6. QED
  BY <1>2, <1>3, <1>4, <1>5 DEF Next, User, Call

-----------------------------------------------------------------------------
\* Variables have their types, calls are nested the way setups apply children, and
\* a batch has recorded what it heard.
LEMMA StructureInvariant == Spec => []Structure
<1>1. Init => Structure
  <2> SUFFICES ASSUME Init
               PROVE  Structure
    OBVIOUS
  <2>1. stack \in Seq(Frame) /\ Nested(stack)
    BY FirstCall DEF Init
  <2>2. \A x \in Interceptor : subscriptions[x] = <<>>
    BY DEF Init
  <2>3. Subscriptions
    <3>1. subscriptions \in [Interceptor -> Seq(Subscription)]
      <4>1. PICK none \in Seq(Subscription) : none = <<>>
        BY EmptyOrder
      <4>2. subscriptions = [x \in Interceptor |-> none]
        BY <4>1 DEF Init
      <4>3. QED
        BY <4>2
    <3>2. \A x \in Interceptor : ToSet(subscriptions[x]) = {}
      BY <2>2, EmptyOrder
    <3>3. QED
      BY <3>1, <3>2 DEF Subscriptions
  <2>4. Recorded
    BY DEF Init, Recorded
  <2>5. TypeOK
    <3>1. listeners \in [Interceptor -> Nat] /\ \A x \in Interceptor : listeners[x] <= MaxListeners[x]
      BY InterceptorsAssumption DEF Init
    <3>2. heard \in [Batch -> [Event -> 0..2]]
      BY DEF Init
    <3>3. subscriptions \in [Interceptor -> Seq(Subscription)]
      BY <2>3 DEF Subscriptions
    <3>4. /\ owners \in [Interceptor -> SUBSET Interceptor]
          /\ readyState \in [Interceptor -> {"INACTIVE", "ACTIVE", "DISPOSED"}]
          /\ replaced \in [Key -> Interceptor \cup {None}]
          /\ relays \in [Interceptor -> SUBSET Interceptor]
          /\ bridged \subseteq Batch
          /\ forwarding \subseteq Interceptor
          /\ forwardedEvents \in [Batch -> SUBSET Event]
          /\ delivered \in [Event -> SUBSET Interceptor]
      BY DEF Init
    <3>5. before = None
      BY DEF Init
    <3>6. QED
      BY <2>1, <3>1, <3>2, <3>3, <3>4, <3>5 DEF TypeOK
  <2>6. QED
    BY <2>1, <2>3, <2>4, <2>5 DEF Structure
<1>2. Structure /\ [Next]_vars => Structure'
  <2> SUFFICES ASSUME Structure, [Next]_vars
               PROVE  Structure'
    OBVIOUS
  <2>1. stack' \in Seq(Frame) /\ Nested(stack')
    BY StackKept
  <2>2. Subscriptions'
    BY SubscriptionsKept
  <2>3. subscriptions' \in [Interceptor -> Seq(Subscription)]
    BY <2>2 DEF Subscriptions
  <2>4. TypeOK'
    BY <2>1, <2>3, LifecycleTypes, EventTypes, RecordedKept DEF TypeOK
  <2>5. Recorded'
    BY RecordedKept
  <2>6. QED
    BY <2>1, <2>2, <2>4, <2>5 DEF Structure
<1>3. QED
  BY <1>1, <1>2, PTL DEF Spec

\* Every variable keeps its type: in particular the calls in progress are those of
\* interceptors below one another, and no batch hears an event more often than is
\* counted.
THEOREM TypeCorrectness == Spec => []TypeOK
<1>1. Structure => TypeOK
  BY DEF Structure
<1>2. QED
  BY <1>1, StructureInvariant, PTL

\* The listeners of a batch hear an event once between two setups, through however
\* many of its children it comes.
THEOREM EventsHeardOnce == Spec => []HeardOnce
<1>1. Structure => HeardOnce
  BY DEF Structure, Recorded, HeardOnce
<1>2. QED
  BY <1>1, StructureInvariant, PTL

-----------------------------------------------------------------------------
(* Replaced globals: each is restored by a subscription of the interceptor   *)
(* that replaced it, or held by its setup() until all keys of the group are  *)
(* replaced; the first key of a group is restored last.                      *)

Restore(k) == [undo |-> "patch", key |-> k]

Holds(f, k) == f.op = "setup" /\ k \in ToSet(f.held)

Patched ==
  /\ \A x \in Interceptor : \A k \in Key : replaced[k] = x =>
       \/ Restore(k) \in ToSet(subscriptions[x])
       \/ \E f \in ToSet(stack) : f.of = x /\ Holds(f, k)
  /\ \A x \in Interceptor : \A k \in Key :
       /\ Restore(k) \in ToSet(subscriptions[x]) => replaced[k] = x
       /\ ~Precedes(subscriptions[x], Restore(k), Restore(k))
  /\ \A f \in ToSet(stack) : \A k \in Key : Holds(f, k) =>
       replaced[k] = f.of /\ Restore(k) \notin ToSet(subscriptions[f.of])
  /\ \A x \in Interceptor : \A keys \in Groups : \A n \in DOMAIN keys :
       n # 1 /\ Restore(keys[n]) \in ToSet(subscriptions[x]) =>
         Precedes(subscriptions[x], Restore(keys[1]), Restore(keys[n]))
  /\ \A keys \in Groups : \A n \in DOMAIN keys :
       replaced[keys[n]] # None => replaced[keys[n]] = replaced[keys[1]]

\* Which key a subscription restores, if any.
LEMMA Restoring ==
  /\ \A k : Restore(k).undo = "patch" /\ Restore(k).key = k
  /\ \A k, l : Restore(k) = Restore(l) => k = l
  /\ \A k, c : [undo |-> "dispose", child |-> c] # Restore(k)
  /\ \A k, u : u # "patch" => [undo |-> u] # Restore(k)
<1>1. \A k : Restore(k).undo = "patch" /\ Restore(k).key = k
  BY DEF Restore
<1>2. \A k, l : Restore(k) = Restore(l) => k = l
  BY <1>1
<1>3. \A k, c : [undo |-> "dispose", child |-> c] # Restore(k)
  <2>1. \A c : [undo |-> "dispose", child |-> c].undo = "dispose"
    OBVIOUS
  <2>2. QED
    BY <1>1, <2>1
<1>4. \A k, u : u # "patch" => [undo |-> u] # Restore(k)
  <2>1. \A u : [undo |-> u].undo = u
    OBVIOUS
  <2>2. QED
    BY <1>1, <2>1
<1>5. QED
  BY <1>1, <1>2, <1>3, <1>4

\* The keys of a group.
LEMMA GroupParts ==
  ASSUME NEW keys \in Groups
  PROVE  /\ keys \in Seq(Key) /\ keys # <<>> /\ 1 \in DOMAIN keys
         /\ \A n \in DOMAIN keys : keys[n] \in Key
         /\ \A m, n \in DOMAIN keys : m # n => keys[m] # keys[n]
<1>1. keys \in Seq(Key) /\ keys # <<>>
  <2>1. PICK x \in Interceptor : \E i \in DOMAIN Setup[x] :
          Setup[x][i].do = "patch" /\ keys = Setup[x][i].keys
    BY DEF Groups
  <2>2. PICK i \in DOMAIN Setup[x] : Setup[x][i].do = "patch" /\ keys = Setup[x][i].keys
    BY <2>1
  <2>3. QED
    BY <2>2, StepParts
<1>2. 1 \in DOMAIN keys /\ \A n \in DOMAIN keys : keys[n] \in Key
  BY <1>1
<1>3. QED
  BY <1>1, <1>2, GroupsAssumption

\* Nothing about the globals changes, nor about the setups that hold some.
LEMMA PatchedKept ==
  ASSUME Patched, UNCHANGED replaced,
         \A x \in Interceptor : \A k \in Key :
           Restore(k) \in ToSet(subscriptions'[x]) <=> Restore(k) \in ToSet(subscriptions[x]),
         \A x \in Interceptor : \A k, l \in Key :
           Precedes(subscriptions'[x], Restore(k), Restore(l))
             <=> Precedes(subscriptions[x], Restore(k), Restore(l)),
         \A f \in ToSet(stack') : f.op = "setup" /\ f.held # <<>> => f \in ToSet(stack),
         \A f \in ToSet(stack) : f.op = "setup" /\ f.held # <<>> => f \in ToSet(stack'),
         stack \in Seq(Frame), stack' \in Seq(Frame)
  PROVE  Patched'
<1>1. \A f, k : Holds(f, k) => f.op = "setup" /\ f.held # <<>>
  BY EmptyOrder DEF Holds
<1>2. /\ \A f \in ToSet(stack') : \A k : Holds(f, k) => f \in ToSet(stack)
      /\ \A f \in ToSet(stack) : \A k : Holds(f, k) => f \in ToSet(stack')
  BY <1>1
<1>3. \A f \in ToSet(stack) : f.of \in Interceptor
  BY ElementsOf, FrameParts
<1>4. \A x \in Interceptor : \A k \in Key : replaced'[k] = x =>
        \/ Restore(k) \in ToSet(subscriptions'[x])
        \/ \E f \in ToSet(stack') : f.of = x /\ Holds(f, k)
  BY <1>2 DEF Patched
<1>5. \A x \in Interceptor : \A k \in Key :
        /\ Restore(k) \in ToSet(subscriptions'[x]) => replaced'[k] = x
        /\ ~Precedes(subscriptions'[x], Restore(k), Restore(k))
  BY DEF Patched
<1>6. \A f \in ToSet(stack') : \A k \in Key : Holds(f, k) =>
        replaced'[k] = f.of /\ Restore(k) \notin ToSet(subscriptions'[f.of])
  BY <1>2, <1>3 DEF Patched
<1>7. \A x \in Interceptor : \A keys \in Groups : \A n \in DOMAIN keys :
        n # 1 /\ Restore(keys[n]) \in ToSet(subscriptions'[x]) =>
          Precedes(subscriptions'[x], Restore(keys[1]), Restore(keys[n]))
  <2> SUFFICES ASSUME NEW x \in Interceptor, NEW keys \in Groups, NEW n \in DOMAIN keys, n # 1,
                      Restore(keys[n]) \in ToSet(subscriptions'[x])
               PROVE  Precedes(subscriptions'[x], Restore(keys[1]), Restore(keys[n]))
    OBVIOUS
  <2>1. keys[1] \in Key /\ keys[n] \in Key
    BY GroupParts
  <2>2. QED
    BY <2>1 DEF Patched
<1>8. \A keys \in Groups : \A n \in DOMAIN keys :
        replaced'[keys[n]] # None => replaced'[keys[n]] = replaced'[keys[1]]
  BY DEF Patched
<1>9. QED
  BY <1>4, <1>5, <1>6, <1>7, <1>8 DEF Patched, Restore, Holds

\* A subscription that restores nothing, more or less.
LEMMA OtherSubscription ==
  ASSUME Subscriptions, NEW x \in Interceptor, NEW s,
         s.undo # "patch",
         \/ /\ <<s>> \in Seq(Subscription) /\ subscriptions' = Subscribed(x, <<s>>)
         \/ /\ ToSet(subscriptions[x]) = ToSet(subscriptions'[x]) \cup {s}
            /\ \A a, b : Precedes(subscriptions[x], a, b) <=>
                 \/ Precedes(subscriptions'[x], a, b)
                 \/ (a \in ToSet(subscriptions'[x]) /\ b = s)
            /\ \A y \in Interceptor : y # x => subscriptions'[y] = subscriptions[y]
  PROVE  \A y \in Interceptor : \A k, l \in Key :
           /\ Restore(k) \in ToSet(subscriptions'[y]) <=> Restore(k) \in ToSet(subscriptions[y])
           /\ Precedes(subscriptions'[y], Restore(k), Restore(l))
                <=> Precedes(subscriptions[y], Restore(k), Restore(l))
<1>1. \A k : Restore(k) # s
  BY Restoring
<1>2. CASE <<s>> \in Seq(Subscription) /\ subscriptions' = Subscribed(x, <<s>>)
  <2>1. PICK undos \in Seq(Subscription) : undos = <<s>>
    BY <1>2
  <2>2. ToSet(undos) = {s} /\ \A a, b : ~Precedes(undos, a, b)
    <3>1. s \in Subscription
      BY <1>2
    <3>2. QED
      BY <2>1, <3>1, SingleOrder
  <2>3. /\ ToSet(subscriptions'[x]) = ToSet(subscriptions[x]) \cup ToSet(undos)
        /\ \A a, b : Precedes(subscriptions'[x], a, b) <=>
             \/ Precedes(subscriptions[x], a, b) \/ Precedes(undos, a, b)
             \/ (a \in ToSet(subscriptions[x]) /\ b \in ToSet(undos))
        /\ \A y \in Interceptor : y # x => subscriptions'[y] = subscriptions[y]
    BY <1>2, <2>1, Subscribing
  <2>4. QED
    BY <1>1, <2>2, <2>3
<1>3. CASE /\ ToSet(subscriptions[x]) = ToSet(subscriptions'[x]) \cup {s}
           /\ \A a, b : Precedes(subscriptions[x], a, b) <=>
                \/ Precedes(subscriptions'[x], a, b)
                \/ (a \in ToSet(subscriptions'[x]) /\ b = s)
           /\ \A y \in Interceptor : y # x => subscriptions'[y] = subscriptions[y]
  BY <1>1, <1>3
<1>4. QED
  BY <1>2, <1>3

\* A key that is not the first of its group comes after the same first key in
\* every group.
LEMMA OthersOfGroup ==
  ASSUME NEW keys \in Groups, NEW others \in Groups, NEW m \in DOMAIN keys,
         NEW n \in DOMAIN others, m # 1, keys[m] = others[n]
  PROVE  n # 1 /\ keys[1] = others[1]
<1>1. m \in 2..Len(keys)
  BY GroupParts
<1>2. QED
  BY <1>1, GroupsAssumption

\* Another key is replaced, the last of its group or not.
LEMMA PatchingKeeps ==
  ASSUME Structure, Patched, SetupPatches
  PROVE  Patched'
<1> DEFINE x == Current.of
           held == Current.held
           keys == TheStep.keys
           k == NextKey
           m == Len(held) + 1
           new == Append(held, k)
<1>1. TypeOK /\ Nested(stack) /\ Subscriptions /\ AtStep("patch") /\ replaced[k] = None
  BY DEF Structure, SetupPatches
<1>2. /\ keys \in Seq(Key) /\ keys \in Groups /\ held \in Seq(Key) /\ new \in Seq(Key)
      /\ m \in DOMAIN keys /\ k = keys[m] /\ k \in Key /\ Len(held) \in Nat
      /\ ToSet(held) = {keys[n] : n \in {i \in DOMAIN keys : i < m}}
      /\ new = keys <=> m = Len(keys)
  BY <1>1, NextOfGroup
<1>3. /\ stack # <<>> /\ Current.op = "setup" /\ x \in Interceptor
      /\ ToSet(stack) = ToSet(Callers) \cup {Current}
      /\ \A f \in ToSet(Callers) : f.of # x /\ f.of \in Interceptor
  BY <1>1, RunningStep, TopCall
<1>4. replaced \in [Key -> Interceptor \cup {None}] /\ None \notin Interceptor
  BY InterceptorsAssumption DEF Structure, TypeOK
<1>5. replaced' = [replaced EXCEPT ![k] = x]
  BY DEF SetupPatches
<1>6. replaced'[k] = x /\ \A l \in Key : l # k => replaced'[l] = replaced[l]
  BY <1>2, <1>4, <1>5
<1>7. ToSet(new) = ToSet(held) \cup {k}
  BY <1>2, AppendOrder
<1>8. \A l \in ToSet(held) : /\ l \in Key /\ replaced[l] = x /\ l # k
                             /\ Restore(l) \notin ToSet(subscriptions[x])
  <2>1. \A l \in ToSet(held) : l \in Key /\ Holds(Current, l)
    BY <1>2, <1>3, ElementsOf DEF Holds
  <2>2. Current \in ToSet(stack)
    BY <1>3
  <2>3. \A l \in ToSet(held) : replaced[l] = x /\ Restore(l) \notin ToSet(subscriptions[x])
    BY <2>1, <2>2 DEF Patched
  <2>4. QED
    BY <1>1, <1>3, <1>4, <2>1, <2>3
<1>9. \A y \in Interceptor : Restore(k) \notin ToSet(subscriptions[y])
  BY <1>1, <1>2, <1>4 DEF Patched
\* What is held or subscribed afterwards.
<1>10. PICK g : /\ g.of = x
                /\ ToSet(stack') = ToSet(Callers) \cup {g}
                /\ \/ /\ new # keys /\ g.op = "setup" /\ g.held = new
                      /\ UNCHANGED subscriptions
                   \/ /\ new = keys /\ g.held = <<>>
                      /\ subscriptions' = Subscribed(x, Restores(new))
  <2>1. CASE new = keys
    <3>1. PICK g : g = Advanced(Current)
      OBVIOUS
    <3>2. stack' = Append(Callers, g) /\ subscriptions' = Subscribed(x, Restores(new))
      BY <2>1, <3>1 DEF SetupPatches, NextStep, Restores
    <3>3. g.of = x /\ g.held = <<>> /\ ToSet(stack') = ToSet(Callers) \cup {g}
      BY <1>1, <3>1, <3>2, StepEnds
    <3>4. QED
      BY <2>1, <3>2, <3>3
  <2>2. CASE new # keys
    <3>1. PICK g : g = [Current EXCEPT !.held = new]
      OBVIOUS
    <3>2. stack' = Append(Callers, g) /\ UNCHANGED subscriptions
      BY <2>2, <3>1 DEF SetupPatches
    <3>3. /\ g.of = x /\ g.op = "setup" /\ g.held = new
          /\ ToSet(stack') = ToSet(Callers) \cup {g}
      BY <1>1, <2>2, <3>1, <3>2, HoldingMore
    <3>4. QED
      BY <2>2, <3>2, <3>3
  <2>3. QED
    BY <2>1, <2>2
<1> HIDE DEF x, held, keys, k, m, new
<1>11. /\ \A y \in Interceptor : y # x => subscriptions'[y] = subscriptions[y]
       /\ \A l \in Key : Restore(l) \in ToSet(subscriptions'[x]) <=>
            Restore(l) \in ToSet(subscriptions[x]) \/ (new = keys /\ l \in ToSet(keys))
       /\ \A a, b \in Key : Precedes(subscriptions'[x], Restore(a), Restore(b)) <=>
            \/ Precedes(subscriptions[x], Restore(a), Restore(b))
            \/ new = keys /\ Precedes(keys, a, b)
            \/ new = keys /\ Restore(a) \in ToSet(subscriptions[x]) /\ b \in ToSet(keys)
  <2>1. CASE UNCHANGED subscriptions /\ new # keys
    BY <2>1
  <2>2. CASE new = keys /\ subscriptions' = Subscribed(x, Restores(new))
    <3>1. PICK undos \in Seq(Subscription) : undos = Restores(keys)
      BY <1>2, RestoresOrder
    <3>2. /\ ToSet(subscriptions'[x]) = ToSet(subscriptions[x]) \cup ToSet(undos)
          /\ \A a, b : Precedes(subscriptions'[x], a, b) <=>
               \/ Precedes(subscriptions[x], a, b) \/ Precedes(undos, a, b)
               \/ (a \in ToSet(subscriptions[x]) /\ b \in ToSet(undos))
          /\ \A y \in Interceptor : y # x => subscriptions'[y] = subscriptions[y]
      BY <1>1, <1>3, <2>2, <3>1, Subscribing
    <3>3. ToSet(undos) = {Restore(l) : l \in ToSet(keys)}
      BY <1>2, <3>1, RestoresOrder DEF Restore
    <3>4. \A l \in Key : Restore(l) \in ToSet(undos) <=> l \in ToSet(keys)
      BY <3>3, Restoring
    <3>5. \A a, b \in Key : Precedes(undos, Restore(a), Restore(b)) <=> Precedes(keys, a, b)
      BY <1>2, <3>1, RestoresOrder DEF Restore
    <3>6. QED
      BY <2>2, <3>2, <3>4, <3>5
  <2>3. QED
    BY <1>10, <2>1, <2>2
<1>12. new = keys => ToSet(keys) = ToSet(held) \cup {k}
  BY <1>7
<1>13. \A l \in ToSet(keys) : l \in Key
  BY <1>2, ElementsOf
<1>14. \A y \in Interceptor : \A l \in Key : replaced'[l] = y =>
         \/ Restore(l) \in ToSet(subscriptions'[y])
         \/ \E f \in ToSet(stack') : f.of = y /\ Holds(f, l)
  <2> SUFFICES ASSUME NEW y \in Interceptor, NEW l \in Key, replaced'[l] = y
               PROVE  \/ Restore(l) \in ToSet(subscriptions'[y])
                      \/ \E f \in ToSet(stack') : f.of = y /\ Holds(f, l)
    OBVIOUS
  <2>1. ASSUME y = x, l \in ToSet(held) \/ l = k
        PROVE  \/ Restore(l) \in ToSet(subscriptions'[y])
               \/ \E f \in ToSet(stack') : f.of = y /\ Holds(f, l)
    <3>1. CASE new = keys
      BY <1>11, <1>12, <2>1, <3>1
    <3>2. CASE new # keys
      <4>1. Holds(g, l) /\ g.of = y /\ g \in ToSet(stack')
        BY <1>7, <1>10, <2>1, <3>2 DEF Holds
      <4>2. QED
        BY <4>1
    <3>3. QED
      BY <3>1, <3>2
  <2>2. CASE l = k
    BY <1>6, <2>1, <2>2
  <2>3. CASE l # k
    <3>1. replaced[l] = y
      BY <1>6, <2>3
    <3>2. \/ Restore(l) \in ToSet(subscriptions[y])
          \/ \E f \in ToSet(stack) : f.of = y /\ Holds(f, l)
      BY <3>1 DEF Patched
    <3>3. CASE Restore(l) \in ToSet(subscriptions[y])
      BY <1>11, <3>3
    <3>4. CASE \E f \in ToSet(stack) : f.of = y /\ Holds(f, l)
      <4>1. PICK f \in ToSet(stack) : f.of = y /\ Holds(f, l)
        BY <3>4
      <4>2. CASE f = Current
        BY <2>1, <4>1, <4>2 DEF Holds, x, held
      <4>3. CASE f # Current
        BY <1>3, <1>10, <4>1, <4>3
      <4>4. QED
        BY <4>2, <4>3
    <3>5. QED
      BY <3>2, <3>3, <3>4
  <2>4. QED
    BY <2>2, <2>3
<1>15. \A y \in Interceptor : \A l \in Key :
         Restore(l) \in ToSet(subscriptions'[y]) => replaced'[l] = y
  <2> SUFFICES ASSUME NEW y \in Interceptor, NEW l \in Key,
                      Restore(l) \in ToSet(subscriptions'[y])
               PROVE  replaced'[l] = y
    OBVIOUS
  <2>1. CASE Restore(l) \in ToSet(subscriptions[y])
    BY <1>6, <1>9, <2>1 DEF Patched
  <2>2. CASE Restore(l) \notin ToSet(subscriptions[y])
    BY <1>6, <1>8, <1>11, <1>12, <2>2
  <2>3. QED
    BY <2>1, <2>2
<1>16. \A y \in Interceptor : \A l \in Key :
         ~Precedes(subscriptions'[y], Restore(l), Restore(l))
  <2>1. \A l : ~Precedes(keys, l, l)
    <3>1. \A i, j \in DOMAIN keys : i < j => keys[i] # keys[j]
      <4>1. \A i, j \in DOMAIN keys : i < j => i # j
        BY <1>2
      <4>2. QED
        BY <1>2, <4>1, GroupParts
    <3>2. QED
      BY <3>1 DEF Precedes
  <2>2. \A y \in Interceptor : \A l \in Key :
          ~Precedes(subscriptions[y], Restore(l), Restore(l))
    BY DEF Patched
  <2>3. QED
    BY <1>3, <1>8, <1>9, <1>11, <1>12, <2>1, <2>2
<1>17. \A f \in ToSet(stack') : \A l \in Key : Holds(f, l) =>
         replaced'[l] = f.of /\ Restore(l) \notin ToSet(subscriptions'[f.of])
  <2> SUFFICES ASSUME NEW f \in ToSet(stack'), NEW l \in Key, Holds(f, l)
               PROVE  replaced'[l] = f.of /\ Restore(l) \notin ToSet(subscriptions'[f.of])
    OBVIOUS
  <2>1. CASE f \in ToSet(Callers)
    <3>1. f \in ToSet(stack) /\ f.of # x /\ f.of \in Interceptor
      BY <1>3, <2>1 DEF x
    <3>2. replaced[l] = f.of /\ Restore(l) \notin ToSet(subscriptions[f.of])
      BY <3>1 DEF Patched
    <3>3. l # k
      BY <1>1, <1>4, <3>1, <3>2 DEF k
    <3>4. QED
      BY <1>6, <1>11, <3>1, <3>2, <3>3
  <2>2. CASE f = g
    <3>1. new # keys /\ l \in ToSet(held) \cup {k}
      BY <1>7, <1>10, <2>2, EmptyOrder DEF Holds
    <3>2. replaced'[l] = x
      BY <1>6, <1>8, <3>1
    <3>3. Restore(l) \notin ToSet(subscriptions[x])
      BY <1>3, <1>8, <1>9, <3>1 DEF x
    <3>4. QED
      BY <1>10, <1>11, <2>2, <3>1, <3>2, <3>3
  <2>3. QED
    BY <1>10, <2>1, <2>2
<1>18. \A y \in Interceptor : \A others \in Groups : \A n \in DOMAIN others :
         n # 1 /\ Restore(others[n]) \in ToSet(subscriptions'[y]) =>
           Precedes(subscriptions'[y], Restore(others[1]), Restore(others[n]))
  <2> SUFFICES ASSUME NEW y \in Interceptor, NEW others \in Groups, NEW n \in DOMAIN others,
                      n # 1, Restore(others[n]) \in ToSet(subscriptions'[y])
               PROVE  Precedes(subscriptions'[y], Restore(others[1]), Restore(others[n]))
    OBVIOUS
  <2>1. others[1] \in Key /\ others[n] \in Key
    BY GroupParts
  <2>2. CASE Restore(others[n]) \in ToSet(subscriptions[y])
    <3>1. Precedes(subscriptions[y], Restore(others[1]), Restore(others[n]))
      BY <2>2 DEF Patched
    <3>2. QED
      BY <1>11, <2>1, <3>1
  <2>3. CASE Restore(others[n]) \notin ToSet(subscriptions[y])
    <3>1. y = x /\ new = keys /\ others[n] \in ToSet(keys)
      BY <1>11, <2>1, <2>3
    <3>2. PICK j \in DOMAIN keys : others[n] = keys[j]
      BY <3>1 DEF ToSet
    <3>3. j # 1 /\ others[1] = keys[1]
      BY <1>2, <3>2, OthersOfGroup
    <3>4. 1 \in DOMAIN keys /\ 1 < j
      BY <1>2, <3>2, <3>3
    <3>5. Precedes(keys, others[1], others[n])
      BY <3>2, <3>3, <3>4 DEF Precedes
    <3>6. QED
      BY <1>11, <2>1, <3>1, <3>5
  <2>4. QED
    BY <2>2, <2>3
<1>19. \A others \in Groups : \A n \in DOMAIN others :
         replaced'[others[n]] # None => replaced'[others[n]] = replaced'[others[1]]
  <2> SUFFICES ASSUME NEW others \in Groups, NEW n \in DOMAIN others,
                      replaced'[others[n]] # None, n # 1
               PROVE  replaced'[others[n]] = replaced'[others[1]]
    OBVIOUS
  <2>1. others[1] \in Key /\ others[n] \in Key
    BY GroupParts
  <2>2. CASE others[n] = k
    <3>1. m # 1 /\ others[1] = keys[1]
      BY <1>2, <2>2, OthersOfGroup
    <3>2. 1 \in DOMAIN keys /\ 1 < m
      BY <1>2, <3>1
    <3>3. others[1] \in ToSet(held)
      BY <1>2, <3>1, <3>2
    <3>4. QED
      BY <1>6, <1>8, <2>1, <2>2, <3>3
  <2>3. CASE others[n] # k
    <3>1. replaced[others[n]] # None /\ replaced[others[n]] = replaced[others[1]]
      BY <1>6, <2>1, <2>3 DEF Patched
    <3>2. others[1] # k
      BY <1>1, <3>1 DEF k
    <3>3. QED
      BY <1>6, <2>1, <2>3, <3>1, <3>2
  <2>4. QED
    BY <2>2, <2>3
<1>20. QED
  BY <1>14, <1>15, <1>16, <1>17, <1>18, <1>19 DEF Patched, Restore, Holds

\* A key is restored.
LEMMA RestoringKeeps ==
  ASSUME Structure, Patched, UndoPatch
  PROVE  Patched'
<1> DEFINE x == Current.of
           k == TheUndo.key
<1>1. TypeOK /\ Nested(stack) /\ Subscriptions /\ Undoes("patch")
  BY DEF Structure, UndoPatch
<1>2. /\ stack # <<>> /\ Current.op = "dispose" /\ x \in Interceptor
      /\ TheUndo \in Subscription /\ TheUndo.undo = "patch"
      /\ ToSet(subscriptions[x]) = ToSet(subscriptions'[x]) \cup {TheUndo}
      /\ \A a, b : Precedes(subscriptions[x], a, b) <=>
           \/ Precedes(subscriptions'[x], a, b)
           \/ (a \in ToSet(subscriptions'[x]) /\ b = TheUndo)
      /\ \A y \in Interceptor : y # x => subscriptions'[y] = subscriptions[y]
      /\ subscriptions' \in [Interceptor -> Seq(Subscription)]
  BY <1>1, Unsubscribing
<1>3. k \in Key /\ TheUndo = Restore(k)
  BY <1>2 DEF Subscription, Restore
<1>4. replaced \in [Key -> Interceptor \cup {None}] /\ None \notin Interceptor
  BY InterceptorsAssumption DEF Structure, TypeOK
<1>5. replaced' = [replaced EXCEPT ![k] = None] /\ UNCHANGED stack
  BY DEF UndoPatch
<1>6. /\ ToSet(stack) = ToSet(Callers) \cup {Current}
      /\ \A f \in ToSet(Callers) : f.of # x /\ f.of \in Interceptor
  BY <1>1, <1>2, TopCall
<1> HIDE DEF x, k
<1>7. replaced'[k] = None /\ \A l \in Key : l # k => replaced'[l] = replaced[l]
  BY <1>3, <1>4, <1>5
<1>8. replaced[k] = x
  BY <1>2, <1>3 DEF Patched
<1>9. Restore(k) \notin ToSet(subscriptions'[x])
  <2>1. ~Precedes(subscriptions[x], Restore(k), Restore(k))
    BY <1>2, <1>3 DEF Patched
  <2>2. QED
    BY <1>2, <1>3, <2>1
<1>10. \A l : l # k => Restore(l) # TheUndo
  BY <1>3, Restoring
<1>11. \A f \in ToSet(stack) : \A l : Holds(f, l) => f \in ToSet(Callers)
  BY <1>2, <1>6 DEF Holds
<1>12. \A y \in Interceptor : \A l \in Key : replaced'[l] = y =>
         \/ Restore(l) \in ToSet(subscriptions'[y])
         \/ \E f \in ToSet(stack') : f.of = y /\ Holds(f, l)
  <2> SUFFICES ASSUME NEW y \in Interceptor, NEW l \in Key, replaced'[l] = y
               PROVE  \/ Restore(l) \in ToSet(subscriptions'[y])
                      \/ \E f \in ToSet(stack) : f.of = y /\ Holds(f, l)
    BY <1>5
  <2>1. l # k /\ replaced[l] = y
    BY <1>4, <1>7
  <2>2. \/ Restore(l) \in ToSet(subscriptions[y])
        \/ \E f \in ToSet(stack) : f.of = y /\ Holds(f, l)
    BY <2>1 DEF Patched
  <2>3. Restore(l) \in ToSet(subscriptions[y]) => Restore(l) \in ToSet(subscriptions'[y])
    BY <1>2, <1>10, <2>1
  <2>4. QED
    BY <2>2, <2>3
<1>13. \A y \in Interceptor : \A l \in Key :
         /\ Restore(l) \in ToSet(subscriptions'[y]) => replaced'[l] = y
         /\ ~Precedes(subscriptions'[y], Restore(l), Restore(l))
  <2> SUFFICES ASSUME NEW y \in Interceptor, NEW l \in Key
               PROVE  /\ Restore(l) \in ToSet(subscriptions'[y]) => replaced'[l] = y
                      /\ ~Precedes(subscriptions'[y], Restore(l), Restore(l))
    OBVIOUS
  <2>1. /\ Restore(l) \in ToSet(subscriptions[y]) => replaced[l] = y
        /\ ~Precedes(subscriptions[y], Restore(l), Restore(l))
    BY DEF Patched
  <2>2. CASE y = x
    BY <1>2, <1>7, <1>9, <2>1, <2>2
  <2>3. CASE y # x
    BY <1>2, <1>7, <1>8, <2>1, <2>3
  <2>4. QED
    BY <2>2, <2>3
<1>14. \A f \in ToSet(stack') : \A l \in Key : Holds(f, l) =>
         replaced'[l] = f.of /\ Restore(l) \notin ToSet(subscriptions'[f.of])
  <2> SUFFICES ASSUME NEW f \in ToSet(stack), NEW l \in Key, Holds(f, l)
               PROVE  replaced'[l] = f.of /\ Restore(l) \notin ToSet(subscriptions'[f.of])
    BY <1>5
  <2>1. f.of # x /\ f.of \in Interceptor
    BY <1>6, <1>11
  <2>2. replaced[l] = f.of /\ Restore(l) \notin ToSet(subscriptions[f.of])
    BY DEF Patched
  <2>3. QED
    BY <1>2, <1>7, <1>8, <2>1, <2>2
<1>15. \A y \in Interceptor : \A keys \in Groups : \A n \in DOMAIN keys :
         n # 1 /\ Restore(keys[n]) \in ToSet(subscriptions'[y]) =>
           Precedes(subscriptions'[y], Restore(keys[1]), Restore(keys[n]))
  <2> SUFFICES ASSUME NEW y \in Interceptor, NEW keys \in Groups, NEW n \in DOMAIN keys,
                      n # 1, Restore(keys[n]) \in ToSet(subscriptions'[y])
               PROVE  Precedes(subscriptions'[y], Restore(keys[1]), Restore(keys[n]))
    OBVIOUS
  <2>1. CASE y # x
    BY <1>2, <2>1 DEF Patched
  <2>2. CASE y = x
    <3>1. Precedes(subscriptions[x], Restore(keys[1]), Restore(keys[n]))
      BY <1>2, <2>2 DEF Patched
    <3>2. Restore(keys[n]) # TheUndo
      BY <1>3, <1>9, <2>2
    <3>3. QED
      BY <1>2, <2>2, <3>1, <3>2
  <2>3. QED
    BY <2>1, <2>2
<1>16. \A keys \in Groups : \A n \in DOMAIN keys :
         replaced'[keys[n]] # None => replaced'[keys[n]] = replaced'[keys[1]]
  <2> SUFFICES ASSUME NEW keys \in Groups, NEW n \in DOMAIN keys,
                      replaced'[keys[n]] # None, n # 1
               PROVE  replaced'[keys[n]] = replaced'[keys[1]]
    OBVIOUS
  <2>1. keys[1] \in Key /\ keys[n] \in Key
    BY GroupParts
  <2>2. /\ keys[n] # k /\ replaced[keys[n]] # None
        /\ replaced[keys[n]] = replaced[keys[1]]
    <3>1. keys[n] # k /\ replaced[keys[n]] # None
      BY <1>7, <2>1
    <3>2. QED
      BY <3>1 DEF Patched
  <2>3. ASSUME keys[1] = k
        PROVE  FALSE
    <3>1. replaced[keys[n]] = x
      BY <1>8, <2>2, <2>3
    <3>2. Restore(keys[n]) \in ToSet(subscriptions[x])
      <4>1. \/ Restore(keys[n]) \in ToSet(subscriptions[x])
            \/ \E f \in ToSet(stack) : f.of = x /\ Holds(f, keys[n])
        BY <1>2, <2>1, <3>1 DEF Patched
      <4>2. QED
        BY <1>6, <1>11, <4>1
    <3>3. Precedes(subscriptions[x], Restore(keys[1]), Restore(keys[n]))
      BY <1>2, <3>2 DEF Patched
    <3>4. Restore(k) \in ToSet(subscriptions'[x])
      <4>1. PICK s \in Seq(Subscription) : s = subscriptions'[x]
        BY <1>2
      <4>2. Precedes(s, Restore(k), Restore(keys[n])) => Restore(k) \in ToSet(s)
        BY ElementsOf
      <4>3. QED
        BY <1>2, <2>3, <3>3, <4>1, <4>2
    <3>5. QED
      BY <1>9, <3>4
  <2>4. QED
    BY <1>7, <2>1, <2>2, <2>3
<1>17. QED
  BY <1>12, <1>13, <1>14, <1>15, <1>16 DEF Patched, Restore, Holds

\* A setup() fails at the first key of a group: where that one can be replaced, so
\* can the others, and nothing is left half-replaced.
LEMMA FailsAtFirst ==
  ASSUME Structure, Patched, AtStep("patch"), replaced[NextKey] # None
  PROVE  Current.held = <<>>
<1> DEFINE x == Current.of
           held == Current.held
           keys == TheStep.keys
           k == NextKey
           m == Len(held) + 1
<1>1. TypeOK /\ Nested(stack) /\ Subscriptions
  BY DEF Structure
<1>2. /\ keys \in Groups /\ held \in Seq(Key)
      /\ m \in DOMAIN keys /\ k = keys[m] /\ k \in Key /\ Len(held) \in Nat
      /\ ToSet(held) = {keys[n] : n \in {i \in DOMAIN keys : i < m}}
  BY <1>1, NextOfGroup
<1>3. /\ stack # <<>> /\ Current.op = "setup" /\ x \in Interceptor
      /\ ToSet(stack) = ToSet(Callers) \cup {Current}
      /\ \A f \in ToSet(Callers) : f.of # x
  BY <1>1, RunningStep, TopCall
<1> HIDE DEF x, held, keys, k, m
<1> SUFFICES ASSUME held # <<>>
             PROVE  FALSE
  BY DEF held
<1>4. m # 1
  BY <1>2 DEF m
<1>5. keys[1] \in ToSet(held) /\ keys[1] \in Key
  <2>1. 1 \in DOMAIN keys /\ 1 < m
    BY <1>2, <1>4, GroupParts
  <2>2. QED
    BY <1>2, <2>1, GroupParts
<1>6. Holds(Current, keys[1]) /\ Current \in ToSet(stack)
  BY <1>3, <1>5 DEF Holds, held
<1>7. replaced[keys[1]] = x /\ Restore(keys[1]) \notin ToSet(subscriptions[x])
  BY <1>5, <1>6 DEF Patched, x
<1>8. replaced[k] = x
  BY <1>2, <1>7 DEF Patched, k
<1>9. k \notin ToSet(held)
  <2>1. \A n \in DOMAIN keys : n < m => keys[n] # k
    <3>1. \A n \in DOMAIN keys : n < m => n # m
      BY <1>2
    <3>2. QED
      BY <1>2, <3>1, GroupParts
  <2>2. QED
    BY <1>2, <2>1
<1>10. Restore(k) \in ToSet(subscriptions[x])
  <2>1. \/ Restore(k) \in ToSet(subscriptions[x])
        \/ \E f \in ToSet(stack) : f.of = x /\ Holds(f, k)
    BY <1>2, <1>3, <1>8 DEF Patched
  <2>2. ASSUME NEW f \in ToSet(stack), f.of = x, Holds(f, k)
        PROVE  FALSE
    <3>1. f = Current
      BY <1>3, <2>2
    <3>2. QED
      BY <1>9, <2>2, <3>1 DEF Holds, held
  <2>3. QED
    BY <2>1, <2>2
<1>11. Precedes(subscriptions[x], Restore(keys[1]), Restore(k))
  BY <1>2, <1>3, <1>4, <1>10 DEF Patched
<1>12. Restore(keys[1]) \in ToSet(subscriptions[x])
  <2>1. subscriptions[x] \in Seq(Subscription)
    BY <1>1, <1>3 DEF Subscriptions
  <2>2. QED
    BY <1>11, <2>1, ElementsOf
<1>13. QED
  BY <1>7, <1>12

\* The setups that hold keys stay as they are.
HoldersStay ==
  /\ \A f \in ToSet(stack') : f.op = "setup" /\ f.held # <<>> => f \in ToSet(stack)
  /\ \A f \in ToSet(stack) : f.op = "setup" /\ f.held # <<>> => f \in ToSet(stack')

OnlyOtherSubscriptions ==
  \A y \in Interceptor : \A k, l \in Key :
    /\ Restore(k) \in ToSet(subscriptions'[y]) <=> Restore(k) \in ToSet(subscriptions[y])
    /\ Precedes(subscriptions'[y], Restore(k), Restore(l))
         <=> Precedes(subscriptions[y], Restore(k), Restore(l))

\* Replaced globals stay in order: a step replaces or restores a key, passes held keys
\* to the subscriptions, or leaves them alone.
LEMMA PatchedStep ==
  ASSUME Structure, [Next]_vars, Patched
  PROVE  Patched'
<1>1. TypeOK /\ Nested(stack) /\ Subscriptions /\ stack \in Seq(Frame) /\ stack' \in Seq(Frame)
  BY StackKept DEF Structure, TypeOK
<1>2. ASSUME UNCHANGED replaced, HoldersStay, OnlyOtherSubscriptions
      PROVE  Patched'
  BY <1>1, <1>2, PatchedKept DEF HoldersStay, OnlyOtherSubscriptions
<1>3. UNCHANGED subscriptions => OnlyOtherSubscriptions
  BY DEF OnlyOtherSubscriptions
<1>4. UNCHANGED stack => HoldersStay
  BY DEF HoldersStay
<1>5. ASSUME NEW x \in Public, Apply(x) \/ Dispose(x)
      PROVE  Patched'
  <2>1. UNCHANGED replaced /\ UNCHANGED subscriptions /\ stack = <<>>
    BY <1>5 DEF Apply, Dispose, Idle
  <2>2. \A f \in ToSet(stack') : f.op = "setup" => f.held = <<>>
    <3>1. PICK g, h : g = SetupFrame(x, x) /\ h = DisposeFrame(x, FALSE)
      OBVIOUS
    <3>2. stack' = <<>> \/ stack' = <<g>> \/ stack' = Append(<<>>, h)
      BY <1>5, <3>1 DEF Apply, Dispose, Release
    <3>3. g \in Frame /\ g.op = "setup" /\ g.held = <<>> /\ Steps(g) /\ g.owner = g.of
      BY <3>1, NewFrames DEF Public
    <3>4. h \in Frame /\ h.op = "dispose"
      <4>1. DisposeFrame(x, FALSE) \in Frame /\ DisposeFrame(x, FALSE).op = "dispose"
        BY NewFrames DEF Public
      <4>2. QED
        BY <3>1, <4>1
    <3>5. ToSet(stack') \subseteq {g, h}
      <4>1. ToSet(<<g>>) = {g} /\ ToSet(Append(<<>>, h)) = {h} /\ ToSet(<<>>) = {}
        <5>1. Append(<<>>, h) = <<h>> /\ ToSet(<<h>>) = {h}
          BY <3>4, FirstCall
        <5>2. QED
          BY <3>3, <5>1, FirstCall
      <4>2. QED
        BY <3>2, <4>1
    <3>6. QED
      BY <3>3, <3>4, <3>5
  <2>3. HoldersStay
    BY <2>1, <2>2, EmptyOrder DEF HoldersStay
  <2>4. QED
    BY <1>2, <1>3, <2>1, <2>3
\* A setup() between two steps, or at a step that is no patch, holds nothing.
<1>6. ASSUME NEW do, AtStep(do), do # "patch", stack' = Append(Callers, Advanced(Current))
      PROVE  HoldersStay
  <2>1. /\ stack # <<>> /\ Current.op = "setup" /\ TheStep.do = do
        /\ TheStep = Setup[Current.of][Current.at]
    BY <1>1, <1>6, RunningStep
  <2>2. ToSet(stack) = ToSet(Callers) \cup {Current} /\ Steps(Current)
    BY <1>1, <2>1, TopCall
  <2>3. Current.held = <<>>
    BY <1>6, <2>1, <2>2 DEF Steps, AtPatch
  <2>4. PICK g : g = Advanced(Current)
    OBVIOUS
  <2>5. ToSet(stack') = ToSet(Callers) \cup {g} /\ g.held = <<>>
    BY <1>1, <1>6, <2>4, StepEnds
  <2>6. QED
    BY <2>2, <2>3, <2>5 DEF HoldersStay
<1>7. ASSUME NEW do, AtStep(do), NEW s, s \in Subscription, s.undo # "patch",
             subscriptions' = Subscribed(Current.of, <<s>>)
      PROVE  OnlyOtherSubscriptions
  <2>1. PICK x \in Interceptor : x = Current.of
    BY <1>1, <1>7, RunningStep
  <2>2. <<s>> \in Seq(Subscription)
    BY <1>7, SingleOrder
  <2>3. QED
    BY <1>1, <1>7, <2>1, <2>2, OtherSubscription DEF OnlyOtherSubscriptions
<1>8. ASSUME SetupBridges \/ SetupForwards
      PROVE  Patched'
  <2>1. PICK do \in {"bridge", "forward"} :
          /\ AtStep(do) /\ stack' = Append(Callers, Advanced(Current))
          /\ subscriptions' = Subscribed(Current.of, <<[undo |-> do]>>)
    BY <1>8 DEF SetupBridges, SetupForwards, NextStep
  <2>2. PICK s : s = [undo |-> do]
    OBVIOUS
  <2>3. s \in Subscription /\ s.undo # "patch"
    BY <2>2, Undos
  <2>4. UNCHANGED replaced
    BY <1>8 DEF SetupBridges, SetupForwards
  <2>5. HoldersStay
    BY <1>6, <2>1
  <2>6. OnlyOtherSubscriptions
    BY <1>7, <2>1, <2>2, <2>3
  <2>7. QED
    BY <1>2, <2>4, <2>5, <2>6
<1>9. ASSUME SetupApplies
      PROVE  Patched'
  <2>1. PICK x, c : x = Current.of /\ c = TheStep.child
    OBVIOUS
  <2>2. /\ AtStep("apply") /\ UNCHANGED replaced
        /\ \/ stack' = Append(stack, SetupFrame(c, x)) /\ UNCHANGED subscriptions
           \/ /\ stack' = Append(Callers, Advanced(Current))
              /\ subscriptions' = Subscribed(x, DisposeOf(c))
    BY <1>9, <2>1 DEF SetupApplies, NextStep
  <2>3. x \in Interceptor /\ c \in Interceptor
    BY <1>1, <2>1, <2>2, ApplyingChild
  <2>4. CASE stack' = Append(stack, SetupFrame(c, x)) /\ UNCHANGED subscriptions
    <3>1. ToSet(stack') = ToSet(stack) \cup {SetupFrame(c, x)}
      BY <1>1, <2>1, <2>2, <2>4, ApplyingChild
    <3>2. SetupFrame(c, x).held = <<>>
      BY <2>3, NewFrames
    <3>3. HoldersStay
      BY <3>1, <3>2 DEF HoldersStay
    <3>4. QED
      BY <1>2, <1>3, <2>2, <2>4, <3>3
  <2>5. CASE /\ stack' = Append(Callers, Advanced(Current))
             /\ subscriptions' = Subscribed(x, DisposeOf(c))
    <3>1. PICK s : s = [undo |-> "dispose", child |-> c]
      OBVIOUS
    <3>2. s \in Subscription /\ s.undo # "patch" /\ DisposeOf(c) = <<s>>
      BY <2>3, <3>1, Undos DEF DisposeOf
    <3>3. OnlyOtherSubscriptions
      BY <1>7, <2>1, <2>2, <2>5, <3>2
    <3>4. HoldersStay
      BY <1>6, <2>2, <2>5
    <3>5. QED
      BY <1>2, <2>2, <3>3, <3>4
  <2>6. QED
    BY <2>2, <2>4, <2>5
<1>10. ASSUME SetupFails
       PROVE  Patched'
  <2>1. /\ AtStep("patch") /\ replaced[NextKey] # None
        /\ stack' = Append(Callers, DisposeFrame(Current.of, TRUE))
        /\ UNCHANGED replaced /\ UNCHANGED subscriptions
    BY <1>10 DEF SetupFails, Undoing
  <2>2. Current.held = <<>>
    BY <2>1, FailsAtFirst
  <2>3. stack # <<>> /\ Current.op = "setup" /\ Current.of \in Interceptor
    BY <1>1, <2>1, RunningStep
  <2>4. ToSet(stack) = ToSet(Callers) \cup {Current}
    BY <1>1, <2>3, TopCall
  <2>5. ToSet(stack') = ToSet(Callers) \cup {DisposeFrame(Current.of, TRUE)}
    BY <1>1, <2>1, <2>3, Failing DEF Current, Callers
  <2>6. DisposeFrame(Current.of, TRUE).op = "dispose"
    BY <2>3, NewFrames
  <2>7. HoldersStay
    BY <2>2, <2>4, <2>5, <2>6 DEF HoldersStay
  <2>8. QED
    BY <1>2, <1>3, <2>1, <2>7
<1>11. ASSUME stack # <<>>, Callers # <<>>, Current.op = "setup" \/ Current.rethrows
       PROVE  Last(Callers).held = <<>>
  <2>1. PICK f : f = Last(Callers)
    OBVIOUS
  <2>2. f.op = "setup" /\ Steps(f) /\ AtApply(f)
    BY <1>1, <1>11, <2>1, CallerOf
  <2>3. QED
    BY <2>1, <2>2 DEF Steps, AtApply, AtPatch
<1>12. ASSUME SetupReturns
       PROVE  Patched'
  <2>1. /\ stack # <<>> /\ Current.op = "setup" /\ Current.at > Len(Setup[Current.of])
        /\ UNCHANGED replaced
        /\ \/ Callers = <<>> /\ stack' = <<>> /\ UNCHANGED subscriptions
           \/ /\ Callers # <<>>
              /\ stack' = Append(Front(Callers), Advanced(Last(Callers)))
              /\ subscriptions' = Subscribed(Last(Callers).of, DisposeOf(Current.of))
    BY <1>12 DEF SetupReturns, Running, Current
  <2>2. /\ Steps(Current) /\ ToSet(stack) = ToSet(Callers) \cup {Current}
        /\ Callers \in Seq(Frame) /\ Nested(Callers)
        /\ Current.at \in Nat /\ Current.of \in Interceptor
    BY <1>1, <2>1, TopCall
  <2>3. Current.held = <<>>
    <3>1. Len(Setup[Current.of]) \in Nat
      BY <2>2, SetupAssumption
    <3>2. ~AtPatch(Current)
      BY <2>1, <2>2, <3>1 DEF AtPatch
    <3>3. QED
      BY <2>2, <3>2 DEF Steps
  <2>4. CASE Callers = <<>> /\ stack' = <<>> /\ UNCHANGED subscriptions
    <3>1. HoldersStay
      BY <2>2, <2>3, <2>4, EmptyOrder DEF HoldersStay
    <3>2. QED
      BY <1>2, <1>3, <2>1, <2>4, <3>1
  <2>5. CASE /\ Callers # <<>>
             /\ stack' = Append(Front(Callers), Advanced(Last(Callers)))
             /\ subscriptions' = Subscribed(Last(Callers).of, DisposeOf(Current.of))
    <3>1. PICK f : f = Last(Callers)
      OBVIOUS
    <3>2. /\ f.op = "setup" /\ f.of \in Interceptor /\ f.at <= Len(Setup[f.of])
          /\ ToSet(Callers) = ToSet(Front(Callers)) \cup {f}
      BY <1>1, <2>1, <2>5, <3>1, CallerOf
    <3>3. f.held = <<>>
      BY <1>11, <2>1, <2>5, <3>1
    <3>4. PICK g : g = Advanced(f)
      OBVIOUS
    <3>5. ToSet(stack') = ToSet(Front(Callers)) \cup {g} /\ g.held = <<>>
      BY <2>2, <2>5, <3>1, <3>2, <3>4, Advancing
    <3>6. HoldersStay
      BY <2>2, <2>3, <3>2, <3>3, <3>5 DEF HoldersStay
    <3>7. PICK s : s = [undo |-> "dispose", child |-> Current.of]
      OBVIOUS
    <3>8. s \in Subscription /\ s.undo # "patch" /\ DisposeOf(Current.of) = <<s>>
      BY <2>2, <3>7, Undos DEF DisposeOf
    <3>9. OnlyOtherSubscriptions
      <4>1. <<s>> \in Seq(Subscription) /\ subscriptions' = Subscribed(f.of, <<s>>)
        BY <2>5, <3>1, <3>8, SingleOrder
      <4>2. QED
        BY <1>1, <3>2, <3>8, <4>1, OtherSubscription DEF OnlyOtherSubscriptions
    <3>10. QED
      BY <1>2, <2>1, <3>6, <3>9
  <2>6. QED
    BY <2>1, <2>4, <2>5
<1>13. ASSUME NEW undo, undo # "patch", Undoes(undo)
       PROVE  OnlyOtherSubscriptions
  <2> DEFINE x == Current.of
  <2>1. x \in Interceptor /\ TheUndo.undo = undo
    BY <1>1, <1>13, Unsubscribing
  <2>2. /\ ToSet(subscriptions[x]) = ToSet(subscriptions'[x]) \cup {TheUndo}
        /\ \A a, b : Precedes(subscriptions[x], a, b) <=>
             \/ Precedes(subscriptions'[x], a, b)
             \/ (a \in ToSet(subscriptions'[x]) /\ b = TheUndo)
        /\ \A y \in Interceptor : y # x => subscriptions'[y] = subscriptions[y]
    BY <1>1, <1>13, Unsubscribing
  <2> HIDE DEF x
  <2>3. PICK s : s = TheUndo
    OBVIOUS
  <2>4. QED
    BY <1>1, <1>13, <2>1, <2>2, <2>3, OtherSubscription DEF OnlyOtherSubscriptions
<1>14. ASSUME UndoApply
       PROVE  Patched'
  <2>1. /\ Undoes("dispose") /\ UNCHANGED replaced
        /\ UNCHANGED stack \/ stack' = Append(stack, DisposeFrame(TheUndo.child, FALSE))
    BY <1>14 DEF UndoApply, Release
  <2>2. HoldersStay
    <3>1. CASE UNCHANGED stack
      BY <1>4, <3>1
    <3>2. CASE stack' = Append(stack, DisposeFrame(TheUndo.child, FALSE))
      <4>1. ToSet(stack') = ToSet(stack) \cup {DisposeFrame(TheUndo.child, FALSE)}
        BY <1>1, <2>1, <3>2, DisposingChild
      <4>2. DisposeFrame(TheUndo.child, FALSE).op = "dispose"
        BY DEF DisposeFrame
      <4>3. QED
        BY <4>1, <4>2 DEF HoldersStay
    <3>3. QED
      BY <2>1, <3>1, <3>2
  <2>3. QED
    BY <1>2, <1>13, <2>1, <2>2
<1>15. ASSUME UndoForward \/ UndoBridge
       PROVE  Patched'
  <2>1. PICK undo : undo # "patch" /\ Undoes(undo)
    BY <1>15 DEF UndoForward, UndoBridge
  <2>2. UNCHANGED replaced /\ UNCHANGED stack
    BY <1>15 DEF UndoForward, UndoBridge
  <2>3. QED
    BY <1>2, <1>4, <1>13, <2>1, <2>2
<1>16. ASSUME DisposeEnds
       PROVE  Patched'
  <2>1. /\ stack # <<>> /\ Current.op = "dispose"
        /\ UNCHANGED replaced /\ UNCHANGED subscriptions
        /\ \/ stack' = Callers
           \/ /\ Current.rethrows /\ Callers # <<>>
              /\ stack' = Append(Front(Callers), DisposeFrame(Last(Callers).of, TRUE))
    BY <1>16 DEF DisposeEnds, Running, Undoing, Current
  <2>2. /\ ToSet(stack) = ToSet(Callers) \cup {Current}
        /\ Callers \in Seq(Frame) /\ Nested(Callers)
    BY <1>1, <2>1, TopCall
  <2>3. HoldersStay
    <3>1. CASE stack' = Callers
      BY <2>1, <2>2, <3>1 DEF HoldersStay
    <3>2. CASE /\ Current.rethrows /\ Callers # <<>>
               /\ stack' = Append(Front(Callers), DisposeFrame(Last(Callers).of, TRUE))
      <4>1. PICK f : f = Last(Callers)
        OBVIOUS
      <4>2. /\ f.op = "setup" /\ f.of \in Interceptor
            /\ ToSet(Callers) = ToSet(Front(Callers)) \cup {f}
        BY <1>1, <2>1, <3>2, <4>1, CallerOf
      <4>3. f.held = <<>>
        BY <1>11, <2>1, <3>2, <4>1
      <4>4. ToSet(stack') = ToSet(Front(Callers)) \cup {DisposeFrame(f.of, TRUE)}
        BY <2>2, <3>2, <4>1, <4>2, Failing
      <4>5. DisposeFrame(f.of, TRUE).op = "dispose"
        BY DEF DisposeFrame
      <4>6. QED
        BY <2>1, <2>2, <4>2, <4>3, <4>4, <4>5 DEF HoldersStay
    <3>3. QED
      BY <2>1, <3>1, <3>2
  <2>4. QED
    BY <1>2, <1>3, <2>1, <2>3
<1>17. ASSUME \/ \E x \in Public : AddListener(x) \/ RemoveListener(x)
              \/ \E e \in Event, x \in Interceptor : Deliver(e, x)
              \/ UNCHANGED vars
       PROVE  Patched'
  <2>1. UNCHANGED replaced /\ UNCHANGED subscriptions /\ UNCHANGED stack
    BY <1>17 DEF AddListener, RemoveListener, Deliver, vars, lifecycleVars
  <2>2. QED
    BY <1>2, <1>3, <1>4, <2>1
<1>18. QED
  BY <1>5, <1>8, <1>9, <1>10, <1>12, <1>14, <1>15, <1>16, <1>17, PatchingKeeps, RestoringKeeps
     DEF Next, User, Call

-----------------------------------------------------------------------------
(* Ownership: an interceptor in no call is set up exactly if somebody owns   *)
(* it, and then has done all steps of its setup(); one that is being set up  *)
(* has a single owner, one that is being undone has none.                    *)

Accomplished(x, s) ==
  /\ s.do = "apply" /\ Predicate(s.child) => x \in owners[s.child]
  /\ s.do = "patch" => \A k \in ToSet(s.keys) : replaced[k] = x
  /\ s.do = "forward" => x \in forwarding
  /\ s.do = "bridge" => [undo |-> "bridge"] \in ToSet(subscriptions[x])

Done(x, a) == \A i \in DOMAIN Setup[x] : i < a => Accomplished(x, Setup[x][i])

Underway(f) ==
  /\ Predicate(f.of)
  /\ f.op = "setup" => ~Active(f.of) /\ owners[f.of] = {f.owner} /\ Done(f.of, f.at)
  /\ f.op = "dispose" => owners[f.of] = {}

Settled(x) ==
  /\ Active(x) <=> owners[x] # {}
  /\ Active(x) => Predicate(x) /\ Done(x, Len(Setup[x]) + 1)
  /\ ~Active(x) => subscriptions[x] = <<>>

InCall(x) == \E f \in ToSet(stack) : f.of = x

\* Whoever owns another will dispose of it, once its setup() has returned.
Owned ==
  \A x, c \in Interceptor : x \in owners[c] /\ x # c =>
    \/ [undo |-> "dispose", child |-> c] \in ToSet(subscriptions[x])
    \/ \E call \in ToSet(stack) : call.of = c /\ call.op = "setup"

Ownership ==
  /\ \A f \in ToSet(stack) : Underway(f)
  /\ \A x \in Interceptor : ~InCall(x) => Settled(x)
  /\ Owned

\* What the steps of y have done stays, but for its children in C.
Kept(y, C) ==
  /\ \A c \in ChildrenOf(y) \ C : y \in owners[c] => y \in owners'[c]
  /\ \A k \in Key : replaced[k] = y => replaced'[k] = y
  /\ y \in forwarding => y \in forwarding'
  /\ ToSet(subscriptions[y]) \subseteq ToSet(subscriptions'[y])

\* Steps done stay done while what they did stays.
LEMMA DoneKept ==
  ASSUME NEW y \in Interceptor, NEW a, NEW C, Done(y, a), Kept(y, C),
         \A i \in DOMAIN Setup[y] :
           i < a /\ Setup[y][i].do = "apply" => Setup[y][i].child \notin C
  PROVE  Done(y, a)'
<1> SUFFICES ASSUME NEW i \in DOMAIN Setup[y], i < a
             PROVE  Accomplished(y, Setup[y][i])'
  BY DEF Done
<1>1. PICK s : s = Setup[y][i]
  OBVIOUS
<1>2. Accomplished(y, s)
  BY <1>1 DEF Done
<1>3. s.do = "apply" => s.child \in ChildrenOf(y) \ C
  BY <1>1, StepParts
<1>4. s.do = "patch" => \A k \in ToSet(s.keys) : k \in Key
  BY <1>1, StepParts, ElementsOf
<1>5. s.do = "apply" /\ Predicate(s.child) => y \in owners'[s.child]
  BY <1>2, <1>3 DEF Accomplished, Kept
<1>6. s.do = "patch" => \A k \in ToSet(s.keys) : replaced'[k] = y
  BY <1>2, <1>4 DEF Accomplished, Kept
<1>7. s.do = "forward" => y \in forwarding'
  BY <1>2 DEF Accomplished, Kept
<1>8. s.do = "bridge" => [undo |-> "bridge"] \in ToSet(subscriptions'[y])
  BY <1>2 DEF Accomplished, Kept
<1>9. Accomplished(y, s)'
  BY <1>5, <1>6, <1>7, <1>8 DEF Accomplished, Predicate
<1>10. QED
  BY <1>1, <1>9

\* One more step of a setup() is done, or none yet.
LEMMA DoneMore ==
  ASSUME NEW x \in Interceptor
  PROVE  /\ Done(x, 1)'
         /\ \A a \in DOMAIN Setup[x] :
              Done(x, a)' /\ Accomplished(x, Setup[x][a])' => Done(x, a + 1)'
         /\ \A a \in Nat : a > Len(Setup[x]) => (Done(x, a)' => Done(x, Len(Setup[x]) + 1)')
<1>1. DOMAIN Setup[x] = 1..Len(Setup[x]) /\ Len(Setup[x]) \in Nat
  BY SetupAssumption
<1>2. Done(x, 1)'
  BY <1>1 DEF Done
<1>3. ASSUME NEW a \in DOMAIN Setup[x], Done(x, a)', Accomplished(x, Setup[x][a])'
      PROVE  Done(x, a + 1)'
  <2>1. \A i \in DOMAIN Setup[x] : i < a + 1 => i < a \/ i = a
    BY <1>1
  <2>2. QED
    BY <1>3, <2>1 DEF Done
<1>4. ASSUME NEW a \in Nat, a > Len(Setup[x]), Done(x, a)'
      PROVE  Done(x, Len(Setup[x]) + 1)'
  <2>1. \A i \in DOMAIN Setup[x] : i < a
    BY <1>1, <1>4
  <2>2. QED
    BY <1>4, <2>1 DEF Done
<1>5. QED
  BY <1>2, <1>3, <1>4

\* A call stays underway while nothing of its interceptor changes.
LEMMA UnderwayKept ==
  ASSUME NEW f \in Frame, Underway(f), owners'[f.of] = owners[f.of],
         readyState'[f.of] = readyState[f.of],
         f.op = "setup" => Done(f.of, f.at)'
  PROVE  Underway(f)'
BY DEF Underway, Active, Predicate

\* An interceptor stays settled while nothing of it changes.
LEMMA SettledKept ==
  ASSUME NEW y \in Interceptor, Settled(y), owners'[y] = {} <=> owners[y] = {},
         readyState'[y] = readyState[y], subscriptions'[y] = subscriptions[y], Kept(y, {})
  PROVE  Settled(y)'
<1>1. Active(y)' <=> Active(y)
  BY DEF Active
<1>2. Active(y) => Done(y, Len(Setup[y]) + 1)'
  BY DoneKept DEF Settled
<1>3. QED
  BY <1>1, <1>2 DEF Settled, Predicate

\* Children are not their parents.
LEMMA NoOwnChild == \A x \in Interceptor : x \notin ChildrenOf(x)
<1>1. \A x \in Interceptor : ~(Layer[x] < Layer[x])
  BY Layers
<1>2. QED
  BY <1>1, Layers

\* The apply() of a user: an owner more, and a setup() if it is the first.
LEMMA ApplyKeepsOwnership ==
  ASSUME Structure, Ownership, NEW x \in Public, Apply(x)
  PROVE  Ownership'
<1>1. x \in Interceptor
  BY DEF Public
<1>2. /\ stack = <<>> /\ ToSet(stack) = {} /\ owners' = [owners EXCEPT ![x] = @ \cup {x}]
      /\ x \notin owners[x] /\ (~Active(x) => Predicate(x))
      /\ stack' = IF Active(x) THEN <<>> ELSE <<SetupFrame(x, x)>>
      /\ UNCHANGED <<readyState, subscriptions, replaced, forwarding>>
  BY EmptyOrder DEF Apply, Idle, Ignored, eventVars
<1>3. owners \in [Interceptor -> SUBSET Interceptor]
  BY DEF Structure, TypeOK
<1>4. owners'[x] = owners[x] \cup {x} /\ \A y \in Interceptor : y # x => owners'[y] = owners[y]
  BY <1>1, <1>2, <1>3
<1>5. \A y \in Interceptor : Settled(y)
  BY <1>2 DEF Ownership, InCall
<1>6. \A y \in Interceptor : Kept(y, {})
  <2> SUFFICES ASSUME NEW y \in Interceptor
               PROVE  Kept(y, {})
    OBVIOUS
  <2>1. \A c \in ChildrenOf(y) : y \in owners[c] => y \in owners'[c]
    BY <1>2, <1>3
  <2>2. QED
    BY <1>2, <2>1 DEF Kept
<1>7. PICK g \in Frame : /\ g = SetupFrame(x, x) /\ g.op = "setup" /\ g.of = x
                         /\ g.owner = x /\ g.at = 1
  BY <1>1, NewFrames
<1>8. ToSet(stack') = IF Active(x) THEN {} ELSE {g}
  BY <1>2, <1>7, SingleOrder, EmptyOrder
<1>9. \A f \in ToSet(stack') : Underway(f)'
  <2> SUFFICES ASSUME ~Active(x)
               PROVE  Underway(g)'
    BY <1>8
  <2>1. owners'[x] = {x}
    BY <1>4, <1>5, <1>1 DEF Settled
  <2>2. ~Active(x)'
    BY <1>2 DEF Active
  <2>3. Done(x, 1)'
    BY <1>1, DoneMore
  <2>4. QED
    BY <1>2, <1>7, <2>1, <2>2, <2>3 DEF Underway, Predicate
<1>10. \A y \in Interceptor : ~InCall(y)' => Settled(y)'
  <2> SUFFICES ASSUME NEW y \in Interceptor, ~InCall(y)'
               PROVE  Settled(y)'
    OBVIOUS
  <2>1. y # x \/ Active(x)
    BY <1>7, <1>8 DEF InCall
  <2>2. owners'[y] = {} <=> owners[y] = {}
    BY <1>4, <1>5, <2>1 DEF Settled
  <2>3. QED
    BY <1>2, <1>5, <1>6, <2>2, SettledKept
<1>11. Owned'
  <2>1. \A y, c \in Interceptor : y \in owners'[c] /\ y # c => y \in owners[c]
    BY <1>4
  <2>2. \A y, c \in Interceptor : y \in owners'[c] /\ y # c =>
          [undo |-> "dispose", child |-> c] \in ToSet(subscriptions'[y])
    BY <1>2, <2>1 DEF Ownership, Owned
  <2>3. QED
    BY <2>2 DEF Owned
<1>12. QED
  BY <1>9, <1>10, <1>11 DEF Ownership

\* The dispose() of a user: an owner less, and a disposal if it was the last.
LEMMA DisposeKeepsOwnership ==
  ASSUME Structure, Ownership, NEW x \in Public, Dispose(x)
  PROVE  Ownership'
<1>1. x \in Interceptor
  BY DEF Public
<1>2. /\ stack = <<>> /\ ToSet(stack) = {} /\ owners' = [owners EXCEPT ![x] = owners[x] \ {x}]
      /\ x \in owners[x]
      /\ stack' = IF owners'[x] = {} THEN Append(<<>>, DisposeFrame(x, FALSE)) ELSE <<>>
      /\ UNCHANGED <<readyState, subscriptions, replaced, forwarding>>
  BY EmptyOrder DEF Dispose, Release, OwnersWithout, Idle, eventVars
<1>3. owners \in [Interceptor -> SUBSET Interceptor]
  BY DEF Structure, TypeOK
<1>4. owners'[x] = owners[x] \ {x} /\ \A y \in Interceptor : y # x => owners'[y] = owners[y]
  BY <1>1, <1>2, <1>3
<1>5. \A y \in Interceptor : Settled(y)
  BY <1>2 DEF Ownership, InCall
<1>6. \A y \in Interceptor : Kept(y, {})
  <2> SUFFICES ASSUME NEW y \in Interceptor
               PROVE  Kept(y, {})
    OBVIOUS
  <2>1. \A c \in ChildrenOf(y) : y \in owners[c] => y \in owners'[c]
    BY <1>2, <1>3, NoOwnChild
  <2>2. QED
    BY <1>2, <2>1 DEF Kept
<1>7. PICK g : g = DisposeFrame(x, FALSE) /\ g \in Frame /\ g.op = "dispose" /\ g.of = x
  BY ZenonT(60), <1>1, NewFrames
<1>8. ToSet(stack') = IF owners'[x] = {} THEN {g} ELSE {}
  BY <1>2, <1>7, FirstCall, EmptyOrder
<1>9. \A f \in ToSet(stack') : Underway(f)'
  <2> SUFFICES ASSUME owners'[x] = {}
               PROVE  Underway(g)'
    BY <1>8
  <2>1. Predicate(x)
    BY <1>1, <1>2, <1>5 DEF Settled
  <2>2. QED
    BY <1>7, <2>1 DEF Underway, Predicate
<1>10. \A y \in Interceptor : ~InCall(y)' => Settled(y)'
  <2> SUFFICES ASSUME NEW y \in Interceptor, ~InCall(y)'
               PROVE  Settled(y)'
    OBVIOUS
  <2>1. y # x \/ owners'[x] # {}
    BY <1>7, <1>8 DEF InCall
  <2>2. owners'[y] = {} <=> owners[y] = {}
    BY <1>2, <1>4, <2>1
  <2>3. QED
    BY <1>2, <1>5, <1>6, <2>2, SettledKept
<1>11. Owned'
  <2>1. \A y, c \in Interceptor : y \in owners'[c] /\ y # c => y \in owners[c]
    BY <1>4
  <2>2. \A y, c \in Interceptor : y \in owners'[c] /\ y # c =>
          [undo |-> "dispose", child |-> c] \in ToSet(subscriptions'[y])
    BY <1>2, <2>1 DEF Ownership, Owned
  <2>3. QED
    BY <2>2 DEF Owned
<1>12. QED
  BY <1>9, <1>10, <1>11 DEF Ownership

\* A setup() has done one step more: everything it and the others did stays.
LEMMA StepKeepsOwnership ==
  ASSUME Structure, Ownership, NEW do, AtStep(do),
         stack' = Append(Callers, Advanced(Current)), UNCHANGED readyState,
         NEW x, x = Current.of,
         \A y \in Interceptor : Kept(y, {}),
         \A y \in Interceptor : y # x => subscriptions'[y] = subscriptions[y],
         \A y \in Interceptor : InCall(y) => owners'[y] = owners[y],
         \A y \in Interceptor : ~InCall(y) => (owners'[y] = {} <=> owners[y] = {}),
         \A y, c \in Interceptor : y \in owners'[c] =>
           \/ y \in owners[c]
           \/ [undo |-> "dispose", child |-> c] \in ToSet(subscriptions'[y]),
         NEW s, s = TheStep, Accomplished(x, s)'
  PROVE  Ownership'
<1>1. TypeOK /\ Nested(stack)
  BY DEF Structure
<1>2. /\ stack # <<>> /\ Current.op = "setup" /\ x \in Interceptor
      /\ Current.at \in DOMAIN Setup[x] /\ TheStep = Setup[x][Current.at]
  BY <1>1, RunningStep
<1>3. /\ ToSet(stack) = ToSet(Callers) \cup {Current}
      /\ \A f \in ToSet(Callers) : f \in Frame /\ f.of \in Interceptor /\ f.of # x
      /\ Current.at \in Nat
  BY <1>1, <1>2, TopCall
<1>4. PICK at : at = Current.at
  OBVIOUS
<1>5. PICK g : /\ g = Advanced(Current) /\ g \in Frame /\ g.op = "setup" /\ g.of = x
               /\ g.owner = Current.owner /\ g.at = at + 1
               /\ ToSet(stack') = ToSet(Callers) \cup {g}
  BY <1>1, <1>4, StepEnds
<1>6. \A y \in Interceptor : InCall(y)' <=> InCall(y)
  BY <1>2, <1>3, <1>5 DEF InCall
<1>7. \A f \in ToSet(Callers) : Underway(f)'
  <2> SUFFICES ASSUME NEW f \in ToSet(Callers)
               PROVE  Underway(f)'
    OBVIOUS
  <2>1. f \in Frame /\ f.of \in Interceptor /\ Underway(f) /\ InCall(f.of)
    BY <1>3 DEF Ownership, InCall
  <2>2. f.op = "setup" => Done(f.of, f.at)'
    BY <2>1, DoneKept DEF Underway
  <2>3. owners'[f.of] = owners[f.of] /\ readyState'[f.of] = readyState[f.of]
    BY <2>1
  <2>4. QED
    BY <2>1, <2>2, <2>3, UnderwayKept
<1>8. Underway(g)'
  <2>1. Underway(Current) /\ InCall(x)
    BY <1>3 DEF Ownership, InCall
  <2>2. Predicate(x) /\ ~Active(x) /\ owners[x] = {Current.owner} /\ Done(x, at)
    BY <1>2, <1>4, <2>1 DEF Underway
  <2>3. Done(x, at)'
    BY <1>2, <2>2, DoneKept
  <2>4. Done(x, at + 1)'
    <3>1. at \in DOMAIN Setup[x] /\ s = Setup[x][at]
      BY <1>2, <1>4
    <3>2. Accomplished(x, Setup[x][at])'
      BY <3>1
    <3>3. QED
      BY <1>2, <2>3, <3>1, <3>2, DoneMore
  <2>5. ~Active(x)'
    BY <2>2 DEF Active
  <2>6. owners'[x] = {g.owner}
    BY <1>2, <1>5, <2>1, <2>2
  <2>7. QED
    BY <1>5, <2>2, <2>4, <2>5, <2>6 DEF Underway, Predicate
<1>9. \A y \in Interceptor : ~InCall(y)' => Settled(y)'
  <2> SUFFICES ASSUME NEW y \in Interceptor, ~InCall(y)'
               PROVE  Settled(y)'
    OBVIOUS
  <2>1. ~InCall(y) /\ y # x /\ Settled(y)
    BY <1>3, <1>6 DEF InCall, Ownership
  <2>2. QED
    BY <2>1, SettledKept
<1>10. Owned'
  <2> SUFFICES ASSUME NEW y \in Interceptor, NEW c \in Interceptor, y \in owners'[c], y # c
               PROVE  \/ [undo |-> "dispose", child |-> c] \in ToSet(subscriptions'[y])
                      \/ \E f \in ToSet(stack') : f.of = c /\ f.op = "setup"
    BY DEF Owned
  <2>1. CASE y \in owners[c]
    <3>1. \/ [undo |-> "dispose", child |-> c] \in ToSet(subscriptions[y])
          \/ \E f \in ToSet(stack) : f.of = c /\ f.op = "setup"
      BY <2>1 DEF Ownership, Owned
    <3>2. ToSet(subscriptions[y]) \subseteq ToSet(subscriptions'[y])
      BY DEF Kept
    <3>3. (\E f \in ToSet(stack) : f.of = c /\ f.op = "setup")
            => \E f \in ToSet(stack') : f.of = c /\ f.op = "setup"
      BY <1>2, <1>3, <1>5
    <3>4. QED
      BY <3>1, <3>2, <3>3
  <2>2. QED
    BY <2>1
<1>11. QED
  BY <1>5, <1>7, <1>8, <1>9, <1>10 DEF Ownership

\* Steps that subscribe to undo what they do and call nothing.
LEMMA SimpleStepsKeepOwnership ==
  ASSUME Structure, Ownership, SetupBridges \/ SetupForwards
  PROVE  Ownership'
<1>1. TypeOK /\ Nested(stack) /\ Subscriptions
  BY DEF Structure
<1>2. PICK do \in {"bridge", "forward"} :
        /\ AtStep(do) /\ stack' = Append(Callers, Advanced(Current))
        /\ subscriptions' = Subscribed(Current.of, <<[undo |-> do]>>)
        /\ do = "forward" => forwarding' = forwarding \cup {Current.of}
        /\ do = "bridge" => UNCHANGED forwarding
  BY DEF SetupBridges, SetupForwards, NextStep, eventVars
<1>3. UNCHANGED <<owners, readyState, replaced>>
  BY DEF SetupBridges, SetupForwards
<1>4. PICK x \in Interceptor : x = Current.of
  BY <1>1, <1>2, RunningStep
<1>5. PICK s : s = TheStep /\ s.do = do
  BY <1>1, <1>2, RunningStep
<1>6. PICK undos \in Seq(Subscription) :
        undos = <<[undo |-> do]>> /\ ToSet(undos) = {[undo |-> do]}
  BY Undos
<1>7. /\ ToSet(subscriptions'[x]) = ToSet(subscriptions[x]) \cup {[undo |-> do]}
      /\ \A y \in Interceptor : y # x => subscriptions'[y] = subscriptions[y]
  BY <1>1, <1>2, <1>4, <1>6, Subscribing
<1>8. \A y \in Interceptor : Kept(y, {})
  BY <1>2, <1>3, <1>7 DEF Kept
<1>9. Accomplished(x, s)'
  BY <1>2, <1>4, <1>5, <1>7 DEF Accomplished
<1>10. QED
  BY <1>2, <1>3, <1>4, <1>5, <1>7, <1>8, <1>9, StepKeepsOwnership

\* The apply() of a child: the setup() owns it, once the call returns or at once.
LEMMA ApplyingKeepsOwnership ==
  ASSUME Structure, Ownership, SetupApplies
  PROVE  Ownership'
<1>1. TypeOK /\ Nested(stack) /\ Subscriptions
  BY DEF Structure
<1>2. PICK x, c : x = Current.of /\ c = TheStep.child
  OBVIOUS
<1>3. /\ AtStep("apply") /\ UNCHANGED <<readyState, replaced, forwarding>>
      /\ owners' = IF Ignored(c, x) THEN owners ELSE [owners EXCEPT ![c] = @ \cup {x}]
      /\ IF ~Ignored(c, x) /\ ~Active(c)
         THEN stack' = Append(stack, SetupFrame(c, x)) /\ UNCHANGED subscriptions
         ELSE /\ stack' = Append(Callers, Advanced(Current))
              /\ subscriptions' = Subscribed(x, DisposeOf(c))
  BY <1>2 DEF SetupApplies, NextStep, eventVars
<1>4. /\ x \in Interceptor /\ c \in Interceptor /\ c \in ChildrenOf(x) /\ c # x
      /\ \A f \in ToSet(stack) : f.of # c
  BY <1>1, <1>2, <1>3, ApplyingChild
<1>5. owners \in [Interceptor -> SUBSET Interceptor]
  BY <1>1 DEF TypeOK
<1>6. /\ owners'[c] = IF Ignored(c, x) THEN owners[c] ELSE owners[c] \cup {x}
      /\ \A y \in Interceptor : y # c => owners'[y] = owners[y]
      /\ \A y \in Interceptor : owners[y] \subseteq owners'[y]
  BY <1>3, <1>4, <1>5
<1>7. ~InCall(c) /\ Settled(c)
  BY <1>4 DEF InCall, Ownership
<1>8. CASE ~Ignored(c, x) /\ ~Active(c)
  <2>1. stack' = Append(stack, SetupFrame(c, x)) /\ UNCHANGED subscriptions
    BY <1>3, <1>8
  <2>2. PICK g \in Frame : /\ g = SetupFrame(c, x) /\ g.op = "setup" /\ g.of = c
                           /\ g.owner = x /\ g.at = 1
    BY <1>4, NewFrames
  <2>3. ToSet(stack') = ToSet(stack) \cup {g}
    BY <1>1, <1>2, <1>3, <2>1, <2>2, ApplyingChild
  <2>4. \A y \in Interceptor : Kept(y, {})
    <3> SUFFICES ASSUME NEW y \in Interceptor
                 PROVE  Kept(y, {})
      OBVIOUS
    <3>1. \A d \in ChildrenOf(y) : y \in owners[d] => y \in owners'[d]
      BY <1>3, <1>5
    <3>2. QED
      BY <1>3, <2>1, <3>1 DEF Kept
  <2>5. \A f \in ToSet(stack) : Underway(f)'
    <3> SUFFICES ASSUME NEW f \in ToSet(stack)
                 PROVE  Underway(f)'
      OBVIOUS
    <3>1. f \in Frame /\ f.of \in Interceptor
      BY <1>1, ElementsOf, FrameParts DEF TypeOK
    <3>2. Underway(f) /\ f.of # c
      BY <1>4 DEF Ownership
    <3>3. f.op = "setup" => Done(f.of, f.at)'
      BY <2>4, <3>1, <3>2, DoneKept DEF Underway
    <3>4. QED
      BY <1>3, <1>6, <3>1, <3>2, <3>3, UnderwayKept
  <2>6. Underway(g)'
    <3>1. Predicate(c)
      BY <1>8 DEF Ignored
    <3>2. owners'[c] = {x}
      BY <1>6, <1>7, <1>8 DEF Settled
    <3>3. ~Active(c)'
      BY <1>3, <1>8 DEF Active
    <3>4. Done(c, 1)'
      BY <1>4, DoneMore
    <3>5. QED
      BY <2>2, <3>1, <3>2, <3>3, <3>4 DEF Underway, Predicate
  <2>7. \A y \in Interceptor : ~InCall(y)' => Settled(y)'
    <3> SUFFICES ASSUME NEW y \in Interceptor, ~InCall(y)'
                 PROVE  Settled(y)'
      OBVIOUS
    <3>1. y # c /\ ~InCall(y)
      BY <2>2, <2>3 DEF InCall
    <3>2. Settled(y) /\ owners'[y] = owners[y]
      BY <1>6, <3>1 DEF Ownership
    <3>3. QED
      BY <1>3, <2>1, <2>4, <3>2, SettledKept
  <2>8. Owned'
    <3> SUFFICES ASSUME NEW y \in Interceptor, NEW d \in Interceptor, y \in owners'[d], y # d
                 PROVE  \/ [undo |-> "dispose", child |-> d] \in ToSet(subscriptions'[y])
                        \/ \E f \in ToSet(stack') : f.of = d /\ f.op = "setup"
      BY DEF Owned
    <3>1. CASE d = c
      BY <2>2, <2>3, <3>1
    <3>2. CASE d # c
      <4>1. y \in owners[d]
        BY <1>6, <3>2
      <4>2. \/ [undo |-> "dispose", child |-> d] \in ToSet(subscriptions[y])
            \/ \E f \in ToSet(stack) : f.of = d /\ f.op = "setup"
        BY <4>1 DEF Ownership, Owned
      <4>3. QED
        BY <2>1, <2>3, <4>2
    <3>3. QED
      BY <3>1, <3>2
  <2>9. QED
    BY <2>3, <2>5, <2>6, <2>7, <2>8 DEF Ownership
<1>9. CASE Ignored(c, x) \/ Active(c)
  <2>1. stack' = Append(Callers, Advanced(Current)) /\ subscriptions' = Subscribed(x, DisposeOf(c))
    BY <1>3, <1>9
  <2>2. PICK undos \in Seq(Subscription) :
          undos = DisposeOf(c) /\ ToSet(undos) = {[undo |-> "dispose", child |-> c]}
    BY <1>4, Undos
  <2>3. /\ ToSet(subscriptions'[x]) = ToSet(subscriptions[x]) \cup {[undo |-> "dispose", child |-> c]}
        /\ \A y \in Interceptor : y # x => subscriptions'[y] = subscriptions[y]
    BY <1>1, <1>4, <2>1, <2>2, Subscribing
  <2>4. \A y \in Interceptor : Kept(y, {})
    <3> SUFFICES ASSUME NEW y \in Interceptor
                 PROVE  Kept(y, {})
      OBVIOUS
    <3>1. \A d \in ChildrenOf(y) : y \in owners[d] => y \in owners'[d]
      BY <1>3, <1>5
    <3>2. ToSet(subscriptions[y]) \subseteq ToSet(subscriptions'[y])
      BY <2>3
    <3>3. QED
      BY <1>3, <3>1, <3>2 DEF Kept
  <2>5. \A y \in Interceptor : InCall(y) => owners'[y] = owners[y]
    BY <1>6, <1>7
  <2>6. \A y \in Interceptor : ~InCall(y) => (owners'[y] = {} <=> owners[y] = {})
    <3>1. owners'[c] = {} <=> owners[c] = {}
      BY <1>6, <1>7, <1>9 DEF Settled
    <3>2. QED
      BY <1>6, <3>1
  <2>7. \A y, d \in Interceptor : y \in owners'[d] =>
          \/ y \in owners[d]
          \/ [undo |-> "dispose", child |-> d] \in ToSet(subscriptions'[y])
    BY <1>6, <2>3
  <2>8. PICK s : s = TheStep /\ s.do = "apply" /\ s.child = c
    BY <1>1, <1>2, <1>3, RunningStep
  <2>9. Accomplished(x, s)'
    <3>1. Predicate(c) => x \in owners'[c]
      BY <1>6, <1>9 DEF Ignored
    <3>2. QED
      BY <2>8, <3>1 DEF Accomplished, Predicate
  <2>10. QED
    BY <1>2, <1>3, <2>1, <2>3, <2>4, <2>5, <2>6, <2>7, <2>8, <2>9, StepKeepsOwnership
<1>10. QED
  BY <1>8, <1>9

\* A setup() replaces the next key of a group.
LEMMA PatchingKeepsOwnership ==
  ASSUME Structure, Patched, Ownership, SetupPatches
  PROVE  Ownership'
<1> DEFINE keys == TheStep.keys
           k == NextKey
           new == Append(Current.held, k)
<1>1. TypeOK /\ Nested(stack) /\ Subscriptions /\ AtStep("patch") /\ replaced[k] = None
  BY DEF Structure, SetupPatches
<1>2. PICK x : x = Current.of
  OBVIOUS
<1>3. /\ stack # <<>> /\ Current.op = "setup" /\ x \in Interceptor
      /\ ToSet(stack) = ToSet(Callers) \cup {Current}
      /\ \A f \in ToSet(Callers) : f \in Frame /\ f.of # x /\ f.of \in Interceptor
  BY <1>1, <1>2, RunningStep, TopCall
<1>4. /\ keys \in Seq(Key) /\ k \in Key /\ Current.held \in Seq(Key) /\ new \in Seq(Key)
      /\ ToSet(new) = ToSet(Current.held) \cup {k}
  <2>1. /\ keys \in Seq(Key) /\ k \in Key /\ Current.held \in Seq(Key) /\ new \in Seq(Key)
    BY <1>1, NextOfGroup
  <2>2. QED
    BY <2>1, AppendOrder
<1>5. replaced \in [Key -> Interceptor \cup {None}] /\ None \notin Interceptor
  BY InterceptorsAssumption DEF Structure, TypeOK
<1>6. /\ replaced' = [replaced EXCEPT ![k] = x]
      /\ UNCHANGED <<owners, readyState, forwarding>>
  BY <1>2 DEF SetupPatches, eventVars
<1>7. replaced'[k] = x /\ \A l \in Key : l # k => replaced'[l] = replaced[l]
  BY <1>4, <1>5, <1>6
<1>8. \A y \in Interceptor : \A l \in Key : replaced[l] = y => replaced'[l] = y
  BY <1>1, <1>5, <1>7
<1>9. /\ new = keys => /\ stack' = Append(Callers, Advanced(Current))
                       /\ subscriptions' = Subscribed(x, Restores(keys))
      /\ new # keys => /\ stack' = Append(Callers, [Current EXCEPT !.held = new])
                       /\ UNCHANGED subscriptions
  BY <1>2 DEF SetupPatches, NextStep, Restores
<1>10. \A l \in ToSet(Current.held) : l \in Key /\ replaced[l] = x
  <2>1. \A l \in ToSet(Current.held) : l \in Key /\ Holds(Current, l)
    BY <1>3, <1>4, ElementsOf DEF Holds
  <2>2. Current \in ToSet(stack)
    BY <1>3
  <2>3. QED
    BY <1>2, <2>1, <2>2 DEF Patched
<1> HIDE DEF keys, k, new
<1>11. CASE new = keys
  <2>1. stack' = Append(Callers, Advanced(Current)) /\ subscriptions' = Subscribed(x, Restores(keys))
    BY <1>9, <1>11
  <2>2. PICK undos \in Seq(Subscription) : undos = Restores(keys)
    BY <1>4, RestoresOrder
  <2>3. /\ ToSet(subscriptions'[x]) = ToSet(subscriptions[x]) \cup ToSet(undos)
        /\ \A y \in Interceptor : y # x => subscriptions'[y] = subscriptions[y]
    BY <1>1, <1>3, <2>1, <2>2, Subscribing
  <2>4. \A y \in Interceptor : Kept(y, {})
    BY <1>6, <1>8, <2>3 DEF Kept
  <2>5. PICK s : s = TheStep /\ s.do = "patch" /\ s.keys = keys
    BY <1>1, RunningStep DEF keys
  <2>6. Accomplished(x, s)'
    <3>1. \A l \in ToSet(keys) : replaced'[l] = x
      BY <1>3, <1>4, <1>7, <1>8, <1>10, <1>11
    <3>2. QED
      BY <2>5, <3>1 DEF Accomplished
  <2>7. QED
    BY <1>1, <1>2, <1>6, <2>1, <2>3, <2>4, <2>5, <2>6, StepKeepsOwnership
<1>12. CASE new # keys
  <2>1. PICK g : g = [Current EXCEPT !.held = new]
    OBVIOUS
  <2>2. stack' = Append(Callers, g) /\ UNCHANGED subscriptions
    BY <1>9, <1>12, <2>1
  <2>3. /\ g \in Frame /\ g.op = "setup" /\ g.of = x /\ g.owner = Current.owner
        /\ g.at = Current.at /\ ToSet(stack') = ToSet(Callers) \cup {g}
    BY <1>1, <1>2, <1>12, <2>1, <2>2, HoldingMore DEF new, keys, k
  <2>4. \A y \in Interceptor : Kept(y, {})
    BY <1>6, <1>8, <2>2 DEF Kept
  <2>5. \A f \in ToSet(stack') : Underway(f)'
    <3> SUFFICES ASSUME NEW f \in ToSet(stack')
                 PROVE  Underway(f)'
      OBVIOUS
    <3>1. f \in Frame /\ f.of \in Interceptor /\ Underway(f)
      <4>1. CASE f = g
        <5>1. Underway(Current)
          BY <1>3 DEF Ownership
        <5>2. QED
          BY <1>2, <1>3, <2>3, <4>1, <5>1 DEF Underway
      <4>2. CASE f \in ToSet(Callers)
        BY <1>3, <4>2 DEF Ownership
      <4>3. QED
        BY <2>3, <4>1, <4>2
    <3>2. f.op = "setup" => Done(f.of, f.at)'
      BY <2>4, <3>1, DoneKept DEF Underway
    <3>3. QED
      BY <1>6, <3>1, <3>2, UnderwayKept
  <2>6. \A y \in Interceptor : ~InCall(y)' => Settled(y)'
    <3> SUFFICES ASSUME NEW y \in Interceptor, ~InCall(y)'
                 PROVE  Settled(y)'
      OBVIOUS
    <3>1. ~InCall(y)
      BY <1>2, <1>3, <2>3 DEF InCall
    <3>2. QED
      BY <1>6, <2>2, <2>4, <3>1, SettledKept DEF Ownership
  <2>7. Owned'
    <3>1. \A c : (\E f \in ToSet(stack) : f.of = c /\ f.op = "setup")
                   => \E f \in ToSet(stack') : f.of = c /\ f.op = "setup"
      BY <1>2, <1>3, <2>3
    <3>2. QED
      BY <1>6, <2>2, <3>1 DEF Ownership, Owned
  <2>8. QED
    BY <2>5, <2>6, <2>7 DEF Ownership
<1>13. QED
  BY <1>11, <1>12

\* What remains owned stays so while its setup() runs or its owner can undo it.
LEMMA OwnedKept ==
  ASSUME Owned, UNCHANGED subscriptions,
         \A c \in Interceptor : owners'[c] # {} =>
           /\ owners'[c] \subseteq owners[c]
           /\ (\E call \in ToSet(stack) : call.of = c /\ call.op = "setup") =>
                \E call \in ToSet(stack') : call.of = c /\ call.op = "setup"
  PROVE  Owned'
BY DEF Owned

\* A setup() that fails becomes a disposal, whether it replaced something in vain
\* or a child it applied could not be set up.
LEMMA FailingKeepsOwnership ==
  ASSUME Structure, Ownership,
         NEW s \in Seq(Frame), Nested(s), s # <<>>, ToSet(s) \subseteq ToSet(stack),
         NEW f, f = Last(s), f.op = "setup",
         owners' = [owners EXCEPT ![f.of] = @ \ {f.owner}],
         stack' = Append(Front(s), DisposeFrame(f.of, TRUE)),
         UNCHANGED <<subscriptions, replaced, forwarding>>,
         \A y \in Interceptor : InCall(y)' => readyState'[y] = readyState[y],
         \A y \in Interceptor : ~InCall(y) => readyState'[y] = readyState[y],
         \A h \in ToSet(stack) \ ToSet(s) : h.op = "dispose" /\ Settled(h.of)'
  PROVE  Ownership'
<1>1. /\ f \in Frame /\ f.of \in Interceptor /\ f.owner \in Interceptor
      /\ ToSet(s) = ToSet(Front(s)) \cup {f} /\ Front(s) \in Seq(Frame)
      /\ \A h \in ToSet(Front(s)) : h.of # f.of
  BY Pop, FrameParts
<1>2. PICK g : g = DisposeFrame(f.of, TRUE) /\ g.op = "dispose" /\ g.of = f.of
  BY DEF DisposeFrame
<1>3. ToSet(stack') = ToSet(Front(s)) \cup {g}
  BY <1>2, Failing
<1>4. owners \in [Interceptor -> SUBSET Interceptor]
  BY DEF Structure, TypeOK
<1>5. f \in ToSet(stack) /\ Underway(f)
  BY <1>1 DEF Ownership
<1>6. owners'[f.of] = {} /\ \A y \in Interceptor : y # f.of => owners'[y] = owners[y]
  BY <1>1, <1>4, <1>5 DEF Underway
<1>7. \A y \in Interceptor : Kept(y, {f.of})
  <2> SUFFICES ASSUME NEW y \in Interceptor
               PROVE  Kept(y, {f.of})
    OBVIOUS
  <2>1. \A d \in ChildrenOf(y) \ {f.of} : y \in owners[d] => y \in owners'[d]
    BY <1>4
  <2>2. QED
    BY <2>1 DEF Kept
<1>8. \A y \in Interceptor : y # f.owner => Kept(y, {})
  <2> SUFFICES ASSUME NEW y \in Interceptor, y # f.owner
               PROVE  Kept(y, {})
    OBVIOUS
  <2>1. \A d \in ChildrenOf(y) : y \in owners[d] => y \in owners'[d]
    BY <1>4
  <2>2. QED
    BY <2>1 DEF Kept
\* The owner is the caller, at the very step of applying this interceptor.
<1>9. \A h \in ToSet(Front(s)) : h.op = "setup" => Done(h.of, h.at)'
  <2> SUFFICES ASSUME NEW h \in ToSet(Front(s)), h.op = "setup"
               PROVE  Done(h.of, h.at)'
    OBVIOUS
  <2>1. h \in Frame /\ h.of \in Interceptor /\ h.at \in Nat
    BY <1>1, ElementsOf, FrameParts
  <2>2. Done(h.of, h.at)
    BY <1>1 DEF Ownership, Underway
  <2>3. CASE h.of # f.owner
    BY <1>8, <2>1, <2>2, <2>3, DoneKept
  <2>4. CASE h.of = f.owner
    <3>1. PICK t \in Seq(Frame) : t = Front(s)
      BY <1>1
    <3>2. t # <<>> /\ Nested(t)
      BY <3>1, EmptyOrder, Pop
    <3>3. Calls(Last(t), f) /\ Last(t) \in ToSet(t)
      BY <3>1, <3>2, Pop
    <3>4. Last(t) \in Frame /\ Last(t).op \in {"setup", "dispose"}
      BY <3>2, Pop, FrameParts
    <3>5. Last(t).op = "setup" /\ f.owner = Last(t).of
      BY <3>3, <3>4 DEF Calls
    <3>6. h = Last(t)
      <4>1. /\ ToSet(t) = ToSet(Front(t)) \cup {Last(t)}
            /\ \A e \in ToSet(Front(t)) : e.of # Last(t).of
        BY <3>2, Pop
      <4>2. QED
        BY <2>4, <3>1, <3>5, <4>1
    <3>7. AtApply(h) /\ Setup[h.of][h.at].child = f.of
      BY <3>3, <3>5, <3>6 DEF Calls
    <3>8. h.at \in DOMAIN Setup[h.of]
      <4>1. Steps(h)
        BY <3>2, <3>5, <3>6, Pop
      <4>2. h.at \in 1..Len(Setup[h.of]) + 1 /\ h.at <= Len(Setup[h.of])
        BY <3>7, <4>1 DEF Steps, AtApply
      <4>3. Setup[h.of] \in Seq(Step)
        BY <2>1, SetupAssumption
      <4>4. QED
        BY <4>2, <4>3
    <3>9. \A i \in DOMAIN Setup[h.of] :
            i < h.at /\ Setup[h.of][i].do = "apply" => Setup[h.of][i].child # f.of
      <4>1. \A i \in DOMAIN Setup[h.of] : i < h.at => i # h.at
        BY <2>1
      <4>2. QED
        BY <2>1, <3>7, <3>8, <4>1, SetupAssumption DEF AtApply
    <3>10. QED
      BY <1>7, <2>1, <2>2, <3>9, DoneKept
  <2>5. QED
    BY <2>3, <2>4
<1>10. \A h \in ToSet(stack') : Underway(h)'
  <2>1. ASSUME NEW h \in ToSet(Front(s))
        PROVE  Underway(h)'
    <3>1. h \in Frame /\ h.of \in Interceptor /\ h \in ToSet(stack) /\ h.of # f.of
      BY <1>1, ElementsOf, FrameParts
    <3>2. Underway(h) /\ InCall(h.of)'
      BY <1>3, <3>1 DEF Ownership, InCall
    <3>3. QED
      BY <1>6, <1>9, <3>1, <3>2, UnderwayKept
  <2>2. Underway(g)'
    BY <1>2, <1>5, <1>6 DEF Underway, Predicate
  <2>3. QED
    BY <1>3, <2>1, <2>2
<1>11. \A y \in Interceptor : ~InCall(y)' => Settled(y)'
  <2> SUFFICES ASSUME NEW y \in Interceptor, ~InCall(y)'
               PROVE  Settled(y)'
    OBVIOUS
  <2>1. y # f.of /\ \A h \in ToSet(s) : h.of # y
    BY <1>1, <1>2, <1>3 DEF InCall
  <2>2. CASE InCall(y)
    BY <2>1, <2>2 DEF InCall
  <2>3. CASE ~InCall(y)
    <3>1. Settled(y) /\ owners'[y] = owners[y] /\ readyState'[y] = readyState[y]
      BY <1>6, <2>1, <2>3 DEF Ownership
    <3>2. Kept(y, {})
      <4>1. y # f.owner
        <5>1. f.owner = f.of \/ InCall(f.owner)
          <6>1. CASE Front(s) = <<>>
            BY <6>1, Pop
          <6>2. CASE Front(s) # <<>>
            <7>1. Calls(Last(Front(s)), f) /\ Last(Front(s)) \in ToSet(Front(s))
              BY <6>2, Pop
            <7>2. Last(Front(s)) \in Frame
              BY <1>1, <7>1, ElementsOf
            <7>3. Last(Front(s)).op \in {"setup", "dispose"}
              BY <7>2, FrameParts
            <7>4. f.owner = Last(Front(s)).of
              BY <7>1, <7>3 DEF Calls
            <7>5. QED
              BY <1>1, <7>1, <7>4 DEF InCall
          <6>3. QED
            BY <6>1, <6>2
        <5>2. QED
          BY <2>1, <2>3, <5>1
      <4>2. QED
        BY <1>8, <4>1
    <3>3. QED
      BY <3>1, <3>2, SettledKept
  <2>4. QED
    BY <2>2, <2>3
<1>12. Owned'
  <2>1. \A c \in Interceptor : owners'[c] # {} => c # f.of /\ owners'[c] = owners[c]
    BY <1>6
  <2>2. \A h \in ToSet(stack) : h.of # f.of => h \in ToSet(Front(s)) \/ h.op = "dispose"
    BY <1>1
  <2>3. \A c \in Interceptor : owners'[c] # {} =>
          /\ owners'[c] = owners[c]
          /\ (\E h \in ToSet(stack) : h.of = c /\ h.op = "setup") =>
                \E h \in ToSet(stack') : h.of = c /\ h.op = "setup"
    BY <1>3, <2>1, <2>2
  <2>4. Owned
    BY DEF Ownership
  <2>5. QED
    BY <2>3, <2>4, OwnedKept
<1>13. QED
  BY <1>10, <1>11, <1>12 DEF Ownership

\* A setup() that cannot replace a key fails.
LEMMA FailsKeepsOwnership ==
  ASSUME Structure, Ownership, SetupFails
  PROVE  Ownership'
<1>1. TypeOK /\ Nested(stack) /\ AtStep("patch") /\ Undoing(Current, Callers)
  BY DEF Structure, SetupFails
<1>2. stack # <<>> /\ Current.op = "setup" /\ stack \in Seq(Frame)
  BY <1>1, RunningStep, TopCall
<1>3. PICK f : f = Current
  OBVIOUS
<1>4. /\ owners' = [owners EXCEPT ![f.of] = @ \ {f.owner}]
      /\ stack' = Append(Front(stack), DisposeFrame(f.of, TRUE))
      /\ UNCHANGED <<readyState, subscriptions, replaced, forwarding>>
  BY <1>1, <1>3 DEF Undoing, SetupFails, Callers, eventVars
<1>5. f = Last(stack) /\ f.op = "setup"
  BY <1>2, <1>3 DEF Current
<1>6. /\ \A y \in Interceptor : InCall(y)' => readyState'[y] = readyState[y]
      /\ \A y \in Interceptor : ~InCall(y) => readyState'[y] = readyState[y]
      /\ \A h \in ToSet(stack) \ ToSet(stack) : h.op = "dispose" /\ Settled(h.of)'
  BY <1>4
<1>7. QED
  BY <1>1, <1>2, <1>4, <1>5, <1>6, FailingKeepsOwnership

\* A setup() has returned: its interceptor has done all its steps, and the caller
\* subscribes to dispose of it.
LEMMA ReturningKeepsOwnership ==
  ASSUME Structure, Ownership, SetupReturns
  PROVE  Ownership'
<1>1. TypeOK /\ Nested(stack) /\ Subscriptions
  BY DEF Structure
<1>2. PICK x : x = Current.of
  OBVIOUS
<1>3. /\ stack # <<>> /\ Current.op = "setup" /\ Current.at > Len(Setup[x])
      /\ readyState' = [readyState EXCEPT ![x] = "ACTIVE"]
      /\ UNCHANGED <<owners, replaced, forwarding>>
  BY <1>2 DEF SetupReturns, Running, Current, eventVars
<1>4. /\ x \in Interceptor /\ Callers \in Seq(Frame)
      /\ ToSet(stack) = ToSet(Callers) \cup {Current}
      /\ \A h \in ToSet(Callers) : h \in Frame /\ h.of \in Interceptor /\ h.of # x
      /\ Current.at \in Nat
  BY <1>1, <1>2, <1>3, TopCall
<1>5. readyState \in [Interceptor -> {"INACTIVE", "ACTIVE", "DISPOSED"}]
  BY <1>1 DEF TypeOK
<1>6. readyState'[x] = "ACTIVE" /\ \A y \in Interceptor : y # x => readyState'[y] = readyState[y]
  BY <1>3, <1>4, <1>5
<1>7. Underway(Current)
  BY <1>4 DEF Ownership
<1>8. Predicate(x) /\ owners[x] = {Current.owner} /\ Done(x, Current.at)
  BY <1>2, <1>3, <1>7 DEF Underway
<1>9. ASSUME \A y \in Interceptor : Kept(y, {}),
             \A y \in Interceptor : InCall(y)' <=> InCall(y) /\ y # x,
             \A y \in Interceptor : ~InCall(y) => subscriptions'[y] = subscriptions[y]
      PROVE  \A y \in Interceptor : ~InCall(y)' => Settled(y)'
  <2> SUFFICES ASSUME NEW y \in Interceptor, ~InCall(y)'
               PROVE  Settled(y)'
    OBVIOUS
  <2>1. CASE y = x
    <3>2. PICK at : at = Current.at
      OBVIOUS
    <3>3. Done(x, at)' /\ at \in Nat /\ at > Len(Setup[x])
      <4>1. Done(x, at)
        BY <1>8, <3>2
      <4>2. Done(x, at)'
        BY <1>4, <1>9, <4>1, DoneKept
      <4>3. QED
        BY <1>3, <1>4, <3>2, <4>2
    <3>4. Done(x, Len(Setup[x]) + 1)'
      BY <1>4, <3>3, DoneMore
    <3>5. Active(x)' /\ owners'[x] # {}
      BY <1>3, <1>6, <1>8 DEF Active
    <3>6. QED
      BY <1>8, <2>1, <3>4, <3>5 DEF Settled, Predicate
  <2>2. CASE y # x
    <3>1. ~InCall(y)
      BY <1>9, <2>2
    <3>2. Settled(y)
      BY <3>1 DEF Ownership
    <3>3. QED
      BY <1>3, <1>6, <1>9, <2>2, <3>1, <3>2, SettledKept
  <2>3. QED
    BY <2>1, <2>2
<1>10. CASE Callers = <<>>
  <2>1. stack' = <<>> /\ UNCHANGED subscriptions
    BY <1>10 DEF SetupReturns
  <2>2. ToSet(stack') = {} /\ ToSet(stack) = {Current}
    BY <1>4, <1>10, <2>1, EmptyOrder
  <2>3. \A y \in Interceptor : Kept(y, {})
    BY <1>3, <2>1 DEF Kept
  <2>4. \A y \in Interceptor : InCall(y)' <=> InCall(y) /\ y # x
    BY <1>2, <2>2 DEF InCall
  <2>5. \A y \in Interceptor : ~InCall(y)' => Settled(y)'
    BY <1>9, <2>1, <2>3, <2>4
  <2>6. owners[x] = {x}
    BY <1>1, <1>2, <1>3, <1>8, <1>10, TopCall
  <2>7. Owned'
    <3>1. \A y, c \in Interceptor : y \in owners[c] /\ y # c =>
            [undo |-> "dispose", child |-> c] \in ToSet(subscriptions[y])
      BY <1>2, <2>2, <2>6 DEF Ownership, Owned
    <3>2. \A y, c \in Interceptor : y \in owners'[c] /\ y # c =>
            [undo |-> "dispose", child |-> c] \in ToSet(subscriptions'[y])
      BY <1>3, <2>1, <3>1
    <3>3. QED
      BY <3>2 DEF Owned
  <2>8. QED
    BY <2>2, <2>5, <2>7 DEF Ownership
<1>11. CASE Callers # <<>>
  <2>1. PICK f : f = Last(Callers)
    OBVIOUS
  <2>2. /\ f \in Frame /\ f.op = "setup" /\ f.of \in Interceptor /\ f \in ToSet(Callers)
        /\ AtApply(f) /\ Setup[f.of][f.at].child = x /\ f.at \in DOMAIN Setup[f.of]
        /\ f.at \in Nat /\ Current.owner = f.of
        /\ ToSet(Callers) = ToSet(Front(Callers)) \cup {f}
        /\ f.of # x
    BY <1>1, <1>2, <1>3, <1>11, <2>1, CallerOf
  <2>3. /\ stack' = Append(Front(Callers), Advanced(f))
        /\ subscriptions' = Subscribed(f.of, DisposeOf(x))
    BY <1>2, <1>11, <2>1 DEF SetupReturns
  <2>4. PICK g : /\ g = Advanced(f) /\ g \in Frame /\ g.op = "setup" /\ g.of = f.of
                 /\ g.owner = f.owner /\ g.at = f.at + 1
                 /\ ToSet(stack') = ToSet(Front(Callers)) \cup {g}
    <3>1. PICK t \in Seq(Frame) : t = Callers
      BY <1>4
    <3>2. t # <<>> /\ Nested(t) /\ Last(t) = f
      BY <1>1, <1>3, <1>11, <2>1, <3>1, TopCall
    <3>3. f.at <= Len(Setup[f.of])
      BY <2>2 DEF AtApply
    <3>4. QED
      BY <2>2, <2>3, <3>1, <3>2, <3>3, Advancing
  <2>5. PICK undos \in Seq(Subscription) :
          undos = DisposeOf(x) /\ ToSet(undos) = {[undo |-> "dispose", child |-> x]}
    BY <1>4, Undos
  <2>6. /\ ToSet(subscriptions'[f.of])
             = ToSet(subscriptions[f.of]) \cup {[undo |-> "dispose", child |-> x]}
        /\ \A y \in Interceptor : y # f.of => subscriptions'[y] = subscriptions[y]
    BY <1>1, <2>2, <2>3, <2>5, Subscribing
  <2>7. \A y \in Interceptor : Kept(y, {})
    <3>1. \A y \in Interceptor : ToSet(subscriptions[y]) \subseteq ToSet(subscriptions'[y])
      BY <2>6
    <3>2. QED
      BY <1>3, <3>1 DEF Kept
  <2>8. \A y \in Interceptor : InCall(y)' <=> InCall(y) /\ y # x
    BY <1>2, <1>4, <2>2, <2>4 DEF InCall
  <2>9. \A y \in Interceptor : ~InCall(y)' => Settled(y)'
    <3>1. InCall(f.of)
      BY <1>4, <2>2 DEF InCall
    <3>2. QED
      BY <1>9, <2>6, <2>7, <2>8, <3>1
  <2>10. \A h \in ToSet(Front(Callers)) : Underway(h)'
    <3> SUFFICES ASSUME NEW h \in ToSet(Front(Callers))
                 PROVE  Underway(h)'
      OBVIOUS
    <3>1. h \in Frame /\ h.of \in Interceptor /\ h.of # x /\ Underway(h)
      BY <1>4, <2>2 DEF Ownership
    <3>2. h.op = "setup" => Done(h.of, h.at)'
      BY <2>7, <3>1, DoneKept DEF Underway
    <3>3. QED
      BY <1>3, <1>6, <3>1, <3>2, UnderwayKept
  <2>11. Underway(g)'
    <3>1. Underway(f)
      BY <1>4, <2>2 DEF Ownership
    <3>2. Predicate(f.of) /\ ~Active(f.of) /\ owners[f.of] = {f.owner} /\ Done(f.of, f.at)
      BY <2>2, <3>1 DEF Underway
    <3>3. PICK s, at : s = Setup[f.of][f.at] /\ at = f.at
      OBVIOUS
    <3>4. s.do = "apply" /\ s.child = x
      BY <2>2, <3>3 DEF AtApply
    <3>5. f.of \in owners'[x]
      BY <1>3, <1>8, <2>2
    <3>6. Accomplished(f.of, s)'
      BY <3>4, <3>5 DEF Accomplished
    <3>7. Done(f.of, at)' /\ at \in DOMAIN Setup[f.of] /\ s = Setup[f.of][at]
      BY <2>2, <2>7, <3>2, <3>3, DoneKept
    <3>8. Done(f.of, at + 1)'
      <4>1. Accomplished(f.of, Setup[f.of][at])'
        BY <3>6, <3>7
      <4>2. QED
        BY <2>2, <3>7, <4>1, DoneMore
    <3>9. ~Active(f.of)' /\ owners'[f.of] = {g.owner}
      BY <1>3, <1>6, <2>2, <2>4, <3>2 DEF Active
    <3>10. QED
      BY <2>4, <3>2, <3>3, <3>8, <3>9 DEF Underway, Predicate
  <2>12. Owned'
    <3> SUFFICES ASSUME NEW y \in Interceptor, NEW c \in Interceptor, y \in owners'[c], y # c
                 PROVE  \/ [undo |-> "dispose", child |-> c] \in ToSet(subscriptions'[y])
                        \/ \E call \in ToSet(stack') : call.of = c /\ call.op = "setup"
      BY DEF Owned
    <3>1. y \in owners[c]
      BY <1>3
    <3>2. CASE c = x
      BY <1>8, <2>2, <2>6, <3>1, <3>2
    <3>3. CASE c # x
      <4>1. \/ [undo |-> "dispose", child |-> c] \in ToSet(subscriptions[y])
            \/ \E call \in ToSet(stack) : call.of = c /\ call.op = "setup"
        BY <3>1 DEF Ownership, Owned
      <4>2. ToSet(subscriptions[y]) \subseteq ToSet(subscriptions'[y])
        BY <2>6
      <4>3. (\E call \in ToSet(stack) : call.of = c /\ call.op = "setup")
              => \E call \in ToSet(stack') : call.of = c /\ call.op = "setup"
        BY <1>2, <1>4, <2>2, <2>4, <3>3
      <4>4. QED
        BY <4>1, <4>2, <4>3
    <3>4. QED
      BY <3>2, <3>3
  <2>13. QED
    BY <2>4, <2>9, <2>10, <2>11, <2>12 DEF Ownership
<1>12. QED
  BY <1>10, <1>11

\* A subscription of a disposal is undone: what the others have done stays.
LEMMA UndoingKeepsOwnership ==
  ASSUME Structure, Ownership, NEW undo, Undoes(undo), UNCHANGED readyState,
         NEW x, x = Current.of, NEW u, u = TheUndo,
         \A y \in Interceptor : y # x => Kept(y, {}),
         \A y \in Interceptor : owners'[y] \subseteq owners[y],
         \A y \in Interceptor : InCall(y) => owners'[y] = owners[y],
         \A y \in Interceptor : ~InCall(y)' => (owners'[y] = {} <=> owners[y] = {}),
         u.undo = "dispose" => x \notin owners'[u.child],
         ToSet(stack) \subseteq ToSet(stack'),
         \A g \in ToSet(stack') \ ToSet(stack) :
           g.op = "dispose" /\ Predicate(g.of) /\ owners'[g.of] = {}
  PROVE  Ownership'
<1>1. TypeOK /\ Nested(stack) /\ Subscriptions
  BY DEF Structure
<1>2. /\ stack # <<>> /\ Current.op = "dispose" /\ x \in Interceptor
      /\ ToSet(subscriptions[x]) = ToSet(subscriptions'[x]) \cup {u}
      /\ \A y \in Interceptor : y # x => subscriptions'[y] = subscriptions[y]
  <2>1. /\ stack # <<>> /\ Current.op = "dispose" /\ x \in Interceptor
        /\ ToSet(subscriptions[x]) = ToSet(subscriptions'[x]) \cup {TheUndo}
        /\ \A y \in Interceptor : y # x => subscriptions'[y] = subscriptions[y]
    BY ONLY <1>1, Undoes(undo), x = Current.of, Unsubscribing
  <2>2. QED
    BY <2>1
<1>3. /\ ToSet(stack) = ToSet(Callers) \cup {Current}
      /\ \A h \in ToSet(Callers) : h \in Frame /\ h.of \in Interceptor /\ h.of # x
  BY <1>1, <1>2, TopCall
<1>4. InCall(x)
  BY <1>3 DEF InCall
<1>5. \A h \in ToSet(stack) : Underway(h)'
  <2>1. ASSUME NEW h \in ToSet(Callers)
        PROVE  Underway(h)'
    <3>1. h \in Frame /\ h.of \in Interceptor /\ h.of # x /\ Underway(h) /\ InCall(h.of)
      BY <1>3 DEF Ownership, InCall
    <3>2. h.op = "setup" => Done(h.of, h.at)'
      BY <3>1, DoneKept DEF Underway
    <3>3. QED
      BY <3>1, <3>2, UnderwayKept
  <2>2. \A h : h = Current => Underway(h)'
    <3>1. Underway(Current)
      BY <1>3 DEF Ownership
    <3>2. Predicate(x) /\ owners'[x] = {}
      BY <1>2, <1>4, <3>1 DEF Underway
    <3>3. QED
      BY <1>2, <3>2 DEF Underway, Predicate
  <2>3. QED
    BY <1>3, <2>1, <2>2
<1>6. \A h \in ToSet(stack') : Underway(h)'
  <2>1. \A h \in ToSet(stack') \ ToSet(stack) : Underway(h)'
    BY DEF Underway, Predicate
  <2>2. QED
    BY <1>5, <2>1
<1>7. \A y \in Interceptor : ~InCall(y)' => Settled(y)'
  <2> SUFFICES ASSUME NEW y \in Interceptor, ~InCall(y)'
               PROVE  Settled(y)'
    OBVIOUS
  <2>1. ~InCall(y) /\ y # x
    BY <1>4 DEF InCall
  <2>2. Settled(y)
    BY <2>1 DEF Ownership
  <2>3. QED
    BY <1>2, <2>1, <2>2, SettledKept
<1>8. Owned'
  <2> SUFFICES ASSUME NEW y \in Interceptor, NEW c \in Interceptor, y \in owners'[c], y # c
               PROVE  \/ [undo |-> "dispose", child |-> c] \in ToSet(subscriptions'[y])
                      \/ \E call \in ToSet(stack') : call.of = c /\ call.op = "setup"
    BY DEF Owned
  <2>1. y \in owners[c]
    OBVIOUS
  <2>2. \/ [undo |-> "dispose", child |-> c] \in ToSet(subscriptions[y])
        \/ \E call \in ToSet(stack) : call.of = c /\ call.op = "setup"
    BY <2>1 DEF Ownership, Owned
  <2>3. y = x => u # [undo |-> "dispose", child |-> c]
    OBVIOUS
  <2>4. QED
    BY <1>2, <2>2, <2>3
<1>9. QED
  BY <1>6, <1>7, <1>8 DEF Ownership

\* A disposal releases a child, and disposes of it if it has no other owner.
LEMMA ReleasingKeepsOwnership ==
  ASSUME Structure, Ownership, UndoApply
  PROVE  Ownership'
<1>1. TypeOK /\ Nested(stack) /\ Subscriptions /\ Undoes("dispose")
  BY DEF Structure, UndoApply
<1>2. PICK x, u, c : x = Current.of /\ u = TheUndo /\ c = u.child
  OBVIOUS
<1>3. /\ x \in Interceptor /\ c \in Interceptor /\ c # x
      /\ \A f \in ToSet(stack) : f.of # c
      /\ ToSet(Append(stack, DisposeFrame(c, FALSE))) = ToSet(stack) \cup {DisposeFrame(c, FALSE)}
      /\ \A y \in Interceptor : y # x => subscriptions'[y] = subscriptions[y]
      /\ stack # <<>> /\ Current.op = "dispose"
  BY <1>1, <1>2, Unsubscribing, DisposingChild
<1>4. /\ UNCHANGED <<readyState, replaced, forwarding>>
      /\ x \in owners[c] =>
           /\ owners' = [owners EXCEPT ![c] = owners[c] \ {x}]
           /\ stack' = IF owners'[c] = {} THEN Append(stack, DisposeFrame(c, FALSE)) ELSE stack
      /\ x \notin owners[c] => UNCHANGED <<owners, stack>>
  BY <1>2 DEF UndoApply, Release, OwnersWithout, eventVars
<1>5. owners \in [Interceptor -> SUBSET Interceptor]
  BY <1>1 DEF TypeOK
<1>6. /\ owners'[c] = owners[c] \ {x}
      /\ \A y \in Interceptor : y # c => owners'[y] = owners[y]
  BY <1>3, <1>4, <1>5
<1>7. ~InCall(c) /\ Settled(c)
  BY <1>3 DEF InCall, Ownership
<1>8. PICK g : g = DisposeFrame(c, FALSE) /\ g.op = "dispose" /\ g.of = c
  <2>1. DisposeFrame(c, FALSE).op = "dispose" /\ DisposeFrame(c, FALSE).of = c
    BY DEF DisposeFrame
  <2>2. QED
    BY <2>1
<1>9. ToSet(stack') = IF x \in owners[c] /\ owners'[c] = {} THEN ToSet(stack) \cup {g}
                      ELSE ToSet(stack)
  BY <1>3, <1>4, <1>8
<1>10. x \in owners[c] => Predicate(c)
  BY <1>7 DEF Settled
<1>11. \A y \in Interceptor : y # x => Kept(y, {})
  <2> SUFFICES ASSUME NEW y \in Interceptor, y # x
               PROVE  Kept(y, {})
    OBVIOUS
  <2>1. \A d \in ChildrenOf(y) : y \in owners[d] => y \in owners'[d]
    <3> SUFFICES ASSUME NEW d \in ChildrenOf(y), y \in owners[d]
                 PROVE  y \in owners'[d]
      OBVIOUS
    <3>1. CASE d \in Interceptor
      BY <1>6, <3>1
    <3>2. CASE d \notin Interceptor
      <4>1. CASE x \in owners[c]
        <5>1. owners' = [owners EXCEPT ![c] = owners[c] \ {x}]
          BY <1>4, <4>1
        <5>2. owners'[d] = owners[d]
          BY ONLY <1>3, <3>2, <5>1
        <5>3. QED
          BY <5>2
      <4>2. CASE x \notin owners[c]
        BY <1>4, <4>2
      <4>3. QED
        BY <4>1, <4>2
    <3>3. QED
      BY <3>1, <3>2
  <2>2. QED
    BY <1>3, <1>4, <2>1 DEF Kept
<1>12. \A y \in Interceptor : InCall(y) => owners'[y] = owners[y]
  BY <1>6, <1>7
<1>13. \A y \in Interceptor : ~InCall(y)' => (owners'[y] = {} <=> owners[y] = {})
  <2>1. x \in owners[c] /\ owners'[c] = {} => InCall(c)'
    BY <1>8, <1>9 DEF InCall
  <2>2. ~InCall(c)' => (owners'[c] = {} <=> owners[c] = {})
    BY <1>6, <2>1
  <2>3. QED
    BY <1>6, <2>2
<1>14. \A y \in Interceptor : owners'[y] \subseteq owners[y]
  BY <1>6
<1>15. /\ ToSet(stack) \subseteq ToSet(stack')
       /\ \A h \in ToSet(stack') \ ToSet(stack) :
            h.op = "dispose" /\ Predicate(h.of) /\ owners'[h.of] = {}
  BY <1>8, <1>9, <1>10
<1>16. u.undo = "dispose" => x \notin owners'[u.child]
  BY <1>2, <1>6
<1>17. QED
  BY <1>1, <1>2, <1>4, <1>11, <1>12, <1>13, <1>14, <1>15, <1>16, UndoingKeepsOwnership

\* A disposal restores a key, stops forwarding or removes a bridge.
LEMMA OtherUndoingKeepsOwnership ==
  ASSUME Structure, Patched, Ownership, UndoPatch \/ UndoForward \/ UndoBridge
  PROVE  Ownership'
<1>1. TypeOK /\ Nested(stack) /\ Subscriptions
  BY DEF Structure
<1>2. PICK undo \in {"patch", "forward", "bridge"} :
        /\ Undoes(undo)
        /\ undo = "patch" => /\ replaced' = [replaced EXCEPT ![TheUndo.key] = None]
                             /\ UNCHANGED forwarding
        /\ undo = "forward" => /\ forwarding' = forwarding \ {Current.of}
                               /\ UNCHANGED replaced
        /\ undo = "bridge" => UNCHANGED <<replaced, forwarding>>
  BY DEF UndoPatch, UndoForward, UndoBridge, eventVars
<1>3. UNCHANGED <<owners, readyState, stack>>
  BY DEF UndoPatch, UndoForward, UndoBridge
<1>4. PICK x, u : x = Current.of /\ u = TheUndo
  OBVIOUS
<1>5. /\ x \in Interceptor /\ u \in Subscription /\ u.undo = undo
      /\ u \in ToSet(subscriptions[x])
      /\ \A y \in Interceptor : y # x => subscriptions'[y] = subscriptions[y]
  BY <1>1, <1>2, <1>4, Unsubscribing
<1>6. undo = "patch" => replaced[u.key] = x
  <2> SUFFICES ASSUME undo = "patch"
               PROVE  replaced[u.key] = x
    OBVIOUS
  <2>1. u.key \in Key /\ u = Restore(u.key)
    BY <1>5 DEF Subscription, Restore
  <2>2. QED
    BY <1>5, <2>1 DEF Patched
<1>7. replaced \in [Key -> Interceptor \cup {None}]
  BY <1>1 DEF TypeOK
<1>8. \A y \in Interceptor : y # x => \A k \in Key : replaced[k] = y => replaced'[k] = y
  BY <1>2, <1>4, <1>6, <1>7
<1>9. \A y \in Interceptor : y # x => (y \in forwarding => y \in forwarding')
  BY <1>2, <1>4
<1>10. \A y \in Interceptor : y # x => Kept(y, {})
  BY <1>3, <1>5, <1>8, <1>9 DEF Kept
<1>11. u.undo # "dispose"
  BY <1>2, <1>5
<1>12. QED
  BY <1>2, <1>3, <1>4, <1>10, <1>11, UndoingKeepsOwnership

\* A disposal ends: nobody owns the interceptor, and nothing is left to undo.
LEMMA EndingKeepsOwnership ==
  ASSUME Structure, Ownership, DisposeEnds
  PROVE  Ownership'
<1>1. TypeOK /\ Nested(stack)
  BY DEF Structure
<1>2. PICK x : x = Current.of
  OBVIOUS
<1>3. /\ stack # <<>> /\ Current.op = "dispose" /\ subscriptions[x] = <<>>
      /\ readyState' = [readyState EXCEPT ![x] = "DISPOSED"]
      /\ UNCHANGED <<subscriptions, replaced, forwarding>>
  BY <1>2 DEF DisposeEnds, Running, Current
<1>4. /\ x \in Interceptor /\ Callers \in Seq(Frame) /\ Nested(Callers)
      /\ ToSet(stack) = ToSet(Callers) \cup {Current}
      /\ \A h \in ToSet(Callers) : h \in Frame /\ h.of \in Interceptor /\ h.of # x
  BY <1>1, <1>2, <1>3, TopCall
<1>5. readyState \in [Interceptor -> {"INACTIVE", "ACTIVE", "DISPOSED"}]
      /\ owners \in [Interceptor -> SUBSET Interceptor]
  BY <1>1 DEF TypeOK
<1>6. readyState'[x] = "DISPOSED" /\ \A y \in Interceptor : y # x => readyState'[y] = readyState[y]
  BY <1>3, <1>4, <1>5
<1>7. owners[x] = {} /\ InCall(x)
  <2>1. Underway(Current)
    BY <1>4 DEF Ownership
  <2>2. QED
    BY <1>2, <1>3, <1>4, <2>1 DEF Underway, InCall
<1>8. owners'[x] = {} => Settled(x)'
  BY <1>3, <1>6 DEF Settled, Active
<1>9. CASE Current.rethrows /\ Callers # <<>>
  <2>1. PICK f : f = Last(Callers)
    OBVIOUS
  <2>2. /\ f.op = "setup" /\ f.of \in Interceptor /\ f.of # x
        /\ ToSet(Callers) = ToSet(Front(Callers)) \cup {f}
    BY <1>1, <1>2, <1>3, <1>9, <2>1, CallerOf
  <2>3. /\ owners' = [owners EXCEPT ![f.of] = @ \ {f.owner}]
        /\ stack' = Append(Front(Callers), DisposeFrame(f.of, TRUE))
    BY <1>9, <2>1 DEF DisposeEnds, Undoing
  <2>4. PICK s \in Seq(Frame) : s = Callers
    BY <1>4
  <2>5. Nested(s) /\ s # <<>> /\ ToSet(s) \subseteq ToSet(stack) /\ f = Last(s)
    BY <1>4, <1>9, <2>1, <2>4
  <2>6. owners'[x] = {} /\ Settled(x)'
    BY <1>5, <1>4, <1>7, <1>8, <2>2, <2>3
  <2>7. PICK g : g = DisposeFrame(f.of, TRUE) /\ g.of = f.of
    <3>1. DisposeFrame(f.of, TRUE).of = f.of
      BY DEF DisposeFrame
    <3>2. QED
      BY <3>1
  <2>8. ToSet(stack') = ToSet(Front(Callers)) \cup {g}
    BY <2>2, <2>3, <2>4, <2>5, <2>7, Failing
  <2>9. \A y \in Interceptor : InCall(y)' => readyState'[y] = readyState[y]
    BY <1>4, <1>6, <2>2, <2>7, <2>8 DEF InCall
  <2>10. \A y \in Interceptor : ~InCall(y) => readyState'[y] = readyState[y]
    BY <1>6, <1>7
  <2>11. \A h \in ToSet(stack) \ ToSet(s) : h.op = "dispose" /\ Settled(h.of)'
    <3>1. \A h \in ToSet(stack) \ ToSet(s) : h = Current
      BY <1>4, <2>4
    <3>2. PICK cur : cur = Current
      OBVIOUS
    <3>3. cur.op = "dispose" /\ cur.of = x
      BY <1>2, <1>3, <3>2
    <3>4. QED
      BY <2>6, <3>1, <3>2, <3>3
  <2>12. stack' = Append(Front(s), DisposeFrame(f.of, TRUE))
    BY <2>3, <2>4
  <2>13. QED
    BY <1>3, <2>2, <2>3, <2>5, <2>9, <2>10, <2>11, <2>12, FailingKeepsOwnership
<1>10. CASE ~(Current.rethrows /\ Callers # <<>>)
  <2>1. stack' = Callers /\ UNCHANGED owners
    BY <1>10 DEF DisposeEnds
  <2>2. ToSet(stack) = ToSet(stack') \cup {Current}
    BY <1>4, <2>1
  <2>3. \A h \in ToSet(stack') : h \in Frame /\ h.of \in Interceptor /\ h.of # x
    BY <1>4, <2>1
  <2>4. \A y \in Interceptor : Kept(y, {})
    BY <1>3, <2>1 DEF Kept
  <2>5. \A h \in ToSet(stack') : Underway(h)'
    <3> SUFFICES ASSUME NEW h \in ToSet(stack')
                 PROVE  Underway(h)'
      OBVIOUS
    <3>1. h \in Frame /\ h.of \in Interceptor /\ h.of # x /\ Underway(h)
      BY <2>2, <2>3 DEF Ownership
    <3>2. h.op = "setup" => Done(h.of, h.at)'
      BY <2>4, <3>1, DoneKept DEF Underway
    <3>3. QED
      BY <1>6, <2>1, <3>1, <3>2, UnderwayKept
  <2>6. \A y \in Interceptor : ~InCall(y)' => Settled(y)'
    <3> SUFFICES ASSUME NEW y \in Interceptor, ~InCall(y)'
                 PROVE  Settled(y)'
      OBVIOUS
    <3>1. CASE y = x
      BY <1>7, <1>8, <2>1, <3>1
    <3>2. CASE y # x
      <4>1. ~InCall(y)
        BY <1>2, <2>2, <3>2 DEF InCall
      <4>2. Settled(y)
        BY <4>1 DEF Ownership
      <4>3. QED
        BY <1>3, <1>6, <2>1, <2>4, <3>2, <4>2, SettledKept
    <3>3. QED
      BY <3>1, <3>2
  <2>7. Owned'
    <3>1. \A c : (\E h \in ToSet(stack) : h.of = c /\ h.op = "setup")
                   => \E h \in ToSet(stack') : h.of = c /\ h.op = "setup"
      BY <1>3, <2>2
    <3>2. Owned /\ UNCHANGED subscriptions
      BY <1>3 DEF Ownership
    <3>3. \A c \in Interceptor : owners'[c] # {} => owners'[c] \subseteq owners[c]
      BY <2>1
    <3>4. QED
      BY <3>1, <3>2, <3>3, OwnedKept
  <2>8. QED
    BY <2>5, <2>6, <2>7 DEF Ownership
<1>11. QED
  BY <1>9, <1>10

\* Every step keeps ownership.
LEMMA OwnershipStep ==
  ASSUME Structure, Patched, [Next]_vars, Ownership
  PROVE  Ownership'
<1>1. ASSUME \/ \E x \in Public : AddListener(x) \/ RemoveListener(x)
             \/ \E e \in Event, x \in Interceptor : Deliver(e, x)
             \/ UNCHANGED vars
      PROVE  Ownership'
  <2>1. UNCHANGED <<owners, readyState, subscriptions, replaced, stack, forwarding>>
    BY <1>1 DEF AddListener, RemoveListener, Deliver, vars, lifecycleVars, eventVars
  <2>2. /\ owners' = owners /\ readyState' = readyState /\ subscriptions' = subscriptions
        /\ replaced' = replaced /\ stack' = stack /\ forwarding' = forwarding
    BY <2>1
  <2>3. QED
    BY <2>2 DEF Ownership, Underway, Settled, InCall, Owned, Done, Accomplished, Active,
                Predicate
<1>2. ASSUME NEW x \in Public, Apply(x) \/ Dispose(x)
      PROVE  Ownership'
  BY <1>2, ApplyKeepsOwnership, DisposeKeepsOwnership
<1>3. CASE SetupBridges \/ SetupForwards
  BY <1>3, SimpleStepsKeepOwnership
<1>4. CASE SetupApplies
  BY <1>4, ApplyingKeepsOwnership
<1>5. CASE SetupPatches
  BY <1>5, PatchingKeepsOwnership
<1>6. CASE SetupFails
  BY <1>6, FailsKeepsOwnership
<1>7. CASE SetupReturns
  BY <1>7, ReturningKeepsOwnership
<1>8. CASE UndoApply
  BY <1>8, ReleasingKeepsOwnership
<1>9. CASE UndoPatch \/ UndoForward \/ UndoBridge
  BY <1>9, OtherUndoingKeepsOwnership
<1>10. CASE DisposeEnds
  BY <1>10, EndingKeepsOwnership
<1>11. QED
  BY <1>1, <1>2, <1>3, <1>4, <1>5, <1>6, <1>7, <1>8, <1>9, <1>10 DEF Next, User, Call

\* Globals and owners are kept together: of a replaced global the disposal of its
\* interceptor knows, and of an owner the disposal of what it owns.
LEMMA OwnershipInvariant == Spec => [](Patched /\ Ownership)
<1>1. Init => Patched /\ Ownership
  <2> SUFFICES ASSUME Init
               PROVE  Patched /\ Ownership
    OBVIOUS
  <2>1. /\ ToSet(stack) = {}
        /\ \A x \in Interceptor : /\ subscriptions[x] = <<>> /\ owners[x] = {}
                                  /\ readyState[x] = "INACTIVE"
        /\ \A k \in Key : replaced[k] = None
    BY EmptyOrder DEF Init
  <2>2. Patched
    <3>1. \A x \in Interceptor : \A k, l \in Key :
            /\ Restore(k) \notin ToSet(subscriptions[x])
            /\ ~Precedes(subscriptions[x], Restore(k), Restore(l))
      BY <2>1, EmptyOrder
    <3>2. \A x \in Interceptor : \A k \in Key : replaced[k] # x
      BY <2>1, InterceptorsAssumption
    <3>3. \A keys \in Groups : \A n \in DOMAIN keys :
            keys[n] \in Key /\ replaced[keys[n]] = None
      BY <2>1, GroupParts
    <3>4. QED
      BY <2>1, <3>1, <3>2, <3>3 DEF Patched
  <2>3. \A x \in Interceptor : Settled(x)
    BY <2>1 DEF Settled, Active
  <2>4. Owned
    BY <2>1 DEF Owned
  <2>5. QED
    BY <2>1, <2>2, <2>3, <2>4 DEF Ownership
<1>2. Structure /\ Patched /\ Ownership /\ [Next]_vars => (Patched /\ Ownership)'
  BY PatchedStep, OwnershipStep
<1>3. QED
  BY <1>1, <1>2, StructureInvariant, PTL DEF Spec

\* With no call in progress every interceptor is settled, which is the property.
LEMMA WhenIdle ==
  ASSUME Structure, Patched, Ownership, Idle
  PROVE  AppliedWhileOwned
<1>1. stack = <<>> /\ ToSet(stack) = {}
  BY EmptyOrder DEF Idle
<1>2. \A x \in Interceptor : Settled(x)
  BY <1>1 DEF Ownership, InCall
<1>3. \A x \in Interceptor : Active(x) <=> owners[x] # {}
  BY <1>2 DEF Settled
<1>4. \A x \in Interceptor : Active(x) => \A i \in DOMAIN Setup[x] : Accomplished(x, Setup[x][i])
  <2> SUFFICES ASSUME NEW x \in Interceptor, Active(x), NEW i \in DOMAIN Setup[x]
               PROVE  Accomplished(x, Setup[x][i])
    OBVIOUS
  <2>1. i < Len(Setup[x]) + 1
    BY SetupAssumption
  <2>2. Done(x, Len(Setup[x]) + 1)
    BY <1>2 DEF Settled
  <2>3. QED
    BY <2>1, <2>2 DEF Done
<1>5. \A x \in Interceptor : subscriptions[x] # <<>> => Active(x)
  BY <1>2 DEF Settled
<1>6. \A x \in Interceptor : \A s \in ToSet(subscriptions[x]) : Active(x) /\ Undoable(x, s)
  <2>1. \A x \in Interceptor : ToSet(subscriptions[x]) # {} => subscriptions[x] # <<>>
    BY EmptyOrder
  <2>2. QED
    BY <1>5, <2>1 DEF Structure, Subscriptions
<1>7. ASSUME NEW x \in Interceptor, NEW c \in ChildrenOf(x)
      PROVE  x \in owners[c] <=> Active(x) /\ (Active(c) \/ Predicate(c))
  <2>1. PICK i \in DOMAIN Setup[x] : Setup[x][i].do = "apply" /\ Setup[x][i].child = c
    BY <1>7 DEF ChildrenOf
  <2>2. c \in Interceptor /\ c # x
    BY <2>1, StepParts
  <2>3. x \in owners[c] => Active(x) /\ Active(c)
    <3>1. x \in owners[c] => [undo |-> "dispose", child |-> c] \in ToSet(subscriptions[x])
      BY <1>1, <2>2 DEF Ownership, Owned
    <3>2. QED
      BY <1>3, <1>6, <2>2, <3>1
  <2>4. Active(c) => Predicate(c)
    BY <1>2, <2>2 DEF Settled
  <2>5. Active(x) /\ Predicate(c) => x \in owners[c]
    BY <1>4, <2>1 DEF Accomplished
  <2>6. QED
    BY <2>3, <2>4, <2>5
<1>8. ASSUME NEW k \in Key, replaced[k] # None
      PROVE  Active(replaced[k]) /\ k \in Replaces(replaced[k])
  <2>1. PICK x \in Interceptor : x = replaced[k]
    BY <1>8 DEF Structure, TypeOK
  <2>2. Restore(k) \in ToSet(subscriptions[x])
    BY <1>1, <2>1 DEF Patched
  <2>3. Active(x) /\ Undoable(x, Restore(k))
    BY <1>6, <2>2
  <2>4. Restore(k).undo = "patch" /\ Restore(k).key = k
    BY Restoring
  <2>5. QED
    BY <2>1, <2>3, <2>4 DEF Undoable
<1>9. ASSUME NEW x \in Interceptor, NEW i \in DOMAIN Setup[x],
             Active(x), Setup[x][i].do = "patch"
      PROVE  \A k \in ToSet(Setup[x][i].keys) : replaced[k] = x
  BY <1>4, <1>9 DEF Accomplished
<1>10. QED
  BY <1>3, <1>7, <1>8, <1>9 DEF AppliedWhileOwned, Replaces

\* Whoever shares an interceptor and whichever setup() failed in between: with no
\* call in progress an interceptor is set up exactly while somebody owns it, owns
\* the children it applied, and has replaced its globals, and nobody else has.
THEOREM SetUpWhileOwned == Spec => []AppliedWhileOwned
<1>1. Structure /\ Patched /\ Ownership => AppliedWhileOwned
  BY WhenIdle DEF AppliedWhileOwned
<1>2. QED
  BY <1>1, StructureInvariant, OwnershipInvariant, PTL

-----------------------------------------------------------------------------
(* Relays: who listens to the source and to the children of a batch.         *)

Forwarded ==
  /\ \A z \in forwarding : [undo |-> "forward"] \in ToSet(subscriptions[z])
  /\ relays[Source] \subseteq forwarding

\* A batch that listens to a child has a bridge on it and listeners of its own, and
\* its disposal will remove the bridge.
Bridges ==
  \A x \in Interceptor \ {Source} : \A b \in relays[x] :
    b \in bridged /\ x \in ChildrenOf(b) /\ listeners[b] > 0
BridgesUndone ==
  \A f \in ToSet(stack) :
    f.op = "dispose" /\ f.of \in bridged => [undo |-> "bridge"] \in ToSet(subscriptions[f.of])

Followed(z) == z \in relays[Source] <=> HasListeners(z, listeners, relays)

\* While a disposal is in progress the source may be gone before the forwarders
\* being disposed of.
Leaving(z) == stack # <<>> /\ Last(stack).op = "dispose" /\ InCall(z)
Following == \A z \in forwarding : Leaving(z) \/ Followed(z)

Relaying == Forwarded /\ Bridges /\ BridgesUndone /\ Following

\* Who forwards is no batch and not the source itself.
LEMMA Forwarders ==
  ASSUME Structure, Relaying
  PROVE  /\ \A z \in forwarding :
              /\ z \in Interceptor /\ Forwards(z) /\ z # Source /\ z \notin Batch
              /\ subscriptions[z] # <<>>
         /\ \A z \in Batch : z \notin relays[Source] /\ z \in Interceptor /\ z # Source
         /\ \A b \in Batch : Source \notin ChildrenOf(b)
         /\ Source \in Interceptor /\ relays \in [Interceptor -> SUBSET Interceptor]
         /\ listeners \in [Interceptor -> Nat] /\ bridged \subseteq Batch
<1>1. /\ forwarding \subseteq Interceptor /\ bridged \subseteq Batch
      /\ relays \in [Interceptor -> SUBSET Interceptor] /\ listeners \in [Interceptor -> Nat]
  BY DEF Structure, TypeOK
<1>2. \A z \in Batch : ~Forwards(z)
  <2> SUFFICES ASSUME NEW z \in Batch, NEW i \in DOMAIN Setup[z]
               PROVE  Setup[z][i].do # "forward"
    BY DEF Forwards
  <2>1. Setup[z] \in Seq(Step)
    BY SetupAssumption, InterceptorsAssumption
  <2>2. i = 1 \/ i \in 2..Len(Setup[z])
    BY <2>1
  <2>3. QED
    BY <2>2, SetupAssumption
<1>3. \A z \in forwarding : Forwards(z) /\ subscriptions[z] # <<>>
  <2> SUFFICES ASSUME NEW z \in forwarding
               PROVE  Forwards(z) /\ subscriptions[z] # <<>>
    OBVIOUS
  <2>1. [undo |-> "forward"] \in ToSet(subscriptions[z])
    BY DEF Relaying, Forwarded
  <2>2. Undoable(z, [undo |-> "forward"])
    BY <1>1, <2>1 DEF Structure, Subscriptions
  <2>3. QED
    BY <2>1, <2>2, EmptyOrder DEF Undoable
<1>4. Source \in Interceptor /\ Source \notin Batch /\ ~Forwards(Source) /\ Batch \subseteq Interceptor
  BY InterceptorsAssumption
<1>5. \A b \in Batch : Source \notin ChildrenOf(b)
  BY SetupAssumption
<1>6. relays[Source] \subseteq forwarding
  BY DEF Relaying, Forwarded
<1>7. \A z \in forwarding : z \in Interceptor /\ Forwards(z) /\ z # Source /\ z \notin Batch
  BY <1>1, <1>2, <1>3, <1>4
<1>8. \A z \in Batch : z \notin relays[Source] /\ z \in Interceptor /\ z # Source
  BY <1>4, <1>6, <1>7
<1>9. QED
  BY <1>1, <1>3, <1>4, <1>5, <1>7, <1>8

\* A subscription to forward or to bridge stays until it is undone.
LEMMA StillSubscribed ==
  ASSUME Structure, [Next]_vars, NEW y \in Interceptor, NEW u \in {"forward", "bridge"},
         [undo |-> u] \in ToSet(subscriptions[y])
  PROVE  \/ [undo |-> u] \in ToSet(subscriptions'[y])
         \/ u = "forward" /\ UndoForward /\ y = Current.of
         \/ u = "bridge" /\ UndoBridge /\ y = Current.of
<1>1. TypeOK /\ Nested(stack) /\ Subscriptions
  BY DEF Structure
<1> DEFINE s == [undo |-> u]
<1>2. ASSUME NEW x \in Interceptor, NEW undos \in Seq(Subscription),
             subscriptions' = Subscribed(x, undos)
      PROVE  s \in ToSet(subscriptions'[y])
  <2>1. /\ ToSet(subscriptions'[x]) = ToSet(subscriptions[x]) \cup ToSet(undos)
        /\ \A z \in Interceptor : z # x => subscriptions'[z] = subscriptions[z]
    BY <1>1, <1>2, Subscribing
  <2>2. QED
    BY <2>1
<1>3. ASSUME NEW w, Undoes(w), w # u \/ y # Current.of
      PROVE  s \in ToSet(subscriptions'[y])
  <2>1. PICK x, t : x = Current.of /\ t = TheUndo
    OBVIOUS
  <2>2. /\ ToSet(subscriptions[x]) = ToSet(subscriptions'[x]) \cup {t}
        /\ \A z \in Interceptor : z # x => subscriptions'[z] = subscriptions[z]
        /\ t.undo = w
    BY <1>1, <1>3, <2>1, Unsubscribing
  <2>3. y = x => t # s
    BY <1>3, <2>1, <2>2
  <2>4. QED
    BY <2>2, <2>3
<1>4. UNCHANGED subscriptions => s \in ToSet(subscriptions'[y])
  OBVIOUS
<1>5. ASSUME NEW x \in Public, Apply(x) \/ Dispose(x) \/ AddListener(x) \/ RemoveListener(x)
      PROVE  UNCHANGED subscriptions
  BY <1>5 DEF Apply, Dispose, AddListener, RemoveListener, lifecycleVars
<1>6. CASE SetupBridges \/ SetupForwards
  <2>1. PICK do \in {"bridge", "forward"} :
          AtStep(do) /\ subscriptions' = Subscribed(Current.of, <<[undo |-> do]>>)
    BY <1>6 DEF SetupBridges, SetupForwards
  <2>2. PICK x \in Interceptor : x = Current.of
    BY <1>1, <2>1, RunningStep
  <2>3. PICK undos \in Seq(Subscription) : undos = <<[undo |-> do]>>
    BY Undos
  <2>4. QED
    BY <1>2, <2>1, <2>2, <2>3
<1>7. CASE SetupApplies
  <2>1. AtStep("apply")
    BY <1>7 DEF SetupApplies
  <2>2. PICK x \in Interceptor, c \in Interceptor : x = Current.of /\ c = TheStep.child
    BY <1>1, <2>1, ApplyingChild
  <2>3. UNCHANGED subscriptions \/ subscriptions' = Subscribed(x, DisposeOf(c))
    BY <1>7, <2>2 DEF SetupApplies
  <2>4. PICK undos \in Seq(Subscription) : undos = DisposeOf(c)
    BY Undos
  <2>5. QED
    BY <1>2, <1>4, <2>2, <2>3, <2>4
<1>8. CASE SetupPatches
  <2>1. AtStep("patch")
    BY <1>8 DEF SetupPatches
  <2>2. PICK x \in Interceptor : x = Current.of
    BY <1>1, <2>1, RunningStep
  <2>3. PICK new \in Seq(Key) : new = Append(Current.held, NextKey)
    BY <1>1, <2>1, NextOfGroup
  <2>4. UNCHANGED subscriptions \/ subscriptions' = Subscribed(x, Restores(new))
    BY <1>8, <2>2, <2>3 DEF SetupPatches, Restores
  <2>5. PICK undos \in Seq(Subscription) : undos = Restores(new)
    BY RestoresOrder
  <2>6. QED
    BY <1>2, <1>4, <2>2, <2>4, <2>5
<1>9. CASE SetupReturns
  <2>1. CASE Callers = <<>>
    BY <1>4, <1>9, <2>1 DEF SetupReturns
  <2>2. CASE Callers # <<>>
    <3>1. stack # <<>> /\ Current.op = "setup"
      BY <1>9 DEF SetupReturns, Running, Current
    <3>2. PICK f, x : f = Last(Callers) /\ x = Current.of
      OBVIOUS
    <3>3. f.of \in Interceptor /\ x \in Interceptor
      BY <1>1, <2>2, <3>1, <3>2, CallerOf, TopCall
    <3>4. subscriptions' = Subscribed(f.of, DisposeOf(x))
      BY <1>9, <2>2, <3>2 DEF SetupReturns
    <3>5. PICK undos \in Seq(Subscription) : undos = DisposeOf(x)
      BY <3>3, Undos
    <3>6. QED
      BY <1>2, <3>3, <3>4, <3>5
  <2>3. QED
    BY <2>1, <2>2
<1>10. CASE UndoApply \/ UndoPatch
  <2>1. PICK w \in {"dispose", "patch"} : Undoes(w)
    BY <1>10 DEF UndoApply, UndoPatch
  <2>2. QED
    BY <1>3, <2>1
<1>11. CASE UndoForward
  <2>1. Undoes("forward")
    BY <1>11 DEF UndoForward
  <2>2. QED
    BY <1>3, <1>11, <2>1
<1>12. CASE UndoBridge
  <2>1. Undoes("bridge")
    BY <1>12 DEF UndoBridge
  <2>2. QED
    BY <1>3, <1>12, <2>1
<1>13. ASSUME SetupFails \/ DisposeEnds \/ UNCHANGED vars
              \/ \E e \in Event, x \in Interceptor : Deliver(e, x)
       PROVE  UNCHANGED subscriptions
  BY <1>13 DEF SetupFails, DisposeEnds, Deliver, vars, lifecycleVars
<1>14. QED
  BY <1>4, <1>5, <1>6, <1>7, <1>8, <1>9, <1>10, <1>11, <1>12, <1>13 DEF Next, User, Call

\* What the newListener and removeListener hooks do to the source.
LEMMA Hooks ==
  ASSUME NEW on \in [Interceptor -> SUBSET Interceptor], Source \in Interceptor
  PROVE  /\ \A xs : /\ ListenToSource(on, xs)[Source] = on[Source] \cup (xs \cap forwarding)
                    /\ \A y \in Interceptor : y # Source => ListenToSource(on, xs)[y] = on[y]
         /\ \A xs, counts :
              /\ LeaveSource(on, xs, counts)[Source]
                   = on[Source] \ {x \in xs \cap forwarding : ~HasListeners(x, counts, on)}
              /\ \A y \in Interceptor : y # Source => LeaveSource(on, xs, counts)[y] = on[y]
         /\ \A b : Unbridged(on, b) \in [Interceptor -> SUBSET Interceptor]
<1>1. ASSUME NEW xs
      PROVE  /\ ListenToSource(on, xs)[Source] = on[Source] \cup (xs \cap forwarding)
             /\ \A y \in Interceptor : y # Source => ListenToSource(on, xs)[y] = on[y]
  BY DEF ListenToSource
<1>2. ASSUME NEW xs, NEW counts
      PROVE  /\ LeaveSource(on, xs, counts)[Source]
                  = on[Source] \ {x \in xs \cap forwarding : ~HasListeners(x, counts, on)}
             /\ \A y \in Interceptor : y # Source => LeaveSource(on, xs, counts)[y] = on[y]
  <2>1. PICK S : S = {x \in xs \cap forwarding : ~HasListeners(x, counts, on)}
    OBVIOUS
  <2>2. LeaveSource(on, xs, counts) = [on EXCEPT ![Source] = @ \ S]
    BY <2>1 DEF LeaveSource
  <2>3. QED
    BY <2>1, <2>2
<1>3. \A b : Unbridged(on, b) \in [Interceptor -> SUBSET Interceptor]
  BY DEF Unbridged
<1>4. QED
  BY <1>1, <1>2, <1>3

\* A bridge that is removed takes its batch from the children, and from the source
\* the children that nobody listens to any more.
LEMMA Unbridging ==
  ASSUME Structure, Relaying, NEW x \in Batch, NEW counts, RemoveBridge(x, counts)
  PROVE  /\ bridged' = bridged \ {x}
         /\ \A y \in Interceptor : y # Source => relays'[y] = relays[y] \ {x}
         /\ \A z \in Interceptor : z \in relays'[Source] <=>
              /\ z \in relays[Source]
              /\ z \in ChildrenOf(x) /\ z \in forwarding => counts[z] > 0 \/ relays'[z] # {}
<1>1. PICK on : on = Unbridged(relays, x)
  OBVIOUS
<1>2. /\ Source \in Interceptor /\ relays \in [Interceptor -> SUBSET Interceptor]
      /\ x \notin relays[Source] /\ \A z \in forwarding : z \in Interceptor /\ z # Source
  BY Forwarders
<1>3. /\ on \in [Interceptor -> SUBSET Interceptor]
      /\ \A y \in Interceptor : on[y] = IF x \in bridged THEN relays[y] \ {x} ELSE relays[y]
  BY <1>1, <1>2 DEF Unbridged
<1>4. \A y \in Interceptor : y # Source => on[y] = relays[y] \ {x}
  <2> SUFFICES ASSUME NEW y \in Interceptor, y # Source, x \notin bridged
               PROVE  x \notin relays[y]
    BY <1>3
  <2>1. QED
    BY DEF Relaying, Bridges
<1>5. on[Source] = relays[Source]
  BY <1>2, <1>3
<1>6. PICK xs : xs = ChildrenOf(x)
  OBVIOUS
<1>7. bridged' = bridged \ {x} /\ relays' = LeaveSource(on, xs, counts)
  BY <1>1, <1>6 DEF RemoveBridge
<1>8. /\ relays'[Source] = on[Source] \ {z \in xs \cap forwarding : ~HasListeners(z, counts, on)}
      /\ \A y \in Interceptor : y # Source => relays'[y] = on[y]
  BY <1>2, <1>3, <1>7, Hooks
<1>9. \A z \in Interceptor : z \in relays'[Source] <=>
        /\ z \in relays[Source]
        /\ z \in ChildrenOf(x) /\ z \in forwarding => counts[z] > 0 \/ relays'[z] # {}
  <2> SUFFICES ASSUME NEW z \in Interceptor
               PROVE  z \in relays'[Source] <=>
                        /\ z \in relays[Source]
                        /\ z \in ChildrenOf(x) /\ z \in forwarding =>
                             counts[z] > 0 \/ relays'[z] # {}
    OBVIOUS
  <2>1. z \in forwarding => (HasListeners(z, counts, on) <=> counts[z] > 0 \/ relays'[z] # {})
    BY <1>2, <1>8 DEF HasListeners
  <2>2. QED
    BY <1>5, <1>6, <1>8, <2>1
<1>10. QED
  BY <1>4, <1>7, <1>8, <1>9

Linked == relays[Source] \subseteq forwarding /\ Bridges

\* A batch that leaves its children takes those forwarders off the source that nobody
\* else listens to, and no others.
LEMMA UnbridgingLinked ==
  ASSUME Structure, Relaying, NEW x \in Batch, NEW counts, RemoveBridge(x, counts),
         counts = listeners', UNCHANGED forwarding,
         \A z \in Interceptor : z # x => counts[z] = listeners[z]
  PROVE  /\ Linked' /\ \A z \in forwarding : Followed(z) => Followed(z)'
         /\ bridged' = bridged \ {x}
<1>1. /\ bridged' = bridged \ {x}
      /\ \A y \in Interceptor : y # Source => relays'[y] = relays[y] \ {x}
      /\ \A z \in Interceptor : z \in relays'[Source] <=>
           /\ z \in relays[Source]
           /\ z \in ChildrenOf(x) /\ z \in forwarding => counts[z] > 0 \/ relays'[z] # {}
  BY Unbridging
<1>2. /\ \A z \in forwarding : z \in Interceptor /\ z # Source /\ z \notin Batch
      /\ relays \in [Interceptor -> SUBSET Interceptor] /\ bridged \subseteq Batch
      /\ Source \in Interceptor /\ Batch \subseteq Interceptor
  BY Forwarders, InterceptorsAssumption
<1>3. relays' \in [Interceptor -> SUBSET Interceptor]
  <2>1. PICK on \in [Interceptor -> SUBSET Interceptor] : on = Unbridged(relays, x)
    BY <1>2, Hooks
  <2>2. PICK S : S = {z \in ChildrenOf(x) \cap forwarding : ~HasListeners(z, counts, on)}
    OBVIOUS
  <2>3. relays' = [on EXCEPT ![Source] = @ \ S]
    BY <2>1, <2>2 DEF RemoveBridge, LeaveSource
  <2>4. QED
    BY <1>2, <2>1, <2>3
<1>4. relays'[Source] \subseteq relays[Source]
  BY <1>1, <1>2, <1>3
<1>5. Bridges'
  <2> SUFFICES ASSUME NEW y \in Interceptor \ {Source}, NEW b \in relays'[y]
               PROVE  b \in bridged' /\ y \in ChildrenOf(b) /\ listeners'[b] > 0
    BY DEF Bridges
  <2>1. b \in relays[y] /\ b # x
    BY <1>1
  <2>2. b \in bridged /\ y \in ChildrenOf(b) /\ listeners[b] > 0
    BY <2>1 DEF Relaying, Bridges
  <2>3. QED
    BY <1>1, <1>2, <2>1, <2>2
<1>6. ASSUME NEW z \in forwarding, Followed(z)
      PROVE  Followed(z)'
  <2>1. z \in Interceptor /\ z # Source /\ z # x /\ relays'[z] = relays[z] \ {x}
    BY <1>1, <1>2
  <2>2. z \in relays[Source] <=> listeners[z] > 0 \/ relays[z] # {}
    BY <1>6 DEF Followed, HasListeners
  <2>3. listeners'[z] = listeners[z]
    BY <2>1
  <2>4. z \in relays'[Source] <=> listeners'[z] > 0 \/ relays'[z] # {}
    <3>1. CASE z \in ChildrenOf(x)
      BY <1>1, <2>1, <2>2, <2>3, <3>1
    <3>2. CASE z \notin ChildrenOf(x)
      <4>1. x \notin relays[z]
        BY <2>1, <3>2 DEF Relaying, Bridges
      <4>2. relays'[z] = relays[z]
        BY <2>1, <4>1
      <4>3. QED
        BY <1>1, <2>1, <2>2, <2>3, <3>2, <4>2
    <3>3. QED
      BY <3>1, <3>2
  <2>5. QED
    BY <2>4 DEF Followed, HasListeners
<1>7. relays'[Source] \subseteq forwarding'
  BY <1>4 DEF Relaying, Forwarded
<1>8. QED
  BY <1>1, <1>5, <1>6, <1>7 DEF Linked

\* on() by a user: the first listener of a batch bridges it, and forwarders follow.
LEMMA AddingListener ==
  ASSUME Structure, Relaying, NEW x \in Public, AddListener(x)
  PROVE  Linked' /\ \A z \in forwarding : Followed(z) => Followed(z)'
<1>1. /\ x \in Interceptor /\ x # Source /\ UNCHANGED forwarding
      /\ listeners' = [listeners EXCEPT ![x] = listeners[x] + 1]
  BY DEF AddListener, Public
<1>2. /\ \A z \in forwarding : z \in Interceptor /\ z # Source /\ z \notin Batch
      /\ relays \in [Interceptor -> SUBSET Interceptor] /\ bridged \subseteq Batch
      /\ Source \in Interceptor /\ Batch \subseteq Interceptor
      /\ listeners \in [Interceptor -> Nat]
      /\ \A b \in Batch : Source \notin ChildrenOf(b)
      /\ relays[Source] \subseteq forwarding
  BY Forwarders, InterceptorsAssumption DEF Relaying, Forwarded
<1>3. /\ listeners'[x] = listeners[x] + 1 /\ listeners'[x] > 0
      /\ \A y \in Interceptor : y # x => listeners'[y] = listeners[y]
      /\ \A y \in Interceptor : listeners[y] > 0 => listeners'[y] > 0
  BY <1>1, <1>2
<1>4. CASE x \notin Batch
  <2>1. relays' = ListenToSource(relays, {x}) /\ UNCHANGED bridged
    BY <1>4 DEF AddListener
  <2>2. /\ relays'[Source] = relays[Source] \cup ({x} \cap forwarding)
        /\ \A y \in Interceptor : y # Source => relays'[y] = relays[y]
    BY <1>2, <2>1, Hooks
  <2>3. Bridges'
    <3> SUFFICES ASSUME NEW y \in Interceptor \ {Source}, NEW b \in relays'[y]
                 PROVE  b \in bridged' /\ y \in ChildrenOf(b) /\ listeners'[b] > 0
      BY DEF Bridges
    <3>1. b \in relays[y]
      BY <2>2
    <3>2. b \in bridged /\ y \in ChildrenOf(b) /\ listeners[b] > 0
      BY <3>1 DEF Relaying, Bridges
    <3>3. QED
      BY <1>2, <1>3, <2>1, <3>2
  <2>4. ASSUME NEW z \in forwarding, Followed(z)
        PROVE  Followed(z)'
    <3>1. z \in relays[Source] <=> listeners[z] > 0 \/ relays[z] # {}
      BY <2>4 DEF Followed, HasListeners
    <3>2. z \in relays'[Source] <=> listeners'[z] > 0 \/ relays'[z] # {}
      BY <1>2, <1>3, <2>2, <3>1
    <3>3. QED
      BY <3>2 DEF Followed, HasListeners
  <2>5. relays'[Source] \subseteq forwarding'
    BY <1>1, <1>2, <2>2
  <2>6. QED
    BY <2>3, <2>4, <2>5 DEF Linked
<1>5. CASE x \in Batch /\ x \in bridged
  <2>1. UNCHANGED relays /\ bridged' = bridged
    BY <1>5 DEF AddListener
  <2>2. Bridges'
    <3> SUFFICES ASSUME NEW y \in Interceptor \ {Source}, NEW b \in relays'[y]
                 PROVE  b \in bridged' /\ y \in ChildrenOf(b) /\ listeners'[b] > 0
      BY DEF Bridges
    <3>1. b \in bridged /\ y \in ChildrenOf(b) /\ listeners[b] > 0
      BY <2>1 DEF Relaying, Bridges
    <3>2. QED
      BY <1>2, <1>3, <2>1, <3>1
  <2>3. ASSUME NEW z \in forwarding, Followed(z)
        PROVE  Followed(z)'
    BY <1>2, <1>3, <1>5, <2>1, <2>3 DEF Followed, HasListeners
  <2>4. relays'[Source] \subseteq forwarding'
    BY <1>1, <1>2, <2>1
  <2>5. QED
    BY <2>2, <2>3, <2>4 DEF Linked
<1>6. CASE x \in Batch /\ x \notin bridged
  <2>1. PICK on : on = BridgedTo(relays, x)
    OBVIOUS
  <2>2. /\ on \in [Interceptor -> SUBSET Interceptor]
        /\ \A y \in Interceptor : on[y] = IF y \in ChildrenOf(x) THEN relays[y] \cup {x} ELSE relays[y]
    <3>1. on = [y \in Interceptor |-> IF y \in ChildrenOf(x) THEN relays[y] \cup {x} ELSE relays[y]]
      BY <2>1 DEF BridgedTo
    <3>2. QED
      BY <1>1, <1>2, <3>1
  <2>3. PICK xs : xs = ChildrenOf(x)
    OBVIOUS
  <2>4. relays' = ListenToSource(on, xs) /\ bridged' = bridged \cup {x}
    BY <1>6, <2>1, <2>3 DEF AddListener
  <2>5. /\ relays'[Source] = on[Source] \cup (xs \cap forwarding)
        /\ \A y \in Interceptor : y # Source => relays'[y] = on[y]
    BY <1>2, <2>2, <2>4, Hooks
  <2>6. on[Source] = relays[Source]
    BY <1>2, <1>6, <2>2
  <2>7. Bridges'
    <3> SUFFICES ASSUME NEW y \in Interceptor \ {Source}, NEW b \in relays'[y]
                 PROVE  b \in bridged' /\ y \in ChildrenOf(b) /\ listeners'[b] > 0
      BY DEF Bridges
    <3>1. CASE b \in relays[y]
      <4>1. b \in bridged /\ y \in ChildrenOf(b) /\ listeners[b] > 0
        BY <3>1 DEF Relaying, Bridges
      <4>2. QED
        BY <1>2, <1>3, <2>4, <4>1
    <3>2. CASE b \notin relays[y]
      <4>1. b = x /\ y \in ChildrenOf(x)
        BY <2>2, <2>5, <3>2
      <4>2. QED
        BY <1>3, <2>4, <4>1
    <3>3. QED
      BY <3>1, <3>2
  <2>8. ASSUME NEW z \in forwarding, Followed(z)
        PROVE  Followed(z)'
    <3>1. z \in relays[Source] <=> listeners[z] > 0 \/ relays[z] # {}
      BY <2>8 DEF Followed, HasListeners
    <3>2. z \in Interceptor /\ z # Source /\ z # x /\ listeners'[z] = listeners[z]
      BY <1>2, <1>3, <1>6
    <3>3. relays'[z] = IF z \in xs THEN relays[z] \cup {x} ELSE relays[z]
      BY <2>2, <2>3, <2>5, <3>2
    <3>4. z \in relays'[Source] <=> z \in relays[Source] \/ z \in xs
      BY <2>5, <2>6
    <3>5. z \in relays'[Source] <=> listeners'[z] > 0 \/ relays'[z] # {}
      BY <3>1, <3>2, <3>3, <3>4
    <3>6. QED
      BY <3>5 DEF Followed, HasListeners
  <2>9. relays'[Source] \subseteq forwarding'
    BY <1>1, <1>2, <2>5, <2>6
  <2>10. QED
    BY <2>7, <2>8, <2>9 DEF Linked
<1>7. QED
  BY <1>4, <1>5, <1>6

\* off() by a user: the last listener takes the bridge or the forwarding away.
LEMMA RemovingListener ==
  ASSUME Structure, Relaying, Idle, NEW x \in Public, RemoveListener(x)
  PROVE  Linked' /\ \A z \in forwarding : Followed(z) => Followed(z)'
<1>1. /\ x \in Interceptor /\ x # Source /\ UNCHANGED forwarding /\ listeners[x] > 0
      /\ listeners' = [listeners EXCEPT ![x] = listeners[x] - 1]
  BY DEF RemoveListener, Public
<1>2. /\ \A z \in forwarding : z \in Interceptor /\ z # Source /\ z \notin Batch
      /\ relays \in [Interceptor -> SUBSET Interceptor] /\ bridged \subseteq Batch
      /\ Source \in Interceptor /\ Batch \subseteq Interceptor
      /\ listeners \in [Interceptor -> Nat]
      /\ relays[Source] \subseteq forwarding
  BY Forwarders, InterceptorsAssumption DEF Relaying, Forwarded
<1>3. /\ listeners'[x] = listeners[x] - 1 /\ listeners'[x] \in Nat
      /\ \A y \in Interceptor : y # x => listeners'[y] = listeners[y]
  BY <1>1, <1>2
\* What changes when no bridge is removed.
<1>4. ASSUME \A y \in Interceptor : y # Source => relays'[y] = relays[y],
             UNCHANGED bridged, relays'[Source] \subseteq relays[Source],
             listeners'[x] > 0 \/ x \notin Batch
      PROVE  Linked'
  <2>1. Bridges'
    <3> SUFFICES ASSUME NEW y \in Interceptor \ {Source}, NEW b \in relays'[y]
                 PROVE  b \in bridged' /\ y \in ChildrenOf(b) /\ listeners'[b] > 0
      BY DEF Bridges
    <3>1. b \in relays[y]
      BY <1>4
    <3>2. b \in bridged /\ y \in ChildrenOf(b) /\ listeners[b] > 0
      BY <3>1 DEF Relaying, Bridges
    <3>3. listeners'[b] > 0
      BY <1>2, <1>3, <1>4, <3>2
    <3>4. QED
      BY <1>4, <3>2, <3>3
  <2>2. relays'[Source] \subseteq forwarding'
    BY <1>1, <1>2, <1>4
  <2>3. QED
    BY <2>1, <2>2 DEF Linked
<1>5. CASE listeners'[x] # 0
  <2>1. UNCHANGED relays /\ UNCHANGED bridged
    BY <1>5 DEF RemoveListener
  <2>2. Linked'
    <3>1. listeners'[x] > 0
      <4>1. PICK n \in Nat : n = listeners'[x]
        BY <1>3
      <4>2. n # 0
        BY <1>5, <4>1
      <4>3. n > 0
        BY ONLY <4>2
      <4>4. QED
        BY <4>1, <4>3
    <3>2. /\ \A y \in Interceptor : y # Source => relays'[y] = relays[y]
          /\ relays'[Source] \subseteq relays[Source]
      BY <2>1
    <3>3. QED
      BY <1>4, <2>1, <3>1, <3>2
  <2>3. ASSUME NEW z \in forwarding, Followed(z)
        PROVE  Followed(z)'
    <3>1. listeners'[z] > 0 <=> listeners[z] > 0
      BY <1>1, <1>2, <1>3, <1>5
    <3>2. QED
      BY <2>1, <2>3, <3>1 DEF Followed, HasListeners
  <2>4. QED
    BY <2>2, <2>3
<1>6. CASE listeners'[x] = 0 /\ x \notin Batch
  <2>1. PICK counts : counts = listeners'
    OBVIOUS
  <2>2. relays' = LeaveSource(relays, {x}, counts) /\ UNCHANGED bridged
    BY <1>6, <2>1 DEF RemoveListener, AfterLastListener
  <2>3. /\ relays'[Source]
             = relays[Source] \ {z \in {x} \cap forwarding : ~HasListeners(z, counts, relays)}
        /\ \A y \in Interceptor : y # Source => relays'[y] = relays[y]
    BY <1>2, <2>2, Hooks
  <2>4. Linked'
    BY <1>4, <1>6, <2>2, <2>3
  <2>5. ASSUME NEW z \in forwarding, Followed(z)
        PROVE  Followed(z)'
    <3>1. z \in relays[Source] <=> listeners[z] > 0 \/ relays[z] # {}
      BY <2>5 DEF Followed, HasListeners
    <3>2. HasListeners(z, counts, relays) <=> listeners'[z] > 0 \/ relays'[z] # {}
      BY <1>2, <2>1, <2>3 DEF HasListeners
    <3>3. z \in relays'[Source] <=> listeners'[z] > 0 \/ relays'[z] # {}
      BY <1>1, <1>2, <1>3, <2>3, <3>1, <3>2
    <3>4. QED
      BY <3>3 DEF Followed, HasListeners
  <2>6. QED
    BY <2>4, <2>5
<1>7. CASE listeners'[x] = 0 /\ x \in Batch
  <2>1. PICK counts : counts = listeners'
    OBVIOUS
  <2>2. RemoveBridge(x, counts)
    BY <1>7, <2>1 DEF RemoveListener, AfterLastListener
  <2>3. \A z \in Interceptor : z # x => counts[z] = listeners[z]
    BY <1>3, <2>1
  <2>4. QED
    BY <1>1, <1>7, <2>1, <2>2, <2>3, UnbridgingLinked
<1>8. QED
  BY <1>5, <1>6, <1>7

\* A disposal of a batch removes its bridge.
LEMMA UndoingBridge ==
  ASSUME Structure, Relaying, UndoBridge
  PROVE  /\ Linked' /\ \A z \in forwarding : Followed(z) => Followed(z)'
         /\ bridged' = bridged \ {Current.of}
<1>1. Undoes("bridge") /\ TypeOK /\ Nested(stack) /\ Subscriptions
  BY DEF UndoBridge, Structure
<1>2. PICK x : x = Current.of
  OBVIOUS
<1>3. x \in Batch
  <2>1. PICK u : u = TheUndo
    OBVIOUS
  <2>2. u.undo = "bridge" /\ Undoable(x, u)
    BY <1>1, <1>2, <2>1, Unsubscribing
  <2>3. QED
    BY <2>2 DEF Undoable
<1>4. PICK counts : counts = listeners
  OBVIOUS
<1>5. RemoveBridge(x, counts) /\ UNCHANGED <<listeners, forwarding>>
  BY <1>2, <1>4 DEF UndoBridge
<1>6. counts = listeners'
  BY <1>4, <1>5
<1>7. \A z \in Interceptor : z # x => counts[z] = listeners[z]
  BY <1>4
<1>8. QED
  BY <1>2, <1>3, <1>5, <1>6, <1>7, UnbridgingLinked

\* forwardHttpEvents(): an interceptor with listeners listens to the source at once.
LEMMA Forwarding ==
  ASSUME Structure, Relaying, SetupForwards
  PROVE  Linked' /\ \A z \in forwarding' : Followed(z)'
<1>1. TypeOK /\ Nested(stack) /\ AtStep("forward")
  BY DEF Structure, SetupForwards
<1>2. PICK x \in Interceptor : x = Current.of
  BY <1>1, RunningStep
<1>3. Forwards(x) /\ stack # <<>> /\ Current.op = "setup"
  <2>1. PICK i : i = Current.at /\ i \in DOMAIN Setup[x] /\ Setup[x][i].do = "forward"
    BY <1>1, <1>2, RunningStep
  <2>2. QED
    BY <1>1, <2>1, RunningStep DEF Forwards
<1>4. x # Source
  BY <1>3, InterceptorsAssumption
<1>5. /\ \A z \in forwarding : z \in Interceptor /\ z # Source
      /\ relays \in [Interceptor -> SUBSET Interceptor] /\ Source \in Interceptor
      /\ relays[Source] \subseteq forwarding
  BY Forwarders DEF Relaying, Forwarded
<1>6. /\ forwarding' = forwarding \cup {x} /\ UNCHANGED <<listeners, bridged>>
      /\ relays' = IF HasListeners(x, listeners, relays)
                   THEN [relays EXCEPT ![Source] = @ \cup {x}] ELSE relays
  BY <1>2 DEF SetupForwards, ForwardsAtOnce
<1>7. /\ relays'[Source] = IF HasListeners(x, listeners, relays)
                           THEN relays[Source] \cup {x} ELSE relays[Source]
      /\ \A y \in Interceptor : y # Source => relays'[y] = relays[y]
  BY <1>5, <1>6
<1>8. \A z \in forwarding : Followed(z)
  BY <1>3 DEF Relaying, Following, Leaving, Current
<1>9. Bridges'
  BY <1>6, <1>7 DEF Relaying, Bridges
<1>10. ASSUME NEW z \in forwarding'
       PROVE  Followed(z)'
  <2>1. z \in Interceptor /\ z # Source /\ relays'[z] = relays[z] /\ listeners'[z] = listeners[z]
    BY <1>4, <1>5, <1>6, <1>7
  <2>2. HasListeners(z, listeners', relays') <=> HasListeners(z, listeners, relays)
    BY <2>1 DEF HasListeners
  <2>3. CASE z \in forwarding
    <3>1. z \in relays[Source] <=> HasListeners(z, listeners, relays)
      BY <1>8, <2>3 DEF Followed
    <3>2. z \in relays'[Source] <=> HasListeners(z, listeners', relays')
      BY <1>7, <2>2, <3>1
    <3>3. QED
      BY <3>2 DEF Followed
  <2>4. CASE z \notin forwarding
    <3>1. z = x /\ x \notin relays[Source]
      BY <1>5, <1>6, <2>4
    <3>2. z \in relays'[Source] <=> HasListeners(z, listeners', relays')
      BY <1>7, <2>2, <3>1
    <3>3. QED
      BY <3>2 DEF Followed
  <2>5. QED
    BY <2>3, <2>4
<1>11. relays'[Source] \subseteq forwarding'
  BY <1>5, <1>6, <1>7
<1>12. QED
  BY <1>9, <1>10, <1>11 DEF Linked

\* A disposal ends the forwarding, and the interceptor no longer listens to the source.
LEMMA UndoingForward ==
  ASSUME Structure, Relaying, UndoForward
  PROVE  /\ Linked' /\ \A z \in forwarding' : z \in forwarding /\ (Followed(z) => Followed(z)')
         /\ forwarding' = forwarding \ {Current.of} /\ UNCHANGED bridged
<1>1. PICK x : x = Current.of
  OBVIOUS
<1>2. /\ forwarding' = forwarding \ {x} /\ UNCHANGED <<listeners, bridged>>
      /\ relays' = [relays EXCEPT ![Source] = relays[Source] \ {x}]
  BY <1>1 DEF UndoForward
<1>3. /\ \A z \in forwarding : z \in Interceptor /\ z # Source
      /\ relays \in [Interceptor -> SUBSET Interceptor] /\ Source \in Interceptor
      /\ relays[Source] \subseteq forwarding
  BY Forwarders DEF Relaying, Forwarded
<1>4. /\ relays'[Source] = relays[Source] \ {x}
      /\ \A y \in Interceptor : y # Source => relays'[y] = relays[y]
  BY <1>2, <1>3
<1>5. Bridges'
  BY <1>2, <1>4 DEF Relaying, Bridges
<1>6. \A z \in forwarding' : z \in forwarding /\ (Followed(z) => Followed(z)')
  BY <1>2, <1>3, <1>4 DEF Followed, HasListeners
<1>7. relays'[Source] \subseteq forwarding'
  BY <1>2, <1>3, <1>4
<1>8. QED
  BY <1>1, <1>2, <1>5, <1>6, <1>7 DEF Linked

\* At the end of a disposal its interceptor listens to nobody; if it was the source,
\* nobody forwards its events any more but those that are being disposed of.
LEMMA EndingRelays ==
  ASSUME Structure, Ownership, Relaying, DisposeEnds
  PROVE  /\ Linked' /\ Current.of \notin forwarding /\ bridged' \subseteq bridged
         /\ \A z \in forwarding : ~InCall(z) /\ Followed(z) => Followed(z)'
<1>1. TypeOK /\ Nested(stack) /\ Subscriptions
  BY DEF Structure
<1>2. PICK x : x = Current.of
  OBVIOUS
<1>3. /\ stack # <<>> /\ Current.op = "dispose" /\ subscriptions[x] = <<>>
      /\ listeners' = [listeners EXCEPT ![x] = 0]
      /\ relays' = [relays EXCEPT ![x] = {}]
      /\ bridged' = bridged \ {x} /\ UNCHANGED forwarding
  BY <1>2 DEF DisposeEnds, Running, Current
<1>4. x \in Interceptor /\ ToSet(stack) = ToSet(Callers) \cup {Current} /\ InCall(x)
  BY <1>1, <1>2, <1>3, TopCall DEF InCall
<1>5. /\ \A z \in forwarding : /\ z \in Interceptor /\ z # Source /\ Forwards(z)
                               /\ subscriptions[z] # <<>>
      /\ relays \in [Interceptor -> SUBSET Interceptor] /\ Source \in Interceptor
      /\ relays[Source] \subseteq forwarding /\ listeners \in [Interceptor -> Nat]
  BY Forwarders DEF Relaying, Forwarded
<1>6. x \notin forwarding
  BY <1>3, <1>5
<1>7. x \notin bridged
  <2>1. CASE x \in bridged
    <3>1. [undo |-> "bridge"] \in ToSet(subscriptions[x])
      BY <1>2, <1>3, <1>4, <2>1 DEF Relaying, BridgesUndone
    <3>2. QED
      BY <1>3, <3>1, EmptyOrder
  <2>2. QED
    BY <2>1
<1>8. /\ relays'[x] = {} /\ \A y \in Interceptor : y # x => relays'[y] = relays[y]
      /\ \A y \in Interceptor : y # x => listeners'[y] = listeners[y]
  BY <1>3, <1>4, <1>5
<1>9. Bridges'
  <2> SUFFICES ASSUME NEW y \in Interceptor \ {Source}, NEW b \in relays'[y]
               PROVE  b \in bridged' /\ y \in ChildrenOf(b) /\ listeners'[b] > 0
    BY DEF Bridges
  <2>1. b \in relays[y] /\ b \in Interceptor
    BY <1>5, <1>8
  <2>2. b \in bridged /\ y \in ChildrenOf(b) /\ listeners[b] > 0
    BY <2>1 DEF Relaying, Bridges
  <2>3. QED
    BY <1>3, <1>7, <1>8, <2>1, <2>2
<1>10. relays'[Source] \subseteq forwarding'
  BY <1>3, <1>5, <1>8
<1>11. ASSUME NEW z \in forwarding, ~InCall(z), Followed(z)
       PROVE  Followed(z)'
  <2>1. z # x /\ z \in Interceptor /\ z # Source /\ Forwards(z)
    BY <1>5, <1>6
  <2>2. x # Source
    <3> SUFFICES ASSUME x = Source
                 PROVE  FALSE
      OBVIOUS
    <3>1. Underway(Current)
      BY <1>4 DEF Ownership
    <3>2. Predicate(Source) /\ owners[Source] = {}
      BY <1>2, <1>3, <3>1 DEF Underway
    <3>3. Settled(z)
      BY <1>11, <2>1 DEF Ownership
    <3>4. Done(z, Len(Setup[z]) + 1)
      BY <1>5, <3>3 DEF Settled
    <3>5. Source \in ChildrenOf(z)
      BY <2>1, SetupAssumption
    <3>6. PICK i \in DOMAIN Setup[z] : Setup[z][i].do = "apply" /\ Setup[z][i].child = Source
      BY <3>5 DEF ChildrenOf
    <3>7. i < Len(Setup[z]) + 1
      BY <2>1, SetupAssumption
    <3>8. z \in owners[Source]
      BY <3>2, <3>4, <3>6, <3>7 DEF Done, Accomplished
    <3>9. QED
      BY <3>2, <3>8
  <2>3. /\ relays'[Source] = relays[Source] /\ relays'[z] = relays[z]
        /\ listeners'[z] = listeners[z]
    BY <1>5, <1>8, <2>1, <2>2
  <2>4. QED
    BY <1>11, <2>3 DEF Followed, HasListeners
<1>12. QED
  BY <1>2, <1>3, <1>6, <1>9, <1>10, <1>11 DEF Linked

\* Events: only listeners, a forwarder's setup() and the undoing of these change who
\* listens to whom.
LEMMA SameRelays ==
  ASSUME Structure, Relaying, UNCHANGED <<listeners, relays, bridged, forwarding>>
  PROVE  Linked' /\ \A z \in forwarding : Followed(z) => Followed(z)'
<1>1. /\ listeners' = listeners /\ relays' = relays /\ bridged' = bridged
      /\ forwarding' = forwarding
  OBVIOUS
<1>2. Linked
  BY DEF Relaying, Forwarded, Linked
<1>3. Linked'
  BY <1>1, <1>2 DEF Linked, Bridges
<1>4. QED
  BY <1>1, <1>3 DEF Followed

\* Every step keeps the relays to forwarders and bridged batches.
LEMMA LinkedStep ==
  ASSUME Structure, Ownership, Relaying, [Next]_vars
  PROVE  Linked'
<1>1. ASSUME \/ \E x \in Public : Apply(x) \/ Dispose(x)
             \/ SetupBridges \/ SetupApplies \/ SetupPatches \/ SetupFails \/ SetupReturns
             \/ UndoApply \/ UndoPatch
             \/ \E e \in Event, x \in Interceptor : Deliver(e, x)
             \/ UNCHANGED vars
      PROVE  UNCHANGED <<listeners, relays, bridged, forwarding>>
  BY <1>1 DEF Apply, Dispose, SetupBridges, SetupApplies, SetupPatches, SetupFails,
     SetupReturns, UndoApply, UndoPatch, Deliver, vars, eventVars
<1>2. ASSUME NEW x \in Public, AddListener(x)
      PROVE  Linked'
  BY <1>2, AddingListener
<1>3. ASSUME NEW x \in Public, RemoveListener(x)
      PROVE  Linked'
  <2>1. Idle
    BY <1>3 DEF RemoveListener
  <2>2. QED
    BY <1>3, <2>1, RemovingListener
<1>4. SetupForwards \/ UndoForward \/ UndoBridge \/ DisposeEnds => Linked'
  BY Forwarding, UndoingForward, UndoingBridge, EndingRelays
<1>5. QED
  BY <1>1, <1>2, <1>3, <1>4, SameRelays DEF Next, User, Call

\* Every step keeps forwarding to those that will undo it.
LEMMA ForwardedStep ==
  ASSUME Structure, Ownership, Relaying, [Next]_vars
  PROVE  Forwarded'
<1>1. relays'[Source] \subseteq forwarding'
  BY LinkedStep DEF Linked
<1>2. ASSUME NEW z \in forwarding'
      PROVE  [undo |-> "forward"] \in ToSet(subscriptions'[z])
  <2>1. CASE z \in forwarding
    <3>1. z \in Interceptor /\ [undo |-> "forward"] \in ToSet(subscriptions[z])
      BY <2>1, Forwarders DEF Relaying, Forwarded
    <3>2. ~(UndoForward /\ z = Current.of)
      BY <1>2 DEF UndoForward
    <3>3. QED
      BY <3>1, <3>2, StillSubscribed
  <2>2. CASE z \notin forwarding
    <3>1. SetupForwards /\ z = Current.of
      <4>1. ASSUME \/ \E x \in Public : \/ Apply(x) \/ Dispose(x)
                                        \/ AddListener(x) \/ RemoveListener(x)
                   \/ SetupBridges \/ SetupApplies \/ SetupPatches \/ SetupFails
                   \/ SetupReturns \/ UndoApply \/ UndoPatch \/ UndoBridge \/ DisposeEnds
                   \/ \E e \in Event, x \in Interceptor : Deliver(e, x)
                   \/ UNCHANGED vars
            PROVE  UNCHANGED forwarding
        BY <4>1 DEF Apply, Dispose, AddListener, RemoveListener, SetupBridges, SetupApplies,
           SetupPatches, SetupFails, SetupReturns, UndoApply, UndoPatch, UndoBridge,
           DisposeEnds, Deliver, vars, eventVars
      <4>2. UndoForward => forwarding' \subseteq forwarding
        BY DEF UndoForward
      <4>3. SetupForwards => forwarding' = forwarding \cup {Current.of}
        BY DEF SetupForwards
      <4>4. QED
        BY <1>2, <2>2, <4>1, <4>2, <4>3 DEF Next, User, Call
    <3>2. TypeOK /\ Nested(stack) /\ Subscriptions /\ AtStep("forward")
      BY <3>1 DEF Structure, SetupForwards
    <3>3. z \in Interceptor
      BY <3>1, <3>2, RunningStep
    <3>4. PICK undos \in Seq(Subscription) :
            undos = <<[undo |-> "forward"]>> /\ ToSet(undos) = {[undo |-> "forward"]}
      BY Undos
    <3>5. subscriptions' = Subscribed(z, undos)
      BY <3>1, <3>4 DEF SetupForwards
    <3>6. ToSet(subscriptions'[z]) = ToSet(subscriptions[z]) \cup ToSet(undos)
      BY <3>2, <3>3, <3>5, Subscribing
    <3>7. QED
      BY <3>4, <3>6
  <2>3. QED
    BY <2>1, <2>2
<1>3. QED
  BY <1>1, <1>2 DEF Forwarded

\* A batch that has been set up, or is being set up beyond its first step, has its
\* bridge among the subscriptions.
LEMMA BatchBridged ==
  ASSUME Structure, Ownership, NEW b \in Batch,
         \/ ~InCall(b) /\ owners[b] # {}
         \/ \E f \in ToSet(stack) : /\ f.of = b /\ f.op = "setup"
                                    /\ f.at \in DOMAIN Setup[b] /\ Setup[b][f.at].do # "bridge"
  PROVE  [undo |-> "bridge"] \in ToSet(subscriptions[b])
<1>1. /\ b \in Interceptor /\ Setup[b] \in Seq(Step) /\ 1 \in DOMAIN Setup[b]
      /\ Setup[b][1].do = "bridge"
  <2>1. Setup[b] \in Seq(Step) /\ Setup[b] # <<>> /\ Setup[b][1].do = "bridge" /\ b \in Interceptor
    BY SetupAssumption, InterceptorsAssumption
  <2>2. QED
    BY <2>1
<1>2. \E a : Done(b, a) /\ 1 < a
  <2>1. CASE ~InCall(b) /\ owners[b] # {}
    <3>1. Settled(b)
      BY <1>1, <2>1 DEF Ownership
    <3>2. Done(b, Len(Setup[b]) + 1)
      BY <2>1, <3>1 DEF Settled
    <3>3. 1 < Len(Setup[b]) + 1
      BY <1>1
    <3>4. QED
      BY <3>2, <3>3
  <2>2. ASSUME NEW f \in ToSet(stack), f.of = b, f.op = "setup",
               f.at \in DOMAIN Setup[b], Setup[b][f.at].do # "bridge"
        PROVE  \E a : Done(b, a) /\ 1 < a
    <3>1. Done(b, f.at)
      BY <2>2 DEF Ownership, Underway
    <3>2. PICK a : a = f.at
      OBVIOUS
    <3>3. a # 1 /\ a \in 1..Len(Setup[b]) /\ Done(b, a)
      BY <1>1, <2>2, <3>1, <3>2
    <3>4. 1 < a
      BY <1>1, <3>3
    <3>5. QED
      BY <3>3, <3>4
  <2>3. QED
    BY <2>1, <2>2
<1>3. Accomplished(b, Setup[b][1])
  BY <1>1, <1>2 DEF Done
<1>4. QED
  BY <1>1, <1>3 DEF Accomplished

\* A disposal begins for an interceptor that somebody owned, or for a setup() that
\* failed beyond its first step.
LEMMA NewDisposals ==
  ASSUME Structure, [Next]_vars, NEW g \in ToSet(stack'), g.op = "dispose"
  PROVE  \/ g \in ToSet(stack)
         \/ ~InCall(g.of) /\ owners[g.of] # {}
         \/ \E f \in ToSet(stack) : /\ f.of = g.of /\ f.op = "setup"
                                    /\ f.at \in DOMAIN Setup[g.of]
                                    /\ Setup[g.of][f.at].do # "bridge"
<1>1. TypeOK /\ Nested(stack) /\ Subscriptions
  BY DEF Structure
<1>2. ASSUME NEW x \in Public, Dispose(x)
      PROVE  ~InCall(g.of) /\ owners[g.of] # {}
  <2>1. /\ stack = <<>> /\ x \in owners[x] /\ x \in Interceptor
        /\ stack' = <<>> \/ stack' = Append(<<>>, DisposeFrame(x, FALSE))
    BY <1>2 DEF Dispose, Release, Idle, Public
  <2>2. PICK h : h = DisposeFrame(x, FALSE) /\ h \in Frame /\ h.op = "dispose" /\ h.of = x
    BY ZenonT(60), <2>1, NewFrames
  <2>3. ToSet(stack') = {} \/ ToSet(stack') = {h}
    BY <2>1, <2>2, FirstCall
  <2>4. g.of = x
    BY <2>2, <2>3
  <2>5. ~InCall(x)
    BY <2>1, EmptyOrder DEF InCall
  <2>6. QED
    BY <2>1, <2>4, <2>5
<1>3. ASSUME NEW x \in Public, Apply(x)
      PROVE  FALSE
  <2>1. stack' = <<>> \/ stack' = <<SetupFrame(x, x)>>
    BY <1>3 DEF Apply
  <2>2. PICK h \in Frame : h = SetupFrame(x, x) /\ h.op = "setup" /\ Steps(h) /\ h.owner = h.of
    BY NewFrames DEF Public
  <2>3. ToSet(stack') = {} \/ ToSet(stack') = {h}
    BY <2>1, <2>2, FirstCall
  <2>4. QED
    BY <2>2, <2>3
<1>4. ASSUME NEW do, AtStep(do), stack' = Append(Callers, Advanced(Current))
      PROVE  g \in ToSet(stack)
  <2>1. PICK h : h = Advanced(Current) /\ h.op = "setup" /\ ToSet(stack') = ToSet(Callers) \cup {h}
    BY <1>1, <1>4, StepEnds
  <2>2. stack # <<>>
    BY <1>1, <1>4, RunningStep
  <2>3. QED
    BY <1>1, <2>1, <2>2, TopCall
<1>5. CASE SetupBridges \/ SetupForwards
  <2>1. PICK do \in {"bridge", "forward"} : AtStep(do) /\ stack' = Append(Callers, Advanced(Current))
    BY <1>5 DEF SetupBridges, SetupForwards, NextStep
  <2>2. QED
    BY <1>4, <2>1
<1>6. CASE SetupApplies
  <2>1. AtStep("apply")
    BY <1>6 DEF SetupApplies
  <2>2. PICK x, c : x = Current.of /\ c = TheStep.child
    OBVIOUS
  <2>3. \/ stack' = Append(Callers, Advanced(Current))
        \/ stack' = Append(stack, SetupFrame(c, x))
    BY <1>6, <2>2 DEF SetupApplies, NextStep
  <2>4. /\ x \in Interceptor /\ c \in Interceptor
        /\ ToSet(Append(stack, SetupFrame(c, x))) = ToSet(stack) \cup {SetupFrame(c, x)}
    BY <1>1, <2>1, <2>2, ApplyingChild
  <2>5. SetupFrame(c, x).op = "setup"
    BY <2>4, NewFrames
  <2>6. QED
    BY <1>4, <2>1, <2>3, <2>4, <2>5
<1>7. CASE SetupPatches
  <2>1. AtStep("patch") /\ stack # <<>>
    BY <1>1, <1>7, RunningStep DEF SetupPatches
  <2>2. PICK new : new = Append(Current.held, NextKey)
    OBVIOUS
  <2>3. \/ stack' = Append(Callers, Advanced(Current))
        \/ new # TheStep.keys /\ stack' = Append(Callers, [Current EXCEPT !.held = new])
    BY <1>7, <2>2 DEF SetupPatches, NextStep
  <2>4. CASE new # TheStep.keys /\ stack' = Append(Callers, [Current EXCEPT !.held = new])
    <3>1. PICK h : h = [Current EXCEPT !.held = new]
      OBVIOUS
    <3>2. h.op = "setup" /\ ToSet(stack') = ToSet(Callers) \cup {h}
      BY <1>1, <2>1, <2>2, <2>4, <3>1, HoldingMore
    <3>3. QED
      BY <1>1, <2>1, <3>2, TopCall
  <2>5. QED
    BY <1>4, <2>1, <2>3, <2>4
<1>8. CASE SetupFails
  <2>1. AtStep("patch") /\ stack' = Append(Callers, DisposeFrame(Current.of, TRUE))
    BY <1>8 DEF SetupFails, Undoing
  <2>2. /\ stack # <<>> /\ Current.op = "setup" /\ Current.at \in DOMAIN Setup[Current.of]
        /\ Setup[Current.of][Current.at].do = "patch"
    BY <1>1, <2>1, RunningStep
  <2>3. ToSet(stack) = ToSet(Callers) \cup {Current} /\ stack \in Seq(Frame)
    BY <1>1, <2>2, TopCall
  <2>4. PICK h : h = DisposeFrame(Current.of, TRUE)
    OBVIOUS
  <2>5. h.of = Current.of
    BY <2>4 DEF DisposeFrame
  <2>6. ToSet(stack') = ToSet(Callers) \cup {h}
    BY <1>1, <2>1, <2>2, <2>3, <2>4, Failing DEF Callers, Current
  <2>7. CASE g \in ToSet(Callers)
    BY <2>3, <2>7
  <2>8. CASE g = h
    <3>1. Current \in ToSet(stack) /\ Current.of = g.of
      BY <2>3, <2>5, <2>8
    <3>2. QED
      BY <2>2, <3>1
  <2>9. QED
    BY <2>6, <2>7, <2>8
<1>9. CASE SetupReturns
  <2>1. stack # <<>> /\ Current.op = "setup"
    BY <1>9 DEF SetupReturns, Running, Current
  <2>2. CASE Callers = <<>>
    <3>1. stack' = <<>>
      BY <1>9, <2>2 DEF SetupReturns
    <3>2. QED
      BY <3>1, EmptyOrder
  <2>3. CASE Callers # <<>>
    <3>1. PICK f : f = Last(Callers)
      OBVIOUS
    <3>2. /\ f.op = "setup" /\ f.at <= Len(Setup[f.of])
          /\ ToSet(Callers) = ToSet(Front(Callers)) \cup {f}
      BY <1>1, <2>1, <2>3, <3>1, CallerOf
    <3>3. PICK s \in Seq(Frame) : s = Callers
      BY <1>1, <2>1, TopCall
    <3>4. Nested(s) /\ s # <<>> /\ f = Last(s) /\ ToSet(stack) = ToSet(Callers) \cup {Current}
      BY <1>1, <2>1, <2>3, <3>1, <3>3, TopCall
    <3>5. stack' = Append(Front(s), Advanced(f))
      BY <1>9, <2>3, <3>1, <3>3 DEF SetupReturns
    <3>6. ToSet(stack') = ToSet(Front(s)) \cup {Advanced(f)} /\ Advanced(f).op = "setup"
      BY <3>2, <3>4, <3>5, Advancing
    <3>7. QED
      BY <3>2, <3>3, <3>4, <3>6
  <2>4. QED
    BY <2>2, <2>3
<1>10. CASE UndoApply
  <2>1. Undoes("dispose")
    BY <1>10 DEF UndoApply
  <2>2. PICK x, c : x = Current.of /\ c = TheUndo.child
    OBVIOUS
  <2>3. \/ UNCHANGED stack
        \/ x \in owners[c] /\ stack' = Append(stack, DisposeFrame(c, FALSE))
    BY <1>10, <2>2 DEF UndoApply, Release
  <2>4. /\ \A f \in ToSet(stack) : f.of # c
        /\ ToSet(Append(stack, DisposeFrame(c, FALSE))) = ToSet(stack) \cup {DisposeFrame(c, FALSE)}
    BY <1>1, <2>1, <2>2, DisposingChild
  <2>5. PICK h : h = DisposeFrame(c, FALSE)
    OBVIOUS
  <2>6. h.of = c
    BY <2>5 DEF DisposeFrame
  <2>7. CASE UNCHANGED stack
    BY <2>7
  <2>8. CASE x \in owners[c] /\ stack' = Append(stack, DisposeFrame(c, FALSE))
    <3>1. ToSet(stack') = ToSet(stack) \cup {h}
      BY <2>4, <2>5, <2>8
    <3>2. ~InCall(c) /\ owners[c] # {}
      BY <2>4, <2>8 DEF InCall
    <3>3. QED
      BY <2>6, <3>1, <3>2
  <2>9. QED
    BY <2>3, <2>7, <2>8
<1>11. CASE DisposeEnds
  <2>1. stack # <<>> /\ Current.op = "dispose"
    BY <1>11 DEF DisposeEnds, Running, Current
  <2>2. /\ ToSet(stack) = ToSet(Callers) \cup {Current} /\ Callers \in Seq(Frame)
        /\ Nested(Callers)
    BY <1>1, <2>1, TopCall
  <2>3. \/ stack' = Callers
        \/ /\ Current.rethrows /\ Callers # <<>>
           /\ stack' = Append(Front(Callers), DisposeFrame(Last(Callers).of, TRUE))
    BY <1>11 DEF DisposeEnds, Undoing
  <2>4. CASE stack' = Callers
    BY <2>2, <2>4
  <2>5. CASE /\ Current.rethrows /\ Callers # <<>>
             /\ stack' = Append(Front(Callers), DisposeFrame(Last(Callers).of, TRUE))
    <3>1. PICK f : f = Last(Callers)
      OBVIOUS
    <3>2. /\ f.op = "setup" /\ f \in ToSet(Callers) /\ AtApply(f)
          /\ f.at \in DOMAIN Setup[f.of] /\ ToSet(Callers) = ToSet(Front(Callers)) \cup {f}
      BY <1>1, <2>1, <2>5, <3>1, CallerOf
    <3>3. PICK h : h = DisposeFrame(f.of, TRUE)
      OBVIOUS
    <3>4. h.of = f.of
      BY <3>3 DEF DisposeFrame
    <3>5. ToSet(stack') = ToSet(Front(Callers)) \cup {h}
      BY <2>2, <2>5, <3>1, <3>2, <3>3, Failing
    <3>6. QED
      BY <2>2, <3>2, <3>4, <3>5 DEF AtApply
  <2>6. QED
    BY <2>3, <2>4, <2>5
<1>12. ASSUME \/ \E x \in Public : AddListener(x) \/ RemoveListener(x)
              \/ UndoPatch \/ UndoForward \/ UndoBridge
              \/ \E e \in Event, x \in Interceptor : Deliver(e, x)
              \/ UNCHANGED vars
       PROVE  g \in ToSet(stack)
  <2>1. UNCHANGED stack
    BY <1>12 DEF AddListener, RemoveListener, UndoPatch, UndoForward, UndoBridge, Deliver, vars,
       lifecycleVars
  <2>2. QED
    BY <2>1
<1>13. QED
  BY <1>2, <1>3, <1>5, <1>6, <1>7, <1>8, <1>9, <1>10, <1>11, <1>12 DEF Next, User, Call

\* Every step keeps the bridges with batches that will remove them.
LEMMA BridgesUndoneStep ==
  ASSUME Structure, Ownership, Relaying, [Next]_vars
  PROVE  BridgesUndone'
<1> SUFFICES ASSUME NEW g \in ToSet(stack'), g.op = "dispose", g.of \in bridged'
             PROVE  [undo |-> "bridge"] \in ToSet(subscriptions'[g.of])
  BY DEF BridgesUndone
<1>1. PICK b : b = g.of
  OBVIOUS
<1>2. b \in bridged /\ ~(UndoBridge /\ b = Current.of)
  <2>1. ASSUME NEW x \in Public, AddListener(x)
        PROVE  FALSE
    <3>1. stack' = <<>>
      BY <2>1 DEF AddListener, Idle, lifecycleVars
    <3>2. QED
      BY <3>1, EmptyOrder
  <2>2. ASSUME NEW x \in Public, RemoveListener(x)
        PROVE  FALSE
    <3>1. stack' = <<>>
      BY <2>2 DEF RemoveListener, Idle, lifecycleVars
    <3>2. QED
      BY <3>1, EmptyOrder
  <2>3. ASSUME \/ \E x \in Public : Apply(x) \/ Dispose(x)
               \/ SetupBridges \/ SetupApplies \/ SetupForwards \/ SetupPatches \/ SetupFails
               \/ SetupReturns \/ UndoApply \/ UndoPatch \/ UndoForward
               \/ \E e \in Event, x \in Interceptor : Deliver(e, x)
               \/ UNCHANGED vars
        PROVE  UNCHANGED bridged
    BY <2>3 DEF Apply, Dispose, SetupBridges, SetupApplies, SetupForwards, SetupPatches,
       SetupFails, SetupReturns, UndoApply, UndoPatch, UndoForward, Deliver, vars, eventVars
  <2>4. UndoBridge => bridged' = bridged \ {Current.of}
    BY UndoingBridge
  <2>5. DisposeEnds => bridged' \subseteq bridged
    BY EndingRelays
  <2>6. b \in bridged
    BY <1>1, <2>1, <2>2, <2>3, <2>4, <2>5 DEF Next, User, Call
  <2>7. QED
    BY <1>1, <2>4, <2>6
<1>3. b \in Batch /\ b \in Interceptor
  BY <1>2, Forwarders
<1>4. [undo |-> "bridge"] \in ToSet(subscriptions[b])
  <2>1. CASE g \in ToSet(stack)
    BY <1>1, <1>2, <2>1 DEF Relaying, BridgesUndone
  <2>2. CASE ~InCall(b) /\ owners[b] # {}
    BY <1>3, <2>2, BatchBridged
  <2>3. CASE \E f \in ToSet(stack) : /\ f.of = b /\ f.op = "setup"
                                     /\ f.at \in DOMAIN Setup[b] /\ Setup[b][f.at].do # "bridge"
    BY <1>3, <2>3, BatchBridged
  <2>4. QED
    BY <1>1, <2>1, <2>2, <2>3, NewDisposals
<1>5. QED
  BY <1>1, <1>2, <1>3, <1>4, StillSubscribed

\* A disposal that ends leaves the interceptors it was called for being disposed of.
LEMMA StillLeaving ==
  ASSUME Structure, DisposeEnds, NEW z \in Interceptor, InCall(z), z # Current.of
  PROVE  Leaving(z)'
<1>1. TypeOK /\ Nested(stack)
  BY DEF Structure
<1>2. stack # <<>> /\ Current.op = "dispose"
  BY DEF DisposeEnds, Running, Current
<1>3. /\ ToSet(stack) = ToSet(Callers) \cup {Current} /\ Callers \in Seq(Frame)
      /\ Nested(Callers)
  BY <1>1, <1>2, TopCall
<1>4. PICK h \in ToSet(Callers) : h.of = z
  BY <1>3 DEF InCall
<1>5. Callers # <<>>
  BY <1>4, EmptyOrder
<1>6. CASE Current.rethrows
  <2>1. PICK f : f = Last(Callers)
    OBVIOUS
  <2>2. f.op = "setup" /\ f.of \in Interceptor /\ ToSet(Callers) = ToSet(Front(Callers)) \cup {f}
    BY <1>1, <1>2, <1>5, <1>6, <2>1, CallerOf
  <2>3. DisposeFrame(f.of, TRUE) \in Frame
    BY <2>2, NewFrames
  <2>4. PICK g \in Frame : g = DisposeFrame(f.of, TRUE)
    BY <2>3
  <2>5. g.op = "dispose" /\ g.of = f.of
    BY <2>4 DEF DisposeFrame
  <2>6. stack' = Append(Front(Callers), g)
    BY <1>5, <1>6, <2>1, <2>4 DEF DisposeEnds, Undoing
  <2>7. Front(Callers) \in Seq(Frame)
    BY <1>3, <1>5, FrontOrder
  <2>8. PICK s \in Seq(Frame) : s = Front(Callers)
    BY <2>7
  <2>9. /\ Append(s, g) # <<>> /\ ToSet(Append(s, g)) = ToSet(s) \cup {g}
        /\ Last(Append(s, g)) = g
    <3>1. Append(s, g) # <<>> /\ ToSet(Append(s, g)) = ToSet(s) \cup {g}
      BY AppendOrder
    <3>2. Last(Append(s, g)) = g
      BY DEF Last
    <3>3. QED
      BY <3>1, <3>2
  <2>10. \E e \in ToSet(stack') : e.of = z
    BY <1>4, <2>2, <2>5, <2>6, <2>8, <2>9
  <2>11. stack' # <<>> /\ Last(stack').op = "dispose"
    BY <2>5, <2>6, <2>8, <2>9
  <2>12. QED
    BY <2>10, <2>11 DEF Leaving, InCall
<1>7. CASE ~Current.rethrows
  <2>1. stack' = Callers
    BY <1>7 DEF DisposeEnds
  <2>2. Calls(Last(Callers), Current) /\ Last(Callers) \in Frame
    <3>1. Calls(Last(Callers), Current) /\ Last(Callers) \in ToSet(Callers)
      BY <1>1, <1>2, <1>5, TopCall
    <3>2. QED
      BY <1>3, <3>1, ElementsOf
  <2>3. Last(Callers).op = "dispose"
    BY <1>2, <1>7, <2>2, FrameParts DEF Calls
  <2>4. \E e \in ToSet(stack') : e.of = z
    BY <1>4, <2>1
  <2>5. stack' # <<>> /\ Last(stack').op = "dispose"
    BY <1>5, <2>1, <2>3
  <2>6. QED
    BY <2>4, <2>5 DEF Leaving, InCall
<1>8. QED
  BY <1>6, <1>7

\* Every step keeps forwarders following their listeners, but for those on the way out.
LEMMA FollowingStep ==
  ASSUME Structure, Ownership, Relaying, [Next]_vars
  PROVE  Following'
<1> SUFFICES ASSUME NEW z \in forwarding'
             PROVE  Leaving(z)' \/ Followed(z)'
  BY DEF Following
<1>1. CASE SetupForwards
  BY <1>1, Forwarding
<1>2. z \in forwarding => Leaving(z) \/ Followed(z)
  BY DEF Relaying, Following
<1>3. CASE DisposeEnds
  <2>1. z \in forwarding /\ z \in Interceptor /\ z # Current.of
    <3>1. z \in forwarding
      BY <1>3 DEF DisposeEnds
    <3>2. QED
      BY <1>3, <3>1, EndingRelays, Forwarders
  <2>2. CASE InCall(z)
    BY <1>3, <2>1, <2>2, StillLeaving
  <2>3. CASE ~InCall(z)
    BY <1>2, <1>3, <2>1, <2>3, EndingRelays DEF Leaving
  <2>4. QED
    BY <2>2, <2>3
<1>4. ASSUME NEW x \in Public, AddListener(x) \/ RemoveListener(x)
      PROVE  Followed(z)'
  <2>1. Idle /\ UNCHANGED forwarding
    BY <1>4 DEF AddListener, RemoveListener
  <2>2. z \in forwarding /\ ~Leaving(z)
    BY <2>1 DEF Leaving, Idle
  <2>3. QED
    BY <1>2, <1>4, <2>1, <2>2, AddingListener, RemovingListener
<1>5. ASSUME NEW x \in Public, Apply(x) \/ Dispose(x)
      PROVE  Followed(z)'
  <2>1. Idle /\ UNCHANGED <<listeners, relays, bridged, forwarding>>
    BY <1>5 DEF Apply, Dispose, eventVars
  <2>2. z \in forwarding /\ ~Leaving(z)
    BY <2>1 DEF Leaving, Idle
  <2>3. QED
    BY <1>2, <2>1, <2>2, SameRelays
<1>6. CASE SetupBridges \/ SetupApplies \/ SetupPatches \/ SetupFails \/ SetupReturns
  <2>1. UNCHANGED <<listeners, relays, bridged, forwarding>>
    BY <1>6 DEF SetupBridges, SetupApplies, SetupPatches, SetupFails, SetupReturns, eventVars
  <2>2. stack # <<>> => Last(stack).op = "setup"
    BY <1>6 DEF SetupBridges, SetupApplies, SetupPatches, SetupFails, SetupReturns, AtStep,
       Running
  <2>3. z \in forwarding /\ ~Leaving(z)
    BY <2>1, <2>2 DEF Leaving
  <2>4. QED
    BY <1>2, <2>1, <2>3, SameRelays
<1>7. ASSUME UNCHANGED stack, z \in forwarding, Followed(z) => Followed(z)'
      PROVE  Leaving(z)' \/ Followed(z)'
  BY <1>2, <1>7 DEF Leaving, InCall
<1>8. CASE UndoForward
  BY <1>7, <1>8, UndoingForward DEF UndoForward
<1>9. CASE UndoBridge
  BY <1>7, <1>9, UndoingBridge DEF UndoBridge
<1>10. ASSUME \/ UndoPatch \/ UNCHANGED vars
              \/ \E e \in Event, x \in Interceptor : Deliver(e, x)
       PROVE  Leaving(z)' \/ Followed(z)'
  <2>1. UNCHANGED <<stack, listeners, relays, bridged, forwarding>>
    BY <1>10 DEF UndoPatch, Deliver, vars, lifecycleVars, eventVars
  <2>2. QED
    BY <1>7, <2>1, SameRelays
<1>11. CASE UndoApply
  <2>1. UNCHANGED <<listeners, relays, bridged, forwarding>>
    BY <1>11 DEF UndoApply, eventVars
  <2>2. CASE UNCHANGED stack
    BY <1>7, <2>1, <2>2, SameRelays
  <2>3. CASE stack' # stack
    <3>1. PICK c : stack' = Append(stack, DisposeFrame(c, FALSE)) /\ c = TheUndo.child
      BY <1>11, <2>3 DEF UndoApply, Release
    <3>2. TypeOK /\ Nested(stack) /\ Subscriptions /\ Undoes("dispose") /\ stack \in Seq(Frame)
      BY <1>11 DEF Structure, UndoApply, TypeOK
    <3>3. /\ c \in Interceptor
          /\ ToSet(Append(stack, DisposeFrame(c, FALSE))) = ToSet(stack) \cup {DisposeFrame(c, FALSE)}
      BY <3>1, <3>2, DisposingChild
    <3>4. DisposeFrame(c, FALSE) \in Frame
      BY <3>3, NewFrames
    <3>5. PICK g \in Frame : g = DisposeFrame(c, FALSE)
      BY <3>4
    <3>6. g.op = "dispose"
      BY <3>5 DEF DisposeFrame
    <3>7. stack' # <<>> /\ Last(stack') = g
      <4>1. PICK s \in Seq(Frame) : s = stack
        BY <3>2
      <4>2. Append(s, g) # <<>> /\ Last(Append(s, g)) = g
        BY DEF Last
      <4>3. QED
        BY <3>1, <3>5, <4>1, <4>2
    <3>8. InCall(z) => InCall(z)'
      BY <3>1, <3>3 DEF InCall
    <3>9. Leaving(z) => Leaving(z)'
      BY <3>6, <3>7, <3>8 DEF Leaving
    <3>10. QED
      BY <1>2, <2>1, <3>9, SameRelays
  <2>4. QED
    BY <2>2, <2>3
<1>12. QED
  BY <1>1, <1>3, <1>4, <1>5, <1>6, <1>8, <1>9, <1>10, <1>11 DEF Next, User, Call

\* Who listens to whom follows the listeners of users, bridges and forwarders.
LEMMA RelayingInvariant == Spec => []Relaying
<1>1. Init => Relaying
  <2> SUFFICES ASSUME Init
               PROVE  Relaying
    OBVIOUS
  <2>1. /\ forwarding = {} /\ ToSet(stack) = {}
        /\ \A x \in Interceptor : relays[x] = {}
    BY EmptyOrder DEF Init
  <2>2. QED
    BY <2>1, InterceptorsAssumption
       DEF Relaying, Forwarded, Bridges, BridgesUndone, Following
<1>2. Structure /\ Ownership /\ Relaying /\ [Next]_vars => Relaying'
  <2> SUFFICES ASSUME Structure, Ownership, Relaying, [Next]_vars
               PROVE  Relaying'
    OBVIOUS
  <2>1. Bridges'
    BY LinkedStep DEF Linked
  <2>2. QED
    BY <2>1, ForwardedStep, BridgesUndoneStep, FollowingStep DEF Relaying
<1>3. QED
  BY <1>1, <1>2, StructureInvariant, OwnershipInvariant, PTL DEF Spec

\* With no call in progress a batch listens to a child only while it has listeners of
\* its own and a bridge, and an interceptor to the source exactly while it is set up
\* and somebody listens to it: nothing outlives a dispose(), whether listeners came
\* before or after apply().
THEOREM RelaysFollow == Spec => []RelaysFollowListeners
<1>1. ASSUME Structure, Ownership, Relaying, Idle
      PROVE  RelaysFollowListeners
  <2>1. ToSet(stack) = {} /\ stack = <<>>
    BY <1>1, EmptyOrder DEF Idle
  <2>2. \A x \in Interceptor : Settled(x)
    BY <1>1, <2>1 DEF Ownership, InCall
  <2>3. /\ \A z \in forwarding : z \in Interceptor /\ Forwards(z) /\ subscriptions[z] # <<>>
        /\ relays \in [Interceptor -> SUBSET Interceptor]
        /\ relays[Source] \subseteq forwarding
    BY <1>1, Forwarders DEF Relaying, Forwarded
  <2>4. \A z \in forwarding : Active(z)
    BY <2>2, <2>3 DEF Settled
  <2>5. ASSUME NEW x \in Interceptor, Forwards(x), Active(x)
        PROVE  x \in relays[Source] <=> HasListeners(x, listeners, relays)
    <3>1. PICK i \in DOMAIN Setup[x] : Setup[x][i].do = "forward"
      BY <2>5 DEF Forwards
    <3>2. i < Len(Setup[x]) + 1
      BY <3>1, SetupAssumption
    <3>3. Done(x, Len(Setup[x]) + 1)
      BY <2>2, <2>5 DEF Settled
    <3>4. x \in forwarding
      BY <3>1, <3>2, <3>3 DEF Done, Accomplished
    <3>5. QED
      BY <1>1, <2>1, <3>4 DEF Relaying, Following, Leaving, Followed
  <2>6. \A x \in Interceptor \ {Source} : \A b \in relays[x] :
          b \in bridged /\ x \in ChildrenOf(b) /\ listeners[b] > 0
    BY <1>1 DEF Relaying, Bridges
  <2>7. relays[Source] \subseteq {x \in Interceptor : Active(x) /\ Forwards(x)}
    BY <2>3, <2>4
  <2>8. QED
    BY <2>5, <2>6, <2>7 DEF RelaysFollowListeners
<1>2. Structure /\ Ownership /\ Relaying => RelaysFollowListeners
  BY <1>1 DEF RelaysFollowListeners
<1>3. QED
  BY <1>2, StructureInvariant, OwnershipInvariant, RelayingInvariant, PTL

-----------------------------------------------------------------------------
(* A failed apply(): what was there when the call began is still there, and  *)
(* what was added belongs to interceptors that were not set up then.         *)

\* A user's apply(), whether or not it has failed by now.
Applying == stack # <<>> /\ (stack[1].op = "dispose" => stack[1].rethrows)

Remembered ==
  /\ before \in [owners: [Interceptor -> SUBSET Interceptor], active: SUBSET Interceptor,
                 replaced: [Key -> Interceptor \cup {None}]]
  /\ \A x \in Interceptor : x \in before.active <=> before.owners[x] # {}
  /\ \A c \in Interceptor : before.owners[c] \subseteq before.active
  /\ \A k \in Key : before.replaced[k] # None => before.replaced[k] \in before.active

Preserved ==
  /\ \A x \in Interceptor : x \in before.active => Active(x) /\ ~InCall(x)
  /\ \A c \in Interceptor : before.owners[c] \subseteq owners[c]
  /\ \A k \in Key : before.replaced[k] # None => replaced[k] = before.replaced[k]

Added ==
  /\ \A x, c \in Interceptor : x \in owners[c] /\ x \notin before.owners[c] =>
       x \notin before.active /\ (x = c => x = stack[1].of)
  /\ \A k \in Key : replaced[k] # None /\ before.replaced[k] = None =>
       replaced[k] \notin before.active

Restorable == Applying => Remembered /\ Preserved /\ Added

\* The first call, while others come and go.
LEMMA FirstOf ==
  ASSUME NEW s \in Seq(Frame), s # <<>>, NEW g \in Frame
  PROVE  /\ Append(s, g)[1] = s[1] /\ Append(s, g) # <<>>
         /\ Front(s) = <<>> => s[1] = Last(s) /\ Append(Front(s), g)[1] = g
         /\ Front(s) # <<>> => Front(s)[1] = s[1] /\ Append(Front(s), g)[1] = s[1]
         /\ Append(Front(s), g) # <<>>
<1>1. /\ Len(s) \in Nat \ {0} /\ Last(s) = s[Len(s)]
      /\ Front(s) \in Seq(Frame) /\ Len(Front(s)) = Len(s) - 1
      /\ \A i \in 1..Len(s) - 1 : Front(s)[i] = s[i]
      /\ Front(s) = <<>> <=> Len(s) = 1
  BY Fronts
<1>2. Append(s, g)[1] = s[1] /\ Append(s, g) # <<>>
  BY <1>1
<1>3. PICK t \in Seq(Frame) : t = Front(s)
  BY <1>1
<1>4. Append(t, g) # <<>> /\ Len(t) \in Nat
  OBVIOUS
<1>5. CASE Front(s) = <<>>
  <2>1. s[1] = Last(s)
    BY <1>1, <1>5
  <2>2. Append(t, g)[1] = g
    BY <1>3, <1>5
  <2>3. QED
    BY <1>2, <1>3, <1>4, <1>5, <2>1, <2>2
<1>6. CASE Front(s) # <<>>
  <2>1. 1 \in 1..Len(s) - 1
    BY <1>1, <1>6
  <2>2. t[1] = s[1] /\ 1 \in 1..Len(t)
    BY <1>1, <1>3, <2>1
  <2>3. Append(t, g)[1] = s[1]
    BY <2>2
  <2>4. QED
    BY <1>2, <1>3, <1>4, <1>6, <2>2, <2>3
<1>7. QED
  BY <1>5, <1>6

\* What a step within the call may change.
LEMMA RestorableKept ==
  ASSUME Structure, Restorable, UNCHANGED before,
         Applying' => Applying /\ stack'[1].of = stack[1].of,
         \A x \in Interceptor : readyState'[x] # readyState[x] => InCall(x),
         \A x \in Interceptor : InCall(x)' => InCall(x) \/ ~Active(x) \/ owners'[x] = {},
         \A x, c \in Interceptor : x \in owners[c] /\ x \notin owners'[c] => InCall(x) \/ InCall(c),
         \A x, c \in Interceptor : x \in owners'[c] /\ x \notin owners[c] => InCall(x) /\ x # c,
         \A k \in Key : replaced'[k] # replaced[k] =>
           \/ replaced[k] = None /\ InCall(replaced'[k]) /\ replaced'[k] \in Interceptor
           \/ replaced'[k] = None /\ InCall(replaced[k]) /\ replaced[k] \in Interceptor
  PROVE  Restorable'
<1> SUFFICES ASSUME Applying'
             PROVE  Remembered' /\ Preserved' /\ Added'
  BY DEF Restorable
<1>1. Remembered /\ Preserved /\ Added /\ before' = before /\ stack'[1].of = stack[1].of
  BY DEF Restorable
<1>2. Remembered'
  BY <1>1 DEF Remembered
<1>3. /\ before.owners \in [Interceptor -> SUBSET Interceptor]
      /\ before.replaced \in [Key -> Interceptor \cup {None}]
      /\ owners \in [Interceptor -> SUBSET Interceptor]
  BY <1>1 DEF Remembered, Structure, TypeOK
<1>4. \A x \in Interceptor : InCall(x) => x \notin before.active /\ before.owners[x] = {}
  BY <1>1 DEF Remembered, Preserved
<1>5. \A c \in Interceptor : before.owners[c] \subseteq owners'[c]
  <2> SUFFICES ASSUME NEW c \in Interceptor, NEW x \in before.owners[c]
               PROVE  x \in owners'[c]
    OBVIOUS
  <2>1. x \in Interceptor /\ x \in owners[c] /\ x \in before.active
    BY <1>1, <1>3 DEF Remembered, Preserved
  <2>2. ~InCall(x) /\ ~InCall(c)
    BY <1>4, <2>1
  <2>3. QED
    BY <2>1, <2>2
<1>6. \A x \in Interceptor : x \in before.active => Active(x)' /\ ~InCall(x)'
  <2> SUFFICES ASSUME NEW x \in Interceptor, x \in before.active
               PROVE  Active(x)' /\ ~InCall(x)'
    OBVIOUS
  <2>1. Active(x) /\ ~InCall(x) /\ before.owners[x] # {}
    BY <1>1 DEF Remembered, Preserved
  <2>2. owners'[x] # {}
    BY <1>5, <2>1
  <2>3. QED
    BY <2>1, <2>2 DEF Active
<1>7. \A k \in Key : before.replaced[k] # None => replaced'[k] = before.replaced[k]
  <2> SUFFICES ASSUME NEW k \in Key, before.replaced[k] # None
               PROVE  replaced'[k] = before.replaced[k]
    OBVIOUS
  <2>1. replaced[k] = before.replaced[k] /\ replaced[k] \in before.active
    BY <1>1 DEF Remembered, Preserved
  <2>2. ~(InCall(replaced[k]) /\ replaced[k] \in Interceptor)
    BY <1>4, <2>1
  <2>3. QED
    BY <2>1, <2>2
<1>8. Preserved'
  BY <1>1, <1>5, <1>6, <1>7 DEF Preserved
<1>9. \A x, c \in Interceptor : x \in owners'[c] /\ x \notin before.owners[c] =>
        x \notin before.active /\ (x = c => x = stack[1].of)
  BY <1>1, <1>4 DEF Added
<1>10. \A k \in Key : replaced'[k] # None /\ before.replaced[k] = None =>
         replaced'[k] \notin before.active
  <2> SUFFICES ASSUME NEW k \in Key, replaced'[k] # None, before.replaced[k] = None
               PROVE  replaced'[k] \notin before.active
    OBVIOUS
  <2>1. CASE replaced'[k] = replaced[k]
    BY <1>1, <2>1 DEF Added
  <2>2. CASE replaced'[k] # replaced[k]
    BY <1>4, <2>2
  <2>3. QED
    BY <2>1, <2>2
<1>11. Added'
  BY <1>1, <1>9, <1>10 DEF Added
<1>12. QED
  BY <1>2, <1>8, <1>11

\* The running setup() goes on, or fails.
LEMMA GoingOn ==
  ASSUME TypeOK, Nested(stack), stack # <<>>, Current.op = "setup",
         NEW g \in Frame, g.of = Current.of, stack' = Append(Callers, g)
  PROVE  /\ Applying' => Applying /\ stack'[1].of = stack[1].of
         /\ \A x \in Interceptor : InCall(x)' <=> InCall(x)
<1>1. /\ stack \in Seq(Frame) /\ Callers \in Seq(Frame)
      /\ ToSet(stack) = ToSet(Callers) \cup {Current}
  BY TopCall
<1>2. ToSet(stack') = ToSet(Callers) \cup {g}
  BY <1>1, AppendOrder
<1>3. stack' = Append(Front(stack), g)
  BY DEF Callers
<1>4. CASE Front(stack) = <<>>
  <2>1. stack[1] = Current /\ stack'[1] = g
    BY <1>1, <1>3, <1>4, FirstOf DEF Current
  <2>2. QED
    BY <1>1, <1>2, <2>1 DEF Applying, InCall
<1>5. CASE Front(stack) # <<>>
  <2>1. stack'[1] = stack[1]
    BY <1>1, <1>3, <1>5, FirstOf
  <2>2. QED
    BY <1>1, <1>2, <2>1 DEF Applying, InCall
<1>6. QED
  BY <1>4, <1>5

\* Another call begins.
LEMMA CallingOn ==
  ASSUME TypeOK, stack # <<>>, NEW g \in Frame, stack' = Append(stack, g)
  PROVE  /\ Applying' => Applying /\ stack'[1].of = stack[1].of
         /\ \A x \in Interceptor : InCall(x)' <=> InCall(x) \/ x = g.of
<1>1. stack \in Seq(Frame)
  BY DEF TypeOK
<1>2. ToSet(stack') = ToSet(stack) \cup {g}
  BY <1>1, AppendOrder
<1>3. stack'[1] = stack[1]
  BY <1>1, FirstOf
<1>4. \A x \in Interceptor : InCall(x)' <=> InCall(x) \/ x = g.of
  BY <1>2 DEF InCall
<1>5. QED
  BY <1>3, <1>4 DEF Applying

\* The innermost call is over, and its caller the same, a step further, or failing.
LEMMA CallOver ==
  ASSUME TypeOK, Nested(stack), stack # <<>>, Callers # <<>>,
         \/ stack' = Callers
         \/ /\ Last(Callers).op = "setup"
            /\ \E g \in Frame : g.of = Last(Callers).of /\ stack' = Append(Front(Callers), g)
  PROVE  /\ Applying' => Applying /\ stack'[1].of = stack[1].of
         /\ \A x \in Interceptor : InCall(x)' => InCall(x)
<1>1. PICK s \in Seq(Frame) : s = Callers /\ s # <<>>
  BY TopCall
<1>2. stack \in Seq(Frame) /\ ToSet(stack) = ToSet(s) \cup {Current}
  BY <1>1, TopCall
<1>3. s[1] = stack[1]
  <2>1. \A g \in Frame : Front(stack)[1] = stack[1]
    BY <1>1, <1>2, FirstOf DEF Callers
  <2>2. Current \in Frame
    BY TopCall
  <2>3. QED
    BY <1>1, <2>1, <2>2 DEF Callers
<1>4. CASE stack' = s
  BY <1>2, <1>3, <1>4 DEF Applying, InCall
<1>5. ASSUME NEW g \in Frame, g.of = Last(s).of, stack' = Append(Front(s), g),
             Last(s).op = "setup"
      PROVE  /\ Applying' => Applying /\ stack'[1].of = stack[1].of
             /\ \A x \in Interceptor : InCall(x)' => InCall(x)
  <2>1. Front(s) \in Seq(Frame) /\ ToSet(s) = ToSet(Front(s)) \cup {Last(s)}
    BY <1>1, FrontOrder
  <2>2. ToSet(stack') = ToSet(Front(s)) \cup {g}
    BY <1>5, <2>1, AppendOrder
  <2>3. \A x \in Interceptor : InCall(x)' => InCall(x)
    BY <1>2, <1>5, <2>1, <2>2 DEF InCall
  <2>4. CASE Front(s) = <<>>
    <3>1. s[1] = Last(s) /\ stack'[1] = g
      BY <1>1, <1>5, <2>4, FirstOf
    <3>2. QED
      BY <1>3, <1>5, <2>3, <3>1 DEF Applying
  <2>5. CASE Front(s) # <<>>
    <3>1. stack'[1] = s[1]
      BY <1>1, <1>5, <2>5, FirstOf
    <3>2. QED
      BY <1>3, <2>3, <3>1 DEF Applying
  <2>6. QED
    BY <2>4, <2>5
<1>6. QED
  BY <1>1, <1>4, <1>5

\* The steps of a setup(), failing or not, touch nothing that was there before.
LEMMA StepsKeepRestorable ==
  ASSUME Structure, Restorable,
         SetupBridges \/ SetupForwards \/ SetupApplies \/ SetupPatches \/ SetupFails
  PROVE  Restorable'
<1>1. /\ TypeOK /\ Nested(stack) /\ Subscriptions /\ None \notin Interceptor
      /\ owners \in [Interceptor -> SUBSET Interceptor]
      /\ replaced \in [Key -> Interceptor \cup {None}]
  BY InterceptorsAssumption DEF Structure, TypeOK
<1>2. PICK do : AtStep(do)
  BY DEF SetupBridges, SetupForwards, SetupApplies, SetupPatches, SetupFails
<1>3. stack # <<>> /\ Current.op = "setup"
  BY <1>1, <1>2, RunningStep
<1>4. PICK x \in Interceptor : x = Current.of
  BY <1>1, <1>3, TopCall
<1>5. InCall(x) /\ Current \in ToSet(stack)
  BY <1>1, <1>3, <1>4, TopCall DEF InCall
<1>6. UNCHANGED <<readyState, before>>
  BY DEF SetupBridges, SetupForwards, SetupApplies, SetupPatches, SetupFails
<1>7. CASE /\ UNCHANGED <<owners, replaced>>
           /\ stack' = Append(Callers, Advanced(Current))
  <2>1. PICK g \in Frame : g = Advanced(Current) /\ g.of = x
    BY <1>1, <1>2, <1>4, StepEnds
  <2>2. stack' = Append(Callers, g)
    BY <1>7, <2>1
  <2>3. QED
    BY <1>1, <1>3, <1>4, <1>6, <1>7, <2>1, <2>2, GoingOn, RestorableKept
<1>8. CASE SetupApplies
  <2>1. AtStep("apply")
    BY <1>8 DEF SetupApplies
  <2>2. PICK c : c = TheStep.child
    OBVIOUS
  <2>3. c \in Interceptor /\ c # x
    BY <1>1, <1>4, <2>1, <2>2, ApplyingChild
  <2>4. /\ owners' = IF Ignored(c, x) THEN owners ELSE [owners EXCEPT ![c] = @ \cup {x}]
        /\ UNCHANGED replaced
        /\ \/ stack' = Append(Callers, Advanced(Current))
           \/ ~Active(c) /\ stack' = Append(stack, SetupFrame(c, x))
    BY <1>4, <1>8, <2>2 DEF SetupApplies, NextStep
  <2>5. /\ \A y, d \in Interceptor : y \in owners[d] => y \in owners'[d]
        /\ \A y, d \in Interceptor : y \in owners'[d] /\ y \notin owners[d] => y = x /\ d = c
    BY <1>1, <2>3, <2>4
  <2>6. /\ Applying' => Applying /\ stack'[1].of = stack[1].of
        /\ \A y \in Interceptor : InCall(y)' => InCall(y) \/ ~Active(y)
    <3>1. CASE stack' = Append(Callers, Advanced(Current))
      <4>1. PICK g \in Frame : g = Advanced(Current) /\ g.of = x
        BY <1>1, <1>2, <1>4, StepEnds
      <4>2. stack' = Append(Callers, g)
        BY <3>1, <4>1
      <4>3. QED
        BY <1>1, <1>3, <1>4, <4>1, <4>2, GoingOn
    <3>2. CASE ~Active(c) /\ stack' = Append(stack, SetupFrame(c, x))
      <4>1. PICK g \in Frame : g = SetupFrame(c, x) /\ g.of = c
        BY <2>3, NewFrames
      <4>2. stack' = Append(stack, g)
        BY <3>2, <4>1
      <4>3. QED
        BY <1>1, <1>3, <3>2, <4>1, <4>2, CallingOn
    <3>3. QED
      BY <2>4, <3>1, <3>2
  <2>7. QED
    BY <1>5, <1>6, <2>3, <2>4, <2>5, <2>6, RestorableKept
<1>9. CASE SetupPatches
  <2>1. AtStep("patch") /\ replaced[NextKey] = None /\ UNCHANGED owners
    BY <1>9 DEF SetupPatches
  <2>2. PICK k \in Key : k = NextKey
    BY <1>1, <2>1, NextOfGroup
  <2>3. replaced' = [replaced EXCEPT ![k] = x]
    BY <1>4, <1>9, <2>2 DEF SetupPatches
  <2>4. replaced'[k] = x /\ \A l \in Key : l # k => replaced'[l] = replaced[l]
    BY <1>1, <2>3
  <2>5. PICK new : new = Append(Current.held, NextKey)
    OBVIOUS
  <2>6. \/ stack' = Append(Callers, Advanced(Current))
        \/ new # TheStep.keys /\ stack' = Append(Callers, [Current EXCEPT !.held = new])
    BY <1>9, <2>5 DEF SetupPatches, NextStep
  <2>7. \E g \in Frame : g.of = x /\ stack' = Append(Callers, g)
    <3>1. CASE stack' = Append(Callers, Advanced(Current))
      BY <1>1, <1>2, <1>4, <3>1, StepEnds
    <3>2. CASE new # TheStep.keys /\ stack' = Append(Callers, [Current EXCEPT !.held = new])
      <4>1. PICK g : g = [Current EXCEPT !.held = new]
        OBVIOUS
      <4>2. g \in Frame /\ g.of = x
        BY <1>1, <1>4, <2>1, <2>5, <3>2, <4>1, HoldingMore
      <4>3. QED
        BY <3>2, <4>1, <4>2
    <3>3. QED
      BY <2>6, <3>1, <3>2
  <2>8. PICK g \in Frame : g.of = x /\ stack' = Append(Callers, g)
    BY <2>7
  <2>9. /\ Applying' => Applying /\ stack'[1].of = stack[1].of
        /\ \A y \in Interceptor : InCall(y)' <=> InCall(y)
    BY <1>1, <1>3, <1>4, <2>8, GoingOn
  <2>10. \A l \in Key : replaced'[l] # replaced[l] =>
           replaced[l] = None /\ InCall(replaced'[l]) /\ replaced'[l] \in Interceptor
    BY <1>5, <2>1, <2>2, <2>4
  <2>11. QED
    BY <1>6, <2>1, <2>9, <2>10, RestorableKept
<1>10. CASE SetupFails
  <2>1. /\ owners' = [owners EXCEPT ![x] = @ \ {Current.owner}]
        /\ stack' = Append(Callers, DisposeFrame(x, TRUE)) /\ UNCHANGED replaced
    BY <1>4, <1>10 DEF SetupFails, Undoing
  <2>2. DisposeFrame(x, TRUE) \in Frame
    BY NewFrames
  <2>3. PICK g \in Frame : g = DisposeFrame(x, TRUE)
    BY <2>2
  <2>4. g.of = x /\ stack' = Append(Callers, g)
    BY <2>1, <2>3 DEF DisposeFrame
  <2>5. /\ Applying' => Applying /\ stack'[1].of = stack[1].of
        /\ \A y \in Interceptor : InCall(y)' <=> InCall(y)
    BY <1>1, <1>3, <1>4, <2>4, GoingOn
  <2>6. /\ \A y, d \in Interceptor : y \in owners'[d] => y \in owners[d]
        /\ \A y, d \in Interceptor : y \in owners[d] /\ y \notin owners'[d] => d = x
    BY <1>1, <2>1
  <2>7. QED
    BY <1>5, <1>6, <2>1, <2>5, <2>6, RestorableKept
<1>11. CASE SetupBridges \/ SetupForwards
  BY <1>7, <1>11 DEF SetupBridges, SetupForwards, NextStep
<1>12. QED
  BY <1>8, <1>9, <1>10, <1>11

\* A setup() returns to its caller or to the user.
LEMMA ReturningKeepsRestorable ==
  ASSUME Structure, Restorable, SetupReturns
  PROVE  Restorable'
<1>1. TypeOK /\ Nested(stack)
  BY DEF Structure
<1>2. PICK x : x = Current.of
  OBVIOUS
<1>3. /\ stack # <<>> /\ Current.op = "setup"
      /\ readyState' = [readyState EXCEPT ![x] = "ACTIVE"]
      /\ UNCHANGED <<owners, replaced>>
      /\ before' = IF stack' = <<>> THEN None ELSE before
  BY <1>2 DEF SetupReturns, Running, Current, Remember
<1>4. x \in Interceptor /\ InCall(x) /\ Callers \in Seq(Frame)
  BY <1>1, <1>2, <1>3, TopCall DEF InCall
<1>5. CASE Callers = <<>>
  <2>1. stack' = <<>>
    BY <1>5 DEF SetupReturns
  <2>2. QED
    BY <2>1 DEF Restorable, Applying
<1>6. CASE Callers # <<>>
  <2>1. PICK s \in Seq(Frame) : s = Callers /\ s # <<>>
    BY <1>4, <1>6
  <2>2. PICK f : f = Last(s)
    OBVIOUS
  <2>3. /\ Nested(s) /\ f.op = "setup" /\ f.of \in Interceptor
        /\ f.at <= Len(Setup[f.of])
    <3>1. Nested(s)
      BY <1>1, <1>3, <2>1, TopCall
    <3>2. QED
      BY <1>1, <1>3, <1>6, <2>1, <2>2, <3>1, CallerOf
  <2>4. stack' = Append(Front(s), Advanced(f))
    BY <1>6, <2>1, <2>2 DEF SetupReturns
  <2>5. /\ Append(Front(s), Advanced(f)) # <<>> /\ Advanced(f) \in Frame
        /\ Advanced(f).of = f.of
    BY <2>1, <2>2, <2>3, Advancing
  <2>6. PICK g \in Frame : g = Advanced(f) /\ g.of = f.of
    BY <2>5
  <2>7. stack' = Append(Front(s), g) /\ stack' # <<>>
    BY <2>4, <2>5, <2>6
  <2>8. /\ Applying' => Applying /\ stack'[1].of = stack[1].of
        /\ \A y \in Interceptor : InCall(y)' => InCall(y)
    BY <1>1, <1>3, <1>6, <2>1, <2>2, <2>3, <2>6, <2>7, CallOver
  <2>9. before' = before
    BY <1>3, <2>7
  <2>10. \A y \in Interceptor : readyState'[y] # readyState[y] => InCall(y)
    BY <1>1, <1>3, <1>4 DEF TypeOK
  <2>11. QED
    BY <1>3, <2>8, <2>9, <2>10, RestorableKept
<1>7. QED
  BY <1>5, <1>6

\* A disposal ends, and the setup() in which it was called goes on or fails.
LEMMA EndingKeepsRestorable ==
  ASSUME Structure, Restorable, DisposeEnds
  PROVE  Restorable'
<1>1. TypeOK /\ Nested(stack) /\ owners \in [Interceptor -> SUBSET Interceptor]
  BY DEF Structure, TypeOK
<1>2. PICK x : x = Current.of
  OBVIOUS
<1>3. /\ stack # <<>> /\ Current.op = "dispose"
      /\ readyState' = [readyState EXCEPT ![x] = "DISPOSED"]
      /\ UNCHANGED replaced
      /\ before' = IF stack' = <<>> THEN None ELSE before
  BY <1>2 DEF DisposeEnds, Running, Current, Remember
<1>4. /\ x \in Interceptor /\ InCall(x) /\ Callers \in Seq(Frame)
      /\ ToSet(stack) = ToSet(Callers) \cup {Current}
  BY <1>1, <1>2, <1>3, TopCall DEF InCall
<1>5. CASE Callers = <<>>
  <2>1. stack' = <<>>
    BY <1>5 DEF DisposeEnds
  <2>2. QED
    BY <2>1 DEF Restorable, Applying
<1>6. CASE Callers # <<>>
  <2>1. PICK s \in Seq(Frame) : s = Callers /\ s # <<>>
    BY <1>4, <1>6
  <2>2. PICK f : f = Last(s)
    OBVIOUS
  <2>3. \A y \in Interceptor : readyState'[y] # readyState[y] => InCall(y)
    BY <1>1, <1>3, <1>4 DEF TypeOK
  <2>4. CASE ~Current.rethrows
    <3>1. stack' = s /\ UNCHANGED owners
      BY <1>6, <2>1, <2>4 DEF DisposeEnds
    <3>2. /\ Applying' => Applying /\ stack'[1].of = stack[1].of
          /\ \A y \in Interceptor : InCall(y)' => InCall(y)
      BY <1>1, <1>3, <1>6, <2>1, <3>1, CallOver
    <3>3. before' = before
      BY <1>3, <2>1, <3>1
    <3>4. QED
      BY <1>3, <2>3, <3>1, <3>2, <3>3, RestorableKept
  <2>5. CASE Current.rethrows
    <3>1. /\ Nested(s) /\ f.op = "setup" /\ f.of \in Interceptor
          /\ f.owner \in Interceptor /\ f \in ToSet(s)
      <4>1. Nested(s)
        BY <1>1, <1>3, <2>1, TopCall
      <4>2. QED
        BY <1>1, <1>3, <1>6, <2>1, <2>2, <2>5, <4>1, CallerOf
    <3>2. /\ owners' = [owners EXCEPT ![f.of] = @ \ {f.owner}]
          /\ stack' = Append(Front(s), DisposeFrame(f.of, TRUE))
      BY <1>6, <2>1, <2>2, <2>5 DEF DisposeEnds, Undoing
    <3>3. Append(Front(s), DisposeFrame(f.of, TRUE)) # <<>>
      BY <2>1, <2>2, <3>1, Failing
    <3>4. DisposeFrame(f.of, TRUE) \in Frame /\ DisposeFrame(f.of, TRUE).of = f.of
      BY <3>1, NewFrames
    <3>5. PICK g \in Frame : g = DisposeFrame(f.of, TRUE) /\ g.of = f.of
      BY <3>4
    <3>6. stack' = Append(Front(s), g) /\ stack' # <<>>
      BY <3>2, <3>3, <3>5
    <3>7. /\ Applying' => Applying /\ stack'[1].of = stack[1].of
          /\ \A y \in Interceptor : InCall(y)' => InCall(y)
      BY <1>1, <1>3, <1>6, <2>1, <2>2, <3>1, <3>5, <3>6, CallOver
    <3>8. before' = before
      BY <1>3, <3>6
    <3>9. InCall(f.of)
      BY <1>4, <2>1, <3>1 DEF InCall
    <3>10. /\ \A y, d \in Interceptor : y \in owners'[d] => y \in owners[d]
           /\ \A y, d \in Interceptor : y \in owners[d] /\ y \notin owners'[d] => d = f.of
      BY <1>1, <3>1, <3>2
    <3>11. QED
      BY <1>3, <2>3, <3>7, <3>8, <3>9, <3>10, RestorableKept
  <2>6. QED
    BY <2>4, <2>5
<1>7. QED
  BY <1>5, <1>6

\* A disposal undoes one thing; a child without owners is disposed of in turn.
LEMMA UndoingKeepsRestorable ==
  ASSUME Structure, Patched, Restorable,
         UndoApply \/ UndoPatch \/ UndoForward \/ UndoBridge
  PROVE  Restorable'
<1>1. /\ TypeOK /\ Nested(stack) /\ Subscriptions
      /\ owners \in [Interceptor -> SUBSET Interceptor]
      /\ replaced \in [Key -> Interceptor \cup {None}]
  BY DEF Structure, TypeOK
<1>2. UNCHANGED <<readyState, before>>
  BY DEF UndoApply, UndoPatch, UndoForward, UndoBridge
<1>3. CASE UndoApply
  <2>1. Undoes("dispose") /\ UNCHANGED replaced
    BY <1>3 DEF UndoApply
  <2>2. PICK x, c : x = Current.of /\ c = TheUndo.child
    OBVIOUS
  <2>3. x \in Interceptor /\ c \in Interceptor /\ stack # <<>>
    BY <1>1, <2>1, <2>2, Unsubscribing, DisposingChild
  <2>4. InCall(x)
    BY <1>1, <2>2, <2>3, TopCall DEF InCall
  <2>5. CASE x \notin owners[c]
    <3>1. UNCHANGED <<owners, stack>>
      BY <1>3, <2>2, <2>5 DEF UndoApply
    <3>2. QED
      BY <1>2, <2>1, <3>1, RestorableKept DEF Applying, InCall
  <2>6. CASE x \in owners[c]
    <3>1. /\ owners' = [owners EXCEPT ![c] = owners[c] \ {x}]
          /\ stack' = IF owners'[c] = {} THEN Append(stack, DisposeFrame(c, FALSE)) ELSE stack
      BY <1>3, <2>2, <2>6 DEF UndoApply, Release, OwnersWithout
    <3>2. /\ \A y, d \in Interceptor : y \in owners'[d] => y \in owners[d]
          /\ \A y, d \in Interceptor : y \in owners[d] /\ y \notin owners'[d] => y = x
      BY <1>1, <2>3, <3>1
    <3>3. /\ Applying' => Applying /\ stack'[1].of = stack[1].of
          /\ \A y \in Interceptor : InCall(y)' => InCall(y) \/ owners'[y] = {}
      <4>1. CASE owners'[c] # {}
        <5>1. stack' = stack
          BY <3>1, <4>1
        <5>2. QED
          BY <5>1 DEF Applying, InCall
      <4>2. CASE owners'[c] = {}
        <5>1. DisposeFrame(c, FALSE) \in Frame /\ DisposeFrame(c, FALSE).of = c
          BY <2>3, NewFrames
        <5>2. PICK g \in Frame : g = DisposeFrame(c, FALSE) /\ g.of = c
          BY <5>1
        <5>3. stack' = Append(stack, g)
          BY <3>1, <4>2, <5>2
        <5>4. /\ Applying' => Applying /\ stack'[1].of = stack[1].of
              /\ \A y \in Interceptor : InCall(y)' <=> InCall(y) \/ y = c
          BY <1>1, <2>3, <5>2, <5>3, CallingOn
        <5>5. QED
          BY <4>2, <5>4
      <4>3. QED
        BY <4>1, <4>2
    <3>4. QED
      BY <1>2, <2>1, <2>4, <3>2, <3>3, RestorableKept
  <2>7. QED
    BY <2>5, <2>6
<1>4. CASE UndoPatch
  <2>1. /\ Undoes("patch") /\ UNCHANGED <<owners, stack>>
        /\ replaced' = [replaced EXCEPT ![TheUndo.key] = None]
    BY <1>4 DEF UndoPatch
  <2>2. PICK x, u : x = Current.of /\ u = TheUndo
    OBVIOUS
  <2>3. /\ x \in Interceptor /\ u \in Subscription /\ u.undo = "patch" /\ stack # <<>>
        /\ u \in ToSet(subscriptions[x])
    BY <1>1, <2>1, <2>2, Unsubscribing
  <2>4. InCall(x)
    BY <1>1, <2>2, <2>3, TopCall DEF InCall
  <2>5. u.key \in Key /\ u = Restore(u.key)
    BY <2>3 DEF Subscription, Restore
  <2>6. replaced[u.key] = x
    BY <2>3, <2>5 DEF Patched
  <2>7. \A k \in Key : replaced'[k] # replaced[k] =>
          replaced'[k] = None /\ replaced[k] = x
    BY <1>1, <2>1, <2>2, <2>6
  <2>8. /\ Applying' <=> Applying
        /\ stack' = stack
        /\ \A y \in Interceptor : InCall(y)' <=> InCall(y)
    BY <2>1 DEF Applying, InCall
  <2>9. \A k \in Key : replaced'[k] # replaced[k] =>
          replaced'[k] = None /\ InCall(replaced[k]) /\ replaced[k] \in Interceptor
    BY <2>3, <2>4, <2>7
  <2>10. QED
    BY <1>2, <2>1, <2>8, <2>9, RestorableKept
<1>5. CASE UndoForward \/ UndoBridge
  <2>1. UNCHANGED <<owners, replaced, stack>>
    BY <1>5 DEF UndoForward, UndoBridge
  <2>2. QED
    BY <1>2, <2>1, RestorableKept DEF Applying, InCall
<1>6. QED
  BY <1>3, <1>4, <1>5

\* Whoever owns something is set up, when no call is in progress.
LEMMA IdleOwners ==
  ASSUME Structure, Ownership, Idle
  PROVE  \A c \in Interceptor : owners[c] \subseteq {x \in Interceptor : Active(x)}
<1> SUFFICES ASSUME NEW c \in Interceptor, NEW x \in owners[c]
             PROVE  x \in Interceptor /\ Active(x)
  OBVIOUS
<1>1. stack = <<>> /\ ToSet(stack) = {}
  BY EmptyOrder DEF Idle
<1>2. x \in Interceptor
  BY DEF Structure, TypeOK
<1>3. Settled(x) /\ Settled(c)
  BY <1>1, <1>2 DEF Ownership, InCall
<1>4. CASE x = c
  BY <1>2, <1>3, <1>4 DEF Settled
<1>5. CASE x # c
  <2>1. [undo |-> "dispose", child |-> c] \in ToSet(subscriptions[x])
    BY <1>1, <1>2, <1>5 DEF Ownership, Owned
  <2>2. subscriptions[x] # <<>>
    BY <2>1, EmptyOrder
  <2>3. QED
    BY <1>2, <1>3, <2>2 DEF Settled
<1>6. QED
  BY <1>4, <1>5

\* The apply() of a user begins.
LEMMA ApplyStartsRestorable ==
  ASSUME Structure, Patched, Ownership, NEW x \in Public, Apply(x)
  PROVE  Restorable'
<1>1. /\ Idle /\ x \in Interceptor
      /\ owners' = [owners EXCEPT ![x] = @ \cup {x}]
      /\ stack' = IF Active(x) THEN <<>> ELSE <<SetupFrame(x, x)>>
      /\ before' = IF stack' = <<>> THEN None
                   ELSE [owners |-> owners, active |-> {y \in Interceptor : Active(y)},
                         replaced |-> replaced]
      /\ UNCHANGED <<readyState, replaced>>
  BY DEF Apply, Snapshot, Public
<1>2. CASE Active(x)
  <2>1. stack' = <<>>
    BY <1>1, <1>2
  <2>2. QED
    BY <2>1 DEF Restorable, Applying
<1>3. CASE ~Active(x)
  <2>1. PICK g \in Frame : g = SetupFrame(x, x) /\ g.of = x
    <3>1. SetupFrame(x, x) \in Frame /\ SetupFrame(x, x).of = x
      BY <1>1, NewFrames
    <3>2. QED
      BY <3>1
  <2>2. stack' = <<g>>
    BY <1>1, <1>3, <2>1
  <2>3. stack' # <<>> /\ stack'[1] = g
    BY <2>2
  <2>4. ToSet(stack') = {g}
    <3>1. ToSet(<<g>>) = {g}
      BY DEF ToSet
    <3>2. QED
      BY <2>2, <3>1
  <2>5. PICK active : active = {y \in Interceptor : Active(y)}
    OBVIOUS
  <2>6. before' = [owners |-> owners, active |-> active, replaced |-> replaced]
    BY <1>1, <2>3, <2>5
  <2>7. before'.owners = owners /\ before'.active = active /\ before'.replaced = replaced
    BY <2>6
  <2>8. before' \in [owners: [Interceptor -> SUBSET Interceptor], active: SUBSET Interceptor,
                     replaced: [Key -> Interceptor \cup {None}]]
    BY <2>5, <2>6 DEF Structure, TypeOK
  <2>9. AppliedWhileOwned
    BY <1>1, WhenIdle
  <2>10. /\ \A y \in Interceptor : y \in active <=> owners[y] # {}
         /\ \A k \in Key : replaced[k] # None => replaced[k] \in active
    <3>1. /\ \A y \in Interceptor : Active(y) <=> owners[y] # {}
          /\ \A k \in Key : replaced[k] # None => Active(replaced[k])
      BY <1>1, <2>9 DEF AppliedWhileOwned
    <3>2. \A k \in Key : replaced[k] # None => replaced[k] \in Interceptor
      BY DEF Structure, TypeOK
    <3>3. QED
      BY <2>5, <3>1, <3>2
  <2>11. \A c \in Interceptor : owners[c] \subseteq active
    BY <1>1, <2>5, IdleOwners
  <2>12. Remembered'
    BY <2>7, <2>8, <2>10, <2>11 DEF Remembered
  <2>13. owners \in [Interceptor -> SUBSET Interceptor]
    BY DEF Structure, TypeOK
  <2>14. \A c \in Interceptor : owners[c] \subseteq owners'[c]
    BY <1>1, <2>13
  <2>15. \A y \in Interceptor : y \in active => Active(y)' /\ ~InCall(y)'
    <3>1. \A y \in Interceptor : InCall(y)' => y = x
      BY <2>1, <2>4 DEF InCall
    <3>2. QED
      BY <1>1, <1>3, <2>5, <3>1 DEF Active
  <2>16. Preserved'
    BY <1>1, <2>7, <2>14, <2>15 DEF Preserved
  <2>17. \A y, c \in Interceptor : y \in owners'[c] /\ y \notin owners[c] => y = x /\ c = x
    BY <1>1, <2>13
  <2>18. x \notin active
    BY <1>3, <2>5
  <2>19. Added'
    BY <1>1, <2>1, <2>3, <2>7, <2>17, <2>18 DEF Added
  <2>20. QED
    BY <2>12, <2>16, <2>19 DEF Restorable
<1>4. QED
  BY <1>2, <1>3

\* While a user's apply() runs, interception as it was when it began can be restored
\* by disposing of what was not set up then.
LEMMA RestorableInvariant == Spec => []Restorable
<1>1. Init => Restorable
  BY DEF Init, Restorable, Applying
<1>2. Structure /\ Patched /\ Ownership /\ Restorable /\ [Next]_vars => Restorable'
  <2> SUFFICES ASSUME Structure, Patched, Ownership, Restorable, [Next]_vars
               PROVE  Restorable'
    OBVIOUS
  <2>1. ASSUME NEW x \in Public, Apply(x)
        PROVE  Restorable'
    BY <2>1, ApplyStartsRestorable
  <2>2. ASSUME NEW x \in Public, Dispose(x)
        PROVE  Restorable'
    <3>1. stack' = IF owners'[x] = {} THEN Append(<<>>, DisposeFrame(x, FALSE)) ELSE <<>>
      BY <2>2 DEF Dispose, Release
    <3>2. PICK g \in Frame : g = DisposeFrame(x, FALSE) /\ g.op = "dispose" /\ ~g.rethrows
      <4>1. /\ DisposeFrame(x, FALSE) \in Frame /\ DisposeFrame(x, FALSE).op = "dispose"
            /\ DisposeFrame(x, FALSE).rethrows = FALSE
        BY NewFrames DEF Public
      <4>2. QED
        BY <4>1
    <3>3. Append(<<>>, g)[1] = g
      OBVIOUS
    <3>4. stack' = <<>> \/ stack'[1] = g
      BY <3>1, <3>2, <3>3
    <3>5. QED
      BY <3>2, <3>4 DEF Restorable, Applying
  <2>3. ASSUME \/ \E x \in Public : AddListener(x) \/ RemoveListener(x)
               \/ \E e \in Event, x \in Interceptor : Deliver(e, x)
        PROVE  Restorable'
    <3>1. stack' = <<>>
      BY <2>3 DEF AddListener, RemoveListener, Deliver, Idle, lifecycleVars
    <3>2. QED
      BY <3>1 DEF Restorable, Applying
  <2>4. CASE SetupBridges \/ SetupForwards \/ SetupApplies \/ SetupPatches \/ SetupFails
    BY <2>4, StepsKeepRestorable
  <2>5. CASE SetupReturns
    BY <2>5, ReturningKeepsRestorable
  <2>6. CASE UndoApply \/ UndoPatch \/ UndoForward \/ UndoBridge
    BY <2>6, UndoingKeepsRestorable
  <2>7. CASE DisposeEnds
    BY <2>7, EndingKeepsRestorable
  <2>8. CASE UNCHANGED vars
    <3>1. /\ stack' = stack /\ before' = before /\ owners' = owners
          /\ readyState' = readyState /\ replaced' = replaced
      BY <2>8 DEF vars, lifecycleVars
    <3>2. QED
      BY <3>1 DEF Restorable, Applying, Remembered, Preserved, Added, Active, InCall
  <2>9. QED
    BY <2>1, <2>2, <2>3, <2>4, <2>5, <2>6, <2>7, <2>8 DEF Next, User, Call
<1>3. QED
  BY <1>1, <1>2, StructureInvariant, OwnershipInvariant, PTL DEF Spec

\* Once the failed apply() has undone everything, nothing that was added is left: who
\* owns something it did not own before is itself owned by such a one, a layer above.
LEMMA AddedIsUndone ==
  ASSUME Structure, Ownership, Restorable, NEW x, x = Current.of, stack # <<>>, Callers = <<>>,
         Current.op = "dispose", Current.rethrows, subscriptions[x] = <<>>
  PROVE  /\ Remembered /\ Preserved /\ Added
         /\ x \in Interceptor /\ owners[x] = {} /\ x \notin before.active
         /\ \A y \in Interceptor : y # x => Settled(y)
         /\ \A c \in Interceptor : owners[c] = before.owners[c]
<1>1. TypeOK /\ Nested(stack) /\ Subscriptions /\ stack \in Seq(Frame)
  BY DEF Structure, TypeOK
<1>2. /\ x \in Interceptor /\ Current \in Frame
      /\ ToSet(stack) = ToSet(Callers) \cup {Current}
  BY <1>1, TopCall
<1>3. stack[1] = Current
  BY <1>1, <1>2, FirstOf DEF Current, Callers
<1>4. Remembered /\ Preserved /\ Added
  BY <1>3 DEF Restorable, Applying
<1>5. \A f : f \in ToSet(stack) <=> f = Current
  BY <1>2, EmptyOrder
<1>6. owners[x] = {}
  BY <1>5 DEF Ownership, Underway
<1>7. InCall(x) /\ \A y \in Interceptor : y # x => ~InCall(y)
  BY <1>5 DEF InCall
<1>8. x \notin before.active
  BY <1>2, <1>4, <1>7 DEF Preserved
<1>9. \A y \in Interceptor : y # x => Settled(y)
  BY <1>7 DEF Ownership
<1>10. owners \in [Interceptor -> SUBSET Interceptor]
  BY <1>1 DEF TypeOK
<1>11. ASSUME NEW y \in Interceptor, NEW c \in Interceptor,
              y \in owners[c], y \notin before.owners[c]
       PROVE  /\ y # x /\ y \notin before.active
              /\ [undo |-> "dispose", child |-> c] \in ToSet(subscriptions[y])
  <2>1. y \notin before.active /\ (y = c => y = x)
    BY <1>3, <1>4, <1>11 DEF Added
  <2>2. y # c
    BY <1>6, <1>11, <2>1
  <2>3. \A f \in ToSet(stack) : f.op # "setup"
    BY <1>5
  <2>4. [undo |-> "dispose", child |-> c] \in ToSet(subscriptions[y])
    BY <1>11, <2>2, <2>3 DEF Ownership, Owned
  <2>5. y # x
    BY <2>4, EmptyOrder
  <2>6. QED
    BY <2>1, <2>4, <2>5
<1>12. ASSUME NEW y \in Interceptor, NEW c \in Interceptor,
              y \in owners[c], y \notin before.owners[c]
       PROVE  \E p \in Interceptor :
                p \in owners[y] /\ p \notin before.owners[y] /\ Layer[y] < Layer[p]
  <2>1. y # x /\ y \notin before.active /\ subscriptions[y] # <<>>
    BY <1>11, <1>12, EmptyOrder
  <2>2. owners[y] # {}
    BY <1>9, <2>1 DEF Settled
  <2>3. before.owners[y] = {}
    BY <1>4, <2>1 DEF Remembered
  <2>4. PICK p \in Interceptor : p \in owners[y]
    BY <1>10, <2>2
  <2>5. PICK u : u = [undo |-> "dispose", child |-> y]
    OBVIOUS
  <2>6. u.undo = "dispose" /\ u.child = y
    BY <2>5
  <2>7. u \in ToSet(subscriptions[p])
    BY <1>11, <2>3, <2>4, <2>5
  <2>8. y \in ChildrenOf(p)
    BY <1>1, <2>6, <2>7 DEF Subscriptions, Undoable
  <2>9. Layer[y] < Layer[p]
    BY <2>8, Layers
  <2>10. QED
    BY <2>3, <2>4, <2>9
<1>13. \A y, c \in Interceptor : y \in owners[c] => y \in before.owners[c]
  <2> SUFFICES ASSUME NEW y \in Interceptor, NEW c \in Interceptor,
                      y \in owners[c], y \notin before.owners[c]
               PROVE  FALSE
    OBVIOUS
  <2>1. PICK p \in Interceptor :
          p \in owners[y] /\ p \notin before.owners[y] /\ Layer[y] < Layer[p]
    BY <1>12
  <2>2. PICK q \in Interceptor :
          q \in owners[p] /\ q \notin before.owners[p] /\ Layer[p] < Layer[q]
    BY <1>12, <2>1
  <2>3. PICK r \in Interceptor :
          r \in owners[q] /\ r \notin before.owners[q] /\ Layer[q] < Layer[r]
    BY <1>12, <2>2
  <2>4. PICK t \in Interceptor : Layer[r] < Layer[t]
    BY <1>12, <2>3
  <2>5. /\ Layer[y] \in 0..3 /\ Layer[p] \in 0..3 /\ Layer[q] \in 0..3
        /\ Layer[r] \in 0..3 /\ Layer[t] \in 0..3
    BY Layers
  <2>6. QED
    BY <2>1, <2>2, <2>3, <2>4, <2>5
<1>14. \A c \in Interceptor : owners[c] = before.owners[c]
  <2>1. \A c \in Interceptor : before.owners[c] \subseteq owners[c]
    BY <1>4 DEF Preserved
  <2>2. \A c \in Interceptor : owners[c] \subseteq before.owners[c]
    BY <1>10, <1>13
  <2>3. QED
    BY <2>1, <2>2
<1>15. QED
  BY <1>2, <1>4, <1>6, <1>8, <1>9, <1>14

\* An apply() that throws to the user, wherever it failed and whatever the interceptors
\* it applied were shared with, leaves owners, interceptors set up and globals as they
\* were when it was called.
THEOREM FailedApplyRestores == Spec => FailedApplyChangesNothing
<1>1. ASSUME Structure, Patched, Ownership, Restorable, Next,
             Len(stack) = 1, Current.op = "dispose", Current.rethrows, stack' = <<>>
      PROVE  /\ owners' = before.owners
             /\ replaced' = before.replaced
             /\ {x \in Interceptor : readyState'[x] = "ACTIVE"} = before.active
  <2>1. TypeOK /\ Nested(stack) /\ Subscriptions /\ stack \in Seq(Frame) /\ stack # <<>>
    <3>1. TypeOK /\ Nested(stack) /\ Subscriptions /\ stack \in Seq(Frame)
      BY <1>1 DEF Structure, TypeOK
    <3>2. stack # <<>>
      <4>1. Len(<<>>) = 0
        OBVIOUS
      <4>2. QED
        BY <1>1, <4>1
    <3>3. QED
      BY <3>1, <3>2
  <2>2. PICK x : x = Current.of
    OBVIOUS
  <2>3. Callers = <<>>
    BY <1>1, <2>1, Fronts DEF Callers
  <2>4. DisposeEnds
    <3>1. ~Idle
      BY <2>1 DEF Idle
    <3>2. ~Running("setup")
      BY <1>1 DEF Running, Current
    <3>3. \A c : Append(stack, DisposeFrame(c, FALSE)) # <<>>
      <4>1. \A g : Append(stack, g) # <<>>
        BY <2>1
      <4>2. QED
        BY <4>1
    <3>4. ~(UndoApply \/ UndoPatch \/ UndoForward \/ UndoBridge)
      BY <1>1, <2>1, <3>3 DEF UndoApply, UndoPatch, UndoForward, UndoBridge, Release
    <3>5. ~User /\ \A e \in Event, y \in Interceptor : ~Deliver(e, y)
      BY <3>1 DEF User, Apply, Dispose, AddListener, RemoveListener, Deliver
    <3>6. ~(SetupBridges \/ SetupApplies \/ SetupForwards \/ SetupPatches \/ SetupFails
             \/ SetupReturns)
      BY <3>2 DEF SetupBridges, SetupApplies, SetupForwards, SetupPatches, SetupFails,
                  SetupReturns, AtStep
    <3>7. QED
      BY <1>1, <3>4, <3>5, <3>6 DEF Next, Call
  <2>5. /\ subscriptions[x] = <<>> /\ UNCHANGED <<owners, replaced>>
        /\ readyState' = [readyState EXCEPT ![x] = "DISPOSED"]
    BY <2>2, <2>3, <2>4 DEF DisposeEnds
  <2>6. /\ Remembered /\ Preserved /\ Added
        /\ x \in Interceptor /\ owners[x] = {} /\ x \notin before.active
        /\ \A y \in Interceptor : y # x => Settled(y)
        /\ \A c \in Interceptor : owners[c] = before.owners[c]
    BY <1>1, <2>1, <2>2, <2>3, <2>5, AddedIsUndone
  <2>7. /\ before.owners \in [Interceptor -> SUBSET Interceptor]
        /\ before.active \subseteq Interceptor
        /\ before.replaced \in [Key -> Interceptor \cup {None}]
        /\ owners \in [Interceptor -> SUBSET Interceptor]
        /\ replaced \in [Key -> Interceptor \cup {None}]
        /\ readyState \in [Interceptor -> {"INACTIVE", "ACTIVE", "DISPOSED"}]
    BY <2>1, <2>6 DEF Remembered, TypeOK
  <2>8. owners = before.owners
    BY <2>6, <2>7
  <2>9. \A y \in Interceptor : y # x => (Active(y) <=> y \in before.active)
    BY <2>6, <2>8 DEF Settled, Remembered
  <2>10. \A y \in Interceptor : readyState'[y] = "ACTIVE" <=> y \in before.active
    BY <2>5, <2>6, <2>7, <2>9 DEF Active
  <2>11. ASSUME NEW k \in Key, replaced[k] # None, before.replaced[k] = None
         PROVE  FALSE
    <3>1. PICK y \in Interceptor : y = replaced[k]
      BY <2>7, <2>11
    <3>2. y \notin before.active
      BY <2>6, <2>11, <3>1 DEF Added
    <3>3. Restore(k) \in ToSet(subscriptions[y])
      <4>1. \A f \in ToSet(stack) : ~Holds(f, k)
        <5>1. \A f \in ToSet(stack) : f = Current
          BY <2>1, <2>3, TopCall, EmptyOrder
        <5>2. QED
          BY <1>1, <5>1 DEF Holds
      <4>2. QED
        BY <1>1, <3>1, <4>1 DEF Patched
    <3>4. y # x /\ subscriptions[y] # <<>>
      BY <2>5, <3>3, EmptyOrder
    <3>5. Active(y)
      BY <2>6, <3>4 DEF Settled
    <3>6. QED
      BY <2>9, <3>2, <3>4, <3>5
  <2>12. \A k \in Key : replaced[k] = before.replaced[k]
    BY <2>6, <2>11 DEF Preserved
  <2>13. replaced = before.replaced
    BY <2>7, <2>12
  <2>14. QED
    BY <2>5, <2>7, <2>8, <2>10, <2>13
<1>2. Structure /\ Patched /\ Ownership /\ Restorable /\ [Next]_vars =>
        [Len(stack) = 1 /\ Current.op = "dispose" /\ Current.rethrows /\ stack' = <<>> =>
           /\ owners' = before.owners
           /\ replaced' = before.replaced
           /\ {x \in Interceptor : readyState'[x] = "ACTIVE"} = before.active]_vars
  BY <1>1
<1>3. QED
  BY <1>2, StructureInvariant, OwnershipInvariant, RestorableInvariant, PTL
     DEF Spec, FailedApplyChangesNothing
=============================================================================
