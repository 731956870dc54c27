---------------------------- MODULE SequenceOrder ----------------------------
(***************************************************************************)
(* What the queues, buffers and logs of the models hold, and in which       *)
(* order: facts about ToSet and Precedes for every operation the models     *)
(* apply to a sequence.                                                     *)
(***************************************************************************)
EXTENDS Integers, SequencesExt, SequenceTheorems, TLAPS

\* a comes somewhere before b in s.
Precedes(s, a, b) == \E i, j \in DOMAIN s : i < j /\ s[i] = a /\ s[j] = b

\* The elements and the order of an empty sequence.
LEMMA EmptyOrder ==
  /\ \A S : <<>> \in Seq(S)
  /\ ToSet(<<>>) = {}
  /\ \A a, b : ~Precedes(<<>>, a, b)
BY DEF ToSet, Precedes

\* Of a sequence of one.
LEMMA SingleOrder ==
  ASSUME NEW S, NEW e \in S
  PROVE  /\ <<e>> \in Seq(S)
         /\ <<e>> # <<>>
         /\ ToSet(<<e>>) = {e}
         /\ \A a, b : ~Precedes(<<e>>, a, b)
<1>1. <<e>> \in Seq(S) /\ DOMAIN <<e>> = {1} /\ <<e>>[1] = e
  OBVIOUS
<1>2. <<e>> # <<>>
  OBVIOUS
<1>3. ToSet(<<e>>) = {e}
  BY <1>1 DEF ToSet
<1>4. \A a, b : ~Precedes(<<e>>, a, b)
  <2>1. \A i, j \in {1} : ~(i < j)
    OBVIOUS
  <2>2. QED
    BY <1>1, <2>1 DEF Precedes
<1>5. QED
  BY <1>1, <1>2, <1>3, <1>4

\* The elements of a sequence, and what an order is about.
LEMMA ElementsOf ==
  ASSUME NEW S, NEW s \in Seq(S)
  PROVE  /\ ToSet(s) \subseteq S
         /\ ToSet(s) = {} <=> s = <<>>
         /\ \A a, b : Precedes(s, a, b) => a \in ToSet(s) /\ b \in ToSet(s)
<1>1. ToSet(s) \subseteq S
  BY DEF ToSet
<1>2. ToSet(s) = {} <=> s = <<>>
  BY DEF ToSet
<1>3. \A a, b : Precedes(s, a, b) => a \in ToSet(s) /\ b \in ToSet(s)
  BY DEF ToSet, Precedes
<1>4. QED
  BY <1>1, <1>2, <1>3

\* An element added at the end comes after all others.
LEMMA AppendOrder ==
  ASSUME NEW S, NEW s \in Seq(S), NEW e \in S
  PROVE  /\ Append(s, e) \in Seq(S)
         /\ Append(s, e) # <<>>
         /\ ToSet(Append(s, e)) = ToSet(s) \cup {e}
         /\ \A a, b : Precedes(Append(s, e), a, b) <=>
              Precedes(s, a, b) \/ (a \in ToSet(s) /\ b = e)
<1> DEFINE t == Append(s, e)
<1>1. /\ t \in Seq(S) /\ t # <<>>
      /\ DOMAIN t = 1..Len(s) + 1 /\ DOMAIN s = 1..Len(s) /\ Len(s) \in Nat
      /\ t[Len(s) + 1] = e /\ \A i \in 1..Len(s) : t[i] = s[i]
  OBVIOUS
<1> HIDE DEF t
<1>2. ToSet(t) = ToSet(s) \cup {e}
  <2>1. ASSUME NEW x \in ToSet(t)
        PROVE  x \in ToSet(s) \cup {e}
    <3>1. PICK i \in 1..Len(s) + 1 : t[i] = x
      BY <1>1 DEF ToSet
    <3>2. i \in 1..Len(s) \/ i = Len(s) + 1
      BY <1>1
    <3>3. QED
      BY <1>1, <3>1, <3>2 DEF ToSet
  <2>2. e \in ToSet(t) /\ ToSet(s) \subseteq ToSet(t)
    <3>1. Len(s) + 1 \in DOMAIN t /\ 1..Len(s) \subseteq DOMAIN t
      BY <1>1
    <3>2. QED
      BY <1>1, <3>1 DEF ToSet
  <2>3. QED
    BY <2>1, <2>2
<1>3. ASSUME NEW a, NEW b, Precedes(t, a, b)
      PROVE  Precedes(s, a, b) \/ (a \in ToSet(s) /\ b = e)
  <2>1. PICK i, j \in 1..Len(s) + 1 : i < j /\ t[i] = a /\ t[j] = b
    BY <1>1, <1>3 DEF Precedes
  <2>2. i \in 1..Len(s) /\ (j \in 1..Len(s) \/ j = Len(s) + 1)
    BY <1>1, <2>1
  <2>3. QED
    BY <1>1, <2>1, <2>2 DEF Precedes, ToSet
<1>4. ASSUME NEW a, NEW b, Precedes(s, a, b)
      PROVE  Precedes(t, a, b)
  <2>1. PICK i, j \in 1..Len(s) : i < j /\ s[i] = a /\ s[j] = b
    BY <1>1, <1>4 DEF Precedes
  <2>2. i \in DOMAIN t /\ j \in DOMAIN t
    BY <1>1
  <2>3. QED
    BY <1>1, <2>1, <2>2 DEF Precedes
<1>5. ASSUME NEW a \in ToSet(s)
      PROVE  Precedes(t, a, e)
  <2>1. PICK i \in 1..Len(s) : s[i] = a
    BY <1>1 DEF ToSet
  <2>2. i \in DOMAIN t /\ Len(s) + 1 \in DOMAIN t /\ i < Len(s) + 1
    BY <1>1
  <2>3. QED
    BY <1>1, <2>1, <2>2 DEF Precedes
<1>6. QED
  BY <1>1, <1>2, <1>3, <1>4, <1>5 DEF t

\* The head comes before the rest.
LEMMA TailOrder ==
  ASSUME NEW S, NEW s \in Seq(S), s # <<>>
  PROVE  /\ Head(s) \in S /\ Tail(s) \in Seq(S)
         /\ ToSet(s) = {Head(s)} \cup ToSet(Tail(s))
         /\ \A a, b : Precedes(s, a, b) <=>
              Precedes(Tail(s), a, b) \/ (a = Head(s) /\ b \in ToSet(Tail(s)))
<1> DEFINE t == Tail(s)
           n == Len(s)
<1>1. /\ Head(s) \in S /\ t \in Seq(S) /\ Head(s) = s[1]
      /\ n \in Nat \ {0}
      /\ DOMAIN s = 1..n /\ DOMAIN t = 1..n - 1
      /\ \A i \in 1..n - 1 : t[i] = s[i + 1]
  OBVIOUS
<1> HIDE DEF t, n
<1>2. ToSet(s) = {Head(s)} \cup ToSet(t)
  <2>1. ASSUME NEW x \in ToSet(s)
        PROVE  x \in {Head(s)} \cup ToSet(t)
    <3>1. PICK i \in 1..n : s[i] = x
      BY <1>1 DEF ToSet
    <3>2. i = 1 \/ (i - 1 \in 1..n - 1 /\ (i - 1) + 1 = i)
      BY <1>1
    <3>3. QED
      BY <1>1, <3>1, <3>2 DEF ToSet
  <2>2. ASSUME NEW x \in ToSet(t)
        PROVE  x \in ToSet(s)
    <3>1. PICK i \in 1..n - 1 : t[i] = x
      BY <1>1 DEF ToSet
    <3>2. i + 1 \in 1..n
      BY <1>1
    <3>3. QED
      BY <1>1, <3>1, <3>2 DEF ToSet
  <2>3. Head(s) \in ToSet(s)
    <3>1. 1 \in DOMAIN s
      BY <1>1
    <3>2. QED
      BY <1>1, <3>1 DEF ToSet
  <2>4. QED
    BY <2>1, <2>2, <2>3
<1>3. ASSUME NEW a, NEW b, Precedes(s, a, b)
      PROVE  Precedes(t, a, b) \/ (a = Head(s) /\ b \in ToSet(t))
  <2>1. PICK i, j \in 1..n : i < j /\ s[i] = a /\ s[j] = b
    BY <1>1, <1>3 DEF Precedes
  <2>2. j - 1 \in 1..n - 1 /\ (j - 1) + 1 = j
    BY <1>1, <2>1
  <2>3. CASE i = 1
    BY <1>1, <2>1, <2>2, <2>3 DEF ToSet
  <2>4. CASE i # 1
    <3>1. i - 1 \in 1..n - 1 /\ (i - 1) + 1 = i /\ i - 1 < j - 1
      BY <1>1, <2>1, <2>4
    <3>2. QED
      BY <1>1, <2>1, <2>2, <3>1 DEF Precedes
  <2>5. QED
    BY <2>3, <2>4
<1>4. ASSUME NEW a, NEW b, Precedes(t, a, b)
      PROVE  Precedes(s, a, b)
  <2>1. PICK i, j \in 1..n - 1 : i < j /\ t[i] = a /\ t[j] = b
    BY <1>1, <1>4 DEF Precedes
  <2>2. i + 1 \in 1..n /\ j + 1 \in 1..n /\ i + 1 < j + 1
    BY <1>1, <2>1
  <2>3. QED
    BY <1>1, <2>1, <2>2 DEF Precedes
<1>5. ASSUME NEW b \in ToSet(t)
      PROVE  Precedes(s, Head(s), b)
  <2>1. PICK j \in 1..n - 1 : t[j] = b
    BY <1>1 DEF ToSet
  <2>2. 1 \in 1..n /\ j + 1 \in 1..n /\ 1 < j + 1
    BY <1>1
  <2>3. QED
    BY <1>1, <2>1, <2>2 DEF Precedes
<1>6. QED
  BY <1>1, <1>2, <1>3, <1>4, <1>5 DEF t

\* Of two sequences put together, the first comes before the second.
LEMMA ConcatOrder ==
  ASSUME NEW S, NEW s \in Seq(S), NEW t \in Seq(S)
  PROVE  /\ s \o t \in Seq(S)
         /\ ToSet(s \o t) = ToSet(s) \cup ToSet(t)
         /\ \A a, b : Precedes(s \o t, a, b) <=>
              \/ Precedes(s, a, b) \/ Precedes(t, a, b)
              \/ (a \in ToSet(s) /\ b \in ToSet(t))
<1> DEFINE u == s \o t
           m == Len(s)
           n == Len(t)
<1>1. /\ u \in Seq(S) /\ m \in Nat /\ n \in Nat
      /\ DOMAIN s = 1..m /\ DOMAIN t = 1..n /\ DOMAIN u = 1..m + n
      /\ \A i \in 1..m : u[i] = s[i]
      /\ \A i \in 1..m + n : i > m => u[i] = t[i - m]
  OBVIOUS
<1> HIDE DEF u, m, n
<1>2. \A i \in 1..n : i + m \in 1..m + n /\ i + m > m /\ (i + m) - m = i
  BY <1>1
<1>3. \A i \in 1..n : u[i + m] = t[i]
  BY <1>1, <1>2
<1>4. \A i \in 1..m + n : i \in 1..m \/ (i > m /\ i - m \in 1..n)
  BY <1>1
<1>5. ToSet(u) = ToSet(s) \cup ToSet(t)
  <2>1. ToSet(u) \subseteq ToSet(s) \cup ToSet(t)
    BY <1>1, <1>4 DEF ToSet
  <2>2. ToSet(s) \subseteq ToSet(u)
    <3>1. 1..m \subseteq 1..m + n
      BY <1>1
    <3>2. QED
      BY <1>1, <3>1 DEF ToSet
  <2>3. ToSet(t) \subseteq ToSet(u)
    <3>1. ASSUME NEW i \in 1..n
          PROVE  t[i] \in ToSet(u)
      <4>1. i + m \in DOMAIN u /\ u[i + m] = t[i]
        BY <1>1, <1>2, <1>3
      <4>2. QED
        BY <4>1 DEF ToSet
    <3>2. QED
      BY <1>1, <3>1 DEF ToSet
  <2>4. QED
    BY <2>1, <2>2, <2>3
<1>6. ASSUME NEW a, NEW b, Precedes(u, a, b)
      PROVE  \/ Precedes(s, a, b) \/ Precedes(t, a, b)
             \/ (a \in ToSet(s) /\ b \in ToSet(t))
  <2>1. PICK i, j \in 1..m + n : i < j /\ u[i] = a /\ u[j] = b
    BY <1>1, <1>6 DEF Precedes
  <2>2. CASE j \in 1..m
    <3>1. i \in 1..m
      BY <1>1, <2>1, <2>2
    <3>2. QED
      BY <1>1, <2>1, <2>2, <3>1 DEF Precedes
  <2>3. CASE i > m
    <3>1. i - m \in 1..n /\ j - m \in 1..n /\ i - m < j - m /\ j > m
      BY <1>1, <2>1, <2>3
    <3>2. QED
      BY <1>1, <2>1, <2>3, <3>1 DEF Precedes
  <2>4. CASE i \in 1..m /\ j > m /\ j - m \in 1..n
    BY <1>1, <2>1, <2>4 DEF ToSet
  <2>5. QED
    BY <1>4, <2>2, <2>3, <2>4
<1>7. ASSUME NEW a, NEW b, Precedes(s, a, b)
      PROVE  Precedes(u, a, b)
  <2>1. PICK i, j \in 1..m : i < j /\ s[i] = a /\ s[j] = b
    BY <1>1, <1>7 DEF Precedes
  <2>2. i \in 1..m + n /\ j \in 1..m + n
    BY <1>1
  <2>3. QED
    BY <1>1, <2>1, <2>2 DEF Precedes
<1>8. ASSUME NEW a, NEW b, Precedes(t, a, b)
      PROVE  Precedes(u, a, b)
  <2>1. PICK i, j \in 1..n : i < j /\ t[i] = a /\ t[j] = b
    BY <1>1, <1>8 DEF Precedes
  <2>2. i + m < j + m
    BY <1>1, <2>1
  <2>3. /\ i + m \in DOMAIN u /\ j + m \in DOMAIN u
        /\ u[i + m] = a /\ u[j + m] = b
    BY <1>1, <1>2, <1>3, <2>1
  <2>4. QED
    BY <2>2, <2>3 DEF Precedes
<1>9. ASSUME NEW a \in ToSet(s), NEW b \in ToSet(t)
      PROVE  Precedes(u, a, b)
  <2>1. PICK i \in 1..m : s[i] = a
    BY <1>1 DEF ToSet
  <2>2. PICK j \in 1..n : t[j] = b
    BY <1>1 DEF ToSet
  <2>3. i \in 1..m + n /\ j + m \in 1..m + n /\ i < j + m
    BY <1>1, <1>2
  <2>4. QED
    BY <1>1, <1>3, <2>1, <2>2, <2>3 DEF Precedes
<1>10. QED
  BY <1>1, <1>5, <1>6, <1>7, <1>8, <1>9 DEF u
=============================================================================
