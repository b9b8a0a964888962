------------------------------- MODULE CallistoProofs -------------------------------
(***************************************************************************)
(* The Callisto driver.  First the bytes: StreamParser against the         *)
(* definition by position, for every alphabet, word and sweep, and the     *)
(* session that feeds it.  Then the recording loop and the driver's        *)
(* self-heal, for every timeout, window, budget and file length, and any   *)
(* number of faults and sweeps.                                            *)
(***************************************************************************)
EXTENDS CallistoStream, CallistoLink, SequenceTheorems, FiniteSetTheorems, WellFoundedInduction,
        TLAPS

\* What a byte on the line may be.
Texts == {"Stopped", "Started", "ChargePump", "Debug", "V1.8", "row", "end", "ADC0=", "1", "3"}
Bytes ==
  Digits \cup Texts \cup {MESSAGE_START, MESSAGE_END, DATA_START, DATA_END, EEPROM_READY}

\* Induction over the natural numbers, for a set.
LEMMA Counting ==
  ASSUME NEW S, 0 \in S, \A n \in Nat : n \in S => n + 1 \in S
  PROVE  Nat \subseteq S
<1> SUFFICES ASSUME Nat \ S # {} PROVE FALSE
  OBVIOUS
<1>1. PICK x \in Nat \ S : \A y \in Nat \ S : ~(<<y, x>> \in OpToRel(<, Nat))
  BY NatLessThanWellFounded, WFMin
<1>2. \A y \in Nat : y < x => <<y, x>> \in OpToRel(<, Nat)
  BY DEF OpToRel
<1>3. \A y \in Nat : y < x => y \in S
  BY <1>1, <1>2
<1>4. x # 0
  BY <1>1
<1>5. x - 1 \in Nat /\ x - 1 < x /\ x - 1 + 1 = x
  BY <1>4
<1> QED
  BY <1>3, <1>5

\* Max of a set of numbers up to n that holds n.
LEMMA MaxTop ==
  ASSUME NEW n \in Nat, NEW t \in SUBSET (1..n), n \in t
  PROVE  Max(t) = n
<1>1. n \in t /\ \A y \in t : n >= y
  OBVIOUS
<1>2. ASSUME NEW x \in t, \A y \in t : x >= y
      PROVE  x = n
  BY <1>2
<1>3. Max(t) \in t /\ \A y \in t : Max(t) >= y
  BY <1>1, Zenon DEF Max
<1> QED
  BY <1>2, <1>3

-----------------------------------------------------------------------------
(* The folds of the model, step by step. *)

\* f[k] is the receiver d after the first k of the n commands s.
WritePath(f, d, s, n) ==
  /\ f[0] = d /\ f[n] = Write(d, s)
  /\ \A k \in 1..n : f[k] = Handle(f[k - 1], s[k])

\* Write runs the commands one after the other.
LEMMA WriteSteps ==
  ASSUME NEW d, NEW s, NEW n \in Nat, DOMAIN s = 1..n
  PROVE  \E f : WritePath(f, d, s, n)
<1> DEFINE Rec(m, g) ==
             g = [t \in SUBSET (1..m) |->
                    IF t = {} THEN d ELSE Handle(g[t \ {Max(t)}], s[Max(t)])]
           S == {m \in Nat : \E g : Rec(m, g)}
<1>1. 0 \in S
  <2> DEFINE g == [t \in SUBSET (1..0) |-> d]
  <2>1. \A t \in SUBSET (1..0) : t = {}
    OBVIOUS
  <2>2. Rec(0, g)
    BY <2>1
  <2> QED
    BY <2>2
<1>2. ASSUME NEW m \in Nat, m \in S
      PROVE  m + 1 \in S
  <2>1. PICK g : Rec(m, g)
    BY <1>2
  <2> DEFINE h == [t \in SUBSET (1..(m + 1)) |->
                     IF m + 1 \in t THEN Handle(g[t \ {m + 1}], s[m + 1]) ELSE g[t]]
  <2>2. ASSUME NEW t \in SUBSET (1..(m + 1))
        PROVE  h[t] = IF t = {} THEN d ELSE Handle(h[t \ {Max(t)}], s[Max(t)])
    <3>1. CASE m + 1 \in t
      <4>1. Max(t) = m + 1
        BY <3>1, MaxTop
      <4>2. t \ {m + 1} \in SUBSET (1..(m + 1)) /\ m + 1 \notin t \ {m + 1}
        OBVIOUS
      <4>3. h[t \ {m + 1}] = g[t \ {m + 1}]
        BY <4>2, Zenon
      <4> QED
        BY <3>1, <4>1, <4>3, Zenon
    <3>2. CASE m + 1 \notin t
      <4>1. t \in SUBSET (1..m)
        BY <3>2
      <4>2. g[t] = IF t = {} THEN d ELSE Handle(g[t \ {Max(t)}], s[Max(t)])
        BY <2>1, <4>1, Zenon
      <4>3. t \ {Max(t)} \in SUBSET (1..(m + 1)) /\ m + 1 \notin t \ {Max(t)}
        BY <3>2
      <4>4. h[t \ {Max(t)}] = g[t \ {Max(t)}] /\ h[t] = g[t]
        BY <3>2, <4>3, Zenon
      <4> QED
        BY <4>2, <4>4, Zenon
    <3> QED
      BY <3>1, <3>2
  <2>3. Rec(m + 1, h)
    BY <2>2, Zenon
  <2>4. m + 1 \in Nat
    OBVIOUS
  <2> QED
    BY <2>3, <2>4, Zenon
<1>3. n \in S
  <2> HIDE DEF S
  <2> QED
    BY <1>1, <1>2, Counting
<1> DEFINE iter == CHOOSE g : g = [t \in SUBSET DOMAIN s |->
                      IF t = {} THEN d ELSE Handle(g[t \ {Max(t)}], s[Max(t)])]
<1>4. Write(d, s) = iter[DOMAIN s]
  BY DEF Write, FoldLeft, MapThenFoldSet
<1>5. Rec(n, iter)
  BY <1>3, Zenon
<1> HIDE DEF iter
<1> DEFINE f == [k \in 0..n |-> iter[1..k]]
<1>6. f[0] = d
  <2>1. 1..0 = {} /\ 1..0 \in SUBSET (1..n) /\ 0 \in 0..n
    OBVIOUS
  <2> QED
    BY <1>5, <2>1, Zenon
<1>7. ASSUME NEW k \in 1..n
      PROVE  f[k] = Handle(f[k - 1], s[k])
  <2>1. k \in 1..k /\ k \in 0..n /\ k - 1 \in 0..n /\ k \in Nat
    OBVIOUS
  <2>6. 1..k \in SUBSET (1..n) /\ 1..k # {}
    <3>1. 1..k \in SUBSET (1..n)
      OBVIOUS
    <3> QED
      BY <2>1, <3>1
  <2>5. (1..k) \ {k} = 1..(k - 1)
    OBVIOUS
  <2>2. Max(1..k) = k
    BY <2>1, MaxTop
  <2>3. iter[1..k] = Handle(iter[(1..k) \ {k}], s[k])
    BY <1>5, <2>1, <2>2, <2>6, Zenon
  <2>4. iter[1..k] = Handle(iter[1..(k - 1)], s[k])
    BY <2>3, <2>5
  <2> QED
    BY <2>1, <2>4, Zenon
<1>8. f[n] = Write(d, s) /\ DOMAIN f = 0..n
  <2>1. n \in 0..n
    OBVIOUS
  <2> QED
    BY <1>4, <2>1, Zenon
<1> HIDE DEF f
<1>9. WritePath(f, d, s, n)
  BY <1>6, <1>7, <1>8, Zenon DEF WritePath
<1> QED
  BY <1>9, Zenon

\* A parser whose items were taken.
Taking(p) == [p EXCEPT !.sweeps = <<>>, !.texts = <<>>]

\* f[k] is the parser d after the first k of the n bytes s.
FeedPath(f, d, s, n) ==
  /\ f[0] = Taking(d) /\ f[n] = Feed(d, s)
  /\ \A k \in 1..n : f[k] = Consume(f[k - 1], s[k])

\* Feed consumes the bytes one after the other.
LEMMA FeedSteps ==
  ASSUME NEW d, NEW s, NEW n \in Nat, DOMAIN s = 1..n
  PROVE  \E f : FeedPath(f, d, s, n)
<1> DEFINE Rec(m, g) ==
             g = [t \in SUBSET (1..m) |->
                    IF t = {} THEN Taking(d) ELSE Consume(g[t \ {Max(t)}], s[Max(t)])]
           S == {m \in Nat : \E g : Rec(m, g)}
<1>1. 0 \in S
  <2> DEFINE g == [t \in SUBSET (1..0) |-> Taking(d)]
  <2>1. \A t \in SUBSET (1..0) : t = {}
    OBVIOUS
  <2>2. Rec(0, g)
    BY <2>1
  <2> QED
    BY <2>2
<1>2. ASSUME NEW m \in Nat, m \in S
      PROVE  m + 1 \in S
  <2>1. PICK g : Rec(m, g)
    BY <1>2
  <2> DEFINE h == [t \in SUBSET (1..(m + 1)) |->
                     IF m + 1 \in t THEN Consume(g[t \ {m + 1}], s[m + 1]) ELSE g[t]]
  <2>2. ASSUME NEW t \in SUBSET (1..(m + 1))
        PROVE  h[t] = IF t = {} THEN Taking(d) ELSE Consume(h[t \ {Max(t)}], s[Max(t)])
    <3>1. CASE m + 1 \in t
      <4>1. Max(t) = m + 1
        BY <3>1, MaxTop
      <4>2. t \ {m + 1} \in SUBSET (1..(m + 1)) /\ m + 1 \notin t \ {m + 1}
        OBVIOUS
      <4>3. h[t \ {m + 1}] = g[t \ {m + 1}]
        BY <4>2, Zenon
      <4> QED
        BY <3>1, <4>1, <4>3, Zenon
    <3>2. CASE m + 1 \notin t
      <4>1. t \in SUBSET (1..m)
        BY <3>2
      <4>2. g[t] = IF t = {} THEN Taking(d) ELSE Consume(g[t \ {Max(t)}], s[Max(t)])
        BY <2>1, <4>1, Zenon
      <4>3. t \ {Max(t)} \in SUBSET (1..(m + 1)) /\ m + 1 \notin t \ {Max(t)}
        BY <3>2
      <4>4. h[t \ {Max(t)}] = g[t \ {Max(t)}] /\ h[t] = g[t]
        BY <3>2, <4>3, Zenon
      <4> QED
        BY <4>2, <4>4, Zenon
    <3> QED
      BY <3>1, <3>2
  <2>3. Rec(m + 1, h)
    BY <2>2, Zenon
  <2>4. m + 1 \in Nat
    OBVIOUS
  <2> QED
    BY <2>3, <2>4, Zenon
<1>3. n \in S
  <2> HIDE DEF S
  <2> QED
    BY <1>1, <1>2, Counting
<1> DEFINE iter == CHOOSE g : g = [t \in SUBSET DOMAIN s |->
                      IF t = {} THEN Taking(d) ELSE Consume(g[t \ {Max(t)}], s[Max(t)])]
<1>4. Feed(d, s) = iter[DOMAIN s]
  BY DEF Taking, Feed, FoldLeft, MapThenFoldSet
<1>5. Rec(n, iter)
  BY <1>3, Zenon
<1> HIDE DEF iter
<1> DEFINE f == [k \in 0..n |-> iter[1..k]]
<1>6. f[0] = Taking(d)
  <2>1. 1..0 = {} /\ 1..0 \in SUBSET (1..n) /\ 0 \in 0..n
    OBVIOUS
  <2> QED
    BY <1>5, <2>1, Zenon
<1>7. ASSUME NEW k \in 1..n
      PROVE  f[k] = Consume(f[k - 1], s[k])
  <2>1. k \in 1..k /\ k \in 0..n /\ k - 1 \in 0..n /\ k \in Nat
    OBVIOUS
  <2>6. 1..k \in SUBSET (1..n) /\ 1..k # {}
    <3>1. 1..k \in SUBSET (1..n)
      OBVIOUS
    <3> QED
      BY <2>1, <3>1
  <2>5. (1..k) \ {k} = 1..(k - 1)
    OBVIOUS
  <2>2. Max(1..k) = k
    BY <2>1, MaxTop
  <2>3. iter[1..k] = Consume(iter[(1..k) \ {k}], s[k])
    BY <1>5, <2>1, <2>2, <2>6, Zenon
  <2>4. iter[1..k] = Consume(iter[1..(k - 1)], s[k])
    BY <2>3, <2>5
  <2> QED
    BY <2>1, <2>4, Zenon
<1>8. f[n] = Feed(d, s) /\ DOMAIN f = 0..n
  <2>1. n \in 0..n
    OBVIOUS
  <2> QED
    BY <1>4, <2>1, Zenon
<1> HIDE DEF f
<1>9. FeedPath(f, d, s, n)
  BY <1>6, <1>7, <1>8, Zenon DEF FeedPath
<1> QED
  BY <1>9, Zenon

\* Value takes the digits from the most significant one.
LEMMA ValueSteps ==
  ASSUME NEW s, NEW n \in Nat, DOMAIN s = 1..n
  PROVE  \E f : /\ DOMAIN f = 0..n /\ f[0] = 0 /\ f[n] = Value(s)
                /\ \A k \in 1..n : f[k] = Base * f[k - 1] + DigitVal[s[k]]
<1> DEFINE Rec(m, g) ==
             g = [t \in SUBSET (1..m) |->
                    IF t = {} THEN 0 ELSE Base * g[t \ {Max(t)}] + DigitVal[s[Max(t)]]]
           S == {m \in Nat : \E g : Rec(m, g)}
<1>1. 0 \in S
  <2> DEFINE g == [t \in SUBSET (1..0) |-> 0]
  <2>1. \A t \in SUBSET (1..0) : t = {}
    OBVIOUS
  <2>2. Rec(0, g)
    BY <2>1
  <2> QED
    BY <2>2
<1>2. ASSUME NEW m \in Nat, m \in S
      PROVE  m + 1 \in S
  <2>1. PICK g : Rec(m, g)
    BY <1>2
  <2> DEFINE h == [t \in SUBSET (1..(m + 1)) |->
                     IF m + 1 \in t THEN Base * g[t \ {m + 1}] + DigitVal[s[m + 1]] ELSE g[t]]
  <2>2. ASSUME NEW t \in SUBSET (1..(m + 1))
        PROVE  h[t] = IF t = {} THEN 0 ELSE Base * h[t \ {Max(t)}] + DigitVal[s[Max(t)]]
    <3>1. CASE m + 1 \in t
      <4>1. Max(t) = m + 1
        BY <3>1, MaxTop
      <4>2. t \ {m + 1} \in SUBSET (1..(m + 1)) /\ m + 1 \notin t \ {m + 1}
        OBVIOUS
      <4>3. h[t \ {m + 1}] = g[t \ {m + 1}]
        BY <4>2, Zenon
      <4> QED
        BY <3>1, <4>1, <4>3, Zenon
    <3>2. CASE m + 1 \notin t
      <4>1. t \in SUBSET (1..m)
        BY <3>2
      <4>2. g[t] = IF t = {} THEN 0 ELSE Base * g[t \ {Max(t)}] + DigitVal[s[Max(t)]]
        BY <2>1, <4>1, Zenon
      <4>3. t \ {Max(t)} \in SUBSET (1..(m + 1)) /\ m + 1 \notin t \ {Max(t)}
        BY <3>2
      <4>4. h[t \ {Max(t)}] = g[t \ {Max(t)}] /\ h[t] = g[t]
        BY <3>2, <4>3, Zenon
      <4> QED
        BY <4>2, <4>4, Zenon
    <3> QED
      BY <3>1, <3>2
  <2>3. Rec(m + 1, h)
    BY <2>2, Zenon
  <2>4. m + 1 \in Nat
    OBVIOUS
  <2> QED
    BY <2>3, <2>4, Zenon
<1>3. n \in S
  <2> HIDE DEF S
  <2> QED
    BY <1>1, <1>2, Counting
<1> DEFINE iter == CHOOSE g : g = [t \in SUBSET DOMAIN s |->
                      IF t = {} THEN 0 ELSE Base * g[t \ {Max(t)}] + DigitVal[s[Max(t)]]]
<1>4. Value(s) = iter[DOMAIN s]
  BY DEF Value, FoldLeft, MapThenFoldSet
<1>5. Rec(n, iter)
  BY <1>3, Zenon
<1> HIDE DEF iter
<1> DEFINE f == [k \in 0..n |-> iter[1..k]]
<1>6. f[0] = 0
  <2>1. 1..0 = {} /\ 1..0 \in SUBSET (1..n) /\ 0 \in 0..n
    OBVIOUS
  <2> QED
    BY <1>5, <2>1, Zenon
<1>7. ASSUME NEW k \in 1..n
      PROVE  f[k] = Base * f[k - 1] + DigitVal[s[k]]
  <2>1. k \in 1..k /\ k \in 0..n /\ k - 1 \in 0..n /\ k \in Nat
    OBVIOUS
  <2>6. 1..k \in SUBSET (1..n) /\ 1..k # {}
    <3>1. 1..k \in SUBSET (1..n)
      OBVIOUS
    <3> QED
      BY <2>1, <3>1
  <2>5. (1..k) \ {k} = 1..(k - 1)
    OBVIOUS
  <2>2. Max(1..k) = k
    BY <2>1, MaxTop
  <2>3. iter[1..k] = Base * iter[(1..k) \ {k}] + DigitVal[s[k]]
    BY <1>5, <2>1, <2>2, <2>6, Zenon
  <2>4. iter[1..k] = Base * iter[1..(k - 1)] + DigitVal[s[k]]
    BY <2>3, <2>5
  <2> QED
    BY <2>1, <2>4, Zenon
<1>8. f[n] = Value(s) /\ DOMAIN f = 0..n
  <2>1. n \in 0..n
    OBVIOUS
  <2> QED
    BY <1>4, <2>1, Zenon
<1> QED
  BY <1>6, <1>7, <1>8

\* FlattenSeq joins the sequences from the first one.
LEMMA FlattenSteps ==
  ASSUME NEW T, NEW s \in Seq(Seq(T))
  PROVE  \E f : /\ f \in [0..Len(s) -> Seq(T)]
                /\ f[0] = <<>> /\ f[Len(s)] = FlattenSeq(s)
                /\ \A k \in 1..Len(s) : f[k] = f[k - 1] \o s[k]
<1> DEFINE n == Len(s)
           Rec(m, g) == g = [i \in 1..m |-> IF i = 1 THEN s[i] ELSE g[i - 1] \o s[i]]
           S == {m \in Nat : m <= n => \E g : Rec(m, g)}
<1>0. n \in Nat /\ DOMAIN s = 1..n /\ \A k \in 1..n : s[k] \in Seq(T)
  OBVIOUS
<1> HIDE DEF n
<1>1. 0 \in S
  <2>1. Rec(0, [i \in 1..0 |-> <<>>])
    OBVIOUS
  <2> QED
    BY <2>1
<1>2. ASSUME NEW m \in Nat, m \in S
      PROVE  m + 1 \in S
  <2>4. m + 1 \in Nat
    OBVIOUS
  <2> SUFFICES ASSUME m + 1 <= n
               PROVE  \E g : Rec(m + 1, g)
    BY <2>4, Zenon
  <2>0. m <= n
    BY <1>0
  <2>1. PICK g : Rec(m, g)
    BY <1>2, <2>0
  <2> DEFINE h == [i \in 1..(m + 1) |->
                     IF i = m + 1 THEN (IF i = 1 THEN s[i] ELSE g[m] \o s[i]) ELSE g[i]]
  <2>2. ASSUME NEW i \in 1..(m + 1)
        PROVE  h[i] = IF i = 1 THEN s[i] ELSE h[i - 1] \o s[i]
    <3>1. CASE i = m + 1
      <4>1. CASE i = 1
        BY <3>1, <4>1
      <4>2. CASE i # 1
        <5>1. m \in 1..(m + 1) /\ m # m + 1 /\ i - 1 = m
          BY <3>1, <4>2
        <5>2. h[m] = g[m]
          BY <5>1, Zenon
        <5> QED
          BY <3>1, <4>2, <5>1, <5>2, Zenon
      <4> QED
        BY <4>1, <4>2
    <3>2. CASE i # m + 1
      <4>1. i \in 1..m
        BY <3>2
      <4>2. g[i] = IF i = 1 THEN s[i] ELSE g[i - 1] \o s[i]
        BY <2>1, <4>1, Zenon
      <4>3. h[i] = g[i]
        BY <3>2, Zenon
      <4>4. CASE i = 1
        BY <4>2, <4>3, <4>4, Zenon
      <4>5. CASE i # 1
        <5>1. i - 1 \in 1..(m + 1) /\ i - 1 # m + 1
          BY <4>1, <4>5
        <5>2. h[i - 1] = g[i - 1]
          BY <5>1, Zenon
        <5> QED
          BY <4>2, <4>3, <4>5, <5>2, Zenon
      <4> QED
        BY <4>4, <4>5
    <3> QED
      BY <3>1, <3>2
  <2>3. Rec(m + 1, h)
    BY <2>2, Zenon
  <2> QED
    BY <2>3, Zenon
<1>3. \E g : Rec(n, g)
  <2>1. n \in S
    <3> HIDE DEF S
    <3> QED
      BY <1>0, <1>1, <1>2, Counting
  <2>2. n <= n
    BY <1>0
  <2> QED
    BY <2>1, <2>2
<1> DEFINE flatten == CHOOSE g : g = [i \in 1..Len(s) |->
                                  IF i = 1 THEN s[i] ELSE g[i - 1] \o s[i]]
<1>4. Rec(n, flatten)
  BY <1>3, Zenon DEF n
<1>5. FlattenSeq(s) = IF n = 0 THEN s ELSE flatten[n]
  BY Zenon DEF FlattenSeq, n
<1> HIDE DEF flatten
<1> DEFINE f == [k \in 0..n |-> IF k = 0 THEN <<>> ELSE flatten[k]]
<1>6. f[0] = <<>>
  BY <1>0
<1>7. ASSUME NEW k \in 1..n
      PROVE  f[k] = f[k - 1] \o s[k]
  <2>1. k \in 0..n /\ k # 0 /\ k - 1 \in 0..n /\ (k = 1 <=> k - 1 = 0)
    BY <1>0
  <2>2. flatten[k] = IF k = 1 THEN s[k] ELSE flatten[k - 1] \o s[k]
    BY <1>4, Zenon
  <2>3. s[k] \in Seq(T) /\ <<>> \o s[k] = s[k]
    BY <1>0, ConcatEmptySeq
  <2>4. f[k] = flatten[k] /\ f[k - 1] = IF k = 1 THEN <<>> ELSE flatten[k - 1]
    BY <2>1, Zenon
  <2> QED
    BY <2>2, <2>3, <2>4, Zenon
<1>8. f[n] = FlattenSeq(s)
  <2>1. CASE n = 0
    <3>1. s = <<>>
      BY <2>1 DEF n
    <3> QED
      BY <1>5, <1>6, <2>1, <3>1
  <2>2. CASE n # 0
    <3>1. n \in 0..n
      BY <1>0
    <3> QED
      BY <1>5, <2>2, <3>1, Zenon
  <2> QED
    BY <2>1, <2>2
<1>9. \A k \in 0..n : f[k] \in Seq(T)
  <2> DEFINE P == {k \in Nat : k <= n => f[k] \in Seq(T)}
  <2>1. 0 \in P
    <3>1. <<>> \in Seq(T)
      OBVIOUS
    <3> HIDE DEF f
    <3> QED
      BY <1>6, <3>1
  <2>2. ASSUME NEW k \in Nat, k \in P
        PROVE  k + 1 \in P
    <3> HIDE DEF f
    <3>1. ASSUME NEW i \in 1..n, i - 1 = k
          PROVE  f[i] \in Seq(T)
      <4>1. k <= n
        BY <1>0, <3>1
      <4>2. f[k] \in Seq(T) /\ s[i] \in Seq(T)
        BY <1>0, <2>2, <4>1
      <4>3. f[i] = f[k] \o s[i]
        BY <1>7, <3>1, Zenon
      <4> QED
        BY <4>2, <4>3
    <3>2. k + 1 <= n => k + 1 \in 1..n
      BY <1>0
    <3>3. k + 1 - 1 = k /\ k + 1 \in Nat
      OBVIOUS
    <3> QED
      BY <3>1, <3>2, <3>3
  <2>3. Nat \subseteq P
    <3> HIDE DEF P
    <3> QED
      BY <2>1, <2>2, Counting
  <2> HIDE DEF f
  <2> QED
    BY <1>0, <2>3
<1>10. f \in [0..n -> Seq(T)]
  BY <1>9
<1> HIDE DEF f
<1> QED
  BY <1>6, <1>7, <1>8, <1>10 DEF n

\* x is y followed by z.
Extends(x, y, z) == x = y \o z

\* Appending is associative.
LEMMA Regroup ==
  ASSUME NEW T, NEW a \in Seq(T), NEW b \in Seq(T), NEW t \in Seq(T), NEW x, NEW y, NEW bt,
         Extends(x, a, b), Extends(bt, b, t), Extends(y, a, bt)
  PROVE  Extends(y, x, t)
<1>1. (a \o b) \o t = a \o (b \o t)
  BY ConcatAssociative
<1> QED
  BY <1>1, Zenon DEF Extends

\* f[k] is the first k of the n sequences v joined.
Joins(f, v, n, T) ==
  /\ f \in [0..n -> Seq(T)] /\ f[0] = <<>>
  /\ \A k \in 1..n : f[k] = f[k - 1] \o v[k]

\* v and w are the same from a to m.
Same(v, w, a, m) == \A k \in a..m : v[k] = w[k]

\* Of the sequences v the last one that is not empty grows by t.
Grows(v, w, n, c, t, T) ==
  /\ c \in 1..n /\ t \in Seq(T)
  /\ \A k \in 1..n : v[k] \in Seq(T)
  /\ \A k \in 1..n : w[k] = IF k = c THEN v[k] \o t ELSE v[k]
  /\ \A k \in 1..n : k > c => v[k] = <<>>

\* FlattenSeq joins the sequences from left to right.
LEMMA FlattenJoins ==
  ASSUME NEW T, NEW v \in Seq(Seq(T))
  PROVE  \E f : Joins(f, v, Len(v), T) /\ f[Len(v)] = FlattenSeq(v)
BY FlattenSteps DEF Joins

Joined(f, v, k, T) ==
  Extends(f[k], f[k - 1], v[k]) /\ f[k - 1] \in Seq(T) /\ f[k] \in Seq(T)

\* One join of them.
LEMMA JoinsAt ==
  ASSUME NEW T, NEW v, NEW f, NEW n \in Nat, Joins(f, v, n, T), NEW k \in 1..n
  PROVE  Joined(f, v, k, T)
<1>1. k - 1 \in 0..n /\ k \in 0..n
  OBVIOUS
<1>2. f[k] = f[k - 1] \o v[k]
  BY DEF Joins
<1>3. f \in [0..n -> Seq(T)]
  BY DEF Joins
<1>4. f[k - 1] \in Seq(T) /\ f[k] \in Seq(T)
  BY <1>1, <1>3, Zenon
<1> QED
  BY <1>2, <1>4, Zenon DEF Joined, Extends

\* Sequences that agree up to m are joined to the same up to m.
LEMMA JoinsAgree ==
  ASSUME NEW T, NEW v, NEW w, NEW f, NEW h, NEW m \in Nat, NEW n \in Nat, NEW l \in Nat,
         m <= n, m <= l, Joins(f, v, n, T), Joins(h, w, l, T), Same(v, w, 1, m)
  PROVE  Same(f, h, 0, m)
<1> DEFINE S == {k \in Nat : k <= m => f[k] = h[k]}
<1>1. 0 \in S
  BY DEF Joins
<1>2. ASSUME NEW j \in Nat, j \in S
      PROVE  j + 1 \in S
  <2>1. ASSUME NEW k \in 1..m, k - 1 = j
        PROVE  f[k] = h[k]
    <3>1. k \in 1..n /\ k \in 1..l /\ f[j] = h[j]
      BY <1>2, <2>1
    <3>4. Joined(f, v, k, T) /\ Joined(h, w, k, T)
      BY <3>1, JoinsAt
    <3>2. f[k] = f[k - 1] \o v[k] /\ h[k] = h[k - 1] \o w[k]
      BY <3>4, Zenon DEF Joined, Extends
    <3>3. v[k] = w[k]
      BY DEF Same
    <3> QED
      BY <2>1, <3>1, <3>2, <3>3
  <2>2. j + 1 <= m => j + 1 \in 1..m
    OBVIOUS
  <2>3. j + 1 - 1 = j /\ j + 1 \in Nat
    OBVIOUS
  <2> QED
    BY <2>1, <2>2, <2>3
<1> HIDE DEF S
<1>3. Nat \subseteq S
  BY <1>1, <1>2, Counting
<1> QED
  BY <1>3 DEF S, Same

\* One more sequence at the end is joined last.
LEMMA JoinsGrow ==
  ASSUME NEW T, NEW v, NEW w, NEW f, NEW h, NEW n \in Nat, NEW t, NEW c,
         Joins(f, v, n, T), Joins(h, w, n + 1, T), Grows(v, w, n, c, t, T)
  PROVE  Extends(h[n], f[n], t)
<1>0. c \in 1..n /\ t \in Seq(T) /\ c \in Nat
  BY DEF Grows
<1>1. f[c - 1] = h[c - 1]
  <2>1. c - 1 \in Nat /\ c - 1 <= n /\ c - 1 <= n + 1 /\ n + 1 \in Nat /\ c - 1 \in 0..(c - 1)
    BY <1>0
  <2>2. \A k \in 1..(c - 1) : k \in 1..n /\ k # c
    BY <1>0
  <2>3. Same(v, w, 1, c - 1)
    BY <2>2, Zenon DEF Grows, Same
  <2>4. Same(f, h, 0, c - 1)
    BY <2>1, <2>3, JoinsAgree
  <2> QED
    BY <2>1, <2>4 DEF Same
<1> DEFINE S == {j \in Nat : c + j <= n => Extends(h[c + j], f[c + j], t)}
<1>2. 0 \in S
  <2>1. c + 0 = c /\ c \in 1..(n + 1) /\ n + 1 \in Nat
    BY <1>0
  <2>6. Joined(f, v, c, T) /\ Joined(h, w, c, T)
    BY <1>0, <2>1, JoinsAt
  <2>2. Extends(h[c], f[c - 1], w[c]) /\ Extends(f[c], f[c - 1], v[c]) /\ f[c - 1] \in Seq(T)
    BY <1>1, <2>6, Zenon DEF Joined
  <2>3. Extends(w[c], v[c], t) /\ v[c] \in Seq(T)
    BY <1>0, Zenon DEF Grows, Extends
  <2>4. Extends(h[c], f[c], t)
    BY <1>0, <2>2, <2>3, Regroup
  <2> QED
    BY <2>1, <2>4
<1>3. ASSUME NEW j \in Nat, j \in S
      PROVE  j + 1 \in S
  <2>1. ASSUME NEW k \in 1..n, k - 1 = c + j
        PROVE  Extends(h[k], f[k], t)
    <3>1. k \in 1..(n + 1) /\ k # c /\ k > c /\ c + j <= n /\ n + 1 \in Nat
      BY <1>0, <2>1
    <3>2. Extends(h[c + j], f[c + j], t)
      BY <1>3, <3>1
    <3>3. w[k] = <<>> /\ v[k] = <<>>
      BY <3>1, Zenon DEF Grows
    <3>7. Joined(f, v, k, T) /\ Joined(h, w, k, T)
      BY <3>1, JoinsAt
    <3>8. h[k] = h[c + j] \o <<>> /\ f[k] = f[c + j] \o <<>>
      BY <2>1, <3>3, <3>7, Zenon DEF Joined, Extends
    <3>4. f[c + j] \in Seq(T)
      BY <2>1, <3>7, Zenon DEF Joined
    <3>5. f[c + j] \o t \in Seq(T)
      BY <1>0, <3>4
    <3>6. f[c + j] \o <<>> = f[c + j] /\ (f[c + j] \o t) \o <<>> = f[c + j] \o t
      BY <3>4, <3>5, ConcatEmptySeq
    <3> QED
      BY <3>2, <3>6, <3>8, Zenon DEF Extends
  <2>2. PICK k : k = c + (j + 1)
    OBVIOUS
  <2>3. k <= n => k \in 1..n /\ k - 1 = c + j
    BY <1>0, <2>2
  <2>4. c + (j + 1) <= n => Extends(h[c + (j + 1)], f[c + (j + 1)], t)
    BY <2>1, <2>2, <2>3
  <2> QED
    BY <2>4
<1>4. Nat \subseteq S
  <2> HIDE DEF S
  <2> QED
    BY <1>2, <1>3, Counting
<1> QED
  <2>1. n - c \in Nat /\ c + (n - c) = n /\ n <= n
    BY <1>0
  <2>2. n - c \in S
    BY <1>4, <2>1
  <2> QED
    BY <2>1, <2>2

\* A further sequence is joined at the end.
LEMMA FlattenAppend ==
  ASSUME NEW T, NEW v \in Seq(Seq(T)), NEW w \in Seq(Seq(T)),
         Len(w) = Len(v) + 1, Same(v, w, 1, Len(v))
  PROVE  Extends(FlattenSeq(w), FlattenSeq(v), w[Len(w)])
<1>1. PICK n \in Nat, m \in Nat : n = Len(v) /\ Len(w) = m /\ m = n + 1
  OBVIOUS
<1>2. PICK f : Joins(f, v, n, T) /\ f[n] = FlattenSeq(v)
  BY <1>1, FlattenJoins
<1>3. PICK h : Joins(h, w, m, T) /\ h[m] = FlattenSeq(w)
  BY <1>1, FlattenJoins
<1>4. n <= n /\ n <= m /\ m \in 1..m /\ m - 1 = n /\ n \in 0..n
  BY <1>1
<1>5. Joined(h, w, m, T)
  BY <1>1, <1>3, <1>4, JoinsAt
<1>6. Extends(h[m], h[n], w[m])
  BY <1>4, <1>5, Zenon DEF Joined
<1>7. Same(f, h, 0, n)
  BY <1>1, <1>2, <1>3, <1>4, JoinsAgree
<1>8. f[n] = h[n]
  BY <1>4, <1>7, Zenon DEF Same
<1> QED
  BY <1>1, <1>2, <1>3, <1>6, <1>8

\* The last sequence that is not empty grows.
LEMMA FlattenGrow ==
  ASSUME NEW T, NEW v \in Seq(Seq(T)), NEW w \in Seq(Seq(T)), NEW t, NEW c,
         Len(w) = Len(v) + 1, w[Len(w)] = <<>>, Grows(v, w, Len(v), c, t, T)
  PROVE  Extends(FlattenSeq(w), FlattenSeq(v), t)
<1>1. PICK n \in Nat, m \in Nat : n = Len(v) /\ Len(w) = m /\ m = n + 1
  OBVIOUS
<1>2. PICK f : Joins(f, v, n, T) /\ f[n] = FlattenSeq(v)
  BY <1>1, FlattenJoins
<1>3. PICK h : Joins(h, w, m, T) /\ h[m] = FlattenSeq(w)
  BY <1>1, FlattenJoins
<1>4. m \in 1..m /\ m - 1 = n
  BY <1>1
<1>5. Joined(h, w, m, T)
  BY <1>1, <1>3, <1>4, JoinsAt
<1>6. Extends(h[m], h[n], <<>>) /\ h[n] \in Seq(T)
  BY <1>1, <1>4, <1>5, Zenon DEF Joined
<1>7. h[n] \o <<>> = h[n]
  BY <1>6, ConcatEmptySeq
<1>8. Extends(h[n], f[n], t)
  BY <1>1, <1>2, <1>3, JoinsGrow
<1> QED
  BY <1>2, <1>3, <1>6, <1>7, <1>8, Zenon DEF Extends

-----------------------------------------------------------------------------
(* Pieces of a sequence that grows by one element. *)

\* s is cut into the pieces P of length n, and r is left over.
Cut(s, n, P, r, T) ==
  /\ s \in Seq(T) /\ r \in Seq(T) /\ P \in Seq(Seq(T)) /\ P = Pieces(s, n)
  /\ Len(r) < n /\ Len(s) = n * Len(P) + Len(r)
  /\ r = SubSeq(s, n * Len(P) + 1, Len(s))

\* Nothing is cut into no pieces.
LEMMA CutEmpty ==
  ASSUME NEW T, NEW n \in Nat \ {0}
  PROVE  Cut(<<>>, n, <<>>, <<>>, T)
<1>1. 0 \div n = 0 /\ n * 0 + 0 = 0 /\ 0 < n
  OBVIOUS
<1>2. Len(<<>>) = 0 /\ <<>> \in Seq(T) /\ <<>> \in Seq(Seq(T))
  OBVIOUS
<1>3. Pieces(<<>>, n) = <<>>
  BY <1>1, <1>2 DEF Pieces
<1>4. SubSeq(<<>>, n * 0 + 1, 0) = <<>>
  BY <1>1
<1> QED
  BY <1>1, <1>2, <1>3, <1>4 DEF Cut

\* Multiples of n, and what lies between two of them.
LEMMA Multiples ==
  ASSUME NEW n \in Nat \ {0}, NEW q \in Nat
  PROVE  /\ \A r \in 0..(n - 1) : (n * q + r) \div n = q
         /\ n * (q + 1) = n * q + n /\ n * q \in Nat
         /\ (n * q + n) \div n = q + 1
         /\ \A k \in 1..q : /\ n * (k - 1) + 1 \in Nat /\ n * k \in Nat
                            /\ 1 <= n * (k - 1) + 1 /\ n * (k - 1) + 1 <= n * k + 1 
                            /\ n * k <= n * q
<1>1. \A r \in 0..(n - 1) : (n * q + r) \div n = q
  OBVIOUS
<1>2. n * (q + 1) = n * q + n /\ n * q \in Nat
  OBVIOUS
<1>3. (n * q + n) \div n = q + 1
  <2>1. \A p \in Nat : (n * p + 0) \div n = p
    OBVIOUS
  <2>2. n * (q + 1) + 0 = n * q + n /\ q + 1 \in Nat
    BY <1>2
  <2> QED
    BY <2>1, <2>2
<1>4. ASSUME NEW k \in 1..q
      PROVE  /\ n * (k - 1) + 1 \in Nat /\ n * k \in Nat
             /\ 1 <= n * (k - 1) + 1 /\ n * (k - 1) + 1 <= n * k + 1
             /\ n * k <= n * q
  OBVIOUS
<1> QED
  BY <1>1, <1>2, <1>3, <1>4

\* A number between two multiples has the quotient of the lower one.
LEMMA Quotient ==
  ASSUME NEW n \in Nat \ {0}, NEW q \in Nat, NEW a \in Nat, n * q <= a, a < n * q + n
  PROVE  a \div n = q
<1>1. PICK r : r = a - n * q
  OBVIOUS
<1>2. n * q \in Nat
  OBVIOUS
<1>3. r \in 0..(n - 1) /\ a = n * q + r
  BY <1>1, <1>2
<1>4. (n * q + r) \div n = q
  BY <1>3
<1> QED
  BY <1>3, <1>4

\* A suffix grows with its sequence.
LEMMA SubSeqAppendLast ==
  ASSUME NEW T, NEW s \in Seq(T), NEW x \in T, NEW a \in Nat, 1 <= a, a <= Len(s) + 1
  PROVE  SubSeq(Append(s, x), a, Len(s) + 1) = Append(SubSeq(s, a, Len(s)), x)
OBVIOUS

\* A segment of a sequence that grows is kept.
LEMMA SubSeqAppend ==
  ASSUME NEW T, NEW s \in Seq(T), NEW x \in T, NEW a \in Nat, NEW e \in Nat,
         1 <= a, e <= Len(s), a <= e + 1
  PROVE  SubSeq(Append(s, x), a, e) = SubSeq(s, a, e) /\ SubSeq(s, a, e) \in Seq(T)
OBVIOUS

\* The rest grows while it is shorter than a piece, and becomes one then.
LEMMA CutGrows ==
  ASSUME NEW T, NEW n \in Nat \ {0}, NEW s, NEW P, NEW r, NEW x \in T,
         Cut(s, n, P, r, T), Len(r) + 1 < n
  PROVE  Cut(Append(s, x), n, P, Append(r, x), T)
<1>20. P \in Seq(Seq(T))
  BY Zenon DEF Cut
<1>1. PICK q \in Nat : q = Len(P)
  BY <1>20
<1>21. s \in Seq(T) /\ r \in Seq(T) /\ Len(s) = n * q + Len(r)
  BY <1>1, Zenon DEF Cut
<1>2. /\ s \in Seq(T) /\ r \in Seq(T) /\ Len(s) = n * q + Len(r)
      /\ Len(r) \in Nat /\ Len(s) \in Nat /\ q \in Nat
  BY <1>1, <1>21
<1>23. n * q \in Nat /\ n * (q + 1) = n * q + n
  BY <1>2
<1>22. r = SubSeq(s, n * q + 1, Len(s))
  BY <1>1, Zenon DEF Cut
<1>3. Len(Append(s, x)) = n * q + (Len(r) + 1) /\ Len(Append(r, x)) = Len(r) + 1
  BY <1>2
<1>4. Append(s, x) \in Seq(T) /\ Append(r, x) \in Seq(T)
  BY <1>2
<1>5. Len(s) \div n = q /\ Len(Append(s, x)) \div n = q
  <2>1. n * q <= Len(s) /\ Len(s) < n * q + n
    BY <1>2, <1>23
  <2>2. /\ n * q <= Len(Append(s, x)) /\ Len(Append(s, x)) < n * q + n
        /\ Len(Append(s, x)) \in Nat
    BY <1>2, <1>3, <1>23
  <2> QED
    BY <1>2, <2>1, <2>2, Quotient
<1>6. Pieces(Append(s, x), n) = Pieces(s, n)
  <2>1. ASSUME NEW k \in 1..q
        PROVE  SubSeq(Append(s, x), n * (k - 1) + 1, n * k)
                 = SubSeq(s, n * (k - 1) + 1, n * k)
    <3>1. /\ n * (k - 1) + 1 \in Nat /\ n * k \in Nat
          /\ 1 <= n * (k - 1) + 1 /\ n * (k - 1) + 1 <= n * k + 1
          /\ n * k <= n * q /\ n * q \in Nat
      BY <1>1, Multiples
    <3>2. n * k <= Len(s)
      BY <1>2, <3>1
    <3> QED
      BY <1>2, <3>1, <3>2, SubSeqAppend
  <2> QED
    BY <1>5, <2>1 DEF Pieces
<1>7. SubSeq(Append(s, x), n * q + 1, Len(s) + 1) = Append(r, x)
  <2>1. n * q + 1 \in Nat /\ 1 <= n * q + 1 /\ n * q + 1 <= Len(s) + 1
    BY <1>2, <1>23
  <2>2. SubSeq(Append(s, x), n * q + 1, Len(s) + 1) = Append(SubSeq(s, n * q + 1, Len(s)), x)
    BY <1>2, <2>1, SubSeqAppendLast
  <2> QED
    BY <1>22, <2>2, Zenon
<1>8. P = Pieces(s, n)
  BY DEF Cut
<1>9. Len(Append(s, x)) = Len(s) + 1
  BY <1>2
<1> QED
  BY <1>1, <1>2, <1>20, <1>3, <1>4, <1>6, <1>7, <1>8, <1>9, Zenon DEF Cut

\* The element that completes a piece.
LEMMA CutCompletes ==
  ASSUME NEW T, NEW n \in Nat \ {0}, NEW s, NEW P, NEW r, NEW x \in T,
         Cut(s, n, P, r, T), Len(r) + 1 = n
  PROVE  Cut(Append(s, x), n, Append(P, Append(r, x)), <<>>, T)
<1>20. P \in Seq(Seq(T))
  BY Zenon DEF Cut
<1>1. PICK q \in Nat : q = Len(P)
  BY <1>20
<1>21. s \in Seq(T) /\ r \in Seq(T) /\ Len(s) = n * q + Len(r)
  BY <1>1, Zenon DEF Cut
<1>2. /\ s \in Seq(T) /\ r \in Seq(T) /\ Len(s) = n * q + Len(r)
      /\ Len(r) \in Nat /\ Len(s) \in Nat /\ q \in Nat
  BY <1>1, <1>21
<1>23. n * q \in Nat /\ n * (q + 1) = n * q + n
  BY <1>2
<1>22. r = SubSeq(s, n * q + 1, Len(s))
  BY <1>1, Zenon DEF Cut
<1> DEFINE z == Append(s, x)
           A == Append(P, Append(r, x))
<1>3. Len(z) = n * q + n /\ Len(z) = Len(s) + 1 /\ n * (q + 1) = n * q + n
  BY <1>2, <1>23
<1>4. z \in Seq(T) /\ Append(r, x) \in Seq(T)
  BY <1>2
<1>5. Len(s) \div n = q /\ Len(z) \div n = q + 1
  <2>1. n * q <= Len(s) /\ Len(s) < n * q + n
    BY <1>2, <1>23
  <2>2. /\ n * (q + 1) <= Len(z) /\ Len(z) < n * (q + 1) + n
        /\ Len(z) \in Nat /\ q + 1 \in Nat
    BY <1>2, <1>3, <1>23
  <2> HIDE DEF z
  <2>3. Len(s) \div n = q
    BY <1>2, <2>1, Quotient
  <2>4. Len(z) \div n = q + 1
    BY <2>2, Quotient
  <2> QED
    BY <2>3, <2>4
<1>6. A \in Seq(Seq(T)) /\ Len(A) = q + 1 /\ A[q + 1] = Append(r, x)
      /\ \A k \in 1..q : A[k] = P[k]
  BY <1>1, <1>4, <1>20
<1>7. ASSUME NEW k \in 1..q
      PROVE  A[k] = SubSeq(z, n * (k - 1) + 1, n * k)
  <2>1. /\ n * (k - 1) + 1 \in Nat /\ n * k \in Nat
        /\ 1 <= n * (k - 1) + 1 /\ n * (k - 1) + 1 <= n * k + 1
        /\ n * k <= n * q /\ n * q \in Nat
    BY <1>1, Multiples
  <2>2. n * k <= Len(s)
    BY <1>2, <2>1
  <2>3. SubSeq(z, n * (k - 1) + 1, n * k) = SubSeq(s, n * (k - 1) + 1, n * k)
    BY <1>2, <2>1, <2>2, SubSeqAppend
  <2>4. P = Pieces(s, n)
    BY DEF Cut
  <2>5. P[k] = SubSeq(s, n * (k - 1) + 1, n * k)
    BY <1>5, <2>4, Zenon DEF Pieces
  <2> QED
    BY <1>6, <2>3, <2>5
<1>8. A[q + 1] = SubSeq(z, n * q + 1, n * (q + 1))
  <2>1. n * q + 1 \in Nat /\ 1 <= n * q + 1 /\ n * q + 1 <= Len(s) + 1
    BY <1>2, <1>23
  <2>2. SubSeq(z, n * q + 1, Len(s) + 1) = Append(SubSeq(s, n * q + 1, Len(s)), x)
    BY <1>2, <2>1, SubSeqAppendLast
  <2> QED
    BY <1>3, <1>6, <1>22, <2>2
<1>9. A = Pieces(z, n)
  <2>1. ASSUME NEW k \in 1..(q + 1)
        PROVE  A[k] = SubSeq(z, n * (k - 1) + 1, n * k)
    <3>1. k \in 1..q \/ (k = q + 1 /\ k - 1 = q)
      BY <1>1
    <3> QED
      BY <1>7, <1>8, <3>1
  <2>2. DOMAIN A = 1..(q + 1) /\ A = [k \in 1..(q + 1) |-> A[k]]
    <3> HIDE DEF A
    <3> QED
      BY <1>6
  <2>3. A = [k \in 1..(q + 1) |-> SubSeq(z, n * (k - 1) + 1, n * k)]
    <3> HIDE DEF A, z
    <3> QED
      BY <2>1, <2>2, Zenon
  <2> HIDE DEF A, z
  <2> QED
    BY <1>5, <2>3, Zenon DEF Pieces
<1>10. SubSeq(z, n * (q + 1) + 1, Len(z)) = <<>>
  BY <1>3, <1>4
<1>11. Len(<<>>) < n /\ Len(z) = n * (q + 1) + Len(<<>>)
  BY <1>3
<1>12. <<>> \in Seq(T)
  OBVIOUS
<1> HIDE DEF A, z
<1> QED
  <2>1. Cut(z, n, A, <<>>, T)
    BY <1>4, <1>6, <1>9, <1>10, <1>11, <1>12, Zenon DEF Cut
  <2> QED
    BY <2>1 DEF A, z

-----------------------------------------------------------------------------
(* The definitions by position, for a byte string that grows by one byte.  *)

\* c is the n bytes b followed by x.
Longer(b, c, n, x) == n \in Nat /\ (\A j \in 1..n : c[j] = b[j]) /\ c[n + 1] = x

\* Whether a byte is in a message depends on the bytes before it only.
LEMMA InMessageLocal ==
  ASSUME NEW b, NEW c, NEW n, NEW x, Longer(b, c, n, x), NEW i \in 1..(n + 1)
  PROVE  InMessage(c, i) <=> InMessage(b, i)
<1>1. n \in Nat /\ \A j \in 1..(i - 1) : c[j] = b[j]
  BY DEF Longer
<1>2. \A j \in 1..(i - 1) : \A k \in j..(i - 1) : k \in 1..(i - 1)
  BY <1>1
<1> QED
  BY <1>1, <1>2, Zenon DEF InMessage

\* Whether a byte is plain depends on the bytes up to it only.
LEMMA PlainLocal ==
  ASSUME NEW b, NEW c, NEW n, NEW x, Longer(b, c, n, x), NEW i \in 1..n
  PROVE  Plain(c, i) <=> Plain(b, i)
<1>1. c[i] = b[i] /\ i \in 1..(n + 1)
  BY DEF Longer
<1>2. InMessage(c, i) <=> InMessage(b, i)
  BY <1>1, InMessageLocal
<1> QED
  BY <1>1, <1>2 DEF Plain

\* Whether a byte is in the data depends on the bytes before it only.
LEMMA InDataLocal ==
  ASSUME NEW b, NEW c, NEW n, NEW x, Longer(b, c, n, x), NEW i \in 1..(n + 1)
  PROVE  InData(c, i) <=> InData(b, i)
<1>1. n \in Nat /\ \A j \in 1..(i - 1) : j \in 1..n /\ c[j] = b[j]
  BY DEF Longer
<1>2. \A j \in 1..(i - 1) : \A k \in j..(i - 1) : k \in 1..(i - 1)
  BY <1>1
<1>3. \A j \in 1..(i - 1) : Plain(c, j) <=> Plain(b, j)
  BY <1>1, PlainLocal
<1>4. \A j \in 1..(i - 1) :
        /\ Plain(c, j) /\ c[j] = DATA_START <=> Plain(b, j) /\ b[j] = DATA_START
        /\ Plain(c, j) /\ c[j] = DATA_END <=> Plain(b, j) /\ b[j] = DATA_END
  BY <1>1, <1>3, Zenon
<1> QED
  BY <1>2, <1>4, Zenon DEF InData

\* The parser's in_message, byte by byte.
LEMMA InMessageNext ==
  ASSUME NEW b, NEW c, NEW n, NEW x, Longer(b, c, n, x)
  PROVE  InMessage(c, n + 2) <=> IF InMessage(b, n + 1) THEN x # MESSAGE_END
                                 ELSE x = MESSAGE_START
<1>1. n \in Nat /\ n + 2 - 1 = n + 1 /\ n + 1 - 1 = n /\ n + 1 \in 1..(n + 1)
  BY DEF Longer
<1>2. c[n + 1] = x /\ \A j \in 1..n : c[j] = b[j]
  BY DEF Longer
<1>3. InMessage(b, n + 1) <=>
        \E j \in 1..n : b[j] = MESSAGE_START /\ \A k \in j..n : b[k] # MESSAGE_END
  BY <1>1 DEF InMessage
<1>4. InMessage(c, n + 2) <=>
        \E j \in 1..(n + 1) : c[j] = MESSAGE_START /\ \A k \in j..(n + 1) : c[k] # MESSAGE_END
  BY <1>1 DEF InMessage
<1>5. \A j \in 1..n : \A k \in j..(n + 1) : k = n + 1 \/ (k \in j..n /\ k \in 1..n)
  BY <1>1
<1>6. \A j \in 1..n : j \in 1..(n + 1) /\ n + 1 \in j..(n + 1)
                      /\ \A k \in j..n : k \in j..(n + 1) /\ k \in 1..n
  BY <1>1
<1>7. \A k \in (n + 1)..(n + 1) : k = n + 1
  BY <1>1
<1>8. MESSAGE_START # MESSAGE_END
  BY DEF MESSAGE_START, MESSAGE_END
<1>9. \A j \in 1..(n + 1) : j = n + 1 \/ j \in 1..n
  BY <1>1
<1>10. CASE x = MESSAGE_END
  <2>1. ASSUME NEW j \in 1..(n + 1), c[j] = MESSAGE_START,
               \A k \in j..(n + 1) : c[k] # MESSAGE_END
        PROVE  FALSE
    <3>1. n + 1 \in j..(n + 1)
      BY <1>1
    <3> QED
      BY <1>2, <1>10, <2>1, <3>1
  <2> QED
    BY <1>4, <1>8, <1>10, <2>1
<1>11. CASE x # MESSAGE_END
  <2>1. ASSUME InMessage(b, n + 1)
        PROVE  InMessage(c, n + 2)
    <3>1. PICK j \in 1..n : b[j] = MESSAGE_START /\ \A k \in j..n : b[k] # MESSAGE_END
      BY <1>3, <2>1
    <3>2. \A k \in j..(n + 1) : c[k] # MESSAGE_END
      BY <1>2, <1>5, <1>11, <3>1, Zenon
    <3>3. c[j] = MESSAGE_START /\ j \in 1..(n + 1)
      BY <1>2, <1>6, <3>1, Zenon
    <3> QED
      BY <1>4, <3>2, <3>3, Zenon
  <2>2. ASSUME ~InMessage(b, n + 1), x = MESSAGE_START
        PROVE  InMessage(c, n + 2)
    <3>1. n + 1 \in 1..(n + 1)
      BY <1>1
    <3> QED
      BY <1>2, <1>4, <1>7, <1>11, <2>2, <3>1, Zenon
  <2>3. ASSUME ~InMessage(b, n + 1), InMessage(c, n + 2)
        PROVE  x = MESSAGE_START
    <3>1. PICK j \in 1..(n + 1) : c[j] = MESSAGE_START /\ \A k \in j..(n + 1) : c[k] # MESSAGE_END
      BY <1>4, <2>3, Zenon
    <3>2. ASSUME j \in 1..n
          PROVE  FALSE
      <4>1. b[j] = MESSAGE_START
        BY <1>2, <3>1, <3>2
      <4>2. \A k \in j..n : b[k] # MESSAGE_END
        BY <1>2, <1>6, <3>1, <3>2, Zenon
      <4> QED
        BY <1>3, <2>3, <3>2, <4>1, <4>2, Zenon
    <3>3. j = n + 1
      BY <1>9, <3>2
    <3> QED
      BY <1>2, <3>1, <3>3
  <2> QED
    BY <1>11, <2>1, <2>2, <2>3, Zenon
<1> QED
  BY <1>10, <1>11

\* The parser's in_data, byte by byte.
LEMMA InDataNext ==
  ASSUME NEW b, NEW c, NEW n, NEW x, Longer(b, c, n, x)
  PROVE  InData(c, n + 2) <=>
           /\ ~(Plain(c, n + 1) /\ x = DATA_END)
           /\ InData(b, n + 1) \/ (Plain(c, n + 1) /\ x = DATA_START)
<1>1. n \in Nat /\ n + 2 - 1 = n + 1 /\ n + 1 - 1 = n /\ n + 1 \in 1..(n + 1)
  BY DEF Longer
<1>2. c[n + 1] = x /\ \A j \in 1..n : c[j] = b[j]
  BY DEF Longer
<1>3. \A j \in 1..n : Plain(c, j) <=> Plain(b, j)
  BY PlainLocal
<1> DEFINE End(d, k) == Plain(d, k) /\ d[k] = DATA_END
           Start(d, j) == Plain(d, j) /\ d[j] = DATA_START
<1>4. \A j \in 1..n : (End(c, j) <=> End(b, j)) /\ (Start(c, j) <=> Start(b, j))
  BY <1>2, <1>3, Zenon
<1>5. InData(b, n + 1) <=> \E j \in 1..n : Start(b, j) /\ \A k \in j..n : ~End(b, k)
  BY <1>1 DEF InData
<1>6. InData(c, n + 2) <=> \E j \in 1..(n + 1) : Start(c, j) /\ \A k \in j..(n + 1) : ~End(c, k)
  BY <1>1 DEF InData
<1>7. End(c, n + 1) <=> Plain(c, n + 1) /\ x = DATA_END
  BY <1>2, Zenon
<1>8. Start(c, n + 1) <=> Plain(c, n + 1) /\ x = DATA_START
  BY <1>2, Zenon
<1>9. ~(Start(c, n + 1) /\ End(c, n + 1))
  BY <1>7, <1>8 DEF DATA_START, DATA_END
<1> HIDE DEF End, Start
<1>10. \A j \in 1..n : \A k \in j..(n + 1) : k = n + 1 \/ (k \in j..n /\ k \in 1..n)
  BY <1>1
<1>11. \A j \in 1..n : j \in 1..(n + 1) /\ n + 1 \in j..(n + 1)
                       /\ \A k \in j..n : k \in j..(n + 1) /\ k \in 1..n
  BY <1>1
<1>12. \A k \in (n + 1)..(n + 1) : k = n + 1
  BY <1>1
<1>13. \A j \in 1..(n + 1) : (j = n + 1 \/ j \in 1..n) /\ n + 1 \in j..(n + 1)
  BY <1>1
<1>14. ASSUME InData(c, n + 2)
       PROVE  ~End(c, n + 1) /\ (InData(b, n + 1) \/ Start(c, n + 1))
  <2>1. PICK j \in 1..(n + 1) : Start(c, j) /\ \A k \in j..(n + 1) : ~End(c, k)
    BY <1>6, <1>14, Zenon
  <2>2. ~End(c, n + 1)
    BY <1>13, <2>1, Zenon
  <2>3. ASSUME j \in 1..n
        PROVE  InData(b, n + 1)
    <3>1. Start(b, j) /\ \A k \in j..n : ~End(b, k)
      BY <1>4, <1>11, <2>1, <2>3, Zenon
    <3> QED
      BY <1>5, <2>3, <3>1, Zenon
  <2> QED
    BY <1>13, <2>1, <2>2, <2>3, Zenon
<1>15. ASSUME ~End(c, n + 1), InData(b, n + 1)
       PROVE  InData(c, n + 2)
  <2>1. PICK j \in 1..n : Start(b, j) /\ \A k \in j..n : ~End(b, k)
    BY <1>5, <1>15, Zenon
  <2>2. Start(c, j) /\ \A k \in j..(n + 1) : ~End(c, k)
    BY <1>4, <1>10, <1>15, <2>1, Zenon
  <2> QED
    BY <1>6, <1>11, <2>2, Zenon
<1>16. ASSUME Start(c, n + 1)
       PROVE  InData(c, n + 2)
  BY <1>1, <1>6, <1>9, <1>12, <1>16, Zenon
<1> QED
  BY <1>7, <1>8, <1>14, <1>15, <1>16, Zenon

\* A byte string and the one that is longer by a byte.
LEMMA AppendLonger ==
  ASSUME NEW T, NEW b \in Seq(T), NEW x \in T
  PROVE  /\ Longer(b, Append(b, x), Len(b), x)
         /\ Append(b, x) \in Seq(T) /\ Len(Append(b, x)) = Len(b) + 1
         /\ DOMAIN b = 1..Len(b) /\ DOMAIN Append(b, x) = 1..(Len(b) + 1)
BY DEF Longer

\* The transmission that starts at i has not ended within the first n bytes.
Unended(b, i, n) == \A k \in i..n : ~(Plain(b, k) /\ b[k] = DATA_END)

Starting(b, i) == Plain(b, i) /\ b[i] = DATA_START /\ ~InData(b, i)

\* A transmission's start stays one.
LEMMA StartingLocal ==
  ASSUME NEW b, NEW c, NEW n, NEW x, Longer(b, c, n, x), NEW i \in 1..n
  PROVE  Starting(c, i) <=> Starting(b, i)
<1>1. i \in 1..(n + 1) /\ c[i] = b[i]
  BY DEF Longer
<1>2. (Plain(c, i) <=> Plain(b, i)) /\ (InData(c, i) <=> InData(b, i))
  BY <1>1, PlainLocal, InDataLocal
<1> QED
  BY <1>1, <1>2, Zenon DEF Starting

\* The bytes of a transmission stay its bytes.
LEMMA WithinLocal ==
  ASSUME NEW b, NEW c, NEW n, NEW x, Longer(b, c, n, x), NEW i \in 1..n, NEW j \in 1..n
  PROVE  Within(c, i, j) <=> Within(b, i, j)
<1>1. \A k \in i..j : k \in 1..n /\ c[k] = b[k]
  BY DEF Longer
<1>2. \A k \in i..j : Plain(c, k) <=> Plain(b, k)
  BY <1>1, PlainLocal
<1>3. Plain(c, j) <=> Plain(b, j)
  BY PlainLocal
<1> QED
  BY <1>1, <1>2, <1>3, Zenon DEF Within

\* The last byte belongs to a transmission that had not ended, if it is plain and
\* does not end it.
LEMMA WithinLast ==
  ASSUME NEW b, NEW c, NEW n, NEW x, Longer(b, c, n, x), NEW i \in 1..n
  PROVE  Within(c, i, n + 1) <=> Plain(c, n + 1) /\ x # DATA_END /\ Unended(b, i, n)
<1>1. n \in Nat /\ i < n + 1 /\ c[n + 1] = x /\ n + 1 \in i..(n + 1)
  BY DEF Longer
<1>2. \A k \in i..n : k \in 1..n /\ c[k] = b[k] /\ k \in i..(n + 1)
  BY DEF Longer
<1>3. \A k \in i..n : Plain(c, k) <=> Plain(b, k)
  BY <1>2, PlainLocal
<1>4. \A k \in i..(n + 1) : k = n + 1 \/ k \in i..n
  BY <1>1
<1>5. ASSUME Within(c, i, n + 1)
      PROVE  Plain(c, n + 1) /\ x # DATA_END /\ Unended(b, i, n)
  <2>1. Plain(c, n + 1) /\ \A k \in i..(n + 1) : ~(Plain(c, k) /\ c[k] = DATA_END)
    BY <1>5, Zenon DEF Within
  <2>2. x # DATA_END
    BY <1>1, <2>1, Zenon
  <2>3. Unended(b, i, n)
    BY <1>2, <1>3, <2>1, Zenon DEF Unended
  <2> QED
    BY <2>1, <2>2, <2>3, Zenon
<1>6. ASSUME Plain(c, n + 1), x # DATA_END, Unended(b, i, n)
      PROVE  Within(c, i, n + 1)
  <2>1. \A k \in i..(n + 1) : ~(Plain(c, k) /\ c[k] = DATA_END)
    BY <1>1, <1>2, <1>3, <1>4, <1>6, Zenon DEF Unended
  <2> QED
    BY <1>1, <1>6, <2>1, Zenon DEF Within
<1> QED
  BY <1>5, <1>6, Zenon

\* Of the transmissions before the one that starts at i none is unended.
LEMMA EarlierEnded ==
  ASSUME NEW b, NEW n \in Nat, NEW i \in 1..(n + 1), ~InData(b, i),
         NEW j \in 1..(i - 1), Starting(b, j)
  PROVE  ~Unended(b, j, n)
<1>1. \A k \in j..(i - 1) : k \in j..n
  OBVIOUS
<1>2. \E k \in j..(i - 1) : Plain(b, k) /\ b[k] = DATA_END
  BY Zenon DEF InData, Starting
<1> QED
  BY <1>1, <1>2, Zenon DEF Unended

\* What is joined has elements of the same set.
LEMMA FlattenType ==
  ASSUME NEW T, NEW v \in Seq(Seq(T))
  PROVE  FlattenSeq(v) \in Seq(T)
<1>1. PICK f : Joins(f, v, Len(v), T) /\ f[Len(v)] = FlattenSeq(v)
  BY FlattenJoins
<1>2. Len(v) \in 0..Len(v)
  OBVIOUS
<1>3. f \in [0..Len(v) -> Seq(T)]
  BY <1>1, Zenon DEF Joins
<1> QED
  BY <1>1, <1>2, <1>3, Zenon

\* Empty sequences join to the empty one.
LEMMA FlattenEmpty ==
  ASSUME NEW T, NEW v \in Seq(Seq(T)), \A k \in 1..Len(v) : v[k] = <<>>
  PROVE  FlattenSeq(v) = <<>>
<1>1. PICK n \in Nat : n = Len(v)
  OBVIOUS
<1>2. PICK f : Joins(f, v, n, T) /\ f[n] = FlattenSeq(v)
  BY <1>1, FlattenJoins
<1> DEFINE S == {k \in Nat : k <= n => f[k] = <<>>}
<1>3. 0 \in S
  <2>1. f[0] = <<>>
    BY <1>2, Zenon DEF Joins
  <2> QED
    BY <2>1
<1>4. ASSUME NEW j \in Nat, j \in S
      PROVE  j + 1 \in S
  <2>1. ASSUME NEW k \in 1..n, k - 1 = j
        PROVE  f[k] = <<>>
    <3>1. f[k - 1] = <<>>
      BY <1>1, <1>4, <2>1
    <3>2. Joined(f, v, k, T)
      BY <1>1, <1>2, JoinsAt
    <3>3. f[k] = <<>> \o <<>>
      BY <1>1, <3>1, <3>2, Zenon DEF Joined, Extends
    <3> QED
      BY <3>3
  <2>2. PICK k : k = j + 1
    OBVIOUS
  <2>3. k <= n => k \in 1..n /\ k - 1 = j
    BY <1>1, <2>2
  <2>4. k \in Nat /\ (k <= n => f[k] = <<>>)
    BY <2>1, <2>2, <2>3
  <2> QED
    BY <2>2, <2>4
<1>5. Nat \subseteq S
  <2> HIDE DEF S
  <2> QED
    BY <1>3, <1>4, Counting
<1> QED
  <2>1. n \in S /\ n <= n
    BY <1>1, <1>5
  <2> QED
    BY <1>2, <2>1

-----------------------------------------------------------------------------
(* The digits and samples of a transmission, byte by byte. *)

\* To extend by one element is to append it.
LEMMA ExtendsByOne ==
  ASSUME NEW T, NEW s \in Seq(T), NEW x \in T, NEW r, Extends(r, s, <<x>>)
  PROVE  r = Append(s, x)
<1>1. s \o <<x>> = Append(s, x)
  OBVIOUS
<1> QED
  BY <1>1, Zenon DEF Extends

\* To extend by nothing changes nothing.
LEMMA ExtendsByNone ==
  ASSUME NEW T, NEW s \in Seq(T), NEW r, Extends(r, s, <<>>)
  PROVE  r = s
<1>1. s \o <<>> = s
  OBVIOUS
<1> QED
  BY <1>1, Zenon DEF Extends

DigitsAt(b, i) ==
  [j \in DOMAIN b |-> IF Within(b, i, j) /\ b[j] \in Digits THEN <<b[j]>> ELSE <<>>]

\* Per byte, the digit that it is to a transmission, or none.
LEMMA DigitsAtType ==
  ASSUME NEW b \in Seq(Bytes), NEW i
  PROVE  /\ DigitsAt(b, i) \in Seq(Seq(Digits)) /\ Len(DigitsAt(b, i)) = Len(b)
         /\ DOMAIN DigitsAt(b, i) = 1..Len(b)
<1>1. \A y \in Digits : <<y>> \in Seq(Digits)
  OBVIOUS
<1>2. <<>> \in Seq(Digits)
  OBVIOUS
<1>3. DOMAIN b = 1..Len(b) /\ Len(b) \in Nat
  OBVIOUS
<1> DEFINE v == DigitsAt(b, i)
<1>4. DOMAIN v = 1..Len(b) /\ \A j \in 1..Len(b) : v[j] \in Seq(Digits)
  BY <1>1, <1>2, <1>3, Zenon DEF DigitsAt
<1>5. v = [j \in 1..Len(b) |-> v[j]]
  BY <1>3, Zenon DEF DigitsAt
<1> HIDE DEF v
<1>6. v \in Seq(Seq(Digits)) /\ Len(v) = Len(b)
  BY <1>3, <1>4, <1>5
<1> QED
  BY <1>4, <1>6 DEF v

\* The digits of a transmission are digits.
LEMMA DigitsFromType ==
  ASSUME NEW b \in Seq(Bytes), NEW i
  PROVE  DigitsFrom(b, i) \in Seq(Digits)
<1>1. DigitsFrom(b, i) = FlattenSeq(DigitsAt(b, i))
  BY Zenon DEF DigitsFrom, DigitsAt
<1> QED
  BY <1>1, DigitsAtType, FlattenType

\* The last byte adds the digit that it is, if any.
LEMMA DigitsExtend ==
  ASSUME NEW b \in Seq(Bytes), NEW x \in Bytes, NEW i \in 1..Len(b)
  PROVE  Extends(DigitsFrom(Append(b, x), i), DigitsFrom(b, i),
                 DigitsAt(Append(b, x), i)[Len(b) + 1])
<1> DEFINE c == Append(b, x)
           v == DigitsAt(b, i)
           w == DigitsAt(c, i)
<1>1. PICK n \in Nat : n = Len(b)
  OBVIOUS
<1>2. /\ Longer(b, c, n, x) /\ c \in Seq(Bytes) /\ Len(c) = n + 1
      /\ DOMAIN b = 1..n /\ DOMAIN c = 1..(n + 1)
  BY <1>1, AppendLonger
<1> HIDE DEF c
<1>3. v \in Seq(Seq(Digits)) /\ Len(v) = n
  BY <1>1, DigitsAtType
<1>4. w \in Seq(Seq(Digits)) /\ Len(w) = n + 1
  BY <1>2, DigitsAtType
<1>5. Same(v, w, 1, n)
  <2>1. ASSUME NEW j \in 1..n
        PROVE  v[j] = w[j]
    <3>1. c[j] = b[j] /\ j \in DOMAIN c
      BY <1>1, <1>2 DEF Longer
    <3>2. Within(c, i, j) <=> Within(b, i, j)
      BY <1>1, <1>2, WithinLocal
    <3> QED
      BY <1>2, <3>1, <3>2, Zenon DEF DigitsAt
  <2> QED
    BY <2>1, Zenon DEF Same
<1> HIDE DEF v, w
<1>6. Extends(FlattenSeq(w), FlattenSeq(v), w[Len(w)])
  BY <1>1, <1>3, <1>4, <1>5, FlattenAppend
<1> QED
  BY <1>1, <1>4, <1>6, Zenon DEF c, v, w, DigitsFrom, DigitsAt

\* A byte that is no digit of the transmission changes nothing.
LEMMA DigitsQuiet ==
  ASSUME NEW b \in Seq(Bytes), NEW x \in Bytes, NEW i \in 1..Len(b),
         ~(Within(Append(b, x), i, Len(b) + 1) /\ x \in Digits)
  PROVE  DigitsFrom(Append(b, x), i) = DigitsFrom(b, i)
<1>1. Extends(DigitsFrom(Append(b, x), i), DigitsFrom(b, i),
              DigitsAt(Append(b, x), i)[Len(b) + 1])
  BY DigitsExtend
<1>2. Append(b, x)[Len(b) + 1] = x /\ Len(b) + 1 \in DOMAIN Append(b, x)
  <2>1. Longer(b, Append(b, x), Len(b), x) /\ DOMAIN Append(b, x) = 1..(Len(b) + 1)
    BY AppendLonger
  <2>2. Len(b) + 1 \in 1..(Len(b) + 1)
    OBVIOUS
  <2> QED
    BY <2>1, <2>2, Zenon DEF Longer
<1>3. DigitsAt(Append(b, x), i)[Len(b) + 1] = <<>>
  BY <1>2, Zenon DEF DigitsAt
<1>4. DigitsFrom(b, i) \in Seq(Digits)
  BY DigitsFromType
<1>5. Extends(DigitsFrom(Append(b, x), i), DigitsFrom(b, i), <<>>)
  BY <1>1, <1>3, Zenon
<1> QED
  BY <1>4, <1>5, ExtendsByNone

\* A digit of the transmission is one digit more.
LEMMA DigitsGrow ==
  ASSUME NEW b \in Seq(Bytes), NEW x \in Bytes, NEW i \in 1..Len(b),
         Within(Append(b, x), i, Len(b) + 1), x \in Digits
  PROVE  DigitsFrom(Append(b, x), i) = Append(DigitsFrom(b, i), x)
<1>1. Extends(DigitsFrom(Append(b, x), i), DigitsFrom(b, i),
              DigitsAt(Append(b, x), i)[Len(b) + 1])
  BY DigitsExtend
<1>2. Append(b, x)[Len(b) + 1] = x /\ Len(b) + 1 \in DOMAIN Append(b, x)
  <2>1. Longer(b, Append(b, x), Len(b), x) /\ DOMAIN Append(b, x) = 1..(Len(b) + 1)
    BY AppendLonger
  <2>2. Len(b) + 1 \in 1..(Len(b) + 1)
    OBVIOUS
  <2> QED
    BY <2>1, <2>2, Zenon DEF Longer
<1>3. DigitsAt(Append(b, x), i)[Len(b) + 1] = <<x>>
  BY <1>2, Zenon DEF DigitsAt
<1>4. DigitsFrom(b, i) \in Seq(Digits)
  BY DigitsFromType
<1>5. Extends(DigitsFrom(Append(b, x), i), DigitsFrom(b, i), <<x>>)
  BY <1>1, <1>3, Zenon
<1> QED
  BY <1>4, <1>5, ExtendsByOne

\* A transmission begins without digits.
LEMMA DigitsNew ==
  ASSUME NEW b \in Seq(Bytes)
  PROVE  DigitsFrom(b, Len(b)) = <<>>
<1>1. PICK n \in Nat : n = Len(b)
  OBVIOUS
<1>2. DigitsAt(b, n) \in Seq(Seq(Digits)) /\ Len(DigitsAt(b, n)) = n
  BY <1>1, DigitsAtType
<1>3. DOMAIN b = 1..n /\ \A j \in 1..n : ~(n < j)
  BY <1>1
<1>4. \A j \in 1..n : DigitsAt(b, n)[j] = <<>>
  BY <1>3, Zenon DEF DigitsAt, Within
<1>5. FlattenSeq(DigitsAt(b, n)) = <<>>
  BY <1>2, <1>4, FlattenEmpty
<1> QED
  BY <1>1, <1>5, Zenon DEF DigitsFrom, DigitsAt

\* The value of a digit is its place among the digits.
LEMMA DigitValType == \A d \in Digits : DigitVal[d] \in Nat /\ DigitVal[d] < Base /\ DigitOf(DigitVal[d]) = d
<1> SUFFICES ASSUME NEW d \in Digits
             PROVE  DigitVal[d] \in Nat /\ DigitVal[d] < Base /\ DigitOf(DigitVal[d]) = d
  OBVIOUS
<1>1. Base \in Nat
  BY WireAssumption
<1>2. PICK k \in 1..Base : d = HexDigits[k]
  BY DEF Digits
<1>3. k - 1 \in 0..(Base - 1) /\ DigitOf(k - 1) = d
  BY <1>1, <1>2 DEF DigitOf
<1>4. DigitVal[d] = CHOOSE v \in 0..(Base - 1) : DigitOf(v) = d
  BY Zenon DEF DigitVal
<1>5. DigitVal[d] \in 0..(Base - 1) /\ DigitOf(DigitVal[d]) = d
  BY <1>3, <1>4, Zenon
<1> QED
  BY <1>1, <1>5

\* The value of digits is a number.
LEMMA ValueType ==
  ASSUME NEW s \in Seq(Digits)
  PROVE  Value(s) \in Nat
<1>1. PICK n \in Nat : n = Len(s) /\ DOMAIN s = 1..n
  OBVIOUS
<1>2. PICK f : /\ DOMAIN f = 0..n /\ f[0] = 0 /\ f[n] = Value(s)
               /\ \A k \in 1..n : f[k] = Base * f[k - 1] + DigitVal[s[k]]
  BY <1>1, ValueSteps
<1> DEFINE S == {k \in Nat : k <= n => f[k] \in Nat}
<1>3. 0 \in S
  BY <1>2
<1>4. ASSUME NEW j \in Nat, j \in S
      PROVE  j + 1 \in S
  <2>1. ASSUME NEW k \in 1..n, k - 1 = j
        PROVE  f[k] \in Nat
    <3>1. f[j] \in Nat /\ s[k] \in Digits /\ Base \in Nat
      BY <1>1, <1>4, <2>1, WireAssumption
    <3>2. f[k] = Base * f[j] + DigitVal[s[k]]
      BY <1>2, <2>1
    <3>3. DigitVal[s[k]] \in Nat
      BY <3>1, DigitValType
    <3> QED
      BY <3>1, <3>2, <3>3
  <2>2. PICK k : k = j + 1
    OBVIOUS
  <2>3. k <= n => k \in 1..n /\ k - 1 = j
    BY <1>1, <2>2
  <2>4. k \in Nat /\ (k <= n => f[k] \in Nat)
    BY <2>1, <2>2, <2>3
  <2> QED
    BY <2>2, <2>4
<1>5. Nat \subseteq S
  <2> HIDE DEF S
  <2> QED
    BY <1>3, <1>4, Counting
<1> QED
  <2>1. n \in S /\ n <= n
    BY <1>1, <1>5
  <2> QED
    BY <1>2, <2>1

SampleAt(words) ==
  [k \in DOMAIN words |-> IF Value(words[k]) = EndMarker THEN <<>> ELSE <<Value(words[k])>>]

\* Per word, the sample that it is, or none.
LEMMA SampleAtType ==
  ASSUME NEW P \in Seq(Seq(Digits))
  PROVE  SampleAt(P) \in Seq(Seq(Nat)) /\ Len(SampleAt(P)) = Len(P)
<1>1. DOMAIN P = 1..Len(P) /\ Len(P) \in Nat /\ \A k \in 1..Len(P) : P[k] \in Seq(Digits)
  OBVIOUS
<1>2. \A k \in 1..Len(P) : Value(P[k]) \in Nat
  BY <1>1, ValueType
<1>3. <<>> \in Seq(Nat) /\ \A y \in Nat : <<y>> \in Seq(Nat)
  OBVIOUS
<1> DEFINE v == SampleAt(P)
<1>4. \A k \in 1..Len(P) : v[k] \in Seq(Nat)
  BY <1>1, <1>2, <1>3, Zenon DEF SampleAt
<1>5. v = [k \in 1..Len(P) |-> v[k]]
  BY <1>1, Zenon DEF SampleAt
<1> HIDE DEF v
<1>6. v \in Seq(Seq(Nat)) /\ Len(v) = Len(P)
  BY <1>1, <1>4, <1>5
<1> QED
  BY <1>6 DEF v

\* The samples of words are numbers.
LEMMA SamplesOfType ==
  ASSUME NEW P \in Seq(Seq(Digits))
  PROVE  SamplesOf(P) \in Seq(Nat)
<1>1. SamplesOf(P) = FlattenSeq(SampleAt(P))
  BY Zenon DEF SamplesOf, SampleAt
<1> QED
  BY <1>1, SampleAtType, FlattenType

\* No words have no samples.
LEMMA SamplesOfEmpty == SamplesOf(<<>>) = <<>>
<1>1. <<>> \in Seq(Seq(Digits)) /\ Len(<<>>) = 0
  OBVIOUS
<1>2. SampleAt(<<>>) \in Seq(Seq(Nat)) /\ Len(SampleAt(<<>>)) = 0
  BY <1>1, SampleAtType
<1>3. FlattenSeq(SampleAt(<<>>)) = <<>>
  <2>1. \A k \in 1..0 : SampleAt(<<>>)[k] = <<>>
    OBVIOUS
  <2> QED
    BY <1>2, <2>1, FlattenEmpty
<1> QED
  BY <1>3, Zenon DEF SamplesOf, SampleAt

\* One more word is one more sample, unless it is the end marker.
LEMMA SamplesOfAppend ==
  ASSUME NEW P \in Seq(Seq(Digits)), NEW w \in Seq(Digits)
  PROVE  SamplesOf(Append(P, w)) = IF Value(w) = EndMarker THEN SamplesOf(P)
                                   ELSE Append(SamplesOf(P), Value(w))
<1> DEFINE Z == Append(P, w)
<1>1. /\ Longer(P, Z, Len(P), w) /\ Z \in Seq(Seq(Digits)) /\ Len(Z) = Len(P) + 1
      /\ DOMAIN P = 1..Len(P) /\ DOMAIN Z = 1..(Len(P) + 1) /\ Len(P) \in Nat
  BY AppendLonger
<1> HIDE DEF Z
<1>2. SampleAt(P) \in Seq(Seq(Nat)) /\ Len(SampleAt(P)) = Len(P)
  BY SampleAtType
<1>3. SampleAt(Z) \in Seq(Seq(Nat)) /\ Len(SampleAt(Z)) = Len(P) + 1
  BY <1>1, SampleAtType
<1>4. Same(SampleAt(P), SampleAt(Z), 1, Len(P))
  <2>1. ASSUME NEW k \in 1..Len(P)
        PROVE  SampleAt(P)[k] = SampleAt(Z)[k]
    <3>1. k \in DOMAIN Z /\ k \in DOMAIN P
      BY <1>1
    <3>2. Z[k] = P[k]
      BY <1>1, Zenon DEF Longer
    <3> QED
      BY <3>1, <3>2, Zenon DEF SampleAt
  <2> QED
    BY <2>1, Zenon DEF Same
<1>5. Extends(FlattenSeq(SampleAt(Z)), FlattenSeq(SampleAt(P)), SampleAt(Z)[Len(P) + 1])
  BY <1>2, <1>3, <1>4, FlattenAppend
<1>6. SampleAt(Z)[Len(P) + 1] = IF Value(w) = EndMarker THEN <<>> ELSE <<Value(w)>>
  <2>1. Len(P) + 1 \in DOMAIN Z
    BY <1>1
  <2>2. Z[Len(P) + 1] = w
    BY <1>1, Zenon DEF Longer
  <2> QED
    BY <2>1, <2>2, Zenon DEF SampleAt
<1>7. FlattenSeq(SampleAt(Z)) = SamplesOf(Z) /\ FlattenSeq(SampleAt(P)) = SamplesOf(P)
  BY Zenon DEF SamplesOf, SampleAt
<1>8. SamplesOf(P) \in Seq(Nat) /\ Value(w) \in Nat
  BY SamplesOfType, ValueType
<1>9. CASE Value(w) = EndMarker
  <2>1. Extends(SamplesOf(Z), SamplesOf(P), <<>>)
    BY <1>5, <1>6, <1>7, <1>9, Zenon
  <2>2. SamplesOf(Z) = SamplesOf(P)
    BY <1>8, <2>1, ExtendsByNone
  <2> QED
    BY <1>9, <2>2, Zenon DEF Z
<1>10. CASE Value(w) # EndMarker
  <2>1. Extends(SamplesOf(Z), SamplesOf(P), <<Value(w)>>)
    BY <1>5, <1>6, <1>7, <1>10, Zenon
  <2>2. SamplesOf(Z) = Append(SamplesOf(P), Value(w))
    BY <1>8, <2>1, ExtendsByOne
  <2> QED
    BY <1>10, <2>2, Zenon DEF Z
<1> QED
  BY <1>9, <1>10

\* Pieces of a sequence are sequences over the same set.
LEMMA PiecesType ==
  ASSUME NEW T, NEW s \in Seq(T), NEW n \in Nat \ {0}
  PROVE  Pieces(s, n) \in Seq(Seq(T))
<1>1. PICK q \in Nat : q = Len(s) \div n
  OBVIOUS
<1>2. n * q <= Len(s) /\ n * q \in Nat /\ Len(s) \in Nat
  BY <1>1
<1>3. ASSUME NEW k \in 1..q
      PROVE  SubSeq(s, n * (k - 1) + 1, n * k) \in Seq(T)
  <2>1. /\ n * (k - 1) + 1 \in Nat /\ n * k \in Nat
        /\ 1 <= n * (k - 1) + 1 /\ n * (k - 1) + 1 <= n * k + 1
        /\ n * k <= n * q
    BY <1>1, Multiples
  <2>2. n * k <= Len(s)
    BY <1>2, <2>1
  <2> QED
    BY <2>1, <2>2
<1> DEFINE v == Pieces(s, n)
<1>4. v = [k \in 1..q |-> v[k]] /\ \A k \in 1..q : v[k] \in Seq(T)
  BY <1>1, <1>3, Zenon DEF Pieces
<1>6. q \in Nat
  BY <1>1
<1> HIDE DEF v
<1>5. v \in Seq(Seq(T))
  <2>1. v \in [1..q -> Seq(T)]
    BY <1>4, Zenon
  <2>2. \A S : \A w \in [1..q -> S] : w \in Seq(S)
    BY <1>6
  <2> QED
    BY <2>1, <2>2, Zenon
<1> QED
  BY <1>5, Zenon DEF v

-----------------------------------------------------------------------------
(* The sweeps of a transmission. *)

Lower(r, ten) == [k \in DOMAIN r |-> To8(r[k], ten)]
LowerSweep(s, ten) == [c \in 1..NChannels |-> To8(s[c], ten)]
Lowered(Q, ten) == [k \in DOMAIN Q |-> LowerSweep(Q[k], ten)]
Sweep8(ten) == {LowerSweep(s, ten) : s \in Seq(Nat)}

\* The sweeps of 8-bit samples, one per raw sweep.
LEMMA LoweredType ==
  ASSUME NEW Q \in Seq(Seq(Nat)), NEW ten
  PROVE  Lowered(Q, ten) \in Seq(Sweep8(ten)) /\ Len(Lowered(Q, ten)) = Len(Q)
<1>1. DOMAIN Q = 1..Len(Q) /\ Len(Q) \in Nat /\ \A k \in 1..Len(Q) : Q[k] \in Seq(Nat)
  OBVIOUS
<1> DEFINE v == Lowered(Q, ten)
<1>2. v = [k \in 1..Len(Q) |-> v[k]] /\ \A k \in 1..Len(Q) : v[k] \in Sweep8(ten)
  BY <1>1, Zenon DEF Lowered, Sweep8
<1> HIDE DEF v
<1>3. v \in Seq(Sweep8(ten)) /\ Len(v) = Len(Q)
  BY <1>1, <1>2
<1> QED
  BY <1>3 DEF v

\* No samples are lowered to none.
LEMMA LoweredEmpty == \A ten : Lowered(<<>>, ten) = <<>> /\ Lower(<<>>, ten) = <<>>
BY DEF Lowered, Lower

\* One more raw sweep is one more sweep.
LEMMA LoweredAppend ==
  ASSUME NEW Q \in Seq(Seq(Nat)), NEW r \in Seq(Nat), NEW ten
  PROVE  Lowered(Append(Q, r), ten) = Append(Lowered(Q, ten), LowerSweep(r, ten))
<1> DEFINE Z == Append(Q, r)
           v == Lowered(Q, ten)
           w == Lowered(Z, ten)
<1>1. /\ Longer(Q, Z, Len(Q), r) /\ Z \in Seq(Seq(Nat)) /\ Len(Z) = Len(Q) + 1
      /\ DOMAIN Q = 1..Len(Q) /\ DOMAIN Z = 1..(Len(Q) + 1) /\ Len(Q) \in Nat
  BY AppendLonger
<1> HIDE DEF Z
<1>2. v \in Seq(Sweep8(ten)) /\ Len(v) = Len(Q)
  BY LoweredType
<1>3. w \in Seq(Sweep8(ten)) /\ Len(w) = Len(Q) + 1
  BY <1>1, LoweredType
<1>4. ASSUME NEW k \in 1..Len(Q)
      PROVE  w[k] = v[k]
  <2>1. k \in DOMAIN Z /\ k \in DOMAIN Q
    BY <1>1
  <2>2. Z[k] = Q[k]
    BY <1>1, Zenon DEF Longer
  <2> QED
    BY <2>1, <2>2, Zenon DEF Lowered
<1>5. w[Len(Q) + 1] = LowerSweep(r, ten)
  <2>1. Len(Q) + 1 \in DOMAIN Z
    BY <1>1
  <2>2. Z[Len(Q) + 1] = r
    BY <1>1, Zenon DEF Longer
  <2> QED
    BY <2>1, <2>2, Zenon DEF Lowered
<1>6. LowerSweep(r, ten) \in Sweep8(ten)
  BY Zenon DEF Sweep8
<1> HIDE DEF v, w
<1>7. w = Append(v, LowerSweep(r, ten))
  BY <1>1, <1>2, <1>3, <1>4, <1>5, <1>6
<1> QED
  BY <1>7, Zenon DEF v, w, Z

\* One more raw sample is one more 8-bit sample.
LEMMA LowerAppend ==
  ASSUME NEW r \in Seq(Nat), NEW y \in Nat, NEW ten
  PROVE  Lower(Append(r, y), ten) = Append(Lower(r, ten), To8(y, ten))
<1> DEFINE F == {To8(z, ten) : z \in Nat}
           Z == Append(r, y)
           v == Lower(r, ten)
           w == Lower(Z, ten)
<1>1. /\ Longer(r, Z, Len(r), y) /\ Z \in Seq(Nat) /\ Len(Z) = Len(r) + 1
      /\ DOMAIN r = 1..Len(r) /\ DOMAIN Z = 1..(Len(r) + 1) /\ Len(r) \in Nat
      /\ \A k \in 1..Len(r) : r[k] \in Nat
  BY AppendLonger
<1> HIDE DEF Z
<1>2. v = [k \in 1..Len(r) |-> v[k]] /\ \A k \in 1..Len(r) : v[k] \in F
  BY <1>1, Zenon DEF Lower
<1>3. ASSUME NEW k \in 1..Len(r)
      PROVE  w[k] = v[k]
  <2>1. k \in DOMAIN Z /\ k \in DOMAIN r
    BY <1>1
  <2>2. Z[k] = r[k]
    BY <1>1, Zenon DEF Longer
  <2> QED
    BY <2>1, <2>2, Zenon DEF Lower
<1>4. w = [k \in 1..(Len(r) + 1) |-> w[k]]
  BY <1>1, Zenon DEF Lower
<1>5. w[Len(r) + 1] = To8(y, ten) /\ To8(y, ten) \in F
  <2>1. Len(r) + 1 \in DOMAIN Z
    BY <1>1
  <2>2. Z[Len(r) + 1] = y
    BY <1>1, Zenon DEF Longer
  <2> QED
    BY <2>1, <2>2, Zenon DEF Lower
<1> HIDE DEF v, w, F
<1>6. v \in Seq(F) /\ Len(v) = Len(r)
  BY <1>1, <1>2
<1>8. \A k \in 1..(Len(r) + 1) : w[k] \in F
  <2>1. \A k \in 1..(Len(r) + 1) : k \in 1..Len(r) \/ k = Len(r) + 1
    BY <1>1
  <2> QED
    BY <1>2, <1>3, <1>5, <2>1, Zenon
<1>9. w \in Seq(F) /\ Len(w) = Len(r) + 1
  BY <1>1, <1>4, <1>8
<1>7. w = Append(v, To8(y, ten))
  BY <1>1, <1>3, <1>5, <1>6, <1>9
<1> QED
  BY <1>7, Zenon DEF v, w, Z

\* A whole raw sweep becomes a sweep.
LEMMA LowerWhole ==
  ASSUME NEW r \in Seq(Nat), NEW ten, Len(r) = NChannels
  PROVE  Lower(r, ten) = LowerSweep(r, ten)
<1>1. DOMAIN r = 1..NChannels
  OBVIOUS
<1> QED
  BY <1>1, Zenon DEF Lower, LowerSweep

\* Every raw sample becomes one 8-bit sample.
LEMMA LowerLen ==
  ASSUME NEW r \in Seq(Nat), NEW ten
  PROVE  Lower(r, ten) \in Seq({To8(y, ten) : y \in Nat}) /\ Len(Lower(r, ten)) = Len(r)
<1>1. DOMAIN r = 1..Len(r) /\ Len(r) \in Nat /\ \A k \in 1..Len(r) : r[k] \in Nat
  OBVIOUS
<1> DEFINE F == {To8(y, ten) : y \in Nat}
           v == Lower(r, ten)
<1>2. v = [k \in 1..Len(r) |-> v[k]] /\ \A k \in 1..Len(r) : v[k] \in F
  BY <1>1, Zenon DEF Lower
<1> HIDE DEF v, F
<1>3. v \in Seq(F) /\ Len(v) = Len(r)
  BY <1>1, <1>2
<1> QED
  BY <1>3, Zenon DEF v, F

\* The sweeps of a transmission are its samples in pieces, lowered.
LEMMA SweepsFromIs ==
  ASSUME NEW b, NEW i, NEW ten
  PROVE  SweepsFrom(b, i, ten) = Lowered(Pieces(SamplesFrom(b, i), NChannels), ten)
BY Zenon DEF SweepsFrom, Lowered, LowerSweep

\* The samples of a transmission are numbers.
LEMMA SamplesFromType ==
  ASSUME NEW b \in Seq(Bytes), NEW i
  PROVE  SamplesFrom(b, i) \in Seq(Nat)
<1>1. Width \in Nat \ {0}
  BY WireAssumption
<1>2. Pieces(DigitsFrom(b, i), Width) \in Seq(Seq(Digits))
  BY <1>1, DigitsFromType, PiecesType
<1> QED
  BY <1>2, SamplesOfType DEF SamplesFrom

\* The sweeps of a transmission are sweeps.
LEMMA SweepsFromType ==
  ASSUME NEW b \in Seq(Bytes), NEW i, NEW ten
  PROVE  SweepsFrom(b, i, ten) \in Seq(Sweep8(ten))
<1>1. NChannels \in Nat \ {0}
  BY WireAssumption
<1>2. Pieces(SamplesFrom(b, i), NChannels) \in Seq(Seq(Nat))
  BY <1>1, SamplesFromType, PiecesType
<1> QED
  BY <1>2, SweepsFromIs, LoweredType

-----------------------------------------------------------------------------
(* The sweeps of a byte string, byte by byte. *)

SweepsAt(b, ten) ==
  [i \in DOMAIN b |-> IF i \in DataStarts(b) THEN SweepsFrom(b, i, ten) ELSE <<>>]

\* The two definitions of a start agree.
LEMMA StartsAre ==
  ASSUME NEW b \in Seq(Bytes), NEW i \in 1..Len(b)
  PROVE  i \in DataStarts(b) <=> Starting(b, i)
<1>1. DOMAIN b = 1..Len(b)
  OBVIOUS
<1> QED
  BY <1>1, Zenon DEF DataStarts, Starting

\* Per byte, the sweeps of the transmission that starts there.
LEMMA SweepsAtType ==
  ASSUME NEW b \in Seq(Bytes), NEW ten
  PROVE  SweepsAt(b, ten) \in Seq(Seq(Sweep8(ten))) /\ Len(SweepsAt(b, ten)) = Len(b)
<1>1. DOMAIN b = 1..Len(b) /\ Len(b) \in Nat
  OBVIOUS
<1>2. \A i : SweepsFrom(b, i, ten) \in Seq(Sweep8(ten))
  BY SweepsFromType
<1>3. <<>> \in Seq(Sweep8(ten))
  OBVIOUS
<1> DEFINE v == SweepsAt(b, ten)
<1>4. v = [i \in 1..Len(b) |-> v[i]] /\ \A i \in 1..Len(b) : v[i] \in Seq(Sweep8(ten))
  BY <1>1, <1>2, <1>3, Zenon DEF SweepsAt
<1> HIDE DEF v
<1>5. v \in Seq(Seq(Sweep8(ten))) /\ Len(v) = Len(b)
  BY <1>1, <1>4
<1> QED
  BY <1>5, Zenon DEF v

\* The sweeps of a byte string are sweeps.
LEMMA SweepsInType ==
  ASSUME NEW b \in Seq(Bytes), NEW ten
  PROVE  SweepsIn(b, ten) \in Seq(Sweep8(ten))
<1>1. SweepsIn(b, ten) = FlattenSeq(SweepsAt(b, ten))
  BY Zenon DEF SweepsIn, SweepsAt
<1> QED
  BY <1>1, SweepsAtType, FlattenType

\* The transmissions of b have the same sweeps in c, which is b and the byte x, and
\* c starts none with sweeps.
SameSweeps(b, x, c, ten) ==
  /\ c = Append(b, x)
  /\ \A i \in 1..Len(b) : Starting(b, i) => SweepsFrom(c, i, ten) = SweepsFrom(b, i, ten)
  /\ Starting(c, Len(b) + 1) => SweepsFrom(c, Len(b) + 1, ten) = <<>>

\* A byte that completes no sweep.
LEMMA SweepsSame ==
  ASSUME NEW b \in Seq(Bytes), NEW x \in Bytes, NEW c, NEW ten, SameSweeps(b, x, c, ten)
  PROVE  SweepsIn(c, ten) = SweepsIn(b, ten)
<1> DEFINE v == SweepsAt(b, ten)
           w == SweepsAt(c, ten)
<1>0. c = Append(b, x)
  BY Zenon DEF SameSweeps
<1>1. PICK n \in Nat : n = Len(b)
  OBVIOUS
<1>2. /\ Longer(b, c, n, x) /\ c \in Seq(Bytes) /\ Len(c) = n + 1
      /\ DOMAIN b = 1..n /\ DOMAIN c = 1..(n + 1)
  BY <1>0, <1>1, AppendLonger
<1>3. v \in Seq(Seq(Sweep8(ten))) /\ Len(v) = n
  BY <1>1, SweepsAtType
<1>4. w \in Seq(Seq(Sweep8(ten))) /\ Len(w) = n + 1
  BY <1>2, SweepsAtType
<1>5. \A i \in 1..n : i \in DOMAIN c /\ i \in 1..(n + 1)
  BY <1>1, <1>2
<1>6. \A i \in 1..n : i \in DataStarts(b) <=> Starting(b, i)
  BY <1>1, StartsAre
<1>7. \A i \in 1..(n + 1) : i \in DataStarts(c) <=> Starting(c, i)
  BY <1>2, StartsAre
<1>8. \A i \in 1..n : Starting(c, i) <=> Starting(b, i)
  BY <1>2, StartingLocal
<1>9. Same(v, w, 1, n)
  BY <1>1, <1>2, <1>5, <1>6, <1>7, <1>8, Zenon DEF SweepsAt, Same, SameSweeps
<1>10. w[n + 1] = <<>>
  <2>1. n + 1 \in DOMAIN c /\ n + 1 \in 1..(n + 1)
    BY <1>1, <1>2
  <2> QED
    BY <1>1, <1>7, <2>1, Zenon DEF SweepsAt, SameSweeps
<1> HIDE DEF v, w
<1>11. Extends(FlattenSeq(w), FlattenSeq(v), w[n + 1])
  BY <1>1, <1>3, <1>4, <1>9, FlattenAppend
<1>12. FlattenSeq(w) = SweepsIn(c, ten) /\ FlattenSeq(v) = SweepsIn(b, ten)
  BY Zenon DEF SweepsIn, SweepsAt, v, w
<1>13. SweepsIn(b, ten) \in Seq(Sweep8(ten)) /\ Extends(SweepsIn(c, ten), SweepsIn(b, ten), <<>>)
  BY <1>10, <1>11, <1>12, SweepsInType
<1> QED
  BY <1>13, ExtendsByNone

\* r is s and the element y.
MoreBy(r, s, y) == r = Append(s, y)

\* Of b's transmissions the one that starts at m is the last, and c has the same
\* samples as b in every other one.
Others(b, c, m, ten) ==
  \A i \in 1..Len(b) : Starting(b, i) /\ i # m =>
    /\ i < m
    /\ SamplesFrom(c, i) = SamplesFrom(b, i)
    /\ SweepsFrom(c, i, ten) = SweepsFrom(b, i, ten)

\* A byte that completes a sweep.
LEMMA SweepsMore ==
  ASSUME NEW b \in Seq(Bytes), NEW x \in Bytes, NEW c, c = Append(b, x), NEW ten,
         NEW m \in 1..Len(b), Starting(b, m), NEW y \in Sweep8(ten),
         MoreBy(SweepsFrom(c, m, ten), SweepsFrom(b, m, ten), y),
         Others(b, c, m, ten), ~Starting(c, Len(b) + 1)
  PROVE  MoreBy(SweepsIn(c, ten), SweepsIn(b, ten), y)
<1>m. SweepsFrom(c, m, ten) = Append(SweepsFrom(b, m, ten), y)
  BY Zenon DEF MoreBy
<1>0. \A i \in 1..Len(b) : Starting(b, i) /\ i # m =>
                              i < m /\ SweepsFrom(c, i, ten) = SweepsFrom(b, i, ten)
  BY Zenon DEF Others
<1> DEFINE v == SweepsAt(b, ten)
           w == SweepsAt(c, ten)
<1>1. PICK n \in Nat : n = Len(b)
  OBVIOUS
<1>2. /\ Longer(b, c, n, x) /\ c \in Seq(Bytes) /\ Len(c) = n + 1
      /\ DOMAIN b = 1..n /\ DOMAIN c = 1..(n + 1)
  BY <1>1, AppendLonger
<1>3. v \in Seq(Seq(Sweep8(ten))) /\ Len(v) = n
  BY <1>1, SweepsAtType
<1>4. w \in Seq(Seq(Sweep8(ten))) /\ Len(w) = n + 1
  BY <1>2, SweepsAtType
<1>5. \A i \in 1..n : i \in DOMAIN c /\ i \in 1..(n + 1)
  BY <1>1, <1>2
<1>6. \A i \in 1..n : i \in DataStarts(b) <=> Starting(b, i)
  BY <1>1, StartsAre
<1>7. \A i \in 1..(n + 1) : i \in DataStarts(c) <=> Starting(c, i)
  BY <1>2, StartsAre
<1>8. \A i \in 1..n : Starting(c, i) <=> Starting(b, i)
  BY <1>2, StartingLocal
<1>9. \A i \in 1..n : /\ v[i] = IF Starting(b, i) THEN SweepsFrom(b, i, ten) ELSE <<>>
                      /\ w[i] = IF Starting(b, i) THEN SweepsFrom(c, i, ten) ELSE <<>>
  BY <1>2, <1>5, <1>6, <1>7, <1>8, Zenon DEF SweepsAt
<1>10. w[n + 1] = <<>>
  <2>1. n + 1 \in DOMAIN c /\ n + 1 \in 1..(n + 1)
    BY <1>1, <1>2
  <2> QED
    BY <1>1, <1>7, <2>1, Zenon DEF SweepsAt
<1> HIDE DEF v, w
<1>11. SweepsFrom(b, m, ten) \o <<y>> = Append(SweepsFrom(b, m, ten), y)
  <2>1. SweepsFrom(b, m, ten) \in Seq(Sweep8(ten))
    BY SweepsFromType
  <2>2. \A s \in Seq(Sweep8(ten)) : s \o <<y>> = Append(s, y)
    OBVIOUS
  <2> QED
    BY <2>1, <2>2, Zenon
<1>12. Grows(v, w, n, m, <<y>>, Sweep8(ten))
  <2>1. m \in 1..n /\ <<y>> \in Seq(Sweep8(ten))
    BY <1>1
  <2>2. \A k \in 1..n : v[k] \in Seq(Sweep8(ten))
    BY <1>3
  <2>3. ASSUME NEW k \in 1..n
        PROVE  w[k] = IF k = m THEN v[k] \o <<y>> ELSE v[k]
    <3>1. CASE k = m
      BY <1>m, <1>9, <1>11, <3>1, Zenon
    <3>2. CASE k # m
      BY <1>0, <1>1, <1>9, <3>2, Zenon
    <3> QED
      BY <3>1, <3>2, Zenon
  <2>4. ASSUME NEW k \in 1..n, k > m
        PROVE  v[k] = <<>>
    <3>1. k # m /\ ~(k < m)
      BY <2>4
    <3> QED
      BY <1>0, <1>1, <1>9, <3>1, Zenon
  <2> QED
    BY <2>1, <2>2, <2>3, <2>4, Zenon DEF Grows
<1>13. Extends(FlattenSeq(w), FlattenSeq(v), <<y>>)
  BY <1>1, <1>3, <1>4, <1>10, <1>12, FlattenGrow
<1>14. FlattenSeq(w) = SweepsIn(c, ten) /\ FlattenSeq(v) = SweepsIn(b, ten)
  BY Zenon DEF SweepsIn, SweepsAt, v, w
<1>15. SweepsIn(b, ten) \in Seq(Sweep8(ten)) /\ Extends(SweepsIn(c, ten), SweepsIn(b, ten), <<y>>)
  BY <1>13, <1>14, SweepsInType
<1>16. SweepsIn(c, ten) = Append(SweepsIn(b, ten), y)
  BY <1>15, ExtendsByOne
<1> QED
  BY <1>16, Zenon DEF MoreBy

-----------------------------------------------------------------------------
(* The parser's buffers against the reference, digit by digit.             *)

\* D are the digits of a transmission so far: hb of them make no word yet, the
\* others are the samples S; sw of those (lowered) make no sweep yet, the others
\* are the sweeps W.
Chain(D, hb, sw, S, W, ten) ==
  \E P, Q, r : /\ Cut(D, Width, P, hb, Digits) /\ S = SamplesOf(P)
               /\ Cut(S, NChannels, Q, r, Nat) /\ sw = Lower(r, ten) /\ W = Lowered(Q, ten)

\* No digits leave empty buffers.
LEMMA ChainEmpty ==
  ASSUME NEW ten
  PROVE  Chain(<<>>, <<>>, <<>>, <<>>, <<>>, ten)
<1>1. Cut(<<>>, Width, <<>>, <<>>, Digits) /\ Cut(<<>>, NChannels, <<>>, <<>>, Nat)
  BY WireAssumption, CutEmpty
<1> QED
  BY <1>1, SamplesOfEmpty, LoweredEmpty, Zenon DEF Chain

\* The samples and sweeps of the buffers are those of the transmission.
LEMMA ChainFrom ==
  ASSUME NEW b \in Seq(Bytes), NEW i, NEW hb, NEW sw, NEW S, NEW W, NEW ten,
         Chain(DigitsFrom(b, i), hb, sw, S, W, ten)
  PROVE  S = SamplesFrom(b, i) /\ W = SweepsFrom(b, i, ten)
<1>1. PICK P, Q, r : /\ Cut(DigitsFrom(b, i), Width, P, hb, Digits) /\ S = SamplesOf(P)
                     /\ Cut(S, NChannels, Q, r, Nat) /\ W = Lowered(Q, ten)
  BY Zenon DEF Chain
<1>2. P = Pieces(DigitsFrom(b, i), Width) /\ Q = Pieces(S, NChannels)
  BY <1>1, Zenon DEF Cut
<1>3. S = SamplesFrom(b, i)
  BY <1>1, <1>2, Zenon DEF SamplesFrom
<1> QED
  BY <1>1, <1>2, <1>3, SweepsFromIs, Zenon

\* The buffers are shorter than a word and than a sweep.
LEMMA ChainType ==
  ASSUME NEW D, NEW hb, NEW sw, NEW S, NEW W, NEW ten, Chain(D, hb, sw, S, W, ten)
  PROVE  /\ hb \in Seq(Digits) /\ Len(hb) < Width /\ D \in Seq(Digits)
         /\ S \in Seq(Nat) /\ W \in Seq(Sweep8(ten))
         /\ sw \in Seq({To8(y, ten) : y \in Nat}) /\ Len(sw) < NChannels
<1>1. PICK P, Q, r : /\ Cut(D, Width, P, hb, Digits) /\ S = SamplesOf(P)
                     /\ Cut(S, NChannels, Q, r, Nat) /\ sw = Lower(r, ten)
                     /\ W = Lowered(Q, ten)
  BY Zenon DEF Chain
<1>2. hb \in Seq(Digits) /\ Len(hb) < Width /\ D \in Seq(Digits)
  BY <1>1, Zenon DEF Cut
<1>3. S \in Seq(Nat) /\ r \in Seq(Nat) /\ Len(r) < NChannels /\ Q \in Seq(Seq(Nat))
  BY <1>1, Zenon DEF Cut
<1>4. sw \in Seq({To8(y, ten) : y \in Nat}) /\ Len(sw) = Len(r)
  BY <1>1, <1>3, LowerLen, Zenon
<1>5. W \in Seq(Sweep8(ten))
  BY <1>1, <1>3, LoweredType, Zenon
<1> QED
  BY <1>2, <1>3, <1>4, <1>5

\* A digit that completes no word.
LEMMA ChainDigit ==
  ASSUME NEW D, NEW hb, NEW sw, NEW S, NEW W, NEW ten, Chain(D, hb, sw, S, W, ten),
         NEW x \in Digits, Len(hb) + 1 < Width
  PROVE  Chain(Append(D, x), Append(hb, x), sw, S, W, ten)
<1>1. PICK P, Q, r : /\ Cut(D, Width, P, hb, Digits) /\ S = SamplesOf(P)
                     /\ Cut(S, NChannels, Q, r, Nat) /\ sw = Lower(r, ten)
                     /\ W = Lowered(Q, ten)
  BY Zenon DEF Chain
<1>2. Cut(Append(D, x), Width, P, Append(hb, x), Digits)
  BY <1>1, CutGrows, WireAssumption
<1> QED
  BY <1>1, <1>2, Zenon DEF Chain

\* A digit that completes a word.
LEMMA WordCompletes ==
  ASSUME NEW D, NEW hb, NEW P, Cut(D, Width, P, hb, Digits),
         NEW x \in Digits, Len(hb) + 1 = Width
  PROVE  /\ Cut(Append(D, x), Width, Append(P, Append(hb, x)), <<>>, Digits)
         /\ P \in Seq(Seq(Digits)) /\ Append(hb, x) \in Seq(Digits)
<1>1. Cut(Append(D, x), Width, Append(P, Append(hb, x)), <<>>, Digits)
  BY CutCompletes, WireAssumption
<1>2. P \in Seq(Seq(Digits)) /\ hb \in Seq(Digits)
  BY Zenon DEF Cut
<1>3. Append(hb, x) \in Seq(Digits)
  BY <1>2
<1> QED
  BY <1>1, <1>2, <1>3

\* A word that is the end marker.
LEMMA ChainMarker ==
  ASSUME NEW D, NEW hb, NEW sw, NEW S, NEW W, NEW ten, Chain(D, hb, sw, S, W, ten),
         NEW x \in Digits, Len(hb) + 1 = Width, Value(Append(hb, x)) = EndMarker
  PROVE  Chain(Append(D, x), <<>>, sw, S, W, ten)
<1>1. PICK P, Q, r : /\ Cut(D, Width, P, hb, Digits) /\ S = SamplesOf(P)
                     /\ Cut(S, NChannels, Q, r, Nat) /\ sw = Lower(r, ten)
                     /\ W = Lowered(Q, ten)
  BY Zenon DEF Chain
<1>2. /\ Cut(Append(D, x), Width, Append(P, Append(hb, x)), <<>>, Digits)
      /\ P \in Seq(Seq(Digits)) /\ Append(hb, x) \in Seq(Digits)
  BY <1>1, WordCompletes
<1>3. SamplesOf(Append(P, Append(hb, x))) = SamplesOf(P)
  BY <1>2, SamplesOfAppend, Zenon
<1> QED
  BY <1>1, <1>2, <1>3, Zenon DEF Chain

\* A word that is a sample, but not the last one of a sweep.
LEMMA ChainSample ==
  ASSUME NEW D, NEW hb, NEW sw, NEW S, NEW W, NEW ten, Chain(D, hb, sw, S, W, ten),
         NEW x \in Digits, Len(hb) + 1 = Width, NEW v, v = Value(Append(hb, x)),
         v # EndMarker, Len(sw) + 1 < NChannels
  PROVE  Chain(Append(D, x), <<>>, Append(sw, To8(v, ten)), Append(S, v), W, ten)
<1>1. PICK P, Q, r : /\ Cut(D, Width, P, hb, Digits) /\ S = SamplesOf(P)
                     /\ Cut(S, NChannels, Q, r, Nat) /\ sw = Lower(r, ten)
                     /\ W = Lowered(Q, ten)
  BY Zenon DEF Chain
<1>2. /\ Cut(Append(D, x), Width, Append(P, Append(hb, x)), <<>>, Digits)
      /\ P \in Seq(Seq(Digits)) /\ Append(hb, x) \in Seq(Digits)
  BY <1>1, WordCompletes
<1>3. SamplesOf(Append(P, Append(hb, x))) = Append(S, v)
  BY <1>1, <1>2, SamplesOfAppend, Zenon
<1>4. v \in Nat
  BY <1>2, ValueType
<1>5. r \in Seq(Nat)
  BY <1>1, Zenon DEF Cut
<1>6. Len(r) = Len(sw)
  BY <1>1, <1>5, LowerLen, Zenon
<1>7. Cut(Append(S, v), NChannels, Q, Append(r, v), Nat)
  BY <1>1, <1>4, <1>6, CutGrows, WireAssumption
<1>8. Append(sw, To8(v, ten)) = Lower(Append(r, v), ten)
  BY <1>1, <1>4, <1>5, LowerAppend, Zenon
<1> QED
  BY <1>1, <1>2, <1>3, <1>7, <1>8, Zenon DEF Chain

\* A word that is the last sample of a sweep.
LEMMA ChainSweep ==
  ASSUME NEW D, NEW hb, NEW sw, NEW S, NEW W, NEW ten, Chain(D, hb, sw, S, W, ten),
         NEW x \in Digits, Len(hb) + 1 = Width, NEW v, v = Value(Append(hb, x)),
         v # EndMarker, NEW y, y = Append(sw, To8(v, ten)), Len(y) = NChannels
  PROVE  Chain(Append(D, x), <<>>, <<>>, Append(S, v), Append(W, y), ten) /\ y \in Sweep8(ten)
<1>1. PICK P, Q, r : /\ Cut(D, Width, P, hb, Digits) /\ S = SamplesOf(P)
                     /\ Cut(S, NChannels, Q, r, Nat) /\ sw = Lower(r, ten)
                     /\ W = Lowered(Q, ten)
  BY Zenon DEF Chain
<1>2. /\ Cut(Append(D, x), Width, Append(P, Append(hb, x)), <<>>, Digits)
      /\ P \in Seq(Seq(Digits)) /\ Append(hb, x) \in Seq(Digits)
  BY <1>1, WordCompletes
<1>3. SamplesOf(Append(P, Append(hb, x))) = Append(S, v)
  BY <1>1, <1>2, SamplesOfAppend, Zenon
<1>4. v \in Nat
  BY <1>2, ValueType
<1>5. r \in Seq(Nat) /\ Q \in Seq(Seq(Nat))
  BY <1>1, Zenon DEF Cut
<1>6. Len(r) = Len(sw) /\ sw \in Seq({To8(z, ten) : z \in Nat})
  BY <1>1, <1>5, LowerLen, Zenon
<1>7. Len(r) + 1 = NChannels /\ Append(r, v) \in Seq(Nat) /\ Len(Append(r, v)) = NChannels
  BY <1>4, <1>5, <1>6
<1>8. Cut(Append(S, v), NChannels, Append(Q, Append(r, v)), <<>>, Nat)
  BY <1>1, <1>4, <1>7, CutCompletes, WireAssumption
<1>9. y = Lower(Append(r, v), ten)
  BY <1>1, <1>4, <1>5, LowerAppend, Zenon
<1>10. y = LowerSweep(Append(r, v), ten)
  BY <1>7, <1>9, LowerWhole, Zenon
<1>11. Lowered(Append(Q, Append(r, v)), ten) = Append(W, y)
  BY <1>1, <1>5, <1>7, <1>10, LoweredAppend, Zenon
<1>12. y \in Sweep8(ten)
  BY <1>7, <1>10, Zenon DEF Sweep8
<1>13. Lower(<<>>, ten) = <<>>
  BY LoweredEmpty, Zenon
<1> QED
  BY <1>2, <1>3, <1>8, <1>11, <1>12, <1>13, Zenon DEF Chain

-----------------------------------------------------------------------------
(* What one more byte does to the reference.                               *)

\* A transmission that has just begun.
LEMMA NewIsEmpty ==
  ASSUME NEW b \in Seq(Bytes), NEW ten
  PROVE  /\ Chain(DigitsFrom(b, Len(b)), <<>>, <<>>, <<>>, <<>>, ten)
         /\ SamplesFrom(b, Len(b)) = <<>> /\ SweepsFrom(b, Len(b), ten) = <<>>
<1>1. Chain(DigitsFrom(b, Len(b)), <<>>, <<>>, <<>>, <<>>, ten)
  BY DigitsNew, ChainEmpty
<1> QED
  BY <1>1, ChainFrom

\* A transmission without corrupt samples.
Sound(b, i, ten) == \A k \in DOMAIN SamplesFrom(b, i) : SamplesFrom(b, i)[k] < Limit(ten)

\* A byte string is not corrupt when each of its transmissions is sound.
LEMMA SoundIs ==
  ASSUME NEW b \in Seq(Bytes), NEW ten
  PROVE  ~Corrupt(b, ten) <=> \A i \in 1..Len(b) : Starting(b, i) => Sound(b, i, ten)
<1>1. \A i \in 1..Len(b) : i \in DataStarts(b) <=> Starting(b, i)
  BY StartsAre
<1>2. \A i : SamplesFrom(b, i) \in Seq(Nat)
  BY SamplesFromType
<1>3. \A i : \A k \in DOMAIN SamplesFrom(b, i) : SamplesFrom(b, i)[k] \in Nat
  BY <1>2
<1>4. Limit(ten) \in Nat
  BY WireAssumption DEF Limit
<1>5. \A i : \A k \in DOMAIN SamplesFrom(b, i) :
        SamplesFrom(b, i)[k] >= Limit(ten) <=> ~(SamplesFrom(b, i)[k] < Limit(ten))
  BY <1>3, <1>4
<1>6. DataStarts(b) \subseteq 1..Len(b)
  BY DEF DataStarts
<1> QED
  BY <1>1, <1>5, <1>6, Zenon DEF Corrupt, Sound

\* The byte x after b is no digit of any transmission.
Silent(b, x) ==
  \A i \in 1..Len(b) : Starting(b, i) => ~(Within(Append(b, x), i, Len(b) + 1) /\ x \in Digits)

\* A byte that is no digit of a transmission changes neither sweeps nor corruption.
LEMMA SilentSame ==
  ASSUME NEW b \in Seq(Bytes), NEW x \in Bytes, NEW ten, Silent(b, x)
  PROVE  /\ SweepsIn(Append(b, x), ten) = SweepsIn(b, ten)
         /\ ~Corrupt(b, ten) => ~Corrupt(Append(b, x), ten)
<1>1. PICK c \in Seq(Bytes) : c = Append(b, x) /\ Len(c) = Len(b) + 1
                               /\ Longer(b, c, Len(b), x)
  BY AppendLonger
<1>2. \A i \in 1..Len(b) : Starting(b, i) =>
        SamplesFrom(c, i) = SamplesFrom(b, i) /\ SweepsFrom(c, i, ten) = SweepsFrom(b, i, ten)
  <2>1. ASSUME NEW i \in 1..Len(b), Starting(b, i)
        PROVE  SamplesFrom(c, i) = SamplesFrom(b, i) /\ SweepsFrom(c, i, ten) = SweepsFrom(b, i, ten)
    <3>1. ~(Within(Append(b, x), i, Len(b) + 1) /\ x \in Digits)
      BY <2>1, Zenon DEF Silent
    <3>2. DigitsFrom(Append(b, x), i) = DigitsFrom(b, i)
      BY <3>1, DigitsQuiet
    <3>3. DigitsFrom(c, i) = DigitsFrom(b, i)
      BY <1>1, <3>2, Zenon
    <3>4. SamplesFrom(c, i) = SamplesFrom(b, i)
      BY <3>3, Zenon DEF SamplesFrom
    <3> QED
      BY <3>4, SweepsFromIs, Zenon
  <2> QED
    BY <2>1, Zenon
<1>3. SamplesFrom(c, Len(b) + 1) = <<>> /\ SweepsFrom(c, Len(b) + 1, ten) = <<>>
  BY <1>1, NewIsEmpty
<1>4. SweepsIn(c, ten) = SweepsIn(b, ten)
  <2>1. \A i \in 1..Len(b) : Starting(b, i) => SweepsFrom(c, i, ten) = SweepsFrom(b, i, ten)
    BY <1>2, Zenon
  <2>2. Starting(c, Len(b) + 1) => SweepsFrom(c, Len(b) + 1, ten) = <<>>
    BY <1>3, Zenon
  <2>3. c = Append(b, x)
    BY <1>1, Zenon
  <2>4. SameSweeps(b, x, c, ten)
    BY <2>1, <2>2, <2>3, Zenon DEF SameSweeps
  <2> QED
    BY <2>4, SweepsSame
<1>5. ASSUME ~Corrupt(b, ten) PROVE ~Corrupt(c, ten)
  <2>1. ASSUME NEW i \in 1..Len(c), Starting(c, i)
        PROVE  Sound(c, i, ten)
    <3>1. CASE i \in 1..Len(b)
      <4>1. Starting(b, i)
        BY <1>1, <2>1, <3>1, StartingLocal
      <4>2. Sound(b, i, ten)
        BY <1>5, <3>1, <4>1, SoundIs
      <4> QED
        BY <1>2, <3>1, <4>1, <4>2, Zenon DEF Sound
    <3>2. CASE i = Len(b) + 1
      BY <1>3, <3>2 DEF Sound
    <3>3. i \in 1..Len(b) \/ i = Len(b) + 1
      <4>1. Len(c) = Len(b) + 1 /\ Len(b) \in Nat /\ i \in 1..Len(c)
        BY <1>1
      <4> QED
        BY <4>1
    <3> QED
      BY <3>1, <3>2, <3>3, Zenon
  <2> QED
    BY <2>1, SoundIs, Zenon
<1> QED
  BY <1>1, <1>4, <1>5

\* The only transmission that goes on is the latest one.
LEMMA OnlyCurrent ==
  ASSUME NEW b, NEW n \in Nat, NEW m \in 1..n, Starting(b, m), Unended(b, m, n),
         NEW i \in 1..n, i # m, Starting(b, i)
  PROVE  i < m /\ ~Unended(b, i, n)
<1>1. CASE i < m
  <2>1. ~InData(b, m)
    BY DEF Starting
  <2>2. m \in 1..(n + 1) /\ i \in 1..(m - 1)
    BY <1>1
  <2> QED
    BY <1>1, <2>1, <2>2, EarlierEnded
<1>2. CASE m < i
  <2>1. m \in 1..(i - 1) /\ \A k \in m..(i - 1) : k \in m..n
    BY <1>2
  <2>2. Plain(b, m) /\ b[m] = DATA_START
    BY Zenon DEF Starting
  <2>3. InData(b, i)
    BY <2>1, <2>2, Zenon DEF InData, Unended
  <2> QED
    BY <2>3, Zenon DEF Starting
<1> QED
  BY <1>1, <1>2

\* A digit of the transmission that starts at m.
LEMMA DigitMore ==
  ASSUME NEW b \in Seq(Bytes), NEW x \in Bytes, NEW ten, NEW c, c = Append(b, x),
         NEW m \in 1..Len(b), Starting(b, m), Unended(b, m, Len(b)), InData(b, Len(b) + 1),
         Plain(c, Len(b) + 1), x \in Digits, x # DATA_END
  PROVE  /\ DigitsFrom(c, m) = Append(DigitsFrom(b, m), x)
         /\ Others(b, c, m, ten)
         /\ ~Starting(c, Len(b) + 1) /\ Starting(c, m) /\ Unended(c, m, Len(b) + 1)
<1>1. PICK n \in Nat : n = Len(b)
  OBVIOUS
<1>2. Longer(b, c, n, x) /\ c \in Seq(Bytes) /\ Len(c) = n + 1
  BY <1>1, AppendLonger
<1>3. Within(c, m, n + 1)
  BY <1>1, <1>2, WithinLast
<1>4. DigitsFrom(c, m) = Append(DigitsFrom(b, m), x)
  BY <1>1, <1>3, DigitsGrow
<1>5. ASSUME NEW i \in 1..n, Starting(b, i), i # m
      PROVE  /\ i < m
             /\ SamplesFrom(c, i) = SamplesFrom(b, i)
             /\ SweepsFrom(c, i, ten) = SweepsFrom(b, i, ten)
  <2>1. i < m /\ ~Unended(b, i, n)
    BY <1>1, <1>5, OnlyCurrent
  <2>2. ~Within(c, i, n + 1)
    BY <1>2, <2>1, WithinLast
  <2>3. DigitsFrom(c, i) = DigitsFrom(b, i)
    BY <1>1, <1>5, <2>2, DigitsQuiet
  <2>4. SamplesFrom(c, i) = SamplesFrom(b, i)
    BY <2>3, Zenon DEF SamplesFrom
  <2> QED
    BY <2>1, <2>4, SweepsFromIs, Zenon
<1>6. ~Starting(c, n + 1)
  <2>1. n + 1 \in 1..(n + 1)
    OBVIOUS
  <2>2. InData(c, n + 1)
    BY <1>1, <1>2, <2>1, InDataLocal
  <2> QED
    BY <2>2, Zenon DEF Starting
<1>7. Starting(c, m)
  BY <1>1, <1>2, StartingLocal
<1>8. Unended(c, m, n + 1)
  <2>1. ASSUME NEW k \in m..(n + 1)
        PROVE  ~(Plain(c, k) /\ c[k] = DATA_END)
    <3>1. CASE k \in m..n
      <4>1. k \in 1..n
        BY <1>1, <3>1
      <4>2. (Plain(c, k) <=> Plain(b, k)) /\ c[k] = b[k]
        BY <1>2, <4>1, PlainLocal DEF Longer
      <4> QED
        BY <1>1, <3>1, <4>2, Zenon DEF Unended
    <3>2. CASE k = n + 1
      BY <1>2, <3>2, Zenon DEF Longer
    <3>3. k \in m..n \/ k = n + 1
      <4>1. m \in Nat
        BY <1>1
      <4> QED
        BY <4>1
    <3> QED
      BY <3>1, <3>2, <3>3, Zenon
  <2> QED
    BY <2>1, Zenon DEF Unended
<1>9. Others(b, c, m, ten)
  BY <1>1, <1>5, Zenon DEF Others
<1> QED
  BY <1>1, <1>4, <1>6, <1>7, <1>8, <1>9

\* The parser's fields after the bytes b: what the reference says of them.
Open(b, m, hb, sw, ten) ==
  /\ m \in 1..Len(b) /\ Starting(b, m) /\ Unended(b, m, Len(b))
  /\ \E S, W : Chain(DigitsFrom(b, m), hb, sw, S, W, ten)

Tracks(b, im, id, hb, sw, all, ten) ==
  /\ b \in Seq(Bytes)
  /\ im \in BOOLEAN /\ (im <=> InMessage(b, Len(b) + 1))
  /\ id \in BOOLEAN /\ (id <=> InData(b, Len(b) + 1))
  /\ all = SweepsIn(b, ten) /\ ~Corrupt(b, ten)
  /\ id => \E m : Open(b, m, hb, sw, ten)

\* The byte that starts the data is a digit too; `&' and `$' are not.
LEMMA DigitMarks == DATA_START \in Digits /\ DATA_END \notin Digits /\ MESSAGE_START \notin Digits
<1>1. 3 \in 1..Base /\ HexDigits[3] = DATA_START
  BY WireAssumption DEF HexDigits, DATA_START
<1>2. \A k \in 1..Base : k \in 1..16
  BY WireAssumption
<1>3. /\ HexDigits[1] = "0"
      /\ HexDigits[2] = "1"
      /\ HexDigits[3] = "2"
      /\ HexDigits[4] = "3"
      /\ HexDigits[5] = "4"
      /\ HexDigits[6] = "5"
      /\ HexDigits[7] = "6"
      /\ HexDigits[8] = "7"
  BY DEF HexDigits
<1>4. /\ HexDigits[9] = "8"
      /\ HexDigits[10] = "9"
      /\ HexDigits[11] = "A"
      /\ HexDigits[12] = "B"
      /\ HexDigits[13] = "C"
      /\ HexDigits[14] = "D"
      /\ HexDigits[15] = "E"
      /\ HexDigits[16] = "F"
  BY DEF HexDigits
<1>5. /\ HexDigits[1] # "&" /\ HexDigits[1] # "$"
      /\ HexDigits[2] # "&" /\ HexDigits[2] # "$"
      /\ HexDigits[3] # "&" /\ HexDigits[3] # "$"
      /\ HexDigits[4] # "&" /\ HexDigits[4] # "$"
      /\ HexDigits[5] # "&" /\ HexDigits[5] # "$"
      /\ HexDigits[6] # "&" /\ HexDigits[6] # "$"
      /\ HexDigits[7] # "&" /\ HexDigits[7] # "$"
      /\ HexDigits[8] # "&" /\ HexDigits[8] # "$"
  BY <1>3
<1>6. /\ HexDigits[9] # "&" /\ HexDigits[9] # "$"
      /\ HexDigits[10] # "&" /\ HexDigits[10] # "$"
      /\ HexDigits[11] # "&" /\ HexDigits[11] # "$"
      /\ HexDigits[12] # "&" /\ HexDigits[12] # "$"
      /\ HexDigits[13] # "&" /\ HexDigits[13] # "$"
      /\ HexDigits[14] # "&" /\ HexDigits[14] # "$"
      /\ HexDigits[15] # "&" /\ HexDigits[15] # "$"
      /\ HexDigits[16] # "&" /\ HexDigits[16] # "$"
  BY <1>4
<1>7. ASSUME NEW k \in 1..16
      PROVE  HexDigits[k] # "&" /\ HexDigits[k] # "$"
  <2>1. CASE k \in 1..8
    <3>1. k = 1 \/ k = 2 \/ k = 3 \/ k = 4 \/ k = 5 \/ k = 6 \/ k = 7 \/ k = 8
      BY <2>1
    <3> QED
      BY <3>1, <1>5
  <2>2. CASE k \in 9..16
    <3>1. k = 9 \/ k = 10 \/ k = 11 \/ k = 12 \/ k = 13 \/ k = 14 \/ k = 15 \/ k = 16
      BY <2>2
    <3> QED
      BY <3>1, <1>6
  <2> QED
    BY <2>1, <2>2
<1> QED
  BY <1>1, <1>2, <1>7 DEF Digits, DATA_END, MESSAGE_START

\* A transmission goes on until a plain `&'.
LEMMA UnendedNext ==
  ASSUME NEW b, NEW c, NEW n, NEW x, Longer(b, c, n, x), NEW m \in 1..n, Unended(b, m, n),
         ~(Plain(c, n + 1) /\ x = DATA_END)
  PROVE  Unended(c, m, n + 1)
<1>1. n \in Nat
  BY DEF Longer
<1>2. ASSUME NEW k \in m..(n + 1)
      PROVE  ~(Plain(c, k) /\ c[k] = DATA_END)
  <2>1. CASE k \in m..n
    <3>1. k \in 1..n
      BY <1>1, <2>1
    <3>2. (Plain(c, k) <=> Plain(b, k)) /\ c[k] = b[k]
      BY <3>1, PlainLocal DEF Longer
    <3> QED
      BY <2>1, <3>2, Zenon DEF Unended
  <2>2. CASE k = n + 1
    BY <2>2, Zenon DEF Longer
  <2>3. k \in m..n \/ k = n + 1
    BY <1>1
  <2> QED
    BY <2>1, <2>2, <2>3, Zenon
<1> QED
  BY <1>2, Zenon DEF Unended

\* Bytes of messages, bytes that are no digits and bytes outside the data are silent.
LEMMA SilentWhen ==
  ASSUME NEW b \in Seq(Bytes), NEW x \in Bytes,
         \/ ~Plain(Append(b, x), Len(b) + 1)
         \/ x \notin Digits
         \/ ~InData(b, Len(b) + 1)
  PROVE  Silent(b, x)
<1>1. PICK n \in Nat : n = Len(b)
  OBVIOUS
<1>2. PICK c \in Seq(Bytes) : c = Append(b, x) /\ Longer(b, c, n, x)
  BY <1>1, AppendLonger
<1>3. ASSUME NEW i \in 1..n, Starting(b, i), Within(c, i, n + 1), x \in Digits
      PROVE  FALSE
  <2>1. Plain(c, n + 1) /\ Unended(b, i, n)
    BY <1>2, <1>3, WithinLast
  <2>2. ~InData(b, n + 1)
    BY <1>1, <1>2, <1>3, <2>1
  <2>3. n + 1 \in 1..(n + 1) /\ i \in 1..((n + 1) - 1)
    BY <1>1
  <2> QED
    BY <1>1, <1>3, <2>1, <2>2, <2>3, EarlierEnded
<1> QED
  BY <1>1, <1>2, <1>3, Zenon DEF Silent

\* A silent byte that is no `&' leaves the open transmission and its buffers.
LEMMA OpenQuiet ==
  ASSUME NEW b \in Seq(Bytes), NEW x \in Bytes, NEW m, NEW hb, NEW sw, NEW ten,
         Open(b, m, hb, sw, ten), Silent(b, x), NEW c, c = Append(b, x),
         ~(Plain(c, Len(b) + 1) /\ x = DATA_END)
  PROVE  Open(c, m, hb, sw, ten)
<1>1. PICK n \in Nat : n = Len(b)
  OBVIOUS
<1>2. Longer(b, c, n, x) /\ Len(c) = n + 1
  BY <1>1, AppendLonger
<1>3. m \in 1..n /\ Starting(b, m) /\ Unended(b, m, n)
  BY <1>1, Zenon DEF Open
<1>4. m \in 1..(n + 1)
  BY <1>3
<1>5. Starting(c, m) /\ Unended(c, m, n + 1)
  <2>1. Starting(c, m)
    BY <1>2, <1>3, StartingLocal
  <2>2. Unended(c, m, n + 1)
    BY <1>1, <1>2, <1>3, UnendedNext
  <2> QED
    BY <2>1, <2>2
<1>6. DigitsFrom(c, m) = DigitsFrom(b, m)
  <2>1. ~(Within(Append(b, x), m, Len(b) + 1) /\ x \in Digits)
    BY <1>1, <1>3, Zenon DEF Silent
  <2>2. DigitsFrom(Append(b, x), m) = DigitsFrom(b, m)
    BY <1>1, <1>3, <2>1, DigitsQuiet
  <2> QED
    BY <2>2, Zenon
<1> QED
  BY <1>2, <1>4, <1>5, <1>6, Zenon DEF Open

\* The byte x after b is no digit, and makes im2 and id2 of the parser's state.
Quiet(b, x, c, id, im2, id2) ==
  /\ Silent(b, x) /\ c = Append(b, x)
  /\ im2 \in BOOLEAN /\ (im2 <=> InMessage(c, Len(b) + 2))
  /\ id2 \in BOOLEAN /\ (id2 <=> InData(c, Len(b) + 2))
  /\ id2 => id /\ ~(Plain(c, Len(b) + 1) /\ x = DATA_END)

\* A silent byte keeps the parser's buffers in step with the reference.
LEMMA StepQuiet ==
  ASSUME NEW b, NEW im, NEW id, NEW hb, NEW sw, NEW all, NEW ten,
         Tracks(b, im, id, hb, sw, all, ten), NEW x \in Bytes, NEW c, NEW im2, NEW id2,
         Quiet(b, x, c, id, im2, id2)
  PROVE  Tracks(c, im2, id2, hb, sw, all, ten)
<1> USE DEF Quiet
<1>1. b \in Seq(Bytes)
  BY Zenon DEF Tracks
<1>2. c \in Seq(Bytes) /\ Len(c) + 1 = Len(b) + 2
  <2>1. Append(b, x) \in Seq(Bytes) /\ Len(Append(b, x)) = Len(b) + 1
    BY <1>1, AppendLonger
  <2>2. PICK n \in Nat : n = Len(b)
    BY <1>1
  <2>3. Len(c) = n + 1 /\ c \in Seq(Bytes)
    BY <2>1, <2>2, Zenon
  <2>4. n + 1 + 1 = n + 2
    BY <2>2
  <2> QED
    BY <2>2, <2>3, <2>4, Zenon
<1>3. SweepsIn(c, ten) = SweepsIn(b, ten) /\ (~Corrupt(b, ten) => ~Corrupt(c, ten))
  BY <1>1, SilentSame
<1>4. all = SweepsIn(c, ten) /\ ~Corrupt(c, ten)
  BY <1>3, Zenon DEF Tracks
<1>5. ASSUME id2 PROVE \E m : Open(c, m, hb, sw, ten)
  <2>1. PICK m : Open(b, m, hb, sw, ten)
    BY <1>5, Zenon DEF Tracks
  <2>2. Open(c, m, hb, sw, ten)
    BY <1>1, <1>5, <2>1, OpenQuiet
  <2> QED
    BY <2>2
<1> QED
  BY <1>2, <1>4, <1>5, Zenon DEF Tracks

\* What the reference says after the byte x.
LEMMA AfterByte ==
  ASSUME NEW b \in Seq(Bytes), NEW x \in Bytes, NEW n \in Nat, n = Len(b),
         NEW c, c = Append(b, x)
  PROVE  /\ Longer(b, c, n, x) /\ Len(c) = n + 1 /\ c \in Seq(Bytes)
         /\ InMessage(c, n + 2) <=> IF InMessage(b, n + 1) THEN x # MESSAGE_END
                                    ELSE x = MESSAGE_START
         /\ InData(c, n + 2) <=> /\ ~(Plain(c, n + 1) /\ x = DATA_END)
                                 /\ InData(b, n + 1) \/ (Plain(c, n + 1) /\ x = DATA_START)
         /\ Plain(c, n + 1) <=> ~InMessage(b, n + 1) /\ x # MESSAGE_START
<1>1. Longer(b, c, n, x) /\ Len(c) = n + 1 /\ c \in Seq(Bytes)
  BY AppendLonger
<1>2. n + 1 \in 1..(n + 1)
  OBVIOUS
<1>3. InMessage(c, n + 1) <=> InMessage(b, n + 1)
  BY <1>1, <1>2, InMessageLocal
<1>4. c[n + 1] = x
  BY <1>1, Zenon DEF Longer
<1>5. Plain(c, n + 1) <=> ~InMessage(b, n + 1) /\ x # MESSAGE_START
  BY <1>3, <1>4, Zenon DEF Plain
<1>6. InMessage(c, n + 2) <=> IF InMessage(b, n + 1) THEN x # MESSAGE_END
                              ELSE x = MESSAGE_START
  BY <1>1, InMessageNext
<1>7. InData(c, n + 2) <=> /\ ~(Plain(c, n + 1) /\ x = DATA_END)
                           /\ InData(b, n + 1) \/ (Plain(c, n + 1) /\ x = DATA_START)
  BY <1>1, InDataNext
<1> QED
  BY <1>1, <1>5, <1>6, <1>7

\* A byte of a message, or the one that begins a message.
LEMMA ByteOfMessage ==
  ASSUME NEW b, NEW im, NEW id, NEW hb, NEW sw, NEW all, NEW ten,
         Tracks(b, im, id, hb, sw, all, ten), NEW x \in Bytes,
         im \/ x = MESSAGE_START,
         NEW im2 \in BOOLEAN, im2 <=> (IF im THEN x # MESSAGE_END ELSE TRUE)
  PROVE  Tracks(Append(b, x), im2, id, hb, sw, all, ten)
<1>1. b \in Seq(Bytes) /\ im \in BOOLEAN /\ id \in BOOLEAN
  BY Zenon DEF Tracks
<1>2. (im <=> InMessage(b, Len(b) + 1)) /\ (id <=> InData(b, Len(b) + 1))
  BY Zenon DEF Tracks
<1>3. PICK n \in Nat : n = Len(b)
  BY <1>1
<1>4. PICK c : c = Append(b, x)
  OBVIOUS
<1>5. ~Plain(c, n + 1)
  BY <1>1, <1>2, <1>3, <1>4, AfterByte
<1>6. (InMessage(c, n + 2) <=> im2) /\ (InData(c, n + 2) <=> id)
  <2>1. /\ InMessage(c, n + 2) <=> IF InMessage(b, n + 1) THEN x # MESSAGE_END
                                    ELSE x = MESSAGE_START
        /\ InData(c, n + 2) <=> /\ ~(Plain(c, n + 1) /\ x = DATA_END)
                                /\ InData(b, n + 1) \/ (Plain(c, n + 1) /\ x = DATA_START)
    BY <1>1, <1>3, <1>4, AfterByte
  <2> QED
    BY <1>2, <1>3, <1>5, <2>1, Zenon
<1>7. Silent(b, x)
  BY <1>1, <1>3, <1>4, <1>5, SilentWhen
<1>8. Tracks(c, im2, id, hb, sw, all, ten)
  <2>1. /\ im2 <=> InMessage(c, Len(b) + 2)
        /\ id <=> InData(c, Len(b) + 2)
        /\ ~(Plain(c, Len(b) + 1) /\ x = DATA_END)
    BY <1>3, <1>5, <1>6, Zenon
  <2>2. Quiet(b, x, c, id, im2, id)
    BY <1>1, <1>4, <1>7, <2>1, Zenon DEF Quiet
  <2> QED
    BY <2>2, StepQuiet, Zenon
<1> QED
  BY <1>4, <1>8

\* A byte of the data stream that is no digit of a transmission and starts none.
LEMMA ByteOfNothing ==
  ASSUME NEW b, NEW im, NEW id, NEW hb, NEW sw, NEW all, NEW ten,
         Tracks(b, im, id, hb, sw, all, ten), NEW x \in Bytes,
         ~im, x # MESSAGE_START,
         IF id THEN x \notin Digits ELSE x # DATA_START,
         NEW id2 \in BOOLEAN, id2 <=> id /\ x # DATA_END
  PROVE  Tracks(Append(b, x), im, id2, hb, sw, all, ten)
<1>1. b \in Seq(Bytes) /\ im \in BOOLEAN /\ id \in BOOLEAN
  BY Zenon DEF Tracks
<1>2. (im <=> InMessage(b, Len(b) + 1)) /\ (id <=> InData(b, Len(b) + 1))
  BY Zenon DEF Tracks
<1>3. PICK n \in Nat : n = Len(b)
  BY <1>1
<1>4. PICK c : c = Append(b, x)
  OBVIOUS
<1>5. Plain(c, n + 1)
  BY <1>1, <1>2, <1>3, <1>4, AfterByte
<1>6. (InMessage(c, n + 2) <=> im) /\ (InData(c, n + 2) <=> id2)
  <2>1. /\ InMessage(c, n + 2) <=> IF InMessage(b, n + 1) THEN x # MESSAGE_END
                                    ELSE x = MESSAGE_START
        /\ InData(c, n + 2) <=> /\ ~(Plain(c, n + 1) /\ x = DATA_END)
                                /\ InData(b, n + 1) \/ (Plain(c, n + 1) /\ x = DATA_START)
    BY <1>1, <1>3, <1>4, AfterByte
  <2>2. id => x # DATA_START
    BY DigitMarks, Zenon
  <2> QED
    BY <1>2, <1>3, <1>5, <2>1, <2>2, Zenon
<1>7. Silent(b, x)
  BY <1>1, <1>2, <1>3, SilentWhen
<1>8. Tracks(c, im, id2, hb, sw, all, ten)
  <2>1. /\ im <=> InMessage(c, Len(b) + 2)
        /\ id2 <=> InData(c, Len(b) + 2)
        /\ id2 => id /\ ~(Plain(c, Len(b) + 1) /\ x = DATA_END)
    BY <1>3, <1>5, <1>6, Zenon
  <2>2. Quiet(b, x, c, id, im, id2)
    BY <1>1, <1>4, <1>7, <2>1, Zenon DEF Quiet
  <2> QED
    BY <2>2, StepQuiet
<1> QED
  BY <1>4, <1>8

\* The byte that starts a transmission.
LEMMA ByteOfStart ==
  ASSUME NEW b, NEW im, NEW id, NEW hb, NEW sw, NEW all, NEW ten,
         Tracks(b, im, id, hb, sw, all, ten), NEW x \in Bytes,
         ~im, ~id, x = DATA_START, NEW id2 \in BOOLEAN, id2
  PROVE  Tracks(Append(b, x), im, id2, <<>>, <<>>, all, ten)
<1>1. b \in Seq(Bytes) /\ im \in BOOLEAN /\ id \in BOOLEAN
  BY Zenon DEF Tracks
<1>2. (im <=> InMessage(b, Len(b) + 1)) /\ (id <=> InData(b, Len(b) + 1))
  BY Zenon DEF Tracks
<1>3. PICK n \in Nat : n = Len(b)
  BY <1>1
<1>4. PICK c : c = Append(b, x)
  OBVIOUS
<1>n. x # MESSAGE_START /\ x # DATA_END
  BY DEF MESSAGE_START, DATA_START, DATA_END
<1>5. Longer(b, c, n, x) /\ Len(c) = n + 1 /\ c \in Seq(Bytes)
  <2>1. \A d : d = Append(b, x) => Longer(b, d, n, x) /\ Len(d) = n + 1 /\ d \in Seq(Bytes)
    BY <1>1, <1>3, AppendLonger
  <2> QED
    BY <1>4, <2>1, Zenon
<1>6. Plain(c, n + 1)
  BY <1>1, <1>2, <1>3, <1>4, <1>n, AfterByte
<1>7. (InMessage(c, n + 2) <=> im) /\ InData(c, n + 2)
  <2>1. /\ InMessage(c, n + 2) <=> IF InMessage(b, n + 1) THEN x # MESSAGE_END
                                    ELSE x = MESSAGE_START
        /\ InData(c, n + 2) <=> /\ ~(Plain(c, n + 1) /\ x = DATA_END)
                                /\ InData(b, n + 1) \/ (Plain(c, n + 1) /\ x = DATA_START)
    BY <1>1, <1>3, <1>4, AfterByte
  <2> QED
    BY <1>2, <1>3, <1>6, <1>n, <2>1, Zenon
<1>8. Silent(b, x)
  BY <1>1, <1>2, <1>3, SilentWhen
<1>9. all = SweepsIn(c, ten) /\ ~Corrupt(c, ten)
  <2>1. SweepsIn(Append(b, x), ten) = SweepsIn(b, ten)
        /\ (~Corrupt(b, ten) => ~Corrupt(Append(b, x), ten))
    BY <1>1, <1>8, SilentSame
  <2> QED
    BY <1>4, <2>1, Zenon DEF Tracks
<1>10. Starting(c, n + 1) /\ Unended(c, n + 1, n + 1)
  <2>1. c[n + 1] = x
    BY <1>5, Zenon DEF Longer
  <2>2. n + 1 \in 1..(n + 1) /\ \A k \in (n + 1)..(n + 1) : k = n + 1
    OBVIOUS
  <2>3. ~InData(c, n + 1)
    BY <1>2, <1>3, <1>5, <2>2, InDataLocal
  <2> QED
    BY <1>6, <1>n, <2>1, <2>2, <2>3, Zenon DEF Starting, Unended
<1>11. Chain(DigitsFrom(c, n + 1), <<>>, <<>>, <<>>, <<>>, ten)
  BY <1>5, NewIsEmpty
<1>12. Open(c, n + 1, <<>>, <<>>, ten)
  <2>1. n + 1 \in 1..(n + 1)
    OBVIOUS
  <2> QED
    BY <1>5, <1>10, <1>11, <2>1, Zenon DEF Open
<1>13. Len(c) + 1 = n + 2
  BY <1>5
<1>14. Tracks(c, im, id2, <<>>, <<>>, all, ten)
  BY <1>1, <1>5, <1>7, <1>9, <1>12, <1>13, Zenon DEF Tracks
<1> QED
  BY <1>4, <1>14

\* What a digit makes of the samples and of the sweeps of its transmission.
NextSamples(S, S2, ten) == S2 = S \/ \E v \in Nat : S2 = Append(S, v) /\ v < Limit(ten)
NextSweeps(W, W2, all, all2, ten) ==
  \/ W2 = W /\ all2 = all
  \/ \E y \in Sweep8(ten) : W2 = Append(W, y) /\ all2 = Append(all, y)

\* A sample below the limit keeps all of them below it.
LEMMA BelowLimit ==
  ASSUME NEW S \in Seq(Nat), NEW v \in Nat, NEW l \in Nat, v < l,
         \A k \in DOMAIN S : S[k] < l
  PROVE  \A k \in DOMAIN Append(S, v) : Append(S, v)[k] < l
OBVIOUS

\* A digit changes the sweeps of the open transmission only.
LEMMA DigitSweeps ==
  ASSUME NEW b \in Seq(Bytes), NEW x \in Bytes, NEW c, c = Append(b, x), NEW ten,
         NEW m \in 1..Len(b), Starting(b, m), NEW all, NEW all2, all = SweepsIn(b, ten),
         NextSweeps(SweepsFrom(b, m, ten), SweepsFrom(c, m, ten), all, all2, ten),
         Others(b, c, m, ten),
         ~Starting(c, Len(b) + 1)
  PROVE  all2 = SweepsIn(c, ten)
<1>1. CASE SweepsFrom(c, m, ten) = SweepsFrom(b, m, ten) /\ all2 = all
  <2>1. \A i \in 1..Len(b) : Starting(b, i) => SweepsFrom(c, i, ten) = SweepsFrom(b, i, ten)
    BY <1>1, Zenon DEF Others
  <2>2. SameSweeps(b, x, c, ten)
    BY <2>1, Zenon DEF SameSweeps
  <2>3. SweepsIn(c, ten) = SweepsIn(b, ten)
    BY <2>2, SweepsSame
  <2> QED
    BY <1>1, <2>3, Zenon
<1>2. ASSUME NEW y \in Sweep8(ten),
             SweepsFrom(c, m, ten) = Append(SweepsFrom(b, m, ten), y),
             all2 = Append(all, y)
      PROVE  all2 = SweepsIn(c, ten)
  <2>1. MoreBy(SweepsFrom(c, m, ten), SweepsFrom(b, m, ten), y)
    BY <1>2, Zenon DEF MoreBy
  <2>2. MoreBy(SweepsIn(c, ten), SweepsIn(b, ten), y)
    BY <1>2, <2>1, SweepsMore
  <2> QED
    BY <1>2, <2>2, Zenon DEF MoreBy
<1> QED
  BY <1>1, <1>2, Zenon DEF NextSweeps

\* A digit that completes no bad sample leaves the byte string sound.
LEMMA DigitSound ==
  ASSUME NEW b \in Seq(Bytes), NEW x \in Bytes, NEW c, c = Append(b, x), NEW ten,
         NEW m \in 1..Len(b), Starting(b, m), ~Corrupt(b, ten),
         NextSamples(SamplesFrom(b, m), SamplesFrom(c, m), ten),
         Others(b, c, m, ten),
         ~Starting(c, Len(b) + 1)
  PROVE  ~Corrupt(c, ten)
<1>1. PICK n \in Nat : n = Len(b)
  OBVIOUS
<1>2. Longer(b, c, n, x) /\ Len(c) = n + 1 /\ c \in Seq(Bytes)
  BY <1>1, AppendLonger
<1>3. \A i \in 1..n : Starting(b, i) => Sound(b, i, ten)
  BY <1>1, SoundIs
<1>4. ASSUME NEW i \in 1..(n + 1), Starting(c, i)
      PROVE  Sound(c, i, ten)
  <2>1. i # n + 1
    BY <1>1, <1>4, Zenon
  <2>2. i \in 1..n
    BY <2>1
  <2>3. Starting(b, i)
    BY <1>2, <1>4, <2>2, StartingLocal
  <2>4. Sound(b, i, ten)
    BY <1>3, <2>2, <2>3, Zenon
  <2>5. CASE i # m
    BY <1>1, <2>2, <2>3, <2>4, <2>5, Zenon DEF Sound, Others
  <2>6. CASE i = m
    <3>1. CASE SamplesFrom(c, m) = SamplesFrom(b, m)
      BY <2>4, <2>6, <3>1, Zenon DEF Sound
    <3>2. ASSUME NEW v \in Nat, SamplesFrom(c, m) = Append(SamplesFrom(b, m), v),
                 v < Limit(ten)
          PROVE  Sound(c, i, ten)
      <4>1. Limit(ten) \in Nat
        BY WireAssumption DEF Limit
      <4>2. \A k \in DOMAIN SamplesFrom(b, m) : SamplesFrom(b, m)[k] < Limit(ten)
        BY <2>4, <2>6, Zenon DEF Sound
      <4>3. SamplesFrom(b, m) \in Seq(Nat)
        BY SamplesFromType
      <4>4. \A k \in DOMAIN Append(SamplesFrom(b, m), v) :
              Append(SamplesFrom(b, m), v)[k] < Limit(ten)
        BY <3>2, <4>1, <4>2, <4>3, BelowLimit
      <4> QED
        BY <2>6, <3>2, <4>4, Zenon DEF Sound
    <3> QED
      BY <3>1, <3>2, Zenon DEF NextSamples
  <2> QED
    BY <2>5, <2>6
<1> QED
  BY <1>2, <1>4, SoundIs

\* A digit of the open transmission keeps the buffers in step with the reference.
LEMMA DigitStep ==
  ASSUME NEW b, NEW im, NEW id, NEW hb, NEW sw, NEW all, NEW ten,
         Tracks(b, im, id, hb, sw, all, ten), NEW x \in Digits,
         ~im, id, x # MESSAGE_START,
         NEW m, NEW S, NEW W, m \in 1..Len(b), Starting(b, m), Unended(b, m, Len(b)),
         Chain(DigitsFrom(b, m), hb, sw, S, W, ten),
         NEW hb2, NEW sw2, NEW S2, NEW W2, NEW all2,
         Chain(Append(DigitsFrom(b, m), x), hb2, sw2, S2, W2, ten),
         NextSamples(S, S2, ten), NextSweeps(W, W2, all, all2, ten)
  PROVE  Tracks(Append(b, x), im, id, hb2, sw2, all2, ten)
<1>1. b \in Seq(Bytes) /\ im \in BOOLEAN /\ id \in BOOLEAN
  BY Zenon DEF Tracks
<1>2. (im <=> InMessage(b, Len(b) + 1)) /\ (id <=> InData(b, Len(b) + 1))
  BY Zenon DEF Tracks
<1>3. all = SweepsIn(b, ten) /\ ~Corrupt(b, ten)
  BY Zenon DEF Tracks
<1>4. x \in Bytes /\ x # DATA_END
  BY DigitMarks DEF Bytes
<1>5. PICK n \in Nat : n = Len(b)
  BY <1>1
<1>6. PICK c : c = Append(b, x)
  OBVIOUS
<1>7. Longer(b, c, n, x) /\ Len(c) = n + 1 /\ c \in Seq(Bytes)
  <2>1. \A d : d = Append(b, x) => Longer(b, d, n, x) /\ Len(d) = n + 1 /\ d \in Seq(Bytes)
    BY <1>1, <1>4, <1>5, AppendLonger
  <2> QED
    BY <1>6, <2>1, Zenon
<1>8. Plain(c, n + 1) /\ InData(b, n + 1)
  BY <1>1, <1>2, <1>4, <1>5, <1>6, AfterByte
<1>9. (InMessage(c, n + 2) <=> im) /\ (InData(c, n + 2) <=> id)
  <2>1. /\ InMessage(c, n + 2) <=> IF InMessage(b, n + 1) THEN x # MESSAGE_END
                                    ELSE x = MESSAGE_START
        /\ InData(c, n + 2) <=> /\ ~(Plain(c, n + 1) /\ x = DATA_END)
                                /\ InData(b, n + 1) \/ (Plain(c, n + 1) /\ x = DATA_START)
    BY <1>1, <1>4, <1>5, <1>6, AfterByte
  <2> QED
    BY <1>2, <1>4, <1>5, <1>8, <2>1, Zenon
<1>10. /\ DigitsFrom(c, m) = Append(DigitsFrom(b, m), x)
       /\ Others(b, c, m, ten)
       /\ ~Starting(c, Len(b) + 1) /\ Starting(c, m) /\ Unended(c, m, Len(b) + 1)
  <2>1. Plain(c, Len(b) + 1) /\ InData(b, Len(b) + 1)
    BY <1>5, <1>8, Zenon
  <2> QED
    BY <1>1, <1>4, <1>6, <2>1, DigitMore, Zenon
<1>11. Chain(DigitsFrom(c, m), hb2, sw2, S2, W2, ten)
  BY <1>10, Zenon
<1>12. S = SamplesFrom(b, m) /\ W = SweepsFrom(b, m, ten)
  BY <1>1, ChainFrom
<1>13. S2 = SamplesFrom(c, m) /\ W2 = SweepsFrom(c, m, ten)
  BY <1>7, <1>11, ChainFrom
<1>14. all2 = SweepsIn(c, ten)
  <2>1. NextSweeps(SweepsFrom(b, m, ten), SweepsFrom(c, m, ten), all, all2, ten)
    BY <1>12, <1>13, Zenon
  <2> QED
    BY <1>1, <1>3, <1>4, <1>6, <1>10, <2>1, DigitSweeps
<1>15. ~Corrupt(c, ten)
  <2>1. NextSamples(SamplesFrom(b, m), SamplesFrom(c, m), ten)
    BY <1>12, <1>13, Zenon
  <2> QED
    BY <1>1, <1>3, <1>4, <1>6, <1>10, <2>1, DigitSound
<1>16. Open(c, m, hb2, sw2, ten)
  <2>1. m \in 1..(n + 1)
    BY <1>5
  <2> QED
    BY <1>5, <1>7, <1>10, <1>11, <2>1, Zenon DEF Open
<1>17. Len(c) + 1 = n + 2
  BY <1>7
<1>18. Tracks(c, im, id, hb2, sw2, all2, ten)
  BY <1>1, <1>7, <1>9, <1>14, <1>15, <1>16, <1>17, Zenon DEF Tracks
<1> QED
  BY <1>6, <1>18

-----------------------------------------------------------------------------
(* The parser's state, byte by byte. *)

Lows == {To8(v, ten) : v \in Nat, ten \in BOOLEAN}

ParserOf(M, H, S, R, T) ==
  [ten : BOOLEAN, in_data : BOOLEAN, in_message : BOOLEAN, message : M, hexbuf : H,
   sweep : S, sweeps : R, texts : T, bad : BOOLEAN]

Parsers == ParserOf(Seq(Bytes), Seq(Digits), Seq(Lows), Seq(Seq(Lows)), Seq(Seq(Bytes)))

\* q is p but for the fields of a message.
MessageOf(p, q, im, M, T) ==
  /\ q.in_message = im /\ q.message \in M /\ q.texts \in T
  /\ q.ten = p.ten /\ q.in_data = p.in_data /\ q.hexbuf = p.hexbuf
  /\ q.sweep = p.sweep /\ q.sweeps = p.sweeps /\ q.bad = p.bad

\* q is p but for the fields of the data.
DataOf(p, q, id, hb, sw, sweeps, bad) ==
  /\ q.in_data = id /\ q.hexbuf = hb /\ q.sweep = sw /\ q.sweeps = sweeps /\ q.bad = bad
  /\ q.ten = p.ten /\ q.in_message = p.in_message
  /\ q.message = p.message /\ q.texts = p.texts

\* The ways in which a byte changes the parser.
EndMessage(p, m, t) == [p EXCEPT !.in_message = FALSE, !.message = m, !.texts = t]
BeginMessage(p, m) == [p EXCEPT !.in_message = TRUE, !.message = m]
WithMessage(p, m) == [p EXCEPT !.message = m]
BeginData(p, h, s) == [p EXCEPT !.in_data = TRUE, !.hexbuf = h, !.sweep = s]
EndData(p) == [p EXCEPT !.in_data = FALSE]
WithSweeps(p, h, s, r) == [p EXCEPT !.hexbuf = h, !.sweep = s, !.sweeps = r]
WithSweep(p, h, s) == [p EXCEPT !.hexbuf = h, !.sweep = s]
WithBad(p, h) == [p EXCEPT !.hexbuf = h, !.bad = TRUE]
WithHex(p, h) == [p EXCEPT !.hexbuf = h]

\* What the message steps of the parser change, and what they keep.
LEMMA MessageFields ==
  ASSUME NEW M, NEW H, NEW S, NEW R, NEW T, NEW p \in ParserOf(M, H, S, R, T),
         NEW m \in M, NEW t \in T
  PROVE  /\ MessageOf(p, EndMessage(p, m, t), FALSE, M, T)
         /\ EndMessage(p, m, t) \in ParserOf(M, H, S, R, T)
         /\ MessageOf(p, WithMessage(p, m), p.in_message, M, T)
         /\ WithMessage(p, m) \in ParserOf(M, H, S, R, T)
         /\ MessageOf(p, BeginMessage(p, m), TRUE, M, T)
         /\ BeginMessage(p, m) \in ParserOf(M, H, S, R, T)
BY DEF MessageOf, ParserOf, EndMessage, BeginMessage, WithMessage

\* What the data steps of the parser change, and what they keep.
LEMMA DataFields ==
  ASSUME NEW M, NEW H, NEW S, NEW R, NEW T, NEW p \in ParserOf(M, H, S, R, T),
         NEW h \in H, NEW s \in S, NEW r \in R
  PROVE  /\ DataOf(p, BeginData(p, h, s),
                   TRUE, h, s, p.sweeps, p.bad)
         /\ BeginData(p, h, s) \in ParserOf(M, H, S, R, T)
         /\ DataOf(p, EndData(p), FALSE, p.hexbuf, p.sweep, p.sweeps, p.bad)
         /\ EndData(p) \in ParserOf(M, H, S, R, T)
         /\ DataOf(p, WithHex(p, h), p.in_data, h, p.sweep, p.sweeps, p.bad)
         /\ WithHex(p, h) \in ParserOf(M, H, S, R, T)
         /\ DataOf(p, WithBad(p, h), p.in_data, h, p.sweep, p.sweeps, TRUE)
         /\ WithBad(p, h) \in ParserOf(M, H, S, R, T)
         /\ DataOf(p, WithSweeps(p, h, s, r),
                   p.in_data, h, s, r, p.bad)
         /\ WithSweeps(p, h, s, r) \in ParserOf(M, H, S, R, T)
         /\ DataOf(p, WithSweep(p, h, s), p.in_data, h, s, p.sweeps, p.bad)
         /\ WithSweep(p, h, s) \in ParserOf(M, H, S, R, T)
<1>1. /\ DataOf(p, BeginData(p, h, s),
                   TRUE, h, s, p.sweeps, p.bad)
      /\ BeginData(p, h, s) \in ParserOf(M, H, S, R, T)
      /\ DataOf(p, EndData(p), FALSE, p.hexbuf, p.sweep, p.sweeps, p.bad)
      /\ EndData(p) \in ParserOf(M, H, S, R, T)
  BY DEF DataOf, ParserOf, BeginData, EndData, WithSweeps, WithSweep, WithBad, WithHex
<1>2. /\ DataOf(p, WithHex(p, h), p.in_data, h, p.sweep, p.sweeps, p.bad)
      /\ WithHex(p, h) \in ParserOf(M, H, S, R, T)
      /\ DataOf(p, WithBad(p, h), p.in_data, h, p.sweep, p.sweeps, TRUE)
      /\ WithBad(p, h) \in ParserOf(M, H, S, R, T)
  BY DEF DataOf, ParserOf, BeginData, EndData, WithSweeps, WithSweep, WithBad, WithHex
<1>3. /\ DataOf(p, WithSweeps(p, h, s, r),
                   p.in_data, h, s, r, p.bad)
      /\ WithSweeps(p, h, s, r) \in ParserOf(M, H, S, R, T)
      /\ DataOf(p, WithSweep(p, h, s), p.in_data, h, s, p.sweeps, p.bad)
      /\ WithSweep(p, h, s) \in ParserOf(M, H, S, R, T)
  BY DEF DataOf, ParserOf, BeginData, EndData, WithSweeps, WithSweep, WithBad, WithHex
<1> QED
  BY <1>1, <1>2, <1>3

\* The fields of a parser.
LEMMA ParserTypes ==
  ASSUME NEW p \in Parsers
  PROVE  /\ p.message \in Seq(Bytes) /\ p.hexbuf \in Seq(Digits) /\ p.sweep \in Seq(Lows)
         /\ p.sweeps \in Seq(Seq(Lows)) /\ p.texts \in Seq(Seq(Bytes))
         /\ p.ten \in BOOLEAN /\ p.in_data \in BOOLEAN /\ p.in_message \in BOOLEAN
         /\ p.bad \in BOOLEAN
BY Zenon DEF Parsers, ParserOf

\* A byte of a message.
LEMMA ConsumeMessageIs ==
  ASSUME NEW p \in Parsers, NEW x \in Bytes, NEW q, q = ConsumeMessage(p, x), p.in_message
  PROVE  /\ q \in Parsers
         /\ MessageOf(p, q, x # MESSAGE_END, Seq(Bytes), Seq(Seq(Bytes)))
<1> DEFINE M == Seq(Bytes)
           T == Seq(Seq(Bytes))
           H == Seq(Digits)
           S == Seq(Lows)
           R == Seq(Seq(Lows))
<1>1. p.in_message = TRUE
  BY ParserTypes
<1>2. <<>> \in M /\ Append(p.message, x) \in M /\ Append(p.texts, p.message) \in T /\ p.texts \in T
  BY ParserTypes
<1>p. p \in ParserOf(M, H, S, R, T) /\ Parsers = ParserOf(M, H, S, R, T)
  BY Zenon DEF Parsers
<1> HIDE DEF M, T, H, S, R
<1>3. CASE x = MESSAGE_END
  <2>1. q = EndMessage(p, <<>>, Append(p.texts, p.message))
    BY <1>3, Zenon DEF ConsumeMessage, EndMessage
  <2>2. q \in ParserOf(M, H, S, R, T) /\ MessageOf(p, q, FALSE, M, T)
    BY <1>2, <1>p, <2>1, MessageFields
  <2> QED
    BY <1>3, <1>p, <2>2, Zenon DEF M, T
<1>4. CASE x # MESSAGE_END
  <2>1. q = WithMessage(p, Append(p.message, x))
    BY <1>4, Zenon DEF ConsumeMessage, WithMessage
  <2>2. q \in ParserOf(M, H, S, R, T) /\ MessageOf(p, q, p.in_message, M, T)
    BY <1>2, <1>p, <2>1, MessageFields
  <2>3. MessageOf(p, q, TRUE, M, T)
    BY <1>1, <2>2, Zenon
  <2> QED
    BY <1>4, <1>p, <2>2, <2>3, Zenon DEF M, T
<1> QED
  BY <1>3, <1>4

\* The data steps of a parser with the types that it has.
LEMMA ParserData ==
  ASSUME NEW p \in Parsers, NEW h \in Seq(Digits), NEW s \in Seq(Lows), NEW r \in Seq(Seq(Lows))
  PROVE  /\ DataOf(p, BeginData(p, h, s), TRUE, h, s, p.sweeps, p.bad)
         /\ BeginData(p, h, s) \in Parsers
         /\ DataOf(p, EndData(p), FALSE, p.hexbuf, p.sweep, p.sweeps, p.bad)
         /\ EndData(p) \in Parsers
         /\ DataOf(p, WithHex(p, h), p.in_data, h, p.sweep, p.sweeps, p.bad)
         /\ WithHex(p, h) \in Parsers
         /\ DataOf(p, WithBad(p, h), p.in_data, h, p.sweep, p.sweeps, TRUE)
         /\ WithBad(p, h) \in Parsers
         /\ DataOf(p, WithSweeps(p, h, s, r), p.in_data, h, s, r, p.bad)
         /\ WithSweeps(p, h, s, r) \in Parsers
         /\ DataOf(p, WithSweep(p, h, s), p.in_data, h, s, p.sweeps, p.bad)
         /\ WithSweep(p, h, s) \in Parsers
<1> DEFINE M == Seq(Bytes)
           T == Seq(Seq(Bytes))
           H == Seq(Digits)
           S == Seq(Lows)
           R == Seq(Seq(Lows))
<1>1. h \in H /\ s \in S /\ r \in R
  OBVIOUS
<1>2. p \in ParserOf(M, H, S, R, T) /\ Parsers = ParserOf(M, H, S, R, T)
  BY Zenon DEF Parsers
<1> HIDE DEF M, T, H, S, R
<1>3. /\ DataOf(p, BeginData(p, h, s), TRUE, h, s, p.sweeps, p.bad)
      /\ BeginData(p, h, s) \in ParserOf(M, H, S, R, T)
      /\ DataOf(p, EndData(p), FALSE, p.hexbuf, p.sweep, p.sweeps, p.bad)
      /\ EndData(p) \in ParserOf(M, H, S, R, T)
      /\ DataOf(p, WithHex(p, h), p.in_data, h, p.sweep, p.sweeps, p.bad)
      /\ WithHex(p, h) \in ParserOf(M, H, S, R, T)
      /\ DataOf(p, WithBad(p, h), p.in_data, h, p.sweep, p.sweeps, TRUE)
      /\ WithBad(p, h) \in ParserOf(M, H, S, R, T)
      /\ DataOf(p, WithSweeps(p, h, s, r), p.in_data, h, s, r, p.bad)
      /\ WithSweeps(p, h, s, r) \in ParserOf(M, H, S, R, T)
      /\ DataOf(p, WithSweep(p, h, s), p.in_data, h, s, p.sweeps, p.bad)
      /\ WithSweep(p, h, s) \in ParserOf(M, H, S, R, T)
  BY <1>1, <1>2, DataFields, Zenon
<1> QED
  BY <1>2, <1>3, Zenon

\* A digit of the data: a word that grows, an end marker, a corrupt sample, a
\* sample, or the last sample of a sweep.
Word(p, x) == Append(p.hexbuf, x)
Sweep(p, x) == Append(p.sweep, To8(Value(Word(p, x)), p.ten))

HexGrows(p, x, q) ==
  Len(Word(p, x)) < Width /\ DataOf(p, q, p.in_data, Word(p, x), p.sweep, p.sweeps, p.bad)
HexMarker(p, x, q) ==
  /\ ~(Len(Word(p, x)) < Width) /\ Value(Word(p, x)) = EndMarker
  /\ DataOf(p, q, p.in_data, <<>>, p.sweep, p.sweeps, p.bad)
HexSample(p, x, q) ==
  /\ ~(Len(Word(p, x)) < Width) /\ Value(Word(p, x)) # EndMarker
  /\ ~(Value(Word(p, x)) >= Limit(p.ten)) /\ Len(Sweep(p, x)) # NChannels
  /\ DataOf(p, q, p.in_data, <<>>, Sweep(p, x), p.sweeps, p.bad)
HexSweep(p, x, q) ==
  /\ ~(Len(Word(p, x)) < Width) /\ Value(Word(p, x)) # EndMarker
  /\ ~(Value(Word(p, x)) >= Limit(p.ten)) /\ Len(Sweep(p, x)) = NChannels
  /\ DataOf(p, q, p.in_data, <<>>, <<>>, Append(p.sweeps, Sweep(p, x)), p.bad)

\* A word that fits the bit depth, or none yet.
HexFits(p, x) ==
  Len(Word(p, x)) < Width \/ Value(Word(p, x)) = EndMarker \/ ~(Value(Word(p, x)) >= Limit(p.ten))

\* A digit is kept, completes an end marker, a sample or a sweep, or is bad.
LEMMA HexIs ==
  ASSUME NEW p \in Parsers, NEW x \in Digits, NEW q, q = ConsumeHex(p, x)
  PROVE  /\ q \in Parsers /\ q.ten = p.ten
         /\ (q.bad /\ ~HexFits(p, x)) \/ HexGrows(p, x, q) \/ HexMarker(p, x, q) \/ HexSample(p, x, q)
                  \/ HexSweep(p, x, q)
<1>1. Word(p, x) \in Seq(Digits)
  BY ParserTypes DEF Word
<1>2. Value(Word(p, x)) \in Nat
  BY <1>1, ValueType
<1>3. To8(Value(Word(p, x)), p.ten) \in Lows
  <2>1. p.ten \in BOOLEAN
    BY ParserTypes
  <2> QED
    BY <1>2, <2>1 DEF Lows
<1>4. Sweep(p, x) \in Seq(Lows)
  BY <1>3, ParserTypes DEF Sweep
<1>5. Append(p.sweeps, Sweep(p, x)) \in Seq(Seq(Lows))
  BY <1>4, ParserTypes
<1>6. \A T : <<>> \in Seq(T)
  OBVIOUS
<1>7. <<>> \in Seq(Digits) /\ <<>> \in Seq(Lows) /\ p.sweeps \in Seq(Seq(Lows))
      /\ p.sweep \in Seq(Lows)
  BY <1>6, ParserTypes, Zenon
<1>8. CASE Len(Word(p, x)) < Width
  <2>1. q = WithHex(p, Word(p, x))
    BY <1>8, Zenon DEF ConsumeHex, WithHex, Word
  <2>2. q \in Parsers /\ DataOf(p, q, p.in_data, Word(p, x), p.sweep, p.sweeps, p.bad)
    BY <1>1, <1>7, <2>1, ParserData
  <2> QED
    BY <1>8, <2>2, Zenon DEF HexGrows, DataOf
<1>9. CASE ~(Len(Word(p, x)) < Width) /\ Value(Word(p, x)) = EndMarker
  <2>1. q = WithHex(p, <<>>)
    BY <1>9, Zenon DEF ConsumeHex, WithHex, Word
  <2>2. q \in Parsers /\ DataOf(p, q, p.in_data, <<>>, p.sweep, p.sweeps, p.bad)
    BY <1>7, <2>1, ParserData
  <2> QED
    BY <1>9, <2>2, Zenon DEF HexMarker, DataOf
<1>10. CASE /\ ~(Len(Word(p, x)) < Width) /\ Value(Word(p, x)) # EndMarker
            /\ Value(Word(p, x)) >= Limit(p.ten)
  <2>1. q = WithBad(p, <<>>)
    BY <1>10, Zenon DEF ConsumeHex, WithBad, Word
  <2>2. q \in Parsers /\ DataOf(p, q, p.in_data, <<>>, p.sweep, p.sweeps, TRUE)
    BY <1>7, <2>1, ParserData
  <2> QED
    BY <1>10, <2>2, Zenon DEF DataOf, HexFits
<1>11. CASE /\ ~(Len(Word(p, x)) < Width) /\ Value(Word(p, x)) # EndMarker
            /\ ~(Value(Word(p, x)) >= Limit(p.ten)) /\ Len(Sweep(p, x)) = NChannels
  <2>1. q = WithSweeps(p, <<>>, <<>>, Append(p.sweeps, Sweep(p, x)))
    BY <1>11, Zenon DEF ConsumeHex, AddSample, WithSweeps, Word, Sweep
  <2>2. /\ q \in Parsers
        /\ DataOf(p, q, p.in_data, <<>>, <<>>, Append(p.sweeps, Sweep(p, x)), p.bad)
    BY <1>5, <1>7, <2>1, ParserData
  <2> QED
    BY <1>11, <2>2, Zenon DEF HexSweep, DataOf
<1>12. CASE /\ ~(Len(Word(p, x)) < Width) /\ Value(Word(p, x)) # EndMarker
            /\ ~(Value(Word(p, x)) >= Limit(p.ten)) /\ Len(Sweep(p, x)) # NChannels
  <2>1. q = WithSweep(p, <<>>, Sweep(p, x))
    BY <1>12, Zenon DEF ConsumeHex, AddSample, WithSweep, Word, Sweep
  <2>2. q \in Parsers /\ DataOf(p, q, p.in_data, <<>>, Sweep(p, x), p.sweeps, p.bad)
    BY <1>4, <1>7, <2>1, ParserData
  <2> QED
    BY <1>12, <2>2, Zenon DEF HexSample, DataOf
<1> QED
  BY <1>8, <1>9, <1>10, <1>11, <1>12, Zenon

\* The parser p after the bytes b, of which it yielded p.sweeps since the sweeps
\* acc were taken.
Linked(b, p, acc) ==
  Tracks(b, p.in_message, p.in_data, p.hexbuf, p.sweep, acc \o p.sweeps, p.ten)

\* What is appended to the second part is appended to the whole.
LEMMA AppendJoin ==
  ASSUME NEW T, NEW a \in Seq(T), NEW r \in Seq(T), NEW y \in T
  PROVE  MoreBy(a \o Append(r, y), a \o r, y)
<1>1. a \o r \in Seq(T) /\ <<y>> \in Seq(T)
  OBVIOUS
<1>2. Append(a \o r, y) = (a \o r) \o <<y>>
  BY <1>1, AppendIsConcat
<1>3. Append(r, y) = r \o <<y>>
  BY AppendIsConcat
<1>4. (a \o r) \o <<y>> = a \o (r \o <<y>>)
  BY <1>1, ConcatAssociative
<1> QED
  BY <1>2, <1>3, <1>4, Zenon DEF MoreBy

\* A digit that is consumed keeps the parser in step with the reference.
LEMMA HexTracks ==
  ASSUME NEW b, NEW p \in Parsers, NEW acc \in Seq(Seq(Lows)), Linked(b, p, acc),
         NEW x \in Digits, ~p.in_message, p.in_data, x # MESSAGE_START, NEW q,
         HexGrows(p, x, q) \/ HexMarker(p, x, q) \/ HexSample(p, x, q) \/ HexSweep(p, x, q)
  PROVE  Linked(Append(b, x), q, acc)
<1> DEFINE im == p.in_message
           id == p.in_data
           hb == p.hexbuf
           sw == p.sweep
           all == acc \o p.sweeps
           ten == p.ten
<1>1. Tracks(b, im, id, hb, sw, all, ten)
  BY Zenon DEF Linked
<1>2. PICK m, S, W : /\ m \in 1..Len(b) /\ Starting(b, m) /\ Unended(b, m, Len(b))
                     /\ Chain(DigitsFrom(b, m), hb, sw, S, W, ten)
  BY <1>1, Zenon DEF Tracks, Open
<1>3. /\ Len(Word(p, x)) = Len(hb) + 1 /\ Len(hb) < Width /\ Len(hb) \in Nat
      /\ Len(Sweep(p, x)) = Len(sw) + 1 /\ Len(sw) < NChannels /\ Len(sw) \in Nat
  <2>1. hb \in Seq(Digits) /\ Len(hb) < Width /\ Len(sw) < NChannels
    BY <1>2, ChainType
  <2>2. sw \in Seq(Lows)
    BY ParserTypes
  <2>3. Len(Append(hb, x)) = Len(hb) + 1 /\ Len(hb) \in Nat
    BY <2>1
  <2>4. \A y : Len(Append(sw, y)) = Len(sw) + 1 /\ Len(sw) \in Nat
    BY <2>2
  <2> QED
    BY <2>1, <2>3, <2>4, Zenon DEF Word, Sweep
<1>4. Width \in Nat /\ NChannels \in Nat
  BY WireAssumption
<1>5. NextSamples(S, S, ten) /\ NextSweeps(W, W, all, all, ten)
  BY Zenon DEF NextSamples, NextSweeps
<1> HIDE DEF im, id, hb, sw, all, ten
<1>6. CASE HexGrows(p, x, q)
  <2>1. Len(hb) + 1 < Width
    BY <1>3, <1>6 DEF HexGrows
  <2>2. Chain(Append(DigitsFrom(b, m), x), Append(hb, x), sw, S, W, ten)
    BY <1>2, <2>1, ChainDigit
  <2>3. Tracks(Append(b, x), im, id, Append(hb, x), sw, all, ten)
    BY <1>1, <1>2, <1>5, <2>2, DigitStep DEF im, id
  <2> QED
    BY <1>6, <2>3, Zenon DEF HexGrows, DataOf, Linked, Word, im, id, hb, sw, all, ten
<1>7. CASE HexMarker(p, x, q)
  <2>1. Len(hb) + 1 = Width
    BY <1>3, <1>4, <1>7 DEF HexMarker
  <2>2. Value(Append(hb, x)) = EndMarker
    BY <1>7, Zenon DEF HexMarker, Word, hb
  <2>3. Chain(Append(DigitsFrom(b, m), x), <<>>, sw, S, W, ten)
    BY <1>2, <2>1, <2>2, ChainMarker
  <2>4. Tracks(Append(b, x), im, id, <<>>, sw, all, ten)
    BY <1>1, <1>2, <1>5, <2>3, DigitStep DEF im, id
  <2> QED
    BY <1>7, <2>4, Zenon DEF HexMarker, DataOf, Linked, Word, im, id, hb, sw, all, ten
<1>8. ASSUME HexSample(p, x, q) \/ HexSweep(p, x, q)
      PROVE  /\ Len(hb) + 1 = Width /\ Value(Append(hb, x)) # EndMarker
             /\ Value(Append(hb, x)) \in Nat /\ Value(Append(hb, x)) < Limit(ten)
             /\ NextSamples(S, Append(S, Value(Append(hb, x))), ten)
  <2>1. Len(hb) + 1 = Width
    <3>1. ~(Len(Word(p, x)) < Width)
      BY <1>8, Zenon DEF HexSample, HexSweep
    <3> QED
      BY <1>3, <1>4, <3>1
  <2>2. /\ Value(Append(hb, x)) # EndMarker
        /\ ~(Value(Append(hb, x)) >= Limit(ten))
    BY <1>8, Zenon DEF HexSample, HexSweep, Word, hb, ten
  <2>3. Append(hb, x) \in Seq(Digits)
    BY ParserTypes DEF hb
  <2>4. Value(Append(hb, x)) \in Nat /\ Limit(ten) \in Nat
    BY <2>3, ValueType, WireAssumption DEF Limit
  <2>5. Value(Append(hb, x)) < Limit(ten)
    BY <2>2, <2>4
  <2>6. NextSamples(S, Append(S, Value(Append(hb, x))), ten)
    BY <2>4, <2>5, Zenon DEF NextSamples
  <2> QED
    BY <2>1, <2>2, <2>4, <2>5, <2>6, Zenon
<1>9. CASE HexSample(p, x, q)
  <2>1. Len(sw) + 1 < NChannels
    BY <1>3, <1>4, <1>9 DEF HexSample
  <2>2. Chain(Append(DigitsFrom(b, m), x), <<>>, Append(sw, To8(Value(Append(hb, x)), ten)),
              Append(S, Value(Append(hb, x))), W, ten)
    BY <1>2, <1>8, <1>9, <2>1, ChainSample
  <2>3. NextSamples(S, Append(S, Value(Append(hb, x))), ten)
    BY <1>8, <1>9, Zenon
  <2>4. Tracks(Append(b, x), im, id, <<>>, Append(sw, To8(Value(Append(hb, x)), ten)), all, ten)
    BY <1>1, <1>2, <1>5, <2>2, <2>3, DigitStep DEF im, id
  <2> QED
    BY <1>9, <2>4, Zenon
    DEF HexSample, DataOf, Linked, Word, Sweep, im, id, hb, sw, all, ten
<1>10. CASE HexSweep(p, x, q)
  <2> DEFINE y == Append(sw, To8(Value(Append(hb, x)), ten))
  <2>1. y = Sweep(p, x) /\ Len(y) = NChannels
    BY <1>10, Zenon DEF HexSweep, Sweep, Word, sw, hb, ten
  <2>2. /\ Chain(Append(DigitsFrom(b, m), x), <<>>, <<>>, Append(S, Value(Append(hb, x))),
                 Append(W, y), ten)
        /\ y \in Sweep8(ten)
    BY <1>2, <1>8, <1>10, <2>1, ChainSweep
  <2> HIDE DEF y
  <2>3. NextSamples(S, Append(S, Value(Append(hb, x))), ten)
    BY <1>8, <1>10, Zenon
  <2>4. NextSweeps(W, Append(W, y), all, Append(all, y), ten)
    BY <2>2, Zenon DEF NextSweeps
  <2>5. Tracks(Append(b, x), im, id, <<>>, <<>>, Append(all, y), ten)
    BY <1>1, <1>2, <2>2, <2>3, <2>4, DigitStep DEF im, id
  <2>6. Append(all, y) = acc \o Append(p.sweeps, y)
    <3>1. y \in Seq(Lows) /\ p.sweeps \in Seq(Seq(Lows))
      <4>1. y = Append(p.sweep, To8(Value(Word(p, x)), p.ten))
        BY <2>1, Zenon DEF Sweep
      <4>2. Word(p, x) \in Seq(Digits) /\ p.sweep \in Seq(Lows) /\ p.ten \in BOOLEAN
        BY ParserTypes DEF Word
      <4>3. Value(Word(p, x)) \in Nat
        BY <4>2, ValueType
      <4>4. To8(Value(Word(p, x)), p.ten) \in Lows
        BY <4>2, <4>3 DEF Lows
      <4> QED
        BY <4>1, <4>2, <4>4, ParserTypes
    <3>2. MoreBy(acc \o Append(p.sweeps, y), acc \o p.sweeps, y)
      BY <3>1, AppendJoin
    <3> QED
      BY <3>2, Zenon DEF all, MoreBy
  <2>7. Tracks(Append(b, x), p.in_message, p.in_data, <<>>, <<>>,
               acc \o Append(p.sweeps, Sweep(p, x)), p.ten)
    BY <2>1, <2>5, <2>6, Zenon DEF im, id, ten
  <2> QED
    BY <1>10, <2>7, Zenon DEF HexSweep, DataOf, Linked
<1> QED
  BY <1>6, <1>7, <1>9, <1>10

\* The empty sequence is one over every set.
LEMMA EmptyItems == \A T : <<>> \in Seq(T)
OBVIOUS

\* What a byte outside messages does to the parser, by cases.
LEMMA ConsumeData ==
  ASSUME NEW p \in Parsers, NEW x \in Bytes, ~p.bad, ~p.in_message, NEW q, q = Consume(p, x)
  PROVE  /\ x = MESSAGE_START => q = BeginMessage(p, <<>>)
         /\ x # MESSAGE_START /\ ~p.in_data /\ x = DATA_START => q = BeginData(p, <<>>, <<>>)
         /\ x # MESSAGE_START /\ p.in_data /\ x = DATA_END => q = EndData(p)
         /\ x # MESSAGE_START /\ p.in_data /\ x \in Digits => q = ConsumeHex(p, x)
         /\ /\ x # MESSAGE_START
            /\ IF p.in_data THEN x # DATA_END /\ x \notin Digits ELSE x # DATA_START
            => q = p
<1>1. x = DATA_END => x \notin Digits
  BY DigitMarks
<1>2. CASE x = MESSAGE_START
  <2>1. x # DATA_START /\ x # DATA_END /\ x \notin Digits
    BY <1>2, DigitMarks DEF MESSAGE_START, DATA_START, DATA_END
  <2> QED
    BY <1>2, <2>1, Zenon DEF Consume, BeginMessage
<1>3. CASE x # MESSAGE_START /\ ~p.in_data
  BY <1>3, Zenon DEF Consume, BeginData
<1>4. CASE x # MESSAGE_START /\ p.in_data
  BY <1>1, <1>4, Zenon DEF Consume, EndData
<1> QED
  BY <1>2, <1>3, <1>4, Zenon

\* ByteOfStart for values that are equal to those of its assumptions.
LEMMA ByteStarts ==
  ASSUME NEW b, NEW im, NEW id, NEW hb, NEW sw, NEW all, NEW ten,
         Tracks(b, im, id, hb, sw, all, ten), NEW x \in {DATA_START}, NEW id2 \in {TRUE},
         im = FALSE, id = FALSE
  PROVE  Tracks(Append(b, x), im, id2, <<>>, <<>>, all, ten)
<1>1. x \in Bytes /\ id2 /\ id2 \in BOOLEAN /\ x = DATA_START /\ ~im /\ ~id
  BY DEF Bytes
<1> QED
  BY <1>1, ByteOfStart

\* A byte keeps the parser in step with the reference until a sample is bad.
LEMMA ConsumeTracks ==
  ASSUME NEW b, NEW p \in Parsers, NEW acc \in Seq(Seq(Lows)), NEW x \in Bytes,
         NEW q, q = Consume(p, x)
  PROVE  /\ q \in Parsers /\ q.ten = p.ten
         /\ p.bad => q.bad
         /\ Linked(b, p, acc) /\ ~q.bad => Linked(Append(b, x), q, acc)
<1>1. CASE p.bad
  <2>1. q = p
    BY <1>1, Zenon DEF Consume
  <2> QED
    BY <1>1, <2>1, Zenon
<1>2. CASE ~p.bad /\ p.in_message
  <2>1. q = ConsumeMessage(p, x)
    BY <1>2, Zenon DEF Consume
  <2>2. /\ q \in Parsers
        /\ MessageOf(p, q, x # MESSAGE_END, Seq(Bytes), Seq(Seq(Bytes)))
    BY <1>2, <2>1, ConsumeMessageIs
  <2>3. ASSUME Linked(b, p, acc) PROVE Linked(Append(b, x), q, acc)
    <3> DEFINE all == acc \o p.sweeps
    <3>1. Tracks(b, p.in_message, p.in_data, p.hexbuf, p.sweep, all, p.ten)
      BY <2>3, Zenon DEF Linked
    <3> HIDE DEF all
    <3>2. PICK im2 \in BOOLEAN : im2 = (x # MESSAGE_END)
      OBVIOUS
    <3>3. Tracks(Append(b, x), im2, p.in_data, p.hexbuf, p.sweep, all, p.ten)
      BY <1>2, <3>1, <3>2, ByteOfMessage
    <3>4. q.in_message = im2 /\ q.in_data = p.in_data /\ q.hexbuf = p.hexbuf /\ q.ten = p.ten
          /\ q.sweep = p.sweep /\ q.sweeps = p.sweeps
      BY <2>2, <3>2, Zenon DEF MessageOf
    <3> QED
      BY <3>3, <3>4, Zenon DEF Linked, all
  <2>4. q.ten = p.ten
    BY <2>2, Zenon DEF MessageOf
  <2> QED
    BY <1>2, <2>2, <2>3, <2>4, Zenon
<1>3. CASE ~p.bad /\ ~p.in_message /\ x = MESSAGE_START
  <2>1. q = BeginMessage(p, <<>>)
    BY <1>3, ConsumeData
  <2>2. q \in Parsers /\ MessageOf(p, q, TRUE, Seq(Bytes), Seq(Seq(Bytes)))
    <3> DEFINE M == Seq(Bytes)
               T == Seq(Seq(Bytes))
               H == Seq(Digits)
               S == Seq(Lows)
               R == Seq(Seq(Lows))
    <3>1. <<>> \in M /\ <<>> \in T
      BY EmptyItems
    <3>2. p \in ParserOf(M, H, S, R, T) /\ Parsers = ParserOf(M, H, S, R, T)
      BY Zenon DEF Parsers
    <3> HIDE DEF M, T, H, S, R
    <3>3. q \in ParserOf(M, H, S, R, T) /\ MessageOf(p, q, TRUE, M, T)
      BY <2>1, <3>1, <3>2, MessageFields
    <3> QED
      BY <3>2, <3>3, Zenon DEF M, T
  <2>3. ASSUME Linked(b, p, acc) PROVE Linked(Append(b, x), q, acc)
    <3> DEFINE all == acc \o p.sweeps
    <3>1. Tracks(b, p.in_message, p.in_data, p.hexbuf, p.sweep, all, p.ten)
      BY <2>3, Zenon DEF Linked
    <3> HIDE DEF all
    <3>4. PICK im2 \in BOOLEAN : im2 = TRUE
      OBVIOUS
    <3>2. Tracks(Append(b, x), im2, p.in_data, p.hexbuf, p.sweep, all, p.ten)
      <4> DEFINE id == p.in_data
                 im == p.in_message
      <4>1. Tracks(b, im, id, p.hexbuf, p.sweep, all, p.ten) /\ (im \/ x = MESSAGE_START)
        BY <1>3, <3>1
      <4>2. im2 <=> IF im THEN x # MESSAGE_END ELSE TRUE
        BY <1>3, <3>4
      <4> HIDE DEF id, im
      <4>3. Tracks(Append(b, x), im2, id, p.hexbuf, p.sweep, all, p.ten)
        BY <4>1, <4>2, ByteOfMessage
      <4> QED
        BY <4>3 DEF id
    <3>3. q.in_message = im2 /\ q.in_data = p.in_data /\ q.hexbuf = p.hexbuf /\ q.ten = p.ten
          /\ q.sweep = p.sweep /\ q.sweeps = p.sweeps
      BY <2>2, <3>4, Zenon DEF MessageOf
    <3> QED
      BY <3>2, <3>3, Zenon DEF Linked, all
  <2>4. q.ten = p.ten
    BY <2>2, Zenon DEF MessageOf
  <2> QED
    BY <1>3, <2>2, <2>3, <2>4, Zenon
<1>4. CASE ~p.bad /\ ~p.in_message /\ x # MESSAGE_START /\ ~p.in_data /\ x = DATA_START
  <2>1. q = BeginData(p, <<>>, <<>>)
    BY <1>4, ConsumeData
  <2>2. q \in Parsers /\ DataOf(p, q, TRUE, <<>>, <<>>, p.sweeps, p.bad)
    <3>1. <<>> \in Seq(Digits) /\ <<>> \in Seq(Lows) /\ p.sweeps \in Seq(Seq(Lows))
      BY EmptyItems, ParserTypes
    <3> QED
      BY <2>1, <3>1, ParserData
  <2>3. ASSUME Linked(b, p, acc) PROVE Linked(Append(b, x), q, acc)
    <3> DEFINE all == acc \o p.sweeps
    <3>1. Tracks(b, p.in_message, p.in_data, p.hexbuf, p.sweep, all, p.ten)
      BY <2>3, Zenon DEF Linked
    <3> HIDE DEF all
    <3>4. PICK id2 \in BOOLEAN : id2 = TRUE
      OBVIOUS
    <3>2. Tracks(Append(b, x), p.in_message, id2, <<>>, <<>>, all, p.ten)
      <4>1. p.in_message = FALSE /\ p.in_data = FALSE /\ x \in {DATA_START} /\ id2 \in {TRUE}
        BY <1>4, <3>4, ParserTypes
      <4> QED
        BY <3>1, <4>1, ByteStarts
    <3>3. /\ q.in_message = p.in_message /\ q.in_data = id2 /\ q.hexbuf = <<>> /\ q.ten = p.ten
          /\ q.sweep = <<>> /\ q.sweeps = p.sweeps
      BY <2>2, <3>4, Zenon DEF DataOf
    <3> QED
      BY <3>2, <3>3, Zenon DEF Linked, all
  <2>4. q.ten = p.ten
    BY <2>2, Zenon DEF DataOf
  <2> QED
    BY <1>4, <2>2, <2>3, <2>4, Zenon
<1>5. CASE ~p.bad /\ ~p.in_message /\ x # MESSAGE_START /\ p.in_data /\ x = DATA_END
  <2>1. q = EndData(p)
    BY <1>5, ConsumeData
  <2>2. q \in Parsers /\ DataOf(p, q, FALSE, p.hexbuf, p.sweep, p.sweeps, p.bad)
    <3>1. p.hexbuf \in Seq(Digits) /\ p.sweep \in Seq(Lows) /\ p.sweeps \in Seq(Seq(Lows))
      BY ParserTypes
    <3> QED
      BY <2>1, <3>1, ParserData
  <2>3. ASSUME Linked(b, p, acc) PROVE Linked(Append(b, x), q, acc)
    <3> DEFINE all == acc \o p.sweeps
    <3>1. Tracks(b, p.in_message, p.in_data, p.hexbuf, p.sweep, all, p.ten)
      BY <2>3, Zenon DEF Linked
    <3> HIDE DEF all
    <3>2. x \notin Digits
      BY <1>5, DigitMarks
    <3>3. Tracks(Append(b, x), p.in_message, FALSE, p.hexbuf, p.sweep, all, p.ten)
      BY <1>5, <3>1, <3>2, ByteOfNothing
    <3>4. /\ q.in_message = p.in_message /\ q.in_data = FALSE /\ q.hexbuf = p.hexbuf
          /\ q.ten = p.ten /\ q.sweep = p.sweep /\ q.sweeps = p.sweeps
      BY <2>2, Zenon DEF DataOf
    <3> QED
      BY <3>3, <3>4, Zenon DEF Linked, all
  <2>4. q.ten = p.ten
    BY <2>2, Zenon DEF DataOf
  <2> QED
    BY <1>5, <2>2, <2>3, <2>4, Zenon
<1>6. CASE ~p.bad /\ ~p.in_message /\ x # MESSAGE_START /\ p.in_data /\ x \in Digits
  <2>1. q = ConsumeHex(p, x)
    BY <1>6, ConsumeData
  <2>2. /\ q \in Parsers /\ q.ten = p.ten
        /\ (q.bad /\ ~HexFits(p, x)) \/ HexGrows(p, x, q) \/ HexMarker(p, x, q) \/ HexSample(p, x, q)
                 \/ HexSweep(p, x, q)
    BY <1>6, <2>1, HexIs
  <2>3. ASSUME Linked(b, p, acc), ~q.bad PROVE Linked(Append(b, x), q, acc)
    BY <1>6, <2>2, <2>3, HexTracks
  <2> QED
    BY <1>6, <2>2, <2>3, Zenon
<1>7. CASE /\ ~p.bad /\ ~p.in_message /\ x # MESSAGE_START
           /\ IF p.in_data THEN x # DATA_END /\ x \notin Digits ELSE x # DATA_START
  <2>1. q = p
    BY <1>7, ConsumeData
  <2>2. ASSUME Linked(b, p, acc) PROVE Linked(Append(b, x), q, acc)
    <3> DEFINE all == acc \o p.sweeps
    <3>1. Tracks(b, p.in_message, p.in_data, p.hexbuf, p.sweep, all, p.ten)
      BY <2>2, Zenon DEF Linked
    <3> HIDE DEF all
    <3>2. Tracks(Append(b, x), p.in_message, p.in_data, p.hexbuf, p.sweep, all, p.ten)
      <4>1. p.in_data \in BOOLEAN
        BY ParserTypes
      <4> QED
        BY <1>7, <3>1, <4>1, ByteOfNothing
    <3> QED
      BY <2>1, <3>2, Zenon DEF Linked, all
  <2> QED
    BY <1>7, <2>1, <2>2, Zenon
<1> QED
  BY <1>1, <1>2, <1>3, <1>4, <1>5, <1>6, <1>7, Zenon

\* The parser's items are taken.
LEMMA TakingType ==
  ASSUME NEW p \in Parsers
  PROVE  /\ Taking(p) \in Parsers /\ Taking(p).ten = p.ten /\ Taking(p).bad = p.bad
         /\ Taking(p).sweeps = <<>> /\ Taking(p).in_message = p.in_message
         /\ Taking(p).in_data = p.in_data /\ Taking(p).hexbuf = p.hexbuf
         /\ Taking(p).sweep = p.sweep
<1> DEFINE M == Seq(Bytes)
           T == Seq(Seq(Bytes))
           H == Seq(Digits)
           S == Seq(Lows)
           R == Seq(Seq(Lows))
<1>1. <<>> \in R /\ <<>> \in T
  BY EmptyItems
<1>2. p \in ParserOf(M, H, S, R, T) /\ Parsers = ParserOf(M, H, S, R, T)
  BY Zenon DEF Parsers
<1> HIDE DEF M, T, H, S, R
<1>3. Taking(p) \in ParserOf(M, H, S, R, T)
  BY <1>1, <1>2 DEF ParserOf, Taking
<1>4. /\ Taking(p).ten = p.ten /\ Taking(p).bad = p.bad
      /\ Taking(p).sweeps = <<>> /\ Taking(p).in_message = p.in_message
      /\ Taking(p).in_data = p.in_data /\ Taking(p).hexbuf = p.hexbuf
      /\ Taking(p).sweep = p.sweep
  BY <1>2 DEF ParserOf, Taking
<1> QED
  BY <1>2, <1>3, <1>4, Zenon

\* Then the sweeps count as taken.
LEMMA TakingLinked ==
  ASSUME NEW b, NEW p \in Parsers, NEW acc \in Seq(Seq(Lows)), Linked(b, p, acc)
  PROVE  Linked(b, Taking(p), acc \o p.sweeps)
<1>1. acc \o p.sweeps \in Seq(Seq(Lows))
  BY ParserTypes
<1>2. (acc \o p.sweeps) \o <<>> = acc \o p.sweeps
  BY <1>1, ConcatEmptySeq
<1> QED
  BY <1>2, TakingType, Zenon DEF Linked

\* A prefix of a sequence, one element longer.
LEMMA PrefixGrows ==
  ASSUME NEW T, NEW b \in Seq(T), NEW s \in Seq(T), NEW j \in Nat, j + 1 <= Len(s)
  PROVE  /\ MoreBy(b \o SubSeq(s, 1, j + 1), b \o SubSeq(s, 1, j), s[j + 1])
         /\ s[j + 1] \in T
<1>1. PICK k \in 1..Len(s) : k = j + 1 /\ k - 1 = j
  OBVIOUS
<1>2. SubSeq(s, 1, k) = SubSeq(s, 1, k - 1) \o <<s[k]>>
  BY <1>1, SubSeqRecursiveSecond
<1>3. SubSeq(s, 1, j) \in Seq(T) /\ s[k] \in T
  OBVIOUS
<1>4. SubSeq(s, 1, k) = Append(SubSeq(s, 1, j), s[k])
  BY <1>1, <1>2, <1>3, AppendIsConcat
<1>5. MoreBy(b \o Append(SubSeq(s, 1, j), s[k]), b \o SubSeq(s, 1, j), s[k])
  BY <1>3, AppendJoin
<1> QED
  BY <1>1, <1>3, <1>4, <1>5, Zenon

\* A chunk leaves the parser where the reference says, for every chunk.
LEMMA FeedTracks ==
  ASSUME NEW b \in Seq(Bytes), NEW p \in Parsers, NEW acc \in Seq(Seq(Lows)),
         NEW s \in Seq(Bytes), NEW q, q = Feed(p, s)
  PROVE  /\ q \in Parsers /\ q.ten = p.ten
         /\ Linked(b, Taking(p), acc) /\ ~q.bad => Linked(b \o s, q, acc)
<1>1. PICK n \in Nat : n = Len(s) /\ DOMAIN s = 1..n
  OBVIOUS
<1>a. PICK f : FeedPath(f, p, s, n)
  BY <1>1, FeedSteps
<1>2. /\ f[0] = Taking(p) /\ f[n] = Feed(p, s)
      /\ \A k \in 1..n : f[k] = Consume(f[k - 1], s[k])
  BY <1>a, Zenon DEF FeedPath
<1> DEFINE pre(k) == b \o SubSeq(s, 1, k)
           good(k) == /\ f[k] \in Parsers /\ f[k].ten = p.ten
                      /\ Linked(b, Taking(p), acc) /\ ~f[k].bad => Linked(pre(k), f[k], acc)
           K == {k \in Nat : k <= n => good(k)}
<1>3. pre(0) = b /\ pre(n) = b \o s
  <2>1. SubSeq(s, 1, 0) = <<>> /\ SubSeq(s, 1, n) = s
    BY <1>1, SubSeqEmpty, SubSeqFull
  <2>2. b \o <<>> = b
    BY ConcatEmptySeq
  <2> QED
    BY <2>1, <2>2, Zenon
<1>4. good(0)
  BY <1>2, <1>3, TakingType, Zenon
<1>5. ASSUME NEW j \in Nat, j \in K
      PROVE  j + 1 \in K
  <2>1. CASE j + 1 <= n
    <3>1. good(j)
      BY <1>1, <1>5, <2>1
    <3>2. j + 1 \in 1..n /\ (j + 1) - 1 = j
      BY <2>1
    <3>3. f[j + 1] = Consume(f[j], s[j + 1])
      BY <1>2, <3>2, Zenon
    <3>4. s[j + 1] \in Bytes /\ MoreBy(pre(j + 1), pre(j), s[j + 1])
      BY <1>1, <2>1, PrefixGrows
    <3>5. /\ f[j + 1] \in Parsers /\ f[j + 1].ten = f[j].ten
          /\ f[j].bad => f[j + 1].bad
          /\ Linked(pre(j), f[j], acc) /\ ~f[j + 1].bad
             => Linked(Append(pre(j), s[j + 1]), f[j + 1], acc)
      <4>1. PICK u, w, x, c : u = f[j] /\ w = f[j + 1] /\ x = s[j + 1] /\ c = pre(j)
        OBVIOUS
      <4>2. u \in Parsers /\ x \in Bytes /\ w = Consume(u, x)
        BY <3>1, <3>3, <3>4, <4>1, Zenon
      <4>3. /\ w \in Parsers /\ w.ten = u.ten
            /\ u.bad => w.bad
            /\ Linked(c, u, acc) /\ ~w.bad => Linked(Append(c, x), w, acc)
        BY <4>2, ConsumeTracks
      <4> QED
        BY <4>1, <4>3, Zenon
    <3> HIDE DEF pre
    <3>6. pre(j + 1) = Append(pre(j), s[j + 1])
      BY <3>4, Zenon DEF MoreBy
    <3>7. good(j + 1)
      BY <3>1, <3>5, <3>6, Zenon
    <3> QED
      BY <3>7
  <2>2. CASE ~(j + 1 <= n)
    BY <2>2
  <2> QED
    BY <2>1, <2>2
<1> HIDE DEF K
<1>6. Nat \subseteq K
  <2>1. 0 \in K
    BY <1>4 DEF K
  <2> QED
    BY <1>5, <2>1, Counting
<1>7. good(n)
  <2>1. n \in K
    BY <1>6
  <2> QED
    BY <1>1, <2>1 DEF K
<1> QED
  BY <1>2, <1>3, <1>7, Zenon

-----------------------------------------------------------------------------
(* A new parser. *)

\* A new parser has read nothing.
LEMMA NewParserType ==
  ASSUME NEW t \in BOOLEAN
  PROVE  /\ NewParser(t) \in Parsers /\ NewParser(t).ten = t /\ ~NewParser(t).bad
         /\ NewParser(t).in_message = FALSE /\ NewParser(t).in_data = FALSE
         /\ NewParser(t).hexbuf = <<>> /\ NewParser(t).sweep = <<>>
         /\ NewParser(t).sweeps = <<>>
<1> DEFINE M == Seq(Bytes)
           T == Seq(Seq(Bytes))
           H == Seq(Digits)
           S == Seq(Lows)
           R == Seq(Seq(Lows))
<1>1. <<>> \in M /\ <<>> \in T /\ <<>> \in H /\ <<>> \in S /\ <<>> \in R
  BY EmptyItems
<1>2. Parsers = ParserOf(M, H, S, R, T)
  BY Zenon DEF Parsers
<1> HIDE DEF M, T, H, S, R
<1>3. NewParser(t) \in ParserOf(M, H, S, R, T)
  BY <1>1 DEF NewParser, ParserOf
<1> QED
  BY <1>2, <1>3 DEF NewParser

\* A new parser is in step with the empty byte string.
LEMMA NewParserTracks ==
  ASSUME NEW t \in BOOLEAN
  PROVE  Linked(<<>>, NewParser(t), <<>>)
<1>1. PICK b \in Seq(Bytes) : b = <<>> /\ Len(b) = 0
  <2>1. <<>> \in Seq(Bytes) /\ Len(<<>>) = 0
    BY EmptyItems
  <2> QED
    BY <2>1, Zenon
<1>2. Len(b) + 1 = 1 /\ 1..(1 - 1) = {} /\ 1..Len(b) = {}
  BY <1>1
<1>3. ~InMessage(b, 1) /\ ~InData(b, 1)
  BY <1>2, Zenon DEF InMessage, InData
<1>4. ~Corrupt(b, t)
  BY <1>2, SoundIs
<1>5. SweepsIn(b, t) = <<>>
  <2>1. SweepsAt(b, t) \in Seq(Seq(Sweep8(t))) /\ Len(SweepsAt(b, t)) = 0
    BY <1>1, SweepsAtType
  <2>2. FlattenSeq(SweepsAt(b, t)) = <<>>
    <3>1. \A k \in 1..Len(SweepsAt(b, t)) : SweepsAt(b, t)[k] = <<>>
      BY <2>1
    <3> QED
      BY <2>1, <3>1, FlattenEmpty
  <2> QED
    BY <2>2, Zenon DEF SweepsIn, SweepsAt
<1>6. <<>> \o <<>> = <<>>
  OBVIOUS
<1>7. PICK q : q = NewParser(t)
  OBVIOUS
<1>8. q.in_message = FALSE /\ q.in_data = FALSE /\ q.sweeps = <<>> /\ q.ten = t
  BY <1>7, NewParserType
<1>9. Tracks(b, q.in_message, q.in_data, q.hexbuf, q.sweep, <<>> \o q.sweeps, q.ten)
  <2>1. <<>> \o q.sweeps = SweepsIn(b, q.ten)
    BY <1>5, <1>6, <1>8, Zenon
  <2>2. ~Corrupt(b, q.ten)
    BY <1>4, <1>8, Zenon
  <2>3. /\ q.in_message \in BOOLEAN /\ (q.in_message <=> InMessage(b, Len(b) + 1))
        /\ q.in_data \in BOOLEAN /\ (q.in_data <=> InData(b, Len(b) + 1))
    BY <1>2, <1>3, <1>8
  <2>4. ~q.in_data
    BY <1>8
  <2> QED
    BY <1>1, <2>1, <2>2, <2>3, <2>4, Zenon DEF Tracks
<1> QED
  BY <1>1, <1>7, <1>9, Zenon DEF Linked

-----------------------------------------------------------------------------
(* The bytes on the line. *)

Receivers == [fw : DOMAIN StatusLine, running : BOOLEAN, out : Seq(Bytes)]

\* A function on 1..n is a sequence.
LEMMA ListIsSeq ==
  ASSUME NEW T, NEW n \in Nat, NEW w \in [1..n -> T]
  PROVE  w \in Seq(T) /\ Len(w) = n
OBVIOUS

\* The firmwares that have a status text.
LEMMA Profiles == DOMAIN StatusLine = {"1.5", "1.7", "1.8"}
BY DEF StatusLine

\* A line is bytes.
LEMMA LineType ==
  ASSUME NEW t \in Texts
  PROVE  Line(t) \in Seq(Bytes)
<1>1. MESSAGE_START \in Bytes /\ t \in Bytes /\ MESSAGE_END \in Bytes
  BY DEF Bytes
<1>2. \A x \in Bytes, y \in Bytes, z \in Bytes : <<x, y, z>> \in Seq(Bytes)
  OBVIOUS
<1> QED
  BY <1>1, <1>2, Zenon DEF Line

\* A status text is one of the texts.
LEMMA StatusText ==
  ASSUME NEW f \in DOMAIN StatusLine
  PROVE  StatusLine[f] \in Texts
<1>1. CASE f = "1.5"
  BY <1>1 DEF StatusLine, Texts
<1>2. CASE f = "1.7"
  BY <1>2 DEF StatusLine, Texts
<1>3. CASE f = "1.8"
  BY <1>3 DEF StatusLine, Texts
<1> QED
  BY <1>1, <1>2, <1>3, Profiles

\* To say something adds bytes and changes nothing else.
LEMMA SaysIs ==
  ASSUME NEW T, NEW d \in [fw : DOMAIN StatusLine, running : BOOLEAN, out : Seq(T)],
         NEW s \in Seq(T)
  PROVE  /\ Says(d, s) \in [fw : DOMAIN StatusLine, running : BOOLEAN, out : Seq(T)]
         /\ Says(d, s).fw = d.fw /\ Says(d, s).running = d.running
         /\ Says(d, s).out = d.out \o s
<1> DEFINE F == DOMAIN StatusLine
           O == Seq(T)
<1>1. PICK o \in O : o = d.out \o s
  <2>1. d.out \o s \in Seq(T)
    OBVIOUS
  <2> QED
    BY <2>1, Zenon
<1> HIDE DEF F, O
<1>2. d \in [fw : F, running : BOOLEAN, out : O]
  BY DEF F, O
<1>3. [d EXCEPT !.out = o] \in [fw : F, running : BOOLEAN, out : O]
      /\ [d EXCEPT !.out = o].fw = d.fw /\ [d EXCEPT !.out = o].running = d.running
      /\ [d EXCEPT !.out = o].out = o
  BY <1>1, <1>2
<1>4. Says(d, s) = [d EXCEPT !.out = o]
  BY <1>1, Zenon DEF Says
<1> QED
  BY <1>1, <1>3, <1>4, Zenon DEF F, O

\* To start or to stop changes nothing else.
LEMMA RunningIs ==
  ASSUME NEW d \in Receivers, NEW r \in BOOLEAN
  PROVE  /\ [d EXCEPT !.running = r] \in Receivers
         /\ [d EXCEPT !.running = r].fw = d.fw /\ [d EXCEPT !.running = r].running = r
         /\ [d EXCEPT !.running = r].out = d.out
BY DEF Receivers

\* What a command makes the receiver send.
LEMMA Replies ==
  /\ Line("Stopped") \in Seq(Bytes) /\ Line("Started") \in Seq(Bytes)
  /\ \A f \in DOMAIN StatusLine : Line(StatusLine[f]) \in Seq(Bytes)
  /\ <<DATA_END>> \o Line("Stopped") \in Seq(Bytes)
  /\ <<EEPROM_READY>> \in Seq(Bytes) /\ <<DATA_START>> \in Seq(Bytes)
  /\ FlattenSeq([k \in DOMAIN Rows |-> Line(Rows[k])]) \in Seq(Bytes)
  /\ <<MESSAGE_START, "ADC0=">> \o Reading \o <<MESSAGE_END>> \in Seq(Bytes)
<1>1. /\ "Stopped" \in Texts /\ "Started" \in Texts /\ "row" \in Texts /\ "end" \in Texts
      /\ "ADC0=" \in Texts /\ "1" \in Texts /\ "3" \in Texts
  BY DEF Texts
<1>2. /\ DATA_END \in Bytes /\ EEPROM_READY \in Bytes /\ DATA_START \in Bytes
      /\ MESSAGE_START \in Bytes /\ MESSAGE_END \in Bytes /\ Texts \subseteq Bytes
  BY DEF Bytes
<1>3. Line("Stopped") \in Seq(Bytes) /\ Line("Started") \in Seq(Bytes)
  BY <1>1, LineType
<1>4. \A f \in DOMAIN StatusLine : Line(StatusLine[f]) \in Seq(Bytes)
  BY StatusText, LineType
<1>5. \A x \in Bytes : <<x>> \in Seq(Bytes)
  OBVIOUS
<1>6. \A x \in Bytes, y \in Bytes : <<x, y>> \in Seq(Bytes)
  OBVIOUS
<1>7. \A s \in Seq(Bytes), t \in Seq(Bytes) : s \o t \in Seq(Bytes)
  OBVIOUS
<1>8. /\ <<EEPROM_READY>> \in Seq(Bytes) /\ <<DATA_START>> \in Seq(Bytes)
      /\ <<DATA_END>> \in Seq(Bytes) /\ <<MESSAGE_END>> \in Seq(Bytes)
  BY <1>2, <1>5, Zenon
<1>9. <<DATA_END>> \o Line("Stopped") \in Seq(Bytes)
  BY <1>3, <1>7, <1>8, Zenon
<1>10. <<MESSAGE_START, "ADC0=">> \o Reading \o <<MESSAGE_END>> \in Seq(Bytes)
  <2>1. "ADC0=" \in Bytes /\ "1" \in Bytes /\ "3" \in Bytes
    BY <1>1, <1>2
  <2>2. <<MESSAGE_START, "ADC0=">> \in Seq(Bytes) /\ Reading \in Seq(Bytes)
    BY <1>2, <1>6, <2>1, Zenon DEF Reading
  <2>3. <<MESSAGE_START, "ADC0=">> \o Reading \in Seq(Bytes)
    BY <1>7, <2>2, Zenon
  <2> QED
    BY <1>7, <1>8, <2>3, Zenon
<1>11. FlattenSeq([k \in DOMAIN Rows |-> Line(Rows[k])]) \in Seq(Bytes)
  <2> DEFINE v == [k \in 1..2 |-> Line(Rows[k])]
  <2>1. DOMAIN Rows = 1..2 /\ Rows[1] = "row" /\ Rows[2] = "end"
    BY DEF Rows
  <2>2. \A k \in 1..2 : Line(Rows[k]) \in Seq(Bytes)
    <3>1. \A k \in 1..2 : k = 1 \/ k = 2
      OBVIOUS
    <3>2. Line("row") \in Seq(Bytes) /\ Line("end") \in Seq(Bytes)
      BY <1>1, LineType
    <3> QED
      BY <2>1, <3>1, <3>2, Zenon
  <2>3. v \in [1..2 -> Seq(Bytes)]
    BY <2>2, Zenon
  <2> HIDE DEF v
  <2>4. v \in Seq(Seq(Bytes))
    <3>1. \A n \in Nat : \A w \in [1..n -> Seq(Bytes)] : w \in Seq(Seq(Bytes))
      BY ListIsSeq
    <3> QED
      BY <2>3, <3>1
  <2>5. FlattenSeq(v) \in Seq(Bytes)
    BY <2>4, FlattenType
  <2> QED
    BY <2>1, <2>5, Zenon DEF v
<1> QED
  BY <1>3, <1>4, <1>8, <1>9, <1>10, <1>11, Zenon

\* A command leaves the receiver's firmware alone, and starts or stops it.
LEMMA HandleType ==
  ASSUME NEW d \in Receivers, NEW cmd
  PROVE  /\ Handle(d, cmd) \in Receivers /\ Handle(d, cmd).fw = d.fw
         /\ Handle(d, cmd).running = IF cmd = "GD" THEN FALSE
                                     ELSE IF cmd = "GE" THEN TRUE ELSE d.running
<1>1. ASSUME NEW e \in Receivers, NEW s \in Seq(Bytes)
      PROVE  Says(e, s) \in Receivers /\ Says(e, s).fw = e.fw /\ Says(e, s).running = e.running
  BY <1>1, SaysIs, Zenon DEF Receivers
<1>2. d.fw \in DOMAIN StatusLine /\ d.running \in BOOLEAN
  BY DEF Receivers
<1>3. CASE cmd = "GE"
  <2>1. PICK e, t : e = [d EXCEPT !.running = TRUE] /\ t = <<DATA_START>>
    OBVIOUS
  <2>2. Handle(d, cmd) = Says(e, t)
    BY <1>3, <2>1, Zenon DEF Handle
  <2>3. e \in Receivers /\ e.fw = d.fw /\ e.running = TRUE /\ t \in Seq(Bytes)
    BY <2>1, RunningIs, Replies, Zenon
  <2> QED
    BY <1>1, <1>3, <2>2, <2>3
<1>4. CASE cmd = "GD"
  <2>1. CASE d.running
    <3>1. PICK e, t : e = [d EXCEPT !.running = FALSE] /\ t = <<DATA_END>> \o Line("Stopped")
      OBVIOUS
    <3>2. Handle(d, cmd) = Says(e, t)
      BY <1>4, <2>1, <3>1, Zenon DEF Handle
    <3>3. e \in Receivers /\ e.fw = d.fw /\ e.running = FALSE /\ t \in Seq(Bytes)
      BY <3>1, RunningIs, Replies, Zenon
    <3> QED
      BY <1>1, <1>4, <3>2, <3>3
  <2>2. CASE ~d.running
    <3>1. Handle(d, cmd) = d
      BY <1>4, <2>2 DEF Handle
    <3> QED
      BY <1>2, <1>4, <2>2, <3>1
  <2> QED
    BY <2>1, <2>2
<1>5. CASE cmd \notin {"GE", "GD"}
  <2>1. \/ Handle(d, cmd) = d
        \/ \E s \in Seq(Bytes) : Handle(d, cmd) = Says(d, s)
    <3>1. cmd = "S0" => Handle(d, cmd) = Says(d, Line("Stopped"))
      BY DEF Handle
    <3>2. cmd = "?" => Handle(d, cmd) = Says(d, Line(StatusLine[d.fw]))
      BY DEF Handle
    <3>3. cmd = "FE" => Handle(d, cmd) = Says(d, <<EEPROM_READY>>)
      BY DEF Handle
    <3>4. cmd = "S1" => Handle(d, cmd) = Says(d, Line("Started"))
      BY DEF Handle
    <3>5. cmd = "P2" => Handle(d, cmd) = Says(d, FlattenSeq([k \in DOMAIN Rows |-> Line(Rows[k])]))
      BY Zenon DEF Handle
    <3>6. cmd = "A0" => Handle(d, cmd) = Says(d, <<MESSAGE_START, "ADC0=">> \o Reading \o <<MESSAGE_END>>)
      BY Zenon DEF Handle
    <3>7. cmd \notin {"S0", "?", "FE", "S1", "P2", "A0"} => Handle(d, cmd) = d
      BY <1>5, Zenon DEF Handle
    <3>8. Line(StatusLine[d.fw]) \in Seq(Bytes)
      BY <1>2, Replies
    <3> QED
      BY <3>1, <3>2, <3>3, <3>4, <3>5, <3>6, <3>7, <3>8, Replies, Zenon
  <2> QED
    BY <1>1, <1>5, <2>1
<1> QED
  BY <1>3, <1>4, <1>5

\* Commands keep the receiver a receiver, with its firmware.
LEMMA WriteType ==
  ASSUME NEW d \in Receivers, NEW s, NEW n \in Nat, DOMAIN s = 1..n
  PROVE  Write(d, s) \in Receivers /\ Write(d, s).fw = d.fw
<1>1. PICK f : WritePath(f, d, s, n)
  BY WriteSteps
<1>2. f[0] = d /\ f[n] = Write(d, s) /\ \A k \in 1..n : f[k] = Handle(f[k - 1], s[k])
  BY <1>1, Zenon DEF WritePath
<1> DEFINE K == {k \in Nat : k <= n => f[k] \in Receivers /\ f[k].fw = d.fw}
<1>3. 0 \in K
  BY <1>2
<1>4. ASSUME NEW j \in Nat, j \in K
      PROVE  j + 1 \in K
  <2>1. CASE j + 1 <= n
    <3>1. f[j] \in Receivers /\ f[j].fw = d.fw
      BY <1>4, <2>1
    <3>2. j + 1 \in 1..n /\ (j + 1) - 1 = j
      BY <2>1
    <3>3. f[j + 1] = Handle(f[j], s[j + 1])
      BY <1>2, <3>2, Zenon
    <3>4. f[j + 1] \in Receivers /\ f[j + 1].fw = d.fw
      <4>1. PICK u, w, x : u = f[j] /\ w = f[j + 1] /\ x = s[j + 1]
        OBVIOUS
      <4>2. u \in Receivers /\ u.fw = d.fw /\ w = Handle(u, x)
        BY <3>1, <3>3, <4>1, Zenon
      <4>3. w \in Receivers /\ w.fw = d.fw
        BY <4>2, HandleType, Zenon
      <4> QED
        BY <4>1, <4>3, Zenon
    <3> QED
      BY <3>4
  <2>2. CASE ~(j + 1 <= n)
    BY <2>2
  <2> QED
    BY <2>1, <2>2
<1> HIDE DEF K
<1>5. Nat \subseteq K
  BY <1>3, <1>4, Counting
<1>6. n \in K
  BY <1>5
<1>7. f[n] \in Receivers /\ f[n].fw = d.fw
  BY <1>6 DEF K
<1> QED
  BY <1>2, <1>7, Zenon

\* The powers of the base, by recursion.
LEMMA PowerSteps ==
  /\ Power[0] = 1
  /\ \A k \in 1..Width : Power[k] = Base * Power[k - 1]
<1> DEFINE n == Width
           Rec(m, g) == g = [k \in 0..m |-> IF k = 0 THEN 1 ELSE Base * g[k - 1]]
           K == {m \in Nat : \E g : Rec(m, g)}
<1>0. n \in Nat
  BY WireAssumption
<1>1. 0 \in K
  <2> DEFINE g == [k \in 0..0 |-> 1]
  <2>1. \A k \in 0..0 : k = 0
    OBVIOUS
  <2>2. Rec(0, g)
    BY <2>1, Zenon
  <2> QED
    BY <2>2
<1>2. ASSUME NEW m \in Nat, m \in K
      PROVE  m + 1 \in K
  <2>1. PICK g : Rec(m, g)
    BY <1>2
  <2> DEFINE h == [k \in 0..(m + 1) |-> IF k = m + 1 THEN Base * g[m] ELSE g[k]]
  <2>2. ASSUME NEW k \in 0..(m + 1)
        PROVE  h[k] = IF k = 0 THEN 1 ELSE Base * h[k - 1]
    <3>1. CASE k = m + 1
      <4>1. k # 0 /\ k - 1 = m /\ m \in 0..(m + 1) /\ m # m + 1
        BY <3>1
      <4> QED
        BY <3>1, <4>1, Zenon
    <3>2. CASE k # m + 1
      <4>1. k \in 0..m
        BY <3>2
      <4>2. g[k] = IF k = 0 THEN 1 ELSE Base * g[k - 1]
        BY <2>1, <4>1, Zenon
      <4>3. k # 0 => k - 1 \in 0..(m + 1) /\ k - 1 # m + 1
        BY <3>2
      <4> QED
        BY <3>2, <4>2, <4>3, Zenon
    <3> QED
      BY <3>1, <3>2
  <2>3. Rec(m + 1, h)
    BY <2>2, Zenon
  <2>4. m + 1 \in Nat
    OBVIOUS
  <2> QED
    BY <2>3, <2>4, Zenon
<1>3. n \in K
  <2> HIDE DEF K, n
  <2>1. Nat \subseteq K
    BY <1>1, <1>2, Counting
  <2> QED
    BY <1>0, <2>1
<1>4. Rec(Width, Power)
  <2>1. \E g : Rec(Width, g)
    BY <1>3, Zenon
  <2> QED
    BY <2>1, Zenon DEF Power
<1>5. 0 \in 0..Width /\ \A k \in 1..Width : k \in 0..Width /\ k # 0
  BY WireAssumption
<1> QED
  BY <1>4, <1>5, Zenon

\* The powers of the base are positive.
LEMMA PowerType ==
  ASSUME NEW k \in 0..Width
  PROVE  Power[k] \in Nat /\ Power[k] > 0
<1>0. Width \in Nat /\ Base \in Nat /\ Base > 0
  BY WireAssumption
<1> DEFINE K == {j \in Nat : j <= Width => Power[j] \in Nat /\ Power[j] > 0}
<1>1. 0 \in K
  BY PowerSteps
<1>2. ASSUME NEW j \in Nat, j \in K
      PROVE  j + 1 \in K
  <2>1. CASE j + 1 <= Width
    <3>1. Power[j] \in Nat /\ Power[j] > 0
      BY <1>0, <1>2, <2>1
    <3>2. j + 1 \in 1..Width /\ (j + 1) - 1 = j
      BY <1>0, <2>1
    <3>3. Power[j + 1] = Base * Power[j]
      BY <3>2, PowerSteps, Zenon
    <3>4. \A a \in Nat, b \in Nat : a > 0 /\ b > 0 => a * b \in Nat /\ a * b > 0
      OBVIOUS
    <3>5. Power[j + 1] \in Nat /\ Power[j + 1] > 0
      BY <1>0, <3>1, <3>3, <3>4, Zenon
    <3> QED
      BY <3>5
  <2>2. CASE ~(j + 1 <= Width)
    BY <2>2
  <2> QED
    BY <2>1, <2>2
<1> HIDE DEF K
<1>3. Nat \subseteq K
  BY <1>1, <1>2, Counting
<1>4. k \in K /\ k <= Width
  BY <1>0, <1>3
<1> QED
  BY <1>4 DEF K

\* A sample on the wire is a word.
LEMMA EncodeType ==
  ASSUME NEW v \in Nat
  PROVE  Encode(v) \in Seq(Digits) /\ Len(Encode(v)) = Width
<1>1. ASSUME NEW k \in 1..Width
      PROVE  DigitOf((v \div Power[Width - k]) % Base) \in Digits
  <2>1. Width - k \in 0..Width /\ Base \in Nat /\ Base > 0
    BY WireAssumption
  <2>2. PICK w \in Nat : w = Power[Width - k] /\ w > 0
    BY <2>1, PowerType
  <2>3. (v \div w) % Base \in 0..(Base - 1)
    <3>1. v \div w \in Int
      BY <2>2
    <3> QED
      BY <2>1, <3>1
  <2>4. PICK u \in 0..(Base - 1) : u = (v \div Power[Width - k]) % Base
    BY <2>2, <2>3, Zenon
  <2>5. u + 1 \in 1..Base
    BY <2>1
  <2> QED
    BY <2>4, <2>5, Zenon DEF DigitOf, Digits
<1>2. Encode(v) \in [1..Width -> Digits]
  BY <1>1, Zenon DEF Encode
<1>3. Width \in Nat
  BY WireAssumption
<1> QED
  BY <1>2, <1>3, ListIsSeq

\* Sequences of one length.
LEMMA FlattenLen ==
  ASSUME NEW T, NEW v \in Seq(Seq(T)), NEW w \in Nat, \A k \in 1..Len(v) : Len(v[k]) = w
  PROVE  Len(FlattenSeq(v)) = w * Len(v)
<1>1. PICK n \in Nat : n = Len(v)
  OBVIOUS
<1>2. PICK f : Joins(f, v, n, T) /\ f[n] = FlattenSeq(v)
  BY <1>1, FlattenJoins
<1> DEFINE K == {k \in Nat : k <= n => Len(f[k]) = w * k}
<1>3. 0 \in K
  <2>1. f[0] = <<>>
    BY <1>2, Zenon DEF Joins
  <2>2. Len(f[0]) = 0 /\ w * 0 = 0
    BY <2>1
  <2> QED
    BY <2>2
<1>4. ASSUME NEW j \in Nat, j \in K
      PROVE  j + 1 \in K
  <2>1. ASSUME NEW k \in 1..n, k - 1 = j
        PROVE  Len(f[k]) = w * k
    <3>1. Len(f[k - 1]) = w * j
      BY <1>1, <1>4, <2>1
    <3>2. Joined(f, v, k, T)
      BY <1>1, <1>2, JoinsAt
    <3>3. f[k] = f[k - 1] \o v[k] /\ f[k - 1] \in Seq(T)
      BY <3>2, Zenon DEF Joined, Extends
    <3>4. v[k] \in Seq(T) /\ Len(v[k]) = w
      BY <1>1
    <3>5. \A a \in Seq(T), c \in Seq(T) : Len(a \o c) = Len(a) + Len(c)
      OBVIOUS
    <3>6. Len(f[k]) = w * j + w
      BY <3>1, <3>3, <3>4, <3>5, Zenon
    <3>7. w * (j + 1) = w * j + w /\ k = j + 1
      BY <2>1
    <3> QED
      BY <3>6, <3>7
  <2>2. CASE j + 1 <= n
    <3>1. PICK k \in 1..n : k = j + 1 /\ k - 1 = j
      BY <2>2
    <3>2. Len(f[k]) = w * k
      BY <2>1, <3>1
    <3> QED
      BY <3>1, <3>2
  <2>3. CASE ~(j + 1 <= n)
    BY <2>3
  <2> QED
    BY <2>2, <2>3
<1> HIDE DEF K
<1>5. Nat \subseteq K
  BY <1>3, <1>4, Counting
<1>6. n \in K
  BY <1>5
<1>7. Len(f[n]) = w * n
  BY <1>6 DEF K
<1> QED
  BY <1>1, <1>2, <1>7, Zenon

\* To take bytes changes nothing else.
LEMMA OutIs ==
  ASSUME NEW T, NEW d \in [fw : DOMAIN StatusLine, running : BOOLEAN, out : T], NEW o \in T
  PROVE  /\ [d EXCEPT !.out = o] \in [fw : DOMAIN StatusLine, running : BOOLEAN, out : T]
         /\ [d EXCEPT !.out = o].fw = d.fw /\ [d EXCEPT !.out = o].running = d.running
         /\ [d EXCEPT !.out = o].out = o
OBVIOUS

\* A suffix of a sequence.
LEMMA SuffixType ==
  ASSUME NEW T, NEW s \in Seq(T), NEW m \in 1..(Len(s) + 1)
  PROVE  SubSeq(s, m, Len(s)) \in Seq(T) /\ Len(SubSeq(s, m, Len(s))) = Len(s) + 1 - m
<1>1. SubSeq(s, m, Len(s)) \in Seq(T)
  BY SubSeqProperties
<1> QED
  BY <1>1, SubSeqProperties

\* The receiver after a port has dropped what had arrived.
LEMMA DropType ==
  ASSUME NEW d \in Receivers, NEW k \in 0..Len(d.out)
  PROVE  /\ [d EXCEPT !.out = SubSeq(@, k + 1, Len(@))] \in Receivers
         /\ [d EXCEPT !.out = SubSeq(@, k + 1, Len(@))].fw = d.fw
         /\ [d EXCEPT !.out = SubSeq(@, k + 1, Len(@))].running = d.running
         /\ [d EXCEPT !.out = SubSeq(@, k + 1, Len(@))].out = SubSeq(d.out, k + 1, Len(d.out))
<1>1. d.out \in Seq(Bytes)
  BY DEF Receivers
<1>2. k + 1 \in 1..(Len(d.out) + 1)
  BY <1>1
<1>3. PICK o \in Seq(Bytes) : o = SubSeq(d.out, k + 1, Len(d.out))
  BY <1>1, <1>2, SuffixType
<1> DEFINE O == Seq(Bytes)
<1> HIDE DEF O
<1>4. o \in O /\ d \in [fw : DOMAIN StatusLine, running : BOOLEAN, out : O]
  BY DEF O, Receivers
<1>5. [d EXCEPT !.out = o] \in [fw : DOMAIN StatusLine, running : BOOLEAN, out : O]
      /\ [d EXCEPT !.out = o].fw = d.fw /\ [d EXCEPT !.out = o].running = d.running
      /\ [d EXCEPT !.out = o].out = o
  BY <1>4, OutIs
<1>6. [d EXCEPT !.out = o] = [d EXCEPT !.out = SubSeq(@, k + 1, Len(@))]
  BY <1>3, Zenon
<1> QED
  BY <1>3, <1>5, <1>6, Zenon DEF O, Receivers

\* A read takes the bytes that it returns.
LEMMA ReadType ==
  ASSUME receiver \in Receivers, NEW part \in Arrivals
  PROVE  /\ part \in Seq(Bytes)
         /\ Taken(part) \in Receivers
         /\ Taken(part).fw = receiver.fw /\ Taken(part).running = receiver.running
         /\ \E k \in 1..Len(receiver.out) :
              /\ part = SubSeq(receiver.out, 1, k)
              /\ Taken(part).out = SubSeq(receiver.out, k + 1, Len(receiver.out))
<1>1. receiver.out \in Seq(Bytes)
  BY DEF Receivers
<1>2. PICK k \in 1..Len(receiver.out) : part = SubSeq(receiver.out, 1, k)
  BY DEF Arrivals
<1>3. part \in Seq(Bytes) /\ Len(part) = k
  <2>1. PICK s \in Seq(Bytes) : s = receiver.out
    BY <1>1
  <2>2. k \in 1..Len(s) /\ 1 \in 1..(Len(s) + 1) /\ k \in 0..Len(s)
    BY <1>2, <2>1
  <2>3. SubSeq(s, 1, k) \in Seq(Bytes) /\ Len(SubSeq(s, 1, k)) = k
    BY <2>2, SubSeqProperties
  <2> QED
    BY <1>2, <2>1, <2>3, Zenon
<1>4. k \in 0..Len(receiver.out) /\ Len(part) = k
  BY <1>1, <1>2, <1>3
<1>5. Taken(part) = [receiver EXCEPT !.out = SubSeq(@, k + 1, Len(@))]
  BY <1>4, Zenon DEF Taken
<1>6. /\ [receiver EXCEPT !.out = SubSeq(@, k + 1, Len(@))] \in Receivers
      /\ [receiver EXCEPT !.out = SubSeq(@, k + 1, Len(@))].fw = receiver.fw
      /\ [receiver EXCEPT !.out = SubSeq(@, k + 1, Len(@))].running = receiver.running
      /\ [receiver EXCEPT !.out = SubSeq(@, k + 1, Len(@))].out
           = SubSeq(receiver.out, k + 1, Len(receiver.out))
  BY <1>4, DropType, Zenon
<1> QED
  BY <1>2, <1>3, <1>5, <1>6, Zenon

\* The commands are lists.
LEMMA CommandLists ==
  /\ DOMAIN RESET = 1..3 /\ DOMAIN ID_QUERY = 1..1 /\ DOMAIN STATUS_QUERY = 1..1
  /\ DOMAIN OVERVIEW = 1..6 /\ DOMAIN DETECTOR_QUERY = 1..3 /\ DOMAIN InitStart = 1..8
  /\ DOMAIN <<"FE">> = 1..1 /\ DOMAIN <<"GD">> = 1..1 /\ DOMAIN <<"S0">> = 1..1
  /\ DOMAIN <<"GD", "S0">> = 1..2
BY DEF RESET, ID_QUERY, STATUS_QUERY, OVERVIEW, DETECTOR_QUERY, InitStart

\* The command lists of the driver keep the receiver's firmware.
LEMMA CommandsType ==
  ASSUME NEW d \in Receivers,
         NEW s \in {RESET, ID_QUERY, STATUS_QUERY, OVERVIEW, DETECTOR_QUERY, InitStart,
                    <<"FE">>, <<"GD">>, <<"S0">>, <<"GD", "S0">>}
  PROVE  Write(d, s) \in Receivers /\ Write(d, s).fw = d.fw
<1>1. \E n \in Nat : DOMAIN s = 1..n
  <2>1. 1 \in Nat /\ 2 \in Nat /\ 3 \in Nat /\ 6 \in Nat /\ 8 \in Nat
    OBVIOUS
  <2> QED
    BY <2>1, CommandLists, Zenon
<1> QED
  BY <1>1, WriteType

\* A sweep on the wire is digits, one of which may be lost.
LEMMA TransmissionType ==
  ASSUME NEW s \in [1..NChannels -> Nat], NEW miss \in 0..(NChannels * Width), NEW digits,
         digits = FlattenSeq([c \in 1..NChannels |-> Encode(s[c])])
  PROVE  (IF miss = 0 THEN digits ELSE RemoveAt(digits, miss)) \in Seq(Bytes)
<1> DEFINE v == [c \in 1..NChannels |-> Encode(s[c])]
<1>0. NChannels \in Nat /\ Width \in Nat
  BY WireAssumption
<1>1. \A c \in 1..NChannels : Encode(s[c]) \in Seq(Digits) /\ Len(Encode(s[c])) = Width
  BY EncodeType
<1>2. v \in [1..NChannels -> Seq(Digits)] /\ \A c \in 1..NChannels : Len(v[c]) = Width
  BY <1>1, Zenon
<1>3. digits = FlattenSeq(v)
  OBVIOUS
<1> HIDE DEF v
<1>4. v \in Seq(Seq(Digits)) /\ Len(v) = NChannels
  BY <1>0, <1>2, ListIsSeq
<1>5. digits \in Seq(Digits)
  BY <1>3, <1>4, FlattenType
<1>6. Len(digits) = Width * NChannels
  BY <1>0, <1>2, <1>3, <1>4, FlattenLen
<1>7. Digits \subseteq Bytes
  BY DEF Bytes
<1>8. digits \in Seq(Bytes)
  BY <1>5, <1>7
<1>9. miss # 0 => RemoveAt(digits, miss) \in Seq(Bytes)
  <2>1. miss # 0 => miss \in 1..Len(digits)
    BY <1>0, <1>6
  <2> SUFFICES ASSUME miss \in 1..Len(digits) PROVE RemoveAt(digits, miss) \in Seq(Bytes)
    BY <2>1
  <2>2. SubSeq(digits, 1, miss - 1) \in Seq(Bytes) /\ SubSeq(digits, miss + 1, Len(digits)) \in Seq(Bytes)
    <3>1. miss \in Nat /\ miss >= 1 /\ miss <= Len(digits) /\ Len(digits) \in Nat
      BY <1>8
    <3>2. 1 \in 1..(Len(digits) + 1) /\ miss - 1 \in 0..Len(digits)
          /\ miss + 1 \in 1..(Len(digits) + 1)
      BY <3>1
    <3>3. SubSeq(digits, miss + 1, Len(digits)) \in Seq(Bytes)
      BY <1>8, <3>2, SuffixType
    <3>4. 1 \in Int /\ miss - 1 \in Int /\ \A j \in 1..(miss - 1) : digits[j] \in Bytes
      <4>0. \A g \in Nat, n \in Nat :
              g <= n => 1 \in Int /\ g - 1 \in Int /\ \A j \in 1..(g - 1) : j \in 1..n
        OBVIOUS
      <4>1. 1 \in Int /\ miss - 1 \in Int /\ \A j \in 1..(miss - 1) : j \in 1..Len(digits)
        BY <3>1, <4>0, Zenon
      <4>2. \A j \in 1..Len(digits) : digits[j] \in Bytes
        BY <1>8, ElementOfSeq
      <4> QED
        BY <4>1, <4>2, Zenon
    <3>5. PICK m \in Int, k \in Int : m = 1 /\ k = miss - 1 /\ \A j \in m..k : digits[j] \in Bytes
      BY <3>4, Zenon
    <3>6. SubSeq(digits, m, k) \in Seq(Bytes)
      BY <3>5, SubSeqProperties, Zenon
    <3>7. SubSeq(digits, 1, miss - 1) \in Seq(Bytes)
      BY <3>5, <3>6, Zenon
    <3> QED
      BY <3>3, <3>7
  <2>3. \A a \in Seq(Bytes), c \in Seq(Bytes) : a \o c \in Seq(Bytes)
    OBVIOUS
  <2> QED
    BY <2>2, <2>3, Zenon DEF RemoveAt
<1> QED
  BY <1>8, <1>9

\* A transmission keeps the receiver's firmware.
LEMMA SweepingType ==
  ASSUME receiver \in Receivers, NEW miss \in 0..(NChannels * Width), Sweeping(miss)
  PROVE  receiver' \in Receivers /\ receiver'.fw = receiver.fw
<1>1. PICK s \in [1..NChannels -> Samples[receiver.fw]] :
         LET digits == FlattenSeq([c \in 1..NChannels |-> Encode(s[c])])
         IN receiver' = Says(receiver, IF miss = 0 THEN digits ELSE RemoveAt(digits, miss))
  BY DEF Sweeping
<1>2. receiver.fw \in DOMAIN StatusLine
  BY DEF Receivers
<1>3. s \in [1..NChannels -> Nat]
  BY <1>2, LinkAssumption
<1>4. PICK digits : digits = FlattenSeq([c \in 1..NChannels |-> Encode(s[c])])
  OBVIOUS
<1>5. PICK o : o = IF miss = 0 THEN digits ELSE RemoveAt(digits, miss)
  OBVIOUS
<1>6. o \in Seq(Bytes)
  BY <1>3, <1>4, <1>5, TransmissionType
<1>7. receiver' = Says(receiver, o)
  BY <1>1, <1>4, <1>5, Zenon
<1>8. receiver \in [fw : DOMAIN StatusLine, running : BOOLEAN, out : Seq(Bytes)]
  BY DEF Receivers
<1>9. /\ Says(receiver, o) \in [fw : DOMAIN StatusLine, running : BOOLEAN, out : Seq(Bytes)]
      /\ Says(receiver, o).fw = receiver.fw
  BY <1>6, <1>8, SaysIs
<1> QED
  BY <1>7, <1>9, Zenon DEF Receivers

-----------------------------------------------------------------------------
(* The stream of a session: what was fed and what was yielded.             *)

\* The parser p was fed the bytes b, and has yielded the sweeps acc.
Streamed(b, p, acc) ==
  ~p.bad /\ p.sweeps = <<>> /\ acc \in Seq(Seq(Lows)) /\ Linked(b, p, acc)

\* A new parser has streamed nothing.
LEMMA StreamedStart ==
  ASSUME NEW t \in BOOLEAN
  PROVE  Streamed(<<>>, NewParser(t), <<>>)
BY NewParserType, NewParserTracks, EmptyItems, Zenon DEF Streamed

\* To add nothing changes nothing.
LEMMA ConcatNone == \A T : \A s \in Seq(T) : s \o <<>> = s
OBVIOUS

\* Sequences over a set join to one over it.
LEMMA ConcatType == \A T : \A s \in Seq(T), t \in Seq(T) : s \o t \in Seq(T)
OBVIOUS

\* A chunk that is fed as a whole: the sweeps so far are those of the bytes so far.
LEMMA StreamedStep ==
  ASSUME NEW b \in Seq(Bytes), NEW p \in Parsers, NEW acc, Streamed(b, p, acc),
         NEW r \in Seq(Bytes), NEW c \in Seq(Bytes), NEW q, q = Feed(p, r \o c)
  PROVE  /\ q \in Parsers /\ Taking(q) \in Parsers
         /\ b \o r \o c \in Seq(Bytes)
         /\ q.bad = FALSE => Streamed(b \o r \o c, Taking(q), acc \o q.sweeps)
<1>1. acc \in Seq(Seq(Lows)) /\ Linked(b, p, acc) /\ p.sweeps = <<>>
  BY DEF Streamed
<1>2. PICK s \in Seq(Bytes) : s = r \o c
  BY ConcatType, Zenon
<1>3. b \o r \o c = b \o s
  BY <1>2, ConcatAssociative
<1>4. b \o s \in Seq(Bytes)
  BY ConcatType, Zenon
<1>5. Linked(b, Taking(p), acc)
  <2>1. Linked(b, Taking(p), acc \o p.sweeps)
    BY <1>1, TakingLinked
  <2>2. acc \o p.sweeps = acc
    BY <1>1, ConcatNone, Zenon
  <2> QED
    BY <2>1, <2>2, Zenon
<1>6. q = Feed(p, s)
  BY <1>2, Zenon
<1>7. q \in Parsers /\ (Linked(b, Taking(p), acc) /\ ~q.bad => Linked(b \o s, q, acc))
  BY <1>1, <1>6, FeedTracks
<1>8. Taking(q) \in Parsers /\ Taking(q).bad = q.bad /\ Taking(q).sweeps = <<>>
  BY <1>7, TakingType
<1>9. ASSUME q.bad = FALSE
      PROVE  Streamed(b \o r \o c, Taking(q), acc \o q.sweeps)
  <2>1. Linked(b \o s, q, acc)
    BY <1>5, <1>7, <1>9, Zenon
  <2>2. Linked(b \o s, Taking(q), acc \o q.sweeps)
    BY <1>1, <1>7, <2>1, TakingLinked
  <2>3. acc \o q.sweeps \in Seq(Seq(Lows))
    <3>1. q.sweeps \in Seq(Seq(Lows))
      BY <1>7, ParserTypes
    <3> QED
      BY <1>1, <3>1
  <2> QED
    BY <1>3, <1>8, <1>9, <2>2, <2>3, Zenon DEF Streamed
<1> QED
  BY <1>3, <1>4, <1>7, <1>8, <1>9, Zenon

LinkTyped ==
  /\ receiver \in Receivers /\ rx \in Seq(Bytes) /\ fed \in Seq(Bytes) /\ parser \in Parsers
  /\ heals \in Nat /\ op \in {"record", "overview", "detector"}

\* Between a new parser and the stream nothing is fed to it, and it never takes up
\* a stream that has healed.
StreamInv ==
  /\ call \in {"drain", "id", "status", "configure"} => got = <<>> /\ fed = <<>>
  /\ call = "redrain" => heals # 0
  /\ call = "stream" /\ heals = 0 => Streamed(fed, parser, got)

LinkInv == LinkTyped /\ StreamInv

\* The invariant of the link holds before the first session.
LEMMA LinkInitInv == LinkInit => LinkInv
<1> SUFFICES ASSUME LinkInit PROVE LinkInv
  OBVIOUS
<1>1. <<>> \in Seq(Bytes)
  OBVIOUS
<1>2. receiver \in Receivers
  <2>1. PICK f \in DOMAIN StatusLine, r \in BOOLEAN :
          receiver = [fw |-> f, running |-> r, out |-> <<>>]
    BY DEF LinkInit
  <2>2. \A O : <<>> \in O =>
          [fw |-> f, running |-> r, out |-> <<>>] \in [fw : DOMAIN StatusLine, running : BOOLEAN, out : O]
    OBVIOUS
  <2> QED
    BY <1>1, <2>1, <2>2, Zenon DEF Receivers
<1>3. parser \in Parsers
  BY NewParserType DEF LinkInit
<1> QED
  BY <1>1, <1>2, <1>3 DEF LinkInit, LinkInv, LinkTyped, StreamInv

\* The receiver's part of the type, of the steps that read or write.
LEMMA WriteTyped ==
  ASSUME receiver \in Receivers,
         NEW s \in {RESET, ID_QUERY, STATUS_QUERY, OVERVIEW, DETECTOR_QUERY, InitStart,
                    <<"FE">>, <<"GD">>, <<"S0">>, <<"GD", "S0">>},
         receiver' = Write(receiver, s)
  PROVE  receiver' \in Receivers /\ receiver'.fw = receiver.fw
BY CommandsType

\* Steps that touch neither the call nor the parser keep the stream's part.
LEMMA StreamInvSame ==
  ASSUME StreamInv, UNCHANGED <<call, heals, fed, parser, got>>
  PROVE  StreamInv'
BY DEF StreamInv

\* The first place of a byte.
LEMMA FirstPlace ==
  ASSUME NEW s \in Seq(Bytes), NEW b, Contains(s, b), NEW at,
         at = CHOOSE k \in DOMAIN s : s[k] = b /\ \A j \in 1..(k - 1) : s[j] # b
  PROVE  at \in 1..Len(s) /\ s[at] = b /\ \A j \in 1..(at - 1) : s[j] # b
<1> DEFINE S == {k \in 1..Len(s) : s[k] = b}
<1>1. \E k \in Nat : k \in S
  BY DEF Contains
<1>2. PICK k \in S : \A y \in S : ~(<<y, k>> \in OpToRel(<, Nat))
  <2>1. S \subseteq Nat /\ S # {}
    BY <1>1
  <2> HIDE DEF S
  <2> QED
    BY <2>1, NatLessThanWellFounded, WFMin
<1>3. \A y \in Nat : y < k => <<y, k>> \in OpToRel(<, Nat)
  BY DEF OpToRel
<1>4. k \in 1..Len(s) /\ s[k] = b
  OBVIOUS
<1>5. ASSUME NEW j \in 1..(k - 1), s[j] = b
      PROVE  FALSE
  <2>1. j \in 1..Len(s) /\ j \in Nat /\ j < k
    BY <1>4
  <2>2. j \in S
    BY <1>5, <2>1
  <2> QED
    BY <1>2, <1>3, <2>1, <2>2
<1>6. DOMAIN s = 1..Len(s)
  OBVIOUS
<1>7. \E i \in DOMAIN s : s[i] = b /\ \A j \in 1..(i - 1) : s[j] # b
  BY <1>4, <1>5, <1>6, Zenon
<1> QED
  BY <1>6, <1>7, Zenon

\* What remains after the awaited byte is bytes.
LEMMA AfterType ==
  ASSUME rx \in Seq(Bytes), Found
  PROVE  After \in Seq(Bytes)
<1>1. At \in 1..Len(rx)
  <2>1. Contains(rx, Awaited)
    BY DEF Found
  <2> QED
    BY <2>1, FirstPlace, Zenon DEF At
<1>2. PICK k, s : k = At /\ s = rx
  OBVIOUS
<1>3. s \in Seq(Bytes) /\ k \in 1..Len(s)
  BY <1>1, <1>2
<1>4. k + 1 \in 1..(Len(s) + 1)
  BY <1>3
<1>5. SubSeq(s, k + 1, Len(s)) \in Seq(Bytes)
  BY <1>3, <1>4, SuffixType
<1> QED
  BY <1>2, <1>5, Zenon DEF After

\* A transmission, whole or without one digit, keeps the invariant.
LEMMA SweepStep ==
  ASSUME LinkInv, EmitSweep \/ LoseDigit
  PROVE  LinkInv'
<1>1. PICK miss \in 0..(NChannels * Width) : Sweeping(miss)
  <2>1. CASE EmitSweep
    <3>1. 0 \in 0..(NChannels * Width)
      <4>1. \A a \in Nat, b \in Nat : 0 \in 0..(a * b)
        OBVIOUS
      <4> QED
        BY <4>1, WireAssumption, Zenon
    <3> QED
      BY <2>1, <3>1 DEF EmitSweep
  <2>2. CASE LoseDigit
    <3>1. PICK miss \in 1..(NChannels * Width) : Sweeping(miss)
      BY <2>2 DEF LoseDigit
    <3>2. miss \in 0..(NChannels * Width)
      OBVIOUS
    <3> QED
      BY <3>1, <3>2
  <2> QED
    BY <2>1, <2>2
<1>2. receiver' \in Receivers
  BY <1>1, SweepingType DEF LinkInv, LinkTyped
<1>3. UNCHANGED <<driver, heals, fed>>
  BY DEF EmitSweep, LoseDigit
<1>4. UNCHANGED <<call, op, rx, parser, got, heals, fed>>
  BY <1>3 DEF driver
<1> QED
  BY <1>2, <1>4, StreamInvSame DEF LinkInv, LinkTyped

\* The loss of a byte of an answer keeps the invariant.
LEMMA LoseReplyStep ==
  ASSUME LinkInv, LoseReply
  PROVE  LinkInv'
<1>1. receiver' \in Receivers
  <2>1. receiver.out \in Seq(Bytes) /\ receiver \in Receivers
    BY DEF LinkInv, LinkTyped, Receivers
  <2>2. Tail(receiver.out) \in Seq(Bytes)
    BY <2>1 DEF LoseReply
  <2>3. PICK o \in Seq(Bytes) : o = Tail(receiver.out)
    BY <2>2
  <2>4. receiver' = [receiver EXCEPT !.out = o]
    BY <2>3, Zenon DEF LoseReply
  <2> DEFINE O == Seq(Bytes)
  <2>5. o \in O /\ receiver \in [fw : DOMAIN StatusLine, running : BOOLEAN, out : O]
    BY <2>1 DEF Receivers
  <2> HIDE DEF O
  <2>6. receiver' \in [fw : DOMAIN StatusLine, running : BOOLEAN, out : O]
    BY <2>4, <2>5, OutIs
  <2> QED
    BY <2>6 DEF O, Receivers
<1>2. UNCHANGED <<call, op, rx, parser, got, heals, fed>>
  BY DEF LoseReply, driver
<1> QED
  BY <1>1, <1>2, StreamInvSame DEF LinkInv, LinkTyped

\* connect() begins with a new parser that was fed nothing.
LEMMA ConnectStep ==
  ASSUME LinkInv, Connect
  PROVE  LinkInv'
<1>1. receiver' \in Receivers
  <2>1. receiver \in Receivers
    BY DEF LinkInv, LinkTyped
  <2>2. PICK k \in 0..Len(receiver.out) :
          receiver' = Write([receiver EXCEPT !.out = SubSeq(@, k + 1, Len(@))], RESET)
    BY Zenon DEF Connect
  <2>3. PICK d : d = [receiver EXCEPT !.out = SubSeq(@, k + 1, Len(@))]
    OBVIOUS
  <2>4. d \in Receivers
    BY <2>1, <2>3, DropType, Zenon
  <2>5. Write(d, RESET) \in Receivers
    BY <2>4, CommandsType
  <2> QED
    BY <2>2, <2>3, <2>5, Zenon
<1>2. /\ call' = "drain" /\ rx' = <<>> /\ parser' = NewParser(FALSE) /\ got' = <<>> /\ fed' = <<>>
      /\ op' \in {"record", "overview", "detector"} /\ UNCHANGED heals
  BY DEF Connect
<1>3. parser' \in Parsers /\ rx' \in Seq(Bytes) /\ fed' \in Seq(Bytes)
  BY <1>2, NewParserType, EmptyItems, Zenon
<1>4. LinkTyped'
  BY <1>1, <1>2, <1>3 DEF LinkInv, LinkTyped
<1>5. StreamInv'
  BY <1>2 DEF StreamInv
<1> QED
  BY <1>4, <1>5 DEF LinkInv

\* The drain keeps the invariant.
LEMMA DrainStep ==
  ASSUME LinkInv, Drain
  PROVE  LinkInv'
<1>1. receiver' \in Receivers
  BY ReadType DEF Drain, LinkInv, LinkTyped
<1>2. UNCHANGED <<call, op, rx, parser, got, heals, fed>>
  BY DEF Drain, driver
<1> QED
  BY <1>1, <1>2, StreamInvSame DEF LinkInv, LinkTyped

\* The call after the drain begins with nothing fed.
LEMMA DrainEndsStep ==
  ASSUME LinkInv, DrainEnds
  PROVE  LinkInv'
<1>1. UNCHANGED <<op, rx, got, heals, fed>> /\ call = "drain" /\ BeginCall
  BY DEF DrainEnds
<1>2. /\ \E s \in {ID_QUERY, OVERVIEW, DETECTOR_QUERY} : receiver' = Write(receiver, s)
      /\ call' \in {"id", "overview", "detector"}
      /\ parser' = parser \/ parser' = NewParser(FALSE)
  BY <1>1 DEF BeginCall, LinkInv, LinkTyped
<1>3. receiver' \in Receivers
  BY <1>2, WriteTyped DEF LinkInv, LinkTyped
<1>4. parser' \in Parsers
  BY <1>2, NewParserType DEF LinkInv, LinkTyped
<1>5. LinkTyped'
  BY <1>1, <1>3, <1>4 DEF LinkInv, LinkTyped
<1>6. StreamInv'
  BY <1>1, <1>2 DEF StreamInv, LinkInv
<1> QED
  BY <1>5, <1>6 DEF LinkInv

\* A read of the handshake adds bytes to _rx only.
LEMMA FillStep ==
  ASSUME LinkInv, Fill
  PROVE  LinkInv'
<1>1. PICK part \in Arrivals : receiver' = Taken(part) /\ rx' = rx \o part
  BY DEF Fill
<1>2. part \in Seq(Bytes) /\ Taken(part) \in Receivers
  BY ReadType DEF LinkInv, LinkTyped
<1>3. rx' \in Seq(Bytes) /\ receiver' \in Receivers
  <2>1. rx \in Seq(Bytes)
    BY DEF LinkInv, LinkTyped
  <2> QED
    BY <1>1, <1>2, <2>1, ConcatType, Zenon
<1>4. UNCHANGED <<call, op, parser, got, heals, fed>>
  BY DEF Fill
<1> QED
  BY <1>3, <1>4, StreamInvSame DEF LinkInv, LinkTyped

\* An empty read of the handshake keeps the invariant.
LEMMA NoAnswerStep ==
  ASSUME LinkInv, NoAnswer
  PROVE  LinkInv'
<1>1. /\ UNCHANGED <<receiver, op, rx, parser, got, heals, fed>>
      /\ call' = call \/ call' = "failed"
  BY DEF NoAnswer, Fails
<1>2. LinkTyped'
  BY <1>1 DEF LinkInv, LinkTyped
<1>3. StreamInv'
  BY <1>1 DEF LinkInv, StreamInv
<1> QED
  BY <1>2, <1>3 DEF LinkInv

\* The answer to S0 keeps the invariant.
LEMMA IdentifyStep ==
  ASSUME LinkInv, Identify
  PROVE  LinkInv'
<1>1. UNCHANGED <<op, parser, got, heals, fed>> /\ call = "id"
  BY DEF Identify, Fails
<1>2. CASE Before = <<MESSAGE_START, "Stopped">>
  <2>1. receiver' = Write(receiver, STATUS_QUERY) /\ rx' = After /\ call' = "status" /\ Found
    BY <1>2 DEF Identify
  <2>2. receiver' \in Receivers
    BY <2>1, WriteTyped DEF LinkInv, LinkTyped
  <2>3. rx' \in Seq(Bytes)
    BY <2>1, AfterType, Zenon DEF LinkInv, LinkTyped
  <2>4. LinkTyped'
    BY <1>1, <2>2, <2>3 DEF LinkInv, LinkTyped
  <2>5. StreamInv'
    BY <1>1, <2>1 DEF LinkInv, StreamInv
  <2> QED
    BY <2>4, <2>5 DEF LinkInv
<1>3. CASE Before # <<MESSAGE_START, "Stopped">>
  <2>1. UNCHANGED <<receiver, rx>> /\ call' = "failed"
    BY <1>3 DEF Identify, Fails
  <2> QED
    BY <1>1, <2>1 DEF LinkInv, LinkTyped, StreamInv
<1> QED
  BY <1>2, <1>3

\* The answer to `?' keeps the invariant.
LEMMA StatusStep ==
  ASSUME LinkInv, Status
  PROVE  LinkInv'
<1>1. /\ UNCHANGED <<op, parser, got, heals, fed>> /\ call = "status" /\ Found
      /\ receiver' = Write(receiver, <<"FE">>) /\ rx' = After /\ call' = "configure"
  BY DEF Status
<1>2. receiver' \in Receivers
  BY <1>1, WriteTyped DEF LinkInv, LinkTyped
<1>3. rx' \in Seq(Bytes)
  BY <1>1, AfterType, Zenon DEF LinkInv, LinkTyped
<1>4. LinkTyped'
  BY <1>1, <1>2, <1>3 DEF LinkInv, LinkTyped
<1>5. StreamInv'
  BY <1>1 DEF LinkInv, StreamInv
<1> QED
  BY <1>4, <1>5 DEF LinkInv

\* The bit depth is one of two.
LEMMA BitDepth == Data10bit(fw) \in BOOLEAN
BY DEF Data10bit

\* The stream begins with a new parser, of the profile's bit depth.
LEMMA ConfigureStep ==
  ASSUME LinkInv, Configure
  PROVE  LinkInv'
<1>1. /\ UNCHANGED <<op, got, heals, fed>> /\ call = "configure" /\ Found /\ rx' = After
  BY DEF Configure
<1>2. rx' \in Seq(Bytes)
  BY <1>1, AfterType, Zenon DEF LinkInv, LinkTyped
<1>3. \E s \in {<<"FE">>, InitStart} : receiver' = Write(receiver, s)
  BY DEF Configure
<1>4. receiver' \in Receivers
  BY <1>3, WriteTyped DEF LinkInv, LinkTyped
<1>5. got = <<>> /\ fed = <<>>
  BY <1>1 DEF LinkInv, StreamInv
<1>6. CASE UNCHANGED <<call, parser>>
  <2>1. LinkTyped'
    BY <1>1, <1>2, <1>4, <1>6 DEF LinkInv, LinkTyped
  <2>2. StreamInv'
    BY <1>1, <1>5, <1>6 DEF StreamInv
  <2> QED
    BY <2>1, <2>2 DEF LinkInv
<1>7. CASE parser' = NewParser(Data10bit(fw)) /\ call' = "stream"
  <2>1. parser' \in Parsers
    BY <1>7, BitDepth, NewParserType, Zenon
  <2>2. LinkTyped'
    BY <1>1, <1>2, <1>4, <2>1 DEF LinkInv, LinkTyped
  <2>3. Streamed(fed', parser', got')
    BY <1>1, <1>5, <1>7, BitDepth, StreamedStart, Zenon
  <2>4. StreamInv'
    BY <1>7, <2>3 DEF StreamInv
  <2> QED
    BY <2>2, <2>4 DEF LinkInv
<1> QED
  BY <1>6, <1>7 DEF Configure

\* A turn of the stream: the chunk is fed to the parser as a whole.
LEMMA StreamStep ==
  ASSUME LinkInv, Stream
  PROVE  LinkInv'
<1>1. UNCHANGED <<op>> /\ call = "stream" /\ rx' = <<>>
  BY DEF Stream
<1>2. receiver \in Receivers /\ rx \in Seq(Bytes) /\ fed \in Seq(Bytes) /\ parser \in Parsers
      /\ heals \in Nat /\ op \in {"record", "overview", "detector"}
  BY DEF LinkInv, LinkTyped
<1>3. rx' \in Seq(Bytes)
  BY <1>1
<1>4. PICK part \in Arrivals :
        LET p == Feed(parser, rx \o part)
            over == \E k \in DOMAIN p.texts : Contains(p.texts[k], "Stopped")
        IN \/ /\ p.bad /\ heals < MaxHeals /\ heals' = heals + 1
              /\ receiver' = Write(Taken(part), RESET)
              /\ call' = "redrain" /\ fed' = <<>>
              /\ parser' = NewParser(Data10bit(fw))
              /\ UNCHANGED got
           \/ /\ p.bad /\ heals = MaxHeals /\ UNCHANGED <<heals, got>>
              /\ receiver' = Taken(part)
              /\ call' = "failed" /\ fed' = <<>>
              /\ parser' = NewParser(Data10bit(fw))
           \/ /\ ~p.bad /\ UNCHANGED heals
              /\ receiver' = Taken(part)
              /\ call' = IF over THEN "done" ELSE "stream"
              /\ fed' = fed \o rx \o part
              /\ parser' = [p EXCEPT !.sweeps = <<>>, !.texts = <<>>]
              /\ got' = got \o p.sweeps
  BY Zenon DEF Stream
<1>5. part \in Seq(Bytes) /\ Taken(part) \in Receivers
  BY <1>2, ReadType
<1>6. PICK q : q = Feed(parser, rx \o part)
  OBVIOUS
<1>7. PICK s \in Seq(Bytes) : s = rx \o part
  BY <1>2, <1>5, ConcatType, Zenon
<1>8. q \in Parsers /\ Taking(q) \in Parsers
  <2>1. q = Feed(parser, s)
    BY <1>6, <1>7, Zenon
  <2>2. <<>> \in Seq(Seq(Lows))
    OBVIOUS
  <2>3. q \in Parsers
    BY <1>2, <2>1, <2>2, FeedTracks
  <2> QED
    BY <2>3, TakingType
<1>9. fed \o rx \o part \in Seq(Bytes)
  BY <1>2, <1>5, ConcatType, Zenon
<1>10. NewParser(Data10bit(fw)) \in Parsers
  BY BitDepth, NewParserType, Zenon
<1>11. \/ /\ heals < MaxHeals /\ heals' = heals + 1
          /\ receiver' = Write(Taken(part), RESET)
          /\ call' = "redrain" /\ fed' = <<>> /\ parser' = NewParser(Data10bit(fw))
       \/ /\ UNCHANGED heals /\ receiver' = Taken(part)
          /\ call' = "failed" /\ fed' = <<>> /\ parser' = NewParser(Data10bit(fw))
       \/ /\ ~q.bad /\ UNCHANGED heals /\ receiver' = Taken(part)
          /\ call' \in {"done", "stream"}
          /\ fed' = fed \o rx \o part /\ parser' = Taking(q) /\ got' = got \o q.sweeps
  BY <1>4, <1>6, Zenon DEF Taking
<1>12. CASE /\ heals < MaxHeals /\ heals' = heals + 1
            /\ receiver' = Write(Taken(part), RESET)
            /\ call' = "redrain" /\ fed' = <<>> /\ parser' = NewParser(Data10bit(fw))
  <2>1. receiver' \in Receivers
    BY <1>5, <1>12, CommandsType
  <2>2. heals' \in Nat /\ heals' # 0
    BY <1>2, <1>12
  <2>3. LinkTyped'
    BY <1>1, <1>2, <1>3, <1>10, <1>12, <2>1, <2>2 DEF LinkTyped
  <2>4. StreamInv'
    BY <1>12, <2>2 DEF StreamInv
  <2> QED
    BY <2>3, <2>4 DEF LinkInv
<1>13. CASE /\ UNCHANGED heals /\ receiver' = Taken(part)
            /\ call' = "failed" /\ fed' = <<>> /\ parser' = NewParser(Data10bit(fw))
  <2>1. LinkTyped'
    BY <1>1, <1>2, <1>3, <1>5, <1>10, <1>13 DEF LinkTyped
  <2>2. StreamInv'
    BY <1>13 DEF StreamInv
  <2> QED
    BY <2>1, <2>2 DEF LinkInv
<1>14. CASE /\ ~q.bad /\ UNCHANGED heals /\ receiver' = Taken(part)
            /\ call' \in {"done", "stream"}
            /\ fed' = fed \o rx \o part /\ parser' = Taking(q) /\ got' = got \o q.sweeps
  <2>1. LinkTyped'
    BY <1>1, <1>2, <1>3, <1>5, <1>8, <1>9, <1>14, Zenon DEF LinkTyped
  <2>2. ASSUME heals = 0
        PROVE  Streamed(fed', parser', got')
    <3>1. Streamed(fed, parser, got)
      BY <1>1, <2>2 DEF LinkInv, StreamInv
    <3>2. PICK b, p, acc, r : b = fed /\ p = parser /\ acc = got /\ r = rx
      OBVIOUS
    <3>3. b \in Seq(Bytes) /\ p \in Parsers /\ Streamed(b, p, acc) /\ r \in Seq(Bytes)
          /\ q = Feed(p, r \o part)
      BY <1>2, <1>6, <3>1, <3>2, Zenon
    <3>4. q.bad = FALSE => Streamed(b \o r \o part, Taking(q), acc \o q.sweeps)
      BY <1>5, <3>3, StreamedStep
    <3>5. q.bad = FALSE
      BY <1>8, <1>14, ParserTypes
    <3> QED
      BY <1>14, <3>2, <3>4, <3>5, Zenon
  <2>3. StreamInv'
    BY <1>14, <2>2 DEF StreamInv
  <2> QED
    BY <2>1, <2>3 DEF LinkInv
<1> QED
  BY <1>11, <1>12, <1>13, <1>14

\* Restarts follow a heal, stop and close end the stream.
LEMMA RestartStep ==
  ASSUME LinkInv, Restart \/ StopStream \/ CloseDriver
  PROVE  LinkInv'
<1>1. \E s \in {InitStart, <<"GD">>, <<"S0">>, <<"GD", "S0">>} : receiver' = Write(receiver, s)
  BY DEF Restart, StopStream, CloseDriver
<1>2. receiver' \in Receivers
  BY <1>1, WriteTyped DEF LinkInv, LinkTyped
<1>3. UNCHANGED <<op, rx, parser, got, heals, fed>>
  BY DEF Restart, StopStream, CloseDriver
<1>4. \/ call = "redrain" /\ call' = "stream"
      \/ call' \in {"done", "closed"}
  BY DEF Restart, StopStream, CloseDriver
<1>5. LinkTyped'
  BY <1>2, <1>3 DEF LinkInv, LinkTyped
<1>6. StreamInv'
  BY <1>3, <1>4 DEF LinkInv, StreamInv
<1> QED
  BY <1>5, <1>6 DEF LinkInv

\* The overview feeds its parser and never becomes a stream.
LEMMA OverviewStep ==
  ASSUME LinkInv, Overview
  PROVE  LinkInv'
<1>1. UNCHANGED <<op, heals>> /\ rx' = <<>> /\ call = "overview"
  BY DEF Overview
<1>2. receiver \in Receivers /\ rx \in Seq(Bytes) /\ fed \in Seq(Bytes) /\ parser \in Parsers
      /\ heals \in Nat /\ op \in {"record", "overview", "detector"}
  BY DEF LinkInv, LinkTyped
<1>3. call' \in {"done", "failed", "overview"}
  <2>1. \A P : (IF P THEN "done" ELSE call) \in {"done", call}
    OBVIOUS
  <2>2. \A P : (IF P THEN "failed" ELSE call) \in {"failed", call}
    OBVIOUS
  <2>3. \/ \E P \in BOOLEAN : call' = IF P THEN "done" ELSE call
        \/ \E P \in BOOLEAN : call' = IF P THEN "failed" ELSE call
    <3>1. CASE \E part \in Arrivals : call' = IF Contains(got', "end") THEN "done" ELSE call
      BY <3>1, Zenon
    <3>2. CASE call' = IF waits' = MaxEmpty THEN "failed" ELSE call
      BY <3>2, Zenon
    <3> QED
      BY <3>1, <3>2 DEF Overview
  <2> QED
    BY <1>1, <2>3
<1>4. receiver' \in Receivers /\ fed' \in Seq(Bytes) /\ parser' \in Parsers
  <2>1. CASE \E part \in Arrivals :
               /\ receiver' = Taken(part) /\ fed' = fed \o rx \o part
               /\ parser' = Taking(Feed(parser, rx \o part))
    <3>1. PICK part \in Arrivals :
            /\ receiver' = Taken(part) /\ fed' = fed \o rx \o part
            /\ parser' = Taking(Feed(parser, rx \o part))
      BY <2>1
    <3>2. part \in Seq(Bytes) /\ Taken(part) \in Receivers
      BY <1>2, ReadType
    <3>3. PICK s \in Seq(Bytes) : s = rx \o part
      BY <1>2, <3>2, ConcatType, Zenon
    <3>4. PICK q : q = Feed(parser, s)
      OBVIOUS
    <3>5. <<>> \in Seq(Seq(Lows))
      OBVIOUS
    <3>6. q \in Parsers
      BY <1>2, <3>4, <3>5, FeedTracks
    <3>7. Taking(q) \in Parsers
      BY <3>6, TakingType
    <3>8. fed' \in Seq(Bytes)
      BY <1>2, <3>1, <3>2, ConcatType, Zenon
    <3> QED
      BY <3>1, <3>2, <3>3, <3>4, <3>7, <3>8, Zenon
  <2>2. CASE UNCHANGED <<receiver, fed, parser>>
    BY <1>2, <2>2
  <2> QED
    BY <2>1, <2>2, Zenon DEF Overview, Taking
<1>5. LinkTyped'
  BY <1>1, <1>2, <1>4 DEF LinkTyped
<1>6. StreamInv'
  BY <1>3 DEF StreamInv
<1> QED
  BY <1>5, <1>6 DEF LinkInv

\* The detector reading feeds no parser.
LEMMA DetectorStep ==
  ASSUME LinkInv, Detector
  PROVE  LinkInv'
<1>1. UNCHANGED <<op, rx, parser, got, heals, fed>> /\ call = "detector"
      /\ call' \in {"detector", "done"}
  BY DEF Detector
<1>2. receiver' \in Receivers
  <2>1. CASE \E part \in Arrivals : receiver' = Taken(part)
    BY <2>1, ReadType DEF LinkInv, LinkTyped
  <2>2. CASE UNCHANGED receiver
    BY <2>2 DEF LinkInv, LinkTyped
  <2> QED
    BY <2>1, <2>2, Zenon DEF Detector
<1>3. LinkTyped'
  BY <1>1, <1>2 DEF LinkInv, LinkTyped
<1>4. StreamInv'
  BY <1>1 DEF StreamInv
<1> QED
  BY <1>3, <1>4 DEF LinkInv

\* Every step keeps the invariant of the link.
LEMMA LinkNextInv ==
  ASSUME LinkInv, [LinkNext]_linkVars
  PROVE  LinkInv'
<1>1. CASE UNCHANGED linkVars
  <2>1. UNCHANGED <<receiver, call, op, rx, parser, got, heals, fed>>
    BY <1>1 DEF linkVars, driver
  <2> QED
    BY <2>1, StreamInvSame DEF LinkInv, LinkTyped
<1> QED
  BY <1>1, SweepStep, LoseReplyStep, ConnectStep, DrainStep, DrainEndsStep, FillStep,
     NoAnswerStep, IdentifyStep, StatusStep, ConfigureStep, StreamStep, RestartStep,
     OverviewStep, DetectorStep DEF LinkNext

\* The invariant of the link.
LEMMA LinkAlways == LinkSpec => []LinkInv
BY LinkInitInv, LinkNextInv, PTL DEF LinkSpec

\* ParserCorrect: however the bytes of a session are cut into chunks, the sweeps
\* that stream() has yielded are those of the byte string, and it had no corrupt
\* sample.  For every alphabet, word length, sweep and chunking.
THEOREM ParserTheorem == LinkSpec => []ParserCorrect
<1>1. ASSUME LinkInv
      PROVE  ParserCorrect
  <2> SUFFICES ASSUME call = "stream", heals = 0
               PROVE  got = SweepsIn(fed, parser.ten) /\ ~Corrupt(fed, parser.ten)
    BY DEF ParserCorrect
  <2>1. Streamed(fed, parser, got)
    BY <1>1 DEF LinkInv, StreamInv
  <2>2. got \in Seq(Seq(Lows)) /\ parser.sweeps = <<>> /\ Linked(fed, parser, got)
    BY <2>1 DEF Streamed
  <2>3. got \o parser.sweeps = SweepsIn(fed, parser.ten) /\ ~Corrupt(fed, parser.ten)
    BY <2>2, Zenon DEF Linked, Tracks
  <2>4. got \o parser.sweeps = got
    BY <2>2, ConcatNone, Zenon
  <2> QED
    BY <2>3, <2>4, Zenon
<1> QED
  BY <1>1, LinkAlways, PTL

-----------------------------------------------------------------------------
(* The firmware profile of a session.                                      *)

\* RESET leaves the receiver idle; the two queries are answered.
LEMMA ResetStops ==
  ASSUME NEW d \in Receivers
  PROVE  Write(d, RESET).running = FALSE
<1>1. DOMAIN RESET = 1..3 /\ 3 \in Nat
  BY CommandLists
<1>2. PICK f : WritePath(f, d, RESET, 3)
  BY <1>1, WriteSteps
<1>3. 1 \in 1..3 /\ 2 \in 1..3 /\ 3 \in 1..3 /\ 1 - 1 = 0 /\ 2 - 1 = 1 /\ 3 - 1 = 2
  OBVIOUS
<1>4. f[0] = d /\ f[3] = Write(d, RESET) /\ f[1] = Handle(f[0], RESET[1])
      /\ f[2] = Handle(f[1], RESET[2]) /\ f[3] = Handle(f[2], RESET[3])
  BY <1>2, <1>3, Zenon DEF WritePath
<1>5. RESET[2] = "GD" /\ RESET[3] = "S0"
  BY DEF RESET
<1>6. PICK a, b, c, x : a = f[1] /\ b = f[2] /\ c = f[3] /\ x = RESET[1]
  OBVIOUS
<1>7. a = Handle(d, x) /\ b = Handle(a, "GD") /\ c = Handle(b, "S0") /\ c = Write(d, RESET)
  BY <1>4, <1>5, <1>6, Zenon
<1>8. a \in Receivers
  BY <1>7, HandleType, Zenon
<1>9. b \in Receivers /\ b.running = FALSE
  <2>1. b \in Receivers /\ b.running = IF "GD" = "GD" THEN FALSE ELSE IF "GD" = "GE" THEN TRUE ELSE a.running
    BY <1>7, <1>8, HandleType, Zenon
  <2> QED
    BY <2>1
<1>10. PICK y : y = "S0"
  OBVIOUS
<1>11. c.running = IF y = "GD" THEN FALSE ELSE IF y = "GE" THEN TRUE ELSE b.running
  <2>1. Handle(b, y).running = IF y = "GD" THEN FALSE ELSE IF y = "GE" THEN TRUE ELSE b.running
    BY <1>9, HandleType
  <2> QED
    BY <1>7, <1>10, <2>1, Zenon
<1> QED
  BY <1>7, <1>9, <1>10, <1>11

\* A list of one command is that command.
LEMMA WriteOne ==
  ASSUME NEW d \in Receivers, NEW cmd
  PROVE  Write(d, <<cmd>>) = Handle(d, cmd)
<1>1. PICK s : s = <<cmd>>
  OBVIOUS
<1>2. DOMAIN s = 1..1 /\ s[1] = cmd /\ 1 \in Nat
  BY <1>1
<1>3. PICK f : WritePath(f, d, s, 1)
  BY <1>2, WriteSteps
<1>4. 1 \in 1..1 /\ 1 - 1 = 0
  OBVIOUS
<1>5. f[0] = d /\ f[1] = Write(d, s) /\ f[1] = Handle(f[0], s[1])
  BY <1>3, <1>4, Zenon DEF WritePath
<1> QED
  BY <1>1, <1>2, <1>5, Zenon

\* The two queries are answered after what the receiver had already sent.
LEMMA AnswerIs ==
  ASSUME NEW d \in Receivers
  PROVE  /\ Write(d, ID_QUERY).out = d.out \o Line("Stopped")
         /\ Write(d, ID_QUERY).running = d.running
         /\ Write(d, STATUS_QUERY).out = d.out \o Line(StatusLine[d.fw])
         /\ Write(d, STATUS_QUERY).running = d.running
         /\ Write(d, STATUS_QUERY).fw = d.fw
<1>1. Handle(d, "S0") = Says(d, Line("Stopped")) /\ Handle(d, "?") = Says(d, Line(StatusLine[d.fw]))
  BY DEF Handle
<1>2. d \in [fw : DOMAIN StatusLine, running : BOOLEAN, out : Seq(Bytes)]
  BY DEF Receivers
<1>3. d.fw \in DOMAIN StatusLine
  BY <1>2
<1>4. Line("Stopped") \in Seq(Bytes) /\ Line(StatusLine[d.fw]) \in Seq(Bytes)
  BY <1>3, Replies, Zenon
<1>5. PICK a \in Seq(Bytes), b \in Seq(Bytes) : a = Line("Stopped") /\ b = Line(StatusLine[d.fw])
  BY <1>4
<1>6. /\ Says(d, a).out = d.out \o a /\ Says(d, a).running = d.running
      /\ Says(d, b).out = d.out \o b /\ Says(d, b).running = d.running /\ Says(d, b).fw = d.fw
  BY <1>2, <1>5, SaysIs, Zenon
<1>7. Write(d, ID_QUERY) = Says(d, a) /\ Write(d, STATUS_QUERY) = Says(d, b)
  BY <1>1, <1>5, WriteOne, Zenon DEF ID_QUERY, STATUS_QUERY
<1> QED
  BY <1>5, <1>6, <1>7, Zenon

\* A prefix of a sequence.
LEMMA PrefixType ==
  ASSUME NEW T, NEW s \in Seq(T), NEW k \in 0..Len(s)
  PROVE  SubSeq(s, 1, k) \in Seq(T)
BY SubSeqProperties

Associate(a, b, c) == (a \o b) \o c = a \o (b \o c)

\* Joining is associative.
LEMMA JoinThree ==
  \A T : \A a \in Seq(T), b \in Seq(T), c \in Seq(T) : Associate(a, b, c)
BY ConcatAssociative DEF Associate

\* The first part of what was joined.
LEMMA JoinParts ==
  \A T : \A a \in Seq(T), b \in Seq(T) :
    Len(a \o b) = Len(a) + Len(b) /\ \A i \in 1..Len(a) : (a \o b)[i] = a[i]
OBVIOUS

\* What was read and what is on its way are the line with the text t.
Pending(r, o, t) == r \o o = Line(t)

\* A query to a receiver that has sent nothing else.
LEMMA PendingStart ==
  ASSUME NEW t \in Texts
  PROVE  Pending(<<>>, <<>> \o Line(t), t)
<1>1. PICK s \in Seq(Bytes) : s = Line(t)
  BY LineType
<1>2. <<>> \o s = s /\ <<>> \o (<<>> \o s) = s
  OBVIOUS
<1> QED
  BY <1>1, <1>2, Zenon DEF Pending

\* The answers of the handshake arrive in pieces.
LEMMA JoinFill ==
  ASSUME NEW r \in Seq(Bytes), NEW o \in Seq(Bytes), NEW k \in 1..Len(o)
  PROVE  (r \o SubSeq(o, 1, k)) \o SubSeq(o, k + 1, Len(o)) = r \o o
<1>1. k + 1 \in 1..(Len(o) + 1)
  OBVIOUS
<1>2. PICK b \in Seq(Bytes) : b = SubSeq(o, k + 1, Len(o))
  BY <1>1, SuffixType
<1>3. PICK a \in Seq(Bytes) : a = SubSeq(o, 1, k)
  <2>1. k \in 0..Len(o)
    OBVIOUS
  <2> QED
    BY <2>1, PrefixType, Zenon
<1>4. a \o b = o
  <2>1. SubSeq(o, 1, k) \o SubSeq(o, k + 1, Len(o)) = SubSeq(o, 1, Len(o))
    BY ConcatAdjacentSubSeq
  <2>2. SubSeq(o, 1, Len(o)) = o
    BY SubSeqFull
  <2> QED
    BY <1>2, <1>3, <2>1, <2>2, Zenon
<1>5. (r \o a) \o b = r \o (a \o b)
  <2>1. r \in Seq(Bytes) /\ a \in Seq(Bytes) /\ b \in Seq(Bytes)
    OBVIOUS
  <2>2. Associate(r, a, b)
    BY <2>1, JoinThree, Zenon
  <2> QED
    BY <2>2 DEF Associate
<1> QED
  BY <1>2, <1>3, <1>4, <1>5, Zenon

\* A read moves bytes from the line to _rx.
LEMMA PendingFill ==
  ASSUME NEW r \in Seq(Bytes), NEW o \in Seq(Bytes), NEW t, Pending(r, o, t), NEW k \in 1..Len(o)
  PROVE  Pending(r \o SubSeq(o, 1, k), SubSeq(o, k + 1, Len(o)), t)
BY JoinFill, Zenon DEF Pending

\* Its last byte ends it.
LEMMA PendingEnd ==
  ASSUME NEW r \in Seq(Bytes), NEW o \in Seq(Bytes), NEW t \in Texts, Pending(r, o, t),
         Contains(r, MESSAGE_END)
  PROVE  r = Line(t) /\ o = <<>>
<1>1. Line(t) = <<MESSAGE_START, t, MESSAGE_END>> /\ t # MESSAGE_END /\ MESSAGE_START # MESSAGE_END
  BY DEF Line, Texts, MESSAGE_START, MESSAGE_END
<1>2. PICK l : l = Line(t)
  OBVIOUS
<1>3. l \in Seq(Bytes) /\ Len(l) = 3 /\ l[1] = MESSAGE_START /\ l[2] = t /\ l[3] = MESSAGE_END
  <2>1. Line(t) \in Seq(Bytes)
    BY LineType
  <2> QED
    BY <1>1, <1>2, <2>1
<1>4. r \o o = l
  BY <1>2 DEF Pending
<1>5. Len(r) + Len(o) = 3 /\ \A i \in 1..Len(r) : r[i] = l[i]
  <2>1. Len(l) = Len(r) + Len(o) /\ \A i \in 1..Len(r) : l[i] = r[i]
    BY <1>4, JoinParts, Zenon
  <2> QED
    BY <1>3, <2>1, Zenon
<1>6. PICK i \in 1..Len(r) : r[i] = MESSAGE_END
  BY DEF Contains
<1>7. i = 3
  BY <1>1, <1>3, <1>5, <1>6
<1>8. Len(r) = 3 /\ Len(o) = 0
  <2>1. Len(r) \in Nat /\ Len(o) \in Nat
    OBVIOUS
  <2>2. \A x \in Nat, y \in Nat : x + y = 3 /\ 3 \in 1..x => x = 3 /\ y = 0
    OBVIOUS
  <2> QED
    BY <1>5, <1>7, <2>1, <2>2, Zenon
<1>9. o = <<>>
  BY <1>8
<1>10. r = l
  BY <1>4, <1>9, ConcatNone
<1> QED
  BY <1>2, <1>9, <1>10

\* The answer is taken whole.
LEMMA AnswerTaken ==
  ASSUME rx \in Seq(Bytes), receiver \in Receivers, Found, call \in {"id", "status"},
         NEW t \in Texts, Pending(rx, receiver.out, t)
  PROVE  Before = <<MESSAGE_START, t>> /\ After = <<>> /\ receiver.out = <<>>
<1>1. Contains(rx, MESSAGE_END) /\ Awaited = MESSAGE_END
  BY DEF Found, Awaited
<1>2. receiver.out \in Seq(Bytes)
  BY DEF Receivers
<1>3. rx = Line(t) /\ receiver.out = <<>>
  BY <1>1, <1>2, PendingEnd
<1>4. At \in 1..Len(rx) /\ rx[At] = MESSAGE_END
  <2>1. At = CHOOSE k \in DOMAIN rx : rx[k] = MESSAGE_END /\ \A j \in 1..(k - 1) : rx[j] # MESSAGE_END
    BY <1>1, Zenon DEF At
  <2> QED
    BY <1>1, <2>1, FirstPlace, Zenon
<1>5. rx = <<MESSAGE_START, t, MESSAGE_END>> /\ t # MESSAGE_END /\ MESSAGE_START # MESSAGE_END
  BY <1>3 DEF Line, Texts, MESSAGE_START, MESSAGE_END
<1>6. At = 3
  BY <1>4, <1>5
<1>7. Before = SubSeq(<<MESSAGE_START, t, MESSAGE_END>>, 1, 2)
      /\ After = SubSeq(<<MESSAGE_START, t, MESSAGE_END>>, 4, 3)
  BY <1>5, <1>6 DEF Before, After
<1>8. ASSUME NEW a, NEW b, NEW c
      PROVE  SubSeq(<<a, b, c>>, 1, 2) = <<a, b>> /\ SubSeq(<<a, b, c>>, 4, 3) = <<>>
  <2>1. PICK l : l = <<a, b, c>>
    OBVIOUS
  <2>2. l[1] = a /\ l[2] = b /\ l[3] = c
    BY <2>1
  <2>3. 1 \in Int /\ 2 \in Int /\ 4 \in Int /\ 3 \in Int /\ 3 < 4
        /\ \A i \in 1..2 : l[i] \in {a, b, c}
    BY <2>2
  <2>4. PICK m \in Int, n \in Int : m = 1 /\ n = 2 /\ \A i \in m..n : l[i] \in {a, b, c}
    BY <2>3, Zenon
  <2>w. PICK w : w = SubSeq(l, m, n)
    OBVIOUS
  <2>5. w \in Seq({a, b, c}) /\ Len(w) = 2 /\ w[1] = a /\ w[2] = b
    <3>1. /\ w \in Seq({a, b, c}) /\ Len(w) = IF m <= n THEN n - m + 1 ELSE 0
          /\ \A i \in 1..(n - m + 1) : w[i] = l[m + i - 1]
      BY <2>4, <2>w, SubSeqProperties
    <3>2. Len(w) = 2 /\ 1 \in 1..(n - m + 1) /\ 2 \in 1..(n - m + 1) /\ m + 1 - 1 = 1 /\ m + 2 - 1 = 2
      BY <2>4, <3>1
    <3>3. w[1] = l[m + 1 - 1] /\ w[2] = l[m + 2 - 1]
      BY <3>1, <3>2, Zenon
    <3>4. w[1] = l[1] /\ w[2] = l[2]
      BY <3>2, <3>3, Zenon
    <3> QED
      BY <2>2, <3>1, <3>2, <3>4
  <2>6. w = <<a, b>>
    BY <2>5
  <2>7. SubSeq(l, 4, 3) = <<>>
    BY <2>3, SubSeqEmpty, Zenon
  <2> QED
    BY <2>1, <2>4, <2>w, <2>6, <2>7, Zenon
<1> QED
  BY <1>3, <1>7, <1>8, Zenon

\* Every firmware has a status text of its own.
LEMMA FirmwareOf ==
  ASSUME NEW f \in DOMAIN StatusLine
  PROVE  DetectFirmware(<<MESSAGE_START, StatusLine[f]>>) = f
<1>1. PICK line : line = <<MESSAGE_START, StatusLine[f]>>
  OBVIOUS
<1>2. /\ StatusLine["1.5"] = "ChargePump" /\ StatusLine["1.7"] = "Debug"
      /\ StatusLine["1.8"] = "V1.8"
  BY Profiles DEF StatusLine
<1>3. ASSUME NEW g \in DOMAIN StatusLine
      PROVE  Contains(line, StatusLine[g]) <=> g = f
  <2>1. Contains(line, StatusLine[g]) <=> MESSAGE_START = StatusLine[g] \/ StatusLine[f] = StatusLine[g]
    BY <1>1 DEF Contains
  <2>2. MESSAGE_START # StatusLine[g] /\ (StatusLine[f] = StatusLine[g] <=> f = g)
    BY <1>2, Profiles DEF MESSAGE_START
  <2> QED
    BY <2>1, <2>2
<1>4. (CHOOSE g \in DOMAIN StatusLine : Contains(line, StatusLine[g])) = f
  BY <1>3
<1> QED
  BY <1>1, <1>3, <1>4, Zenon DEF DetectFirmware

\* Every answer had arrived when its wait began, and no byte was lost.
Clean == ~undrained /\ lost = 0

\* From RESET on the receiver is idle, so that what is on its way, with what was
\* read, is the answer to the last query.
FirmwareInv ==
  /\ lost \in Nat
  /\ call \in {"drain", "id", "status"} => receiver.running = FALSE
  /\ call = "drain" => rx = <<>>
  /\ Clean /\ call = "id" => Pending(rx, receiver.out, "Stopped")
  /\ Clean /\ call = "status" => Pending(rx, receiver.out, StatusLine[receiver.fw])
  /\ Clean /\ call \in {"configure", "stream", "redrain"} => fw = receiver.fw

\* No session has begun.
LEMMA FirmwareInit == LinkInit => FirmwareInv
BY DEF LinkInit, FirmwareInv

\* A call that waits for no answer, and a firmware that is kept.
LEMMA FirmwareKept ==
  ASSUME LinkInv, FirmwareInv, UNCHANGED <<fw, lost, undrained>>, receiver'.fw = receiver.fw,
         \/ call' \notin {"drain", "id", "status", "configure", "stream", "redrain"}
         \/ /\ call' \in {"configure", "stream", "redrain"}
            /\ call \in {"configure", "stream", "redrain"}
  PROVE  FirmwareInv'
BY DEF FirmwareInv, Clean

\* Only a receiver that runs transmits, which is after the handshake.
LEMMA FirmwareSweep ==
  ASSUME LinkInv, FirmwareInv, EmitSweep \/ LoseDigit
  PROVE  FirmwareInv'
<1>1. PICK miss \in 0..(NChannels * Width) : Sweeping(miss)
  <2>1. CASE EmitSweep
    <3>1. 0 \in 0..(NChannels * Width)
      <4>1. \A a \in Nat, b \in Nat : 0 \in 0..(a * b)
        OBVIOUS
      <4> QED
        BY <4>1, WireAssumption, Zenon
    <3> QED
      BY <2>1, <3>1 DEF EmitSweep
  <2>2. CASE LoseDigit
    <3>1. PICK miss \in 1..(NChannels * Width) : Sweeping(miss)
      BY <2>2 DEF LoseDigit
    <3>2. miss \in 0..(NChannels * Width)
      OBVIOUS
    <3> QED
      BY <3>1, <3>2
  <2> QED
    BY <2>1, <2>2
<1>2. receiver'.fw = receiver.fw
  BY <1>1, SweepingType DEF LinkInv, LinkTyped
<1>3. receiver.running
  BY <1>1 DEF Sweeping
<1>4. call \notin {"drain", "id", "status"}
  BY <1>3 DEF FirmwareInv
<1>5. UNCHANGED <<call, fw, undrained>> /\ (lost' = lost \/ lost' = lost + 1)
  BY DEF EmitSweep, LoseDigit, driver
<1> QED
  BY <1>2, <1>4, <1>5 DEF FirmwareInv, Clean

\* The loss of an answer's byte is counted.
LEMMA FirmwareLose ==
  ASSUME LinkInv, FirmwareInv, LoseReply
  PROVE  FirmwareInv'
<1>1. receiver'.running = receiver.running
  <2>1. receiver \in Receivers
    BY DEF LinkInv, LinkTyped
  <2>2. \A R : \A d \in [fw : DOMAIN StatusLine, running : BOOLEAN, out : R] : \A o :
          [d EXCEPT !.out = o].running = d.running
    OBVIOUS
  <2> QED
    BY <2>1, <2>2, Zenon DEF LoseReply, Receivers
<1>2. UNCHANGED <<call, rx, fw>> /\ lost' = lost + 1
  BY DEF LoseReply, driver
<1>3. lost' \in Nat /\ lost' # 0
  BY <1>2 DEF FirmwareInv
<1> QED
  BY <1>1, <1>2, <1>3 DEF FirmwareInv, Clean

\* RESET leaves the receiver idle.
LEMMA FirmwareConnect ==
  ASSUME LinkInv, FirmwareInv, Connect
  PROVE  FirmwareInv'
<1>1. receiver'.running = FALSE
  <2>1. receiver \in Receivers
    BY DEF LinkInv, LinkTyped
  <2>2. PICK k \in 0..Len(receiver.out) :
          receiver' = Write([receiver EXCEPT !.out = SubSeq(@, k + 1, Len(@))], RESET)
    BY Zenon DEF Connect
  <2>3. PICK d : d = [receiver EXCEPT !.out = SubSeq(@, k + 1, Len(@))]
    OBVIOUS
  <2>4. d \in Receivers
    BY <2>1, <2>3, DropType, Zenon
  <2> QED
    BY <2>2, <2>3, <2>4, ResetStops, Zenon
<1>2. call' = "drain" /\ rx' = <<>> /\ UNCHANGED lost
  BY DEF Connect
<1> QED
  BY <1>1, <1>2 DEF FirmwareInv

\* The drain takes bytes only.
LEMMA FirmwareDrain ==
  ASSUME LinkInv, FirmwareInv, Drain
  PROVE  FirmwareInv'
<1>1. receiver'.fw = receiver.fw /\ receiver'.running = receiver.running
  BY ReadType DEF Drain, LinkInv, LinkTyped
<1>2. UNCHANGED <<call, rx, fw, lost, undrained>> /\ call \in {"drain", "redrain"}
  BY DEF Drain, driver
<1> QED
  BY <1>1, <1>2 DEF FirmwareInv, Clean

\* A drain that left nothing: the answer to S0 is all that is on its way.
LEMMA FirmwareDrainEnds ==
  ASSUME LinkInv, FirmwareInv, DrainEnds
  PROVE  FirmwareInv'
<1>1. UNCHANGED <<rx, fw, lost>> /\ call = "drain" /\ undrained' = (receiver.out # <<>>)
  BY DEF DrainEnds
<1>2. receiver \in Receivers /\ rx = <<>> /\ receiver.running = FALSE
  BY <1>1 DEF FirmwareInv, LinkInv, LinkTyped
<1>3. CASE op = "record"
  <2>1. receiver' = Write(receiver, ID_QUERY) /\ call' = "id"
    BY <1>3 DEF DrainEnds, BeginCall
  <2>2. receiver'.out = receiver.out \o Line("Stopped") /\ receiver'.running = FALSE
    BY <1>2, <2>1, AnswerIs, Zenon
  <2>3. Clean' => Pending(rx', receiver'.out, "Stopped")
    <3>1. Clean' => receiver.out = <<>>
      BY <1>1 DEF Clean
    <3>2. "Stopped" \in Texts
      BY DEF Texts
    <3> QED
      BY <1>1, <1>2, <2>2, <3>1, <3>2, PendingStart, Zenon
  <2> QED
    BY <1>1, <2>1, <2>2, <2>3 DEF FirmwareInv
<1>4. CASE op # "record"
  <2>1. call' \in {"overview", "detector"}
    BY <1>4 DEF DrainEnds, BeginCall, LinkInv, LinkTyped
  <2> QED
    BY <1>1, <2>1 DEF FirmwareInv
<1> QED
  BY <1>3, <1>4

\* The answer that is awaited arrives in parts.
LEMMA FirmwareFill ==
  ASSUME LinkInv, FirmwareInv, Fill
  PROVE  FirmwareInv'
<1>1. PICK part \in Arrivals : receiver' = Taken(part) /\ rx' = rx \o part
  BY DEF Fill
<1>2. receiver \in Receivers /\ rx \in Seq(Bytes) /\ receiver.out \in Seq(Bytes)
  BY DEF LinkInv, LinkTyped, Receivers
<1>3. receiver'.fw = receiver.fw /\ receiver'.running = receiver.running
  BY <1>1, <1>2, ReadType
<1>4. PICK k \in 1..Len(receiver.out) :
        /\ part = SubSeq(receiver.out, 1, k)
        /\ receiver'.out = SubSeq(receiver.out, k + 1, Len(receiver.out))
  BY <1>1, <1>2, ReadType, Zenon
<1>5. ASSUME NEW t, Pending(rx, receiver.out, t)
      PROVE  Pending(rx', receiver'.out, t)
  <2>1. Pending(rx \o SubSeq(receiver.out, 1, k),
                SubSeq(receiver.out, k + 1, Len(receiver.out)), t)
    BY <1>2, <1>5, PendingFill, Zenon
  <2> QED
    BY <1>1, <1>4, <2>1, Zenon
<1>6. UNCHANGED <<call, fw, lost, undrained>> /\ call \in {"id", "status", "configure"}
  BY DEF Fill, Waiting
<1> QED
  BY <1>3, <1>5, <1>6, Zenon DEF FirmwareInv, Clean

\* An empty read changes nothing that is on its way.
LEMMA FirmwareNoAnswer ==
  ASSUME LinkInv, FirmwareInv, NoAnswer
  PROVE  FirmwareInv'
<1>1. UNCHANGED <<receiver, rx, fw, lost, undrained>> /\ (call' = call \/ call' = "failed")
  BY DEF NoAnswer, Fails
<1> QED
  BY <1>1 DEF FirmwareInv, Clean

\* The answer to S0 is taken whole, and nothing is left but the answer to `?'.
LEMMA FirmwareIdentify ==
  ASSUME LinkInv, FirmwareInv, Identify
  PROVE  FirmwareInv'
<1>1. UNCHANGED <<fw, lost, undrained>> /\ call = "id" /\ Found
  BY DEF Identify, Fails
<1>2. receiver \in Receivers /\ rx \in Seq(Bytes) /\ receiver.running = FALSE
  BY <1>1 DEF LinkInv, LinkTyped, FirmwareInv
<1>3. CASE Before = <<MESSAGE_START, "Stopped">>
  <2>1. receiver' = Write(receiver, STATUS_QUERY) /\ rx' = After /\ call' = "status"
    BY <1>3 DEF Identify
  <2>2. /\ receiver'.out = receiver.out \o Line(StatusLine[receiver.fw])
        /\ receiver'.running = FALSE /\ receiver'.fw = receiver.fw
    BY <1>2, <2>1, AnswerIs, Zenon
  <2>3. ASSUME Clean'
        PROVE  Pending(rx', receiver'.out, StatusLine[receiver'.fw])
    <3>1. Pending(rx, receiver.out, "Stopped")
      BY <1>1, <2>3 DEF FirmwareInv, Clean
    <3>2. "Stopped" \in Texts
      BY DEF Texts
    <3>3. After = <<>> /\ receiver.out = <<>>
      BY <1>1, <1>2, <3>1, <3>2, AnswerTaken
    <3>4. StatusLine[receiver.fw] \in Texts
      BY <1>2, StatusText DEF Receivers
    <3> QED
      BY <2>1, <2>2, <3>3, <3>4, PendingStart, Zenon
  <2> QED
    BY <1>1, <2>1, <2>2, <2>3 DEF FirmwareInv
<1>4. CASE Before # <<MESSAGE_START, "Stopped">>
  <2>1. call' = "failed"
    BY <1>4 DEF Identify, Fails
  <2> QED
    BY <1>1, <2>1 DEF FirmwareInv
<1> QED
  BY <1>3, <1>4

\* The profile is detected from the answer to `?'.
LEMMA FirmwareStatus ==
  ASSUME LinkInv, FirmwareInv, Status
  PROVE  FirmwareInv'
<1>1. /\ UNCHANGED <<lost, undrained>> /\ call = "status" /\ Found /\ call' = "configure"
      /\ fw' = DetectFirmware(Before) /\ receiver' = Write(receiver, <<"FE">>)
  BY DEF Status
<1>2. receiver \in Receivers /\ rx \in Seq(Bytes) /\ receiver.fw \in DOMAIN StatusLine
  BY DEF LinkInv, LinkTyped, Receivers
<1>3. receiver'.fw = receiver.fw
  BY <1>1, <1>2, WriteTyped
<1>4. ASSUME Clean'
      PROVE  fw' = receiver'.fw
  <2>1. Pending(rx, receiver.out, StatusLine[receiver.fw])
    BY <1>1, <1>4 DEF FirmwareInv, Clean
  <2>2. StatusLine[receiver.fw] \in Texts
    BY <1>2, StatusText
  <2>3. Before = <<MESSAGE_START, StatusLine[receiver.fw]>>
    BY <1>1, <1>2, <2>1, <2>2, AnswerTaken
  <2>4. DetectFirmware(<<MESSAGE_START, StatusLine[receiver.fw]>>) = receiver.fw
    BY <1>2, FirmwareOf
  <2> QED
    BY <1>1, <1>3, <2>3, <2>4, Zenon
<1> QED
  BY <1>1, <1>3, <1>4 DEF FirmwareInv

\* The channels and the start keep the profile.
LEMMA FirmwareConfigure ==
  ASSUME LinkInv, FirmwareInv, Configure
  PROVE  FirmwareInv'
<1>1. \E s \in {<<"FE">>, InitStart} : receiver' = Write(receiver, s)
  BY DEF Configure
<1>2. receiver'.fw = receiver.fw
  BY <1>1, WriteTyped DEF LinkInv, LinkTyped
<1>3. UNCHANGED <<fw, lost, undrained>> /\ call = "configure" /\ call' \in {"configure", "stream"}
  BY DEF Configure
<1> QED
  BY <1>2, <1>3, FirmwareKept

\* The stream and its heals keep the profile.
LEMMA FirmwareStream ==
  ASSUME LinkInv, FirmwareInv, Stream
  PROVE  FirmwareInv'
<1>1. UNCHANGED <<fw, lost, undrained>> /\ call = "stream"
  BY DEF Stream
<1>2. PICK part \in Arrivals :
        /\ receiver' = Taken(part) \/ receiver' = Write(Taken(part), RESET)
        /\ call' \in {"redrain", "failed", "done", "stream"}
  <2>1. \A P : (IF P THEN "done" ELSE "stream") \in {"redrain", "failed", "done", "stream"}
    OBVIOUS
  <2>2. "redrain" \in {"redrain", "failed", "done", "stream"}
        /\ "failed" \in {"redrain", "failed", "done", "stream"}
    OBVIOUS
  <2> QED
    BY <2>1, <2>2, Zenon DEF Stream
<1>3. Taken(part) \in Receivers /\ Taken(part).fw = receiver.fw
  BY ReadType DEF LinkInv, LinkTyped
<1>4. Write(Taken(part), RESET).fw = Taken(part).fw
  BY <1>3, CommandsType
<1>5. receiver'.fw = receiver.fw
  BY <1>2, <1>3, <1>4, Zenon
<1> QED
  BY <1>1, <1>2, <1>5, FirmwareKept

\* Restart, stop and close keep the profile.
LEMMA FirmwareRestart ==
  ASSUME LinkInv, FirmwareInv, Restart \/ StopStream \/ CloseDriver
  PROVE  FirmwareInv'
<1>1. \E s \in {InitStart, <<"GD">>, <<"S0">>, <<"GD", "S0">>} : receiver' = Write(receiver, s)
  BY DEF Restart, StopStream, CloseDriver
<1>2. receiver'.fw = receiver.fw
  BY <1>1, WriteTyped DEF LinkInv, LinkTyped
<1>3. /\ UNCHANGED <<fw, lost, undrained>>
      /\ (call = "redrain" /\ call' = "stream") \/ call' \in {"done", "closed"}
  BY DEF Restart, StopStream, CloseDriver
<1> QED
  BY <1>2, <1>3, FirmwareKept

\* The other calls use no profile.
LEMMA FirmwareOther ==
  ASSUME LinkInv, FirmwareInv, Overview \/ Detector
  PROVE  FirmwareInv'
<1>1. UNCHANGED lost
  BY DEF Overview, Detector
<1>2. call' \notin {"drain", "id", "status", "configure", "stream", "redrain"}
  <2>1. CASE Detector
    BY <2>1 DEF Detector
  <2>2. CASE Overview
    <3>1. call = "overview"
      BY <2>2 DEF Overview
    <3>2. call' \in {"done", "failed", call}
      <4>1. \A P : (IF P THEN "done" ELSE call) \in {"done", "failed", call}
                   /\ (IF P THEN "failed" ELSE call) \in {"done", "failed", call}
        OBVIOUS
      <4>2. CASE \E part \in Arrivals : call' = IF Contains(got', "end") THEN "done" ELSE call
        BY <4>1, <4>2, Zenon
      <4>3. CASE call' = IF waits' = MaxEmpty THEN "failed" ELSE call
        BY <4>1, <4>3, Zenon
      <4> QED
        BY <2>2, <4>2, <4>3 DEF Overview
    <3> QED
      BY <3>1, <3>2
  <2> QED
    BY <2>1, <2>2
<1> QED
  BY <1>1, <1>2 DEF FirmwareInv

\* Every step keeps the invariant of the profile.
LEMMA FirmwareNext ==
  ASSUME LinkInv, FirmwareInv, [LinkNext]_linkVars
  PROVE  FirmwareInv'
<1>1. CASE UNCHANGED linkVars
  BY <1>1 DEF linkVars, driver, FirmwareInv, Clean
<1> QED
  BY <1>1, FirmwareSweep, FirmwareLose, FirmwareConnect, FirmwareDrain, FirmwareDrainEnds,
     FirmwareFill, FirmwareNoAnswer, FirmwareIdentify, FirmwareStatus, FirmwareConfigure,
     FirmwareStream, FirmwareRestart, FirmwareOther DEF LinkNext

\* FirmwareRight: with all answers to RESET read before S0, and none lost, the
\* profile that configure() and the stream use is that of the receiver: no answer is
\* taken for the answer to another query.
THEOREM FirmwareTheorem == LinkSpec => []FirmwareRight
<1>1. LinkInv /\ FirmwareInv => FirmwareRight
  BY DEF FirmwareInv, FirmwareRight, Clean
<1> QED
  BY <1>1, LinkAlways, FirmwareInit, FirmwareNext, PTL DEF LinkSpec

-----------------------------------------------------------------------------
(* What the receiver sends, digit by digit.                                *)

\* The quotient by a product, in two steps.
LEMMA DivideTwice ==
  ASSUME NEW v \in Nat, NEW q \in Nat \ {0}, NEW B \in Nat \ {0}
  PROVE  /\ v \div (B * q) \in Nat /\ v \div q \in Nat
         /\ B * (v \div (B * q)) + ((v \div q) % B) = v \div q
<1>1. PICK a \in Nat, r \in 0..(q - 1) : a = v \div q /\ v = q * a + r
  OBVIOUS
<1>2. PICK c \in Nat, e \in 0..(B - 1) : c = a \div B /\ e = a % B /\ a = B * c + e
  OBVIOUS
<1>3. PICK n \in Nat \ {0} : n = B * q
  <2>1. \A x \in Nat \ {0}, y \in Nat \ {0} : x * y \in Nat \ {0}
    OBVIOUS
  <2> QED
    BY <2>1, Zenon
<1>4. n * c = q * (B * c) /\ n = q * B
  BY <1>3
<1>5. q * a = q * (B * c) + q * e
  BY <1>2
<1>6. q * e + q <= q * B /\ 0 <= q * e
  <2>1. \A x \in Nat, y \in Nat, z \in Nat : y + 1 <= z => x * y + x <= x * z
    <3> TAKE x \in Nat, y \in Nat, z \in Nat
    <3> HAVE y + 1 <= z
    <3>1. PICK d \in Nat : z = y + 1 + d
      <4>1. z - (y + 1) \in Nat /\ z = y + 1 + (z - (y + 1))
        OBVIOUS
      <4> QED
        BY <4>1
    <3>2. x * z = x * y + x + x * d /\ x * d \in Nat /\ x * y \in Nat
      BY <3>1
    <3> QED
      BY <3>2
  <2>2. e + 1 <= B /\ e \in Nat /\ q \in Nat /\ B \in Nat
    OBVIOUS
  <2>3. q * e + q <= q * B
    BY <2>1, <2>2, Zenon
  <2>4. q * e \in Nat
    BY <2>2
  <2> QED
    BY <2>3, <2>4
<1>7. n * c <= v /\ v < n * c + n
  <2>1. n * c \in Nat /\ q * e \in Nat /\ q * B \in Nat /\ q * a \in Nat
    BY <1>2, <1>3
  <2>2. PICK x \in Nat, y \in Nat, z \in Nat : x = n * c /\ y = q * e /\ z = q * B
    BY <2>1
  <2>3. v = x + y + r /\ n = z /\ y + q <= z /\ 0 <= r /\ r < q
    BY <1>1, <1>4, <1>5, <1>6, <2>2
  <2> QED
    BY <2>2, <2>3
<1>8. v \div n = c
  BY <1>7, Quotient
<1> QED
  BY <1>1, <1>2, <1>3, <1>8

\* No two digits are alike.
LEMMA DigitsDiffer ==
  ASSUME NEW i \in 1..16, NEW j \in 1..16, HexDigits[i] = HexDigits[j]
  PROVE  i = j
<1>1. /\ HexDigits[1] = "0" /\ HexDigits[2] = "1" /\ HexDigits[3] = "2" /\ HexDigits[4] = "3"
      /\ HexDigits[5] = "4" /\ HexDigits[6] = "5" /\ HexDigits[7] = "6" /\ HexDigits[8] = "7"
  BY DEF HexDigits
<1>2. /\ HexDigits[9] = "8" /\ HexDigits[10] = "9" /\ HexDigits[11] = "A" /\ HexDigits[12] = "B"
      /\ HexDigits[13] = "C" /\ HexDigits[14] = "D" /\ HexDigits[15] = "E" /\ HexDigits[16] = "F"
  BY DEF HexDigits
<1>3. i \in 1..8 \/ i \in 9..16
  OBVIOUS
<1>4. j \in 1..8 \/ j \in 9..16
  OBVIOUS
<1>5. CASE i \in 1..8 /\ j \in 1..8
  BY <1>1, <1>5
<1>6. CASE i \in 1..8 /\ j \in 9..16
  BY <1>1, <1>2, <1>6
<1>7. CASE i \in 9..16 /\ j \in 1..8
  BY <1>1, <1>2, <1>7
<1>8. CASE i \in 9..16 /\ j \in 9..16
  BY <1>2, <1>8
<1> QED
  BY <1>3, <1>4, <1>5, <1>6, <1>7, <1>8

\* A digit stands for its value.
LEMMA DigitRoundTrip ==
  ASSUME NEW u \in 0..(Base - 1)
  PROVE  DigitOf(u) \in Digits /\ DigitVal[DigitOf(u)] = u
<1>1. Base \in 3..16
  BY WireAssumption
<1>2. u + 1 \in 1..Base /\ u + 1 \in 1..16
  BY <1>1
<1>3. DigitOf(u) \in Digits
  BY <1>2, Zenon DEF DigitOf, Digits
<1>4. PICK w : w = DigitVal[DigitOf(u)]
  OBVIOUS
<1>5. w \in Nat /\ w < Base /\ DigitOf(w) = DigitOf(u)
  BY <1>3, <1>4, DigitValType, Zenon
<1>6. w + 1 \in 1..16
  BY <1>1, <1>5
<1>7. HexDigits[w + 1] = HexDigits[u + 1]
  BY <1>5 DEF DigitOf
<1>8. w + 1 = u + 1
  BY <1>2, <1>6, <1>7, DigitsDiffer
<1> QED
  BY <1>3, <1>4, <1>5, <1>8

\* The value of a sample's digits is the sample.
LEMMA EncodeValue ==
  ASSUME NEW v \in Nat, v < Power[Width]
  PROVE  Value(Encode(v)) = v
<1>0. Width \in Nat /\ Width # 0 /\ Base \in Nat /\ Base # 0
  BY WireAssumption
<1>w. PICK s : s = Encode(v)
  OBVIOUS
<1>1. PICK n \in Nat : n = Width /\ s = Encode(v)
  BY <1>0, <1>w
<1>2. DOMAIN s = 1..n /\ \A k \in 1..n : s[k] = DigitOf((v \div Power[n - k]) % Base)
  BY <1>1, Zenon DEF Encode
<1>3. PICK f : /\ DOMAIN f = 0..n /\ f[0] = 0 /\ f[n] = Value(s)
               /\ \A k \in 1..n : f[k] = Base * f[k - 1] + DigitVal[s[k]]
  BY <1>2, ValueSteps
<1> DEFINE K == {k \in Nat : k <= n => f[k] = v \div Power[n - k]}
<1>4. 0 \in K
  <2>1. Power[n] \in Nat \ {0} /\ v < Power[n] /\ n - 0 = n
    BY <1>0, <1>1, PowerType
  <2>2. PICK w \in Nat \ {0} : w = Power[n]
    BY <2>1
  <2>3. v \div w = 0
    BY <2>1, <2>2
  <2> QED
    BY <1>3, <2>1, <2>2, <2>3
<1>5. ASSUME NEW j \in Nat, j \in K
      PROVE  j + 1 \in K
  <2>1. CASE j + 1 <= n
    <3>1. PICK k, e : k = j + 1 /\ e = n - k
      OBVIOUS
    <3>2. k \in 1..n /\ k - 1 = j /\ e \in Nat /\ e + 1 \in 1..Width /\ (e + 1) - 1 = e
          /\ n - j = e + 1 /\ e \in 0..Width /\ j <= n
      BY <1>1, <2>1, <3>1
    <3>3. f[j] = v \div Power[e + 1]
      BY <1>5, <3>2
    <3>4. Power[e + 1] = Base * Power[e]
      BY <3>2, PowerSteps, Zenon
    <3>5. PICK q \in Nat \ {0} : q = Power[e]
      BY <3>2, PowerType
    <3>6. f[k] = Base * f[j] + DigitVal[s[k]]
      BY <1>3, <3>2, Zenon
    <3>7. s[k] = DigitOf((v \div q) % Base)
      BY <1>2, <3>1, <3>2, <3>5, Zenon
    <3>8. f[j] = v \div (Base * q)
      BY <3>3, <3>4, <3>5, Zenon
    <3>9. /\ v \div (Base * q) \in Nat /\ v \div q \in Nat
          /\ Base * (v \div (Base * q)) + ((v \div q) % Base) = v \div q
      BY <1>0, DivideTwice
    <3>10. PICK u : u = (v \div q) % Base
      OBVIOUS
    <3>11. u \in 0..(Base - 1)
      BY <1>0, <3>9, <3>10
    <3>12. DigitVal[s[k]] = u
      BY <3>7, <3>10, <3>11, DigitRoundTrip, Zenon
    <3>13. f[k] = v \div q
      BY <3>6, <3>8, <3>9, <3>10, <3>12, Zenon
    <3>14. k <= n => f[k] = v \div Power[n - k]
      BY <3>1, <3>5, <3>13, Zenon
    <3>15. k \in Nat
      BY <3>1
    <3>16. k \in K
      BY <3>14, <3>15, Zenon
    <3> QED
      BY <3>1, <3>16, Zenon
  <2>2. CASE ~(j + 1 <= n)
    BY <2>2
  <2> QED
    BY <2>1, <2>2
<1> HIDE DEF K
<1>6. Nat \subseteq K
  BY <1>4, <1>5, Counting
<1>7. n \in K
  BY <1>6
<1>8. f[n] = v \div Power[n - n]
  BY <1>7 DEF K
<1>9. n - n = 0 /\ Power[0] = 1 /\ v \div 1 = v
  <2>1. n - n = 0 /\ v \div 1 = v
    OBVIOUS
  <2>2. Power[0] = 1
    BY PowerSteps
  <2> QED
    BY <2>1, <2>2
<1> QED
  BY <1>1, <1>3, <1>8, <1>9

\* Where an element is in sequences of one length that are joined.
LEMMA FlattenAt ==
  ASSUME NEW T, NEW v \in Seq(Seq(T)), NEW w \in Nat, \A k \in 1..Len(v) : Len(v[k]) = w,
         NEW e \in 1..Len(v), NEW r \in 1..w
  PROVE  FlattenSeq(v)[w * (e - 1) + r] = v[e][r]
<1>1. PICK n \in Nat : n = Len(v)
  OBVIOUS
<1>2. PICK f : Joins(f, v, n, T) /\ f[n] = FlattenSeq(v)
  BY <1>1, FlattenJoins
<1> DEFINE Held(k) == Len(f[k]) = w * k /\ (e <= k => f[k][w * (e - 1) + r] = v[e][r])
           K == {k \in Nat : k <= n => Held(k)}
<1>3. 0 \in K
  <2>1. f[0] = <<>>
    BY <1>2, Zenon DEF Joins
  <2>2. Len(f[0]) = 0 /\ w * 0 = 0 /\ ~(e <= 0)
    BY <2>1
  <2> QED
    BY <2>2
<1>4. ASSUME NEW j \in Nat, j \in K
      PROVE  j + 1 \in K
  <2>1. CASE j + 1 <= n
    <3>1. PICK k \in 1..n : k = j + 1 /\ k - 1 = j
      BY <2>1
    <3>2. Held(j)
      BY <1>4, <2>1
    <3>3. Joined(f, v, k, T)
      BY <1>1, <1>2, JoinsAt
    <3>4. PICK a \in Seq(T), c \in Seq(T) : a = f[j] /\ c = v[k] /\ f[k] = a \o c
      <4>1. f[k] = f[k - 1] \o v[k] /\ f[k - 1] \in Seq(T)
        BY <3>3, Zenon DEF Joined, Extends
      <4>2. v[k] \in Seq(T)
        BY <1>1
      <4> QED
        BY <3>1, <4>1, <4>2, Zenon
    <3>5. Len(a) = w * j /\ Len(c) = w
      BY <1>1, <3>2, <3>4, Zenon
    <3>6. PICK m \in Nat, b \in Nat : m = w * j /\ b = w * (e - 1)
      <4>1. \A x \in Nat, y \in Nat : x * y \in Nat
        OBVIOUS
      <4>2. e - 1 \in Nat
        OBVIOUS
      <4> QED
        BY <4>1, <4>2, Zenon
    <3>7. w * k = m + w
      BY <3>1, <3>6
    <3>8. /\ Len(a \o c) = Len(a) + Len(c)
          /\ \A i \in 1..Len(a) : (a \o c)[i] = a[i]
          /\ \A i \in 1..Len(c) : (a \o c)[Len(a) + i] = c[i]
      OBVIOUS
    <3>9. Len(f[k]) = w * k
      BY <3>4, <3>5, <3>6, <3>7, <3>8
    <3>10. ASSUME e <= j
           PROVE  f[k][b + r] = v[e][r]
      <4>1. b + w <= m
        <5>1. \A x \in Nat, y \in Nat, z \in Nat : y + 1 <= z => x * y + x <= x * z
          <6> TAKE x \in Nat, y \in Nat, z \in Nat
          <6> HAVE y + 1 <= z
          <6>1. PICK d \in Nat : z = y + 1 + d
            <7>1. z - (y + 1) \in Nat /\ z = y + 1 + (z - (y + 1))
              OBVIOUS
            <7> QED
              BY <7>1
          <6>2. x * z = x * y + x + x * d /\ x * d \in Nat /\ x * y \in Nat
            BY <6>1
          <6> QED
            BY <6>2
        <5>2. PICK y \in Nat : y = e - 1 /\ y + 1 <= j
          BY <3>10
        <5>3. w * y + w <= w * j
          BY <5>1, <5>2, Zenon
        <5> QED
          BY <3>6, <5>2, <5>3
      <4>2. b + r \in 1..Len(a)
        <5>1. \A x \in Nat : r \in 1..w /\ b + w <= x => b + r \in 1..x
          OBVIOUS
        <5>2. Len(a) = m
          BY <3>5, <3>6, Zenon
        <5> QED
          BY <3>6, <4>1, <5>1, <5>2, Zenon
      <4>3. f[k][b + r] = a[b + r]
        BY <3>4, <3>8, <4>2, Zenon
      <4>4. a[b + r] = v[e][r]
        BY <3>2, <3>4, <3>6, <3>10, Zenon
      <4> QED
        BY <4>3, <4>4, Zenon
    <3>11. ASSUME e = k
           PROVE  f[k][b + r] = v[e][r]
      <4>1. b = Len(a) /\ r \in 1..Len(c)
        BY <3>1, <3>5, <3>6, <3>11
      <4>2. f[k][b + r] = c[r]
        BY <3>4, <3>8, <4>1, Zenon
      <4> QED
        BY <3>4, <3>11, <4>2, Zenon
    <3>12. e <= k => e <= j \/ e = k
      BY <3>1
    <3>13. e <= k => f[k][w * (e - 1) + r] = v[e][r]
      BY <3>6, <3>10, <3>11, <3>12, Zenon
    <3>14. Held(k)
      BY <3>9, <3>13, Zenon
    <3>15. k \in Nat
      BY <3>1
    <3> HIDE DEF Held
    <3>16. k \in K
      BY <3>14, <3>15, Zenon
    <3> QED
      BY <3>1, <3>16, Zenon
  <2>2. CASE ~(j + 1 <= n)
    BY <2>2
  <2> QED
    BY <2>1, <2>2
<1> HIDE DEF K
<1>5. Nat \subseteq K
  BY <1>3, <1>4, Counting
<1>6. n \in K
  BY <1>5
<1>7. e <= n => f[n][w * (e - 1) + r] = v[e][r]
  BY <1>6 DEF K
<1> QED
  BY <1>1, <1>2, <1>7

\* The transmission of a sweep.
Wire(s) == FlattenSeq([c \in 1..NChannels |-> Encode(s[c])])

\* Its digits are those of the samples, one after the other.
LEMMA WireIs ==
  ASSUME NEW s \in [1..NChannels -> Nat]
  PROVE  /\ Wire(s) \in Seq(Digits) /\ Len(Wire(s)) = Width * NChannels
         /\ \A c \in 1..NChannels, r \in 1..Width : Wire(s)[Width * (c - 1) + r] = Encode(s[c])[r]
<1> DEFINE v == [c \in 1..NChannels |-> Encode(s[c])]
<1>0. NChannels \in Nat /\ Width \in Nat
  BY WireAssumption
<1>1. \A c \in 1..NChannels : Encode(s[c]) \in Seq(Digits) /\ Len(Encode(s[c])) = Width
  BY EncodeType
<1>2. v \in [1..NChannels -> Seq(Digits)] /\ \A c \in 1..NChannels : Len(v[c]) = Width /\ v[c] = Encode(s[c])
  BY <1>1, Zenon
<1>3. Wire(s) = FlattenSeq(v)
  BY DEF Wire
<1> HIDE DEF v
<1>4. v \in Seq(Seq(Digits)) /\ Len(v) = NChannels
  BY <1>0, <1>2, ListIsSeq
<1>5. Wire(s) \in Seq(Digits)
  BY <1>3, <1>4, FlattenType
<1>6. Len(Wire(s)) = Width * NChannels
  BY <1>0, <1>2, <1>3, <1>4, FlattenLen
<1>7. ASSUME NEW c \in 1..NChannels, NEW r \in 1..Width
      PROVE  Wire(s)[Width * (c - 1) + r] = Encode(s[c])[r]
  <2>1. c \in 1..Len(v) /\ \A k \in 1..Len(v) : Len(v[k]) = Width
    BY <1>2, <1>4
  <2>2. FlattenSeq(v)[Width * (c - 1) + r] = v[c][r]
    BY <1>0, <1>4, <2>1, FlattenAt
  <2> QED
    BY <1>2, <1>3, <2>2, Zenon
<1> QED
  BY <1>5, <1>6, <1>7

\* A chunk that goes on at byte i of D keeps what each byte of D keeps.
LEMMA FeedThrough ==
  ASSUME NEW G, NEW D, NEW n \in Nat,
         \A i \in 0..(n - 1) : \A q : <<i, q>> \in G => <<i + 1, Consume(q, D[i + 1])>> \in G,
         NEW p, NEW i \in 0..n, <<i, Taking(p)>> \in G,
         NEW s, NEW m \in Nat, DOMAIN s = 1..m, i + m <= n, \A j \in 1..m : s[j] = D[i + j]
  PROVE  <<i + m, Feed(p, s)>> \in G
<1>1. PICK f : FeedPath(f, p, s, m)
  BY FeedSteps
<1>2. /\ f[0] = Taking(p) /\ f[m] = Feed(p, s)
      /\ \A k \in 1..m : f[k] = Consume(f[k - 1], s[k])
  BY <1>1, Zenon DEF FeedPath
<1> DEFINE K == {k \in Nat : k <= m => <<i + k, f[k]>> \in G}
<1>3. 0 \in K
  <2>1. i + 0 = i
    OBVIOUS
  <2> QED
    BY <1>2, <2>1
<1>4. ASSUME NEW j \in Nat, j \in K
      PROVE  j + 1 \in K
  <2>1. CASE j + 1 <= m
    <3>1. PICK k \in 1..m : k = j + 1 /\ k - 1 = j
      BY <2>1
    <3>2. PICK u : u = f[j]
      OBVIOUS
    <3>3. PICK l \in 0..(n - 1) : l = i + j /\ l + 1 = i + k
      BY <3>1
    <3>4. <<l, u>> \in G
      BY <1>4, <2>1, <3>2, <3>3
    <3>5. <<l + 1, Consume(u, D[l + 1])>> \in G
      BY <3>4
    <3>6. f[k] = Consume(u, s[k]) /\ s[k] = D[l + 1]
      BY <1>2, <3>1, <3>2, <3>3, Zenon
    <3>7. <<i + k, f[k]>> \in G
      BY <3>3, <3>5, <3>6, Zenon
    <3> QED
      BY <3>1, <3>7
  <2>2. CASE ~(j + 1 <= m)
    BY <2>2
  <2> QED
    BY <2>1, <2>2
<1> HIDE DEF K
<1>5. Nat \subseteq K
  BY <1>3, <1>4, Counting
<1>6. m \in K
  BY <1>5
<1>7. m <= m
  OBVIOUS
<1> QED
  BY <1>2, <1>6, <1>7, Zenon DEF K

\* A sequence is given by its elements.
LEMMA SeqIs ==
  ASSUME NEW T, NEW a \in Seq(T), NEW b \in Seq(T), Len(a) = Len(b),
         \A k \in 1..Len(a) : a[k] = b[k]
  PROVE  a = b
OBVIOUS

\* A sample that a receiver may send.
Fits(v, ten) == v \in Nat /\ v < Limit(ten) /\ v # EndMarker /\ v < Power[Width]

\* The parser in the data, before a transmission, and after c samples and r digits of
\* the sweep s.
Receiving(q, ten) ==
  q \in Parsers /\ q.bad = FALSE /\ q.in_message = FALSE /\ q.in_data = TRUE /\ q.ten = ten
Idle(q, ten) == Receiving(q, ten) /\ q.hexbuf = <<>> /\ q.sweep = <<>>
WordAt(h, v, r) == Len(h) = r /\ \A k \in 1..r : h[k] = Encode(v)[k]
SamplesAt(w, s, ten, c) == Len(w) = c /\ \A k \in 1..c : w[k] = To8(s[k], ten)
Place(q, s, ten, c, r) ==
  /\ Receiving(q, ten) /\ c \in 0..(NChannels - 1) /\ r \in 0..(Width - 1)
  /\ WordAt(q.hexbuf, s[c + 1], r) /\ SamplesAt(q.sweep, s, ten, c)

\* One more digit of a sample, and one more sample of a sweep.
LEMMA WordNext ==
  ASSUME NEW v \in Nat, NEW r \in 0..(Width - 1), NEW h \in Seq(Digits), WordAt(h, v, r)
  PROVE  /\ Encode(v)[r + 1] \in Digits
         /\ WordAt(Append(h, Encode(v)[r + 1]), v, r + 1)
         /\ r + 1 = Width => Append(h, Encode(v)[r + 1]) = Encode(v)
<1>0. Width \in Nat
  BY WireAssumption
<1>1. PICK e \in Seq(Digits) : e = Encode(v) /\ Len(e) = Width
  BY EncodeType
<1>2. r + 1 \in 1..Len(e)
  BY <1>0, <1>1
<1>3. PICK x \in Digits : x = e[r + 1]
  BY <1>2
<1>4. Len(h) = r /\ \A k \in 1..r : h[k] = e[k]
  BY <1>1, Zenon DEF WordAt
<1>5. PICK a \in Seq(Digits) : a = Append(h, x)
  <2>1. \A T : \A b \in Seq(T), y \in T : Append(b, y) \in Seq(T)
    OBVIOUS
  <2> QED
    BY <1>3, <2>1, Zenon
<1>6. Len(a) = r + 1 /\ \A k \in 1..(r + 1) : a[k] = e[k]
  BY <1>3, <1>4, <1>5
<1>7. r + 1 = Width => a = e
  <2> SUFFICES ASSUME r + 1 = Width PROVE a = e
    OBVIOUS
  <2>1. Len(a) = Len(e) /\ \A k \in 1..Len(a) : a[k] = e[k]
    BY <1>1, <1>6
  <2> QED
    BY <2>1, SeqIs
<1> QED
  BY <1>1, <1>3, <1>5, <1>6, <1>7, Zenon DEF WordAt

\* One more sample of the sweep in the parser.
LEMMA SamplesNext ==
  ASSUME NEW s \in [1..NChannels -> Nat], NEW ten \in BOOLEAN, NEW c \in 0..(NChannels - 1),
         NEW w \in Seq(Lows), SamplesAt(w, s, ten, c),
         NEW v \in {To8(s[c + 1], ten)}
  PROVE  /\ SamplesAt(Append(w, v), s, ten, c + 1)
         /\ Len(Append(w, v)) = c + 1
         /\ c + 1 = NChannels => Append(w, v) = LowerSweep(s, ten)
<1>0. NChannels \in Nat
  BY WireAssumption
<1>1. Len(w) = c /\ \A k \in 1..c : w[k] = To8(s[k], ten)
  BY DEF SamplesAt
<1>2. PICK a : a = Append(w, v)
  OBVIOUS
<1>3. a \in Seq(Lows \cup {v}) /\ Len(a) = c + 1 /\ a[c + 1] = v /\ \A k \in 1..c : a[k] = w[k]
  <2>1. w \in Seq(Lows \cup {v})
    OBVIOUS
  <2> QED
    BY <1>1, <1>2, <2>1
<1>4. \A k \in 1..(c + 1) : a[k] = To8(s[k], ten)
  <2>1. \A k \in 1..(c + 1) : k \in 1..c \/ k = c + 1
    OBVIOUS
  <2> QED
    BY <1>1, <1>3, <2>1, Zenon
<1>5. c + 1 = NChannels => a = LowerSweep(s, ten)
  <2> SUFFICES ASSUME c + 1 = NChannels PROVE a = LowerSweep(s, ten)
    OBVIOUS
  <2>1. DOMAIN a = 1..NChannels /\ a = [k \in DOMAIN a |-> a[k]]
    BY <1>3
  <2>2. \A k \in 1..NChannels : a[k] = To8(s[k], ten)
    BY <1>4
  <2> QED
    BY <2>1, <2>2, Zenon DEF LowerSweep
<1> QED
  BY <1>2, <1>3, <1>4, <1>5, Zenon DEF SamplesAt

\* l follows r, x is digit l of the sample v, and q is the parser p after the byte x.
Follows(l, r) == l = r + 1
DigitIs(x, v, l) == x = Encode(v)[l]
Eaten(q, p, x) == q = Consume(p, x)

\* The parser q is the parser p after digit l of sample d of a sweep.
Advanced(p, q, s, ten, c, d, l) ==
  /\ l < Width => Place(q, s, ten, c, l) /\ q.sweeps = p.sweeps
  /\ l = Width /\ d < NChannels => Place(q, s, ten, d, 0) /\ q.sweeps = p.sweeps
  /\ l = Width /\ d = NChannels =>
       Idle(q, ten) /\ q.sweeps = Append(p.sweeps, LowerSweep(s, ten))

\* The next digit of a sweep.
LEMMA PlaceNext ==
  ASSUME NEW s \in [1..NChannels -> Nat], NEW ten \in BOOLEAN, NEW c, NEW r, NEW p,
         Place(p, s, ten, c, r), NEW d, NEW l, Follows(d, c), Follows(l, r), Fits(s[d], ten),
         NEW x, DigitIs(x, s[d], l), NEW q, Eaten(q, p, x)
  PROVE  Advanced(p, q, s, ten, c, d, l)
<1>0. Width \in Nat /\ NChannels \in Nat
  BY WireAssumption
<1>x. x = Encode(s[c + 1])[r + 1] /\ q = Consume(p, x) /\ d = c + 1 /\ l = r + 1
  BY DEF Follows, DigitIs, Eaten
<1>1. /\ p \in Parsers /\ p.bad = FALSE /\ p.in_message = FALSE /\ p.in_data = TRUE /\ p.ten = ten
      /\ c \in 0..(NChannels - 1) /\ r \in 0..(Width - 1)
      /\ WordAt(p.hexbuf, s[c + 1], r) /\ SamplesAt(p.sweep, s, ten, c)
  BY Zenon DEF Place, Receiving
<1>2. PICK v \in Nat : v = s[c + 1] /\ v < Limit(ten) /\ v # EndMarker /\ v < Power[Width]
  BY <1>x, Zenon DEF Fits
<1>3. p.hexbuf \in Seq(Digits) /\ p.sweep \in Seq(Lows)
  BY <1>1, ParserTypes
<1>4. PICK h \in Seq(Digits), w \in Seq(Lows) : h = p.hexbuf /\ w = p.sweep
  BY <1>3
<1>5. /\ x \in Digits /\ WordAt(Append(h, x), v, r + 1)
      /\ r + 1 = Width => Append(h, x) = Encode(v)
  <2>1. /\ Encode(v)[r + 1] \in Digits /\ WordAt(Append(h, Encode(v)[r + 1]), v, r + 1)
        /\ r + 1 = Width => Append(h, Encode(v)[r + 1]) = Encode(v)
    <3>1. WordAt(h, v, r)
      BY <1>1, <1>2, <1>4, Zenon
    <3> QED
      BY <1>1, <3>1, WordNext
  <2> QED
    BY <1>x, <1>2, <2>1, Zenon
<1>6. x \in Bytes /\ x # MESSAGE_START
  BY <1>5, DigitMarks DEF Bytes
<1>7. q = ConsumeHex(p, x)
  BY <1>x, <1>1, <1>5, <1>6, ConsumeData
<1>8. /\ q \in Parsers /\ q.ten = p.ten
      /\ (q.bad /\ ~HexFits(p, x)) \/ HexGrows(p, x, q) \/ HexMarker(p, x, q) \/ HexSample(p, x, q)
            \/ HexSweep(p, x, q)
  BY <1>1, <1>5, <1>7, HexIs
<1>9. Word(p, x) = Append(h, x) /\ Len(Word(p, x)) = r + 1
  <2>1. Word(p, x) = Append(h, x)
    BY <1>4, Zenon DEF Word
  <2>2. Len(Append(h, x)) = r + 1
    BY <1>5 DEF WordAt
  <2> QED
    BY <2>1, <2>2, Zenon
<1>10. ASSUME r + 1 < Width
       PROVE  Place(q, s, ten, c, r + 1) /\ q.sweeps = p.sweeps
  <2>1. Len(Word(p, x)) < Width
    BY <1>9, <1>10, Zenon
  <2>2. HexGrows(p, x, q)
    BY <1>8, <2>1, Zenon DEF HexFits, HexMarker, HexSample, HexSweep
  <2>3. DataOf(p, q, p.in_data, Word(p, x), p.sweep, p.sweeps, p.bad)
    BY <2>2, Zenon DEF HexGrows
  <2>4. Receiving(q, ten)
    BY <1>1, <1>8, <2>3, Zenon DEF Receiving, DataOf
  <2>5. WordAt(q.hexbuf, s[c + 1], r + 1) /\ SamplesAt(q.sweep, s, ten, c) /\ q.sweeps = p.sweeps
    BY <1>1, <1>2, <1>5, <1>9, <2>3, Zenon DEF DataOf
  <2>6. r + 1 \in 0..(Width - 1)
    BY <1>0, <1>1, <1>10
  <2> QED
    BY <1>1, <2>4, <2>5, <2>6, Zenon DEF Place
<1>11. ASSUME r + 1 = Width
       PROVE  /\ ~(Len(Word(p, x)) < Width) /\ Value(Word(p, x)) = v /\ HexFits(p, x)
              /\ Sweep(p, x) = Append(w, To8(v, ten))
              /\ ~(q.bad /\ ~HexFits(p, x)) /\ ~HexGrows(p, x, q) /\ ~HexMarker(p, x, q)
              /\ ~(Value(Word(p, x)) >= Limit(p.ten))
  <2>1. ~(Len(Word(p, x)) < Width)
    BY <1>0, <1>9, <1>11
  <2>2. Value(Word(p, x)) = v
    <3>1. Value(Encode(v)) = v
      BY <1>2, EncodeValue
    <3> QED
      BY <1>5, <1>9, <1>11, <3>1, Zenon
  <2>3. ~(v >= Limit(ten))
    <3>1. Limit(ten) \in Nat
      BY WireAssumption DEF Limit
    <3> QED
      BY <1>2, <3>1
  <2>4. ~(Value(Word(p, x)) >= Limit(p.ten))
    BY <1>1, <2>2, <2>3, Zenon
  <2>5. HexFits(p, x)
    BY <2>4, Zenon DEF HexFits
  <2>6. Sweep(p, x) = Append(w, To8(v, ten))
    BY <1>1, <1>4, <2>2, Zenon DEF Sweep
  <2>7. ~HexGrows(p, x, q) /\ ~HexMarker(p, x, q)
    BY <1>2, <2>1, <2>2, Zenon DEF HexGrows, HexMarker
  <2> QED
    BY <2>1, <2>2, <2>4, <2>5, <2>6, <2>7, Zenon
<1>12. PICK y : y = To8(v, ten)
  OBVIOUS
<1>13. /\ SamplesAt(Append(w, y), s, ten, c + 1) /\ Len(Append(w, y)) = c + 1
       /\ c + 1 = NChannels => Append(w, y) = LowerSweep(s, ten)
  <2>1. SamplesAt(w, s, ten, c) /\ y \in {To8(s[c + 1], ten)}
    BY <1>1, <1>2, <1>4, <1>12, Zenon
  <2> QED
    BY <1>1, <2>1, SamplesNext
<1>14. ASSUME r + 1 = Width, c + 1 < NChannels
       PROVE  Place(q, s, ten, c + 1, 0) /\ q.sweeps = p.sweeps
  <2>1. Len(Sweep(p, x)) # NChannels
    <3>1. Len(Sweep(p, x)) = c + 1
      BY <1>11, <1>12, <1>13, <1>14, Zenon
    <3> QED
      BY <1>0, <1>14, <3>1
  <2>2. HexSample(p, x, q)
    BY <1>8, <1>11, <1>14, <2>1, Zenon DEF HexSweep
  <2>3. DataOf(p, q, p.in_data, <<>>, Sweep(p, x), p.sweeps, p.bad)
    BY <2>2, Zenon DEF HexSample
  <2>4. Receiving(q, ten)
    BY <1>1, <1>8, <2>3, Zenon DEF Receiving, DataOf
  <2>5. SamplesAt(q.sweep, s, ten, c + 1) /\ q.sweeps = p.sweeps /\ q.hexbuf = <<>>
    BY <1>11, <1>12, <1>13, <1>14, <2>3, Zenon DEF DataOf
  <2>6. WordAt(q.hexbuf, s[(c + 1) + 1], 0)
    BY <2>5 DEF WordAt
  <2>7. c + 1 \in 0..(NChannels - 1) /\ 0 \in 0..(Width - 1)
    BY <1>0, <1>1, <1>14
  <2> QED
    BY <2>4, <2>5, <2>6, <2>7, Zenon DEF Place
<1>15. ASSUME r + 1 = Width, c + 1 = NChannels
       PROVE  Idle(q, ten) /\ q.sweeps = Append(p.sweeps, LowerSweep(s, ten))
  <2>1. Sweep(p, x) = LowerSweep(s, ten) /\ Len(Sweep(p, x)) = NChannels
    BY <1>11, <1>12, <1>13, <1>15, Zenon
  <2>2. HexSweep(p, x, q)
    BY <1>8, <1>11, <1>15, <2>1, Zenon DEF HexSample
  <2>3. DataOf(p, q, p.in_data, <<>>, <<>>, Append(p.sweeps, Sweep(p, x)), p.bad)
    BY <2>2, Zenon DEF HexSweep
  <2> QED
    BY <1>1, <1>8, <2>1, <2>3, Zenon DEF Idle, Receiving, DataOf
<1> QED
  BY <1>x, <1>10, <1>14, <1>15 DEF Advanced

\* A multiple and the next one.
LEMMA NextMultiple ==
  \A x \in Nat, y \in Nat, z \in Nat :
    y + 1 <= z => x * y \in Nat /\ x * z \in Nat /\ x * (y + 1) = x * y + x /\ x * y + x <= x * z
<1> TAKE x \in Nat, y \in Nat, z \in Nat
<1> HAVE y + 1 <= z
<1>1. PICK d \in Nat : z = y + 1 + d
  <2>1. z - (y + 1) \in Nat /\ z = y + 1 + (z - (y + 1))
    OBVIOUS
  <2> QED
    BY <2>1
<1>2. x * z = x * y + x + x * d /\ x * d \in Nat /\ x * y \in Nat
  BY <1>1
<1> QED
  BY <1>2

\* The parser after i bytes of the transmission of s, of which it has yielded nothing
\* before the last one.
Midst(q, s, ten, i) ==
  /\ q.sweeps = <<>>
  /\ \E c \in 0..(NChannels - 1), r \in 0..(Width - 1) : i = Width * c + r /\ Place(q, s, ten, c, r)
Passed(q, s, ten, i) ==
  \/ i # Width * NChannels /\ Midst(q, s, ten, i)
  \/ i = Width * NChannels /\ Idle(q, ten) /\ q.sweeps = <<LowerSweep(s, ten)>>

\* One more byte of it.
LEMMA PassedNext ==
  ASSUME NEW s \in [1..NChannels -> Nat], NEW ten \in BOOLEAN,
         \A c \in 1..NChannels : Fits(s[c], ten),
         NEW i \in 0..(Width * NChannels - 1), NEW p, Passed(p, s, ten, i)
  PROVE  Passed(Consume(p, Wire(s)[i + 1]), s, ten, i + 1)
<1>0. Width \in Nat /\ NChannels \in Nat
  BY WireAssumption
<1>1. PICK n \in Nat : n = Width * NChannels
  <2>1. \A x \in Nat, y \in Nat : x * y \in Nat
    OBVIOUS
  <2> QED
    BY <1>0, <2>1, Zenon
<1>2. i # n /\ i \in Nat
  BY <1>1
<1>3. Midst(p, s, ten, i)
  BY <1>1, <1>2, Zenon DEF Passed
<1>4. PICK c \in 0..(NChannels - 1), r \in 0..(Width - 1) :
        i = Width * c + r /\ Place(p, s, ten, c, r)
  BY <1>3, Zenon DEF Midst
<1>5. PICK e \in 1..NChannels, t \in 1..Width : e = c + 1 /\ t = r + 1 /\ e - 1 = c
  BY <1>0
<1>6. PICK m \in Nat : m = Width * c /\ m + Width <= n /\ Width * (c + 1) = m + Width
  <2>1. c \in Nat /\ c + 1 <= NChannels
    BY <1>0
  <2>2. Width * c \in Nat /\ Width * c + Width <= Width * NChannels
        /\ Width * (c + 1) = Width * c + Width
    BY <1>0, <2>1, NextMultiple, Zenon
  <2> QED
    BY <1>1, <2>2, Zenon
<1>7. PICK x : x = Wire(s)[i + 1]
  OBVIOUS
<1>8. x = Encode(s[c + 1])[r + 1]
  <2>1. i + 1 = Width * (e - 1) + t
    BY <1>4, <1>5, <1>6
  <2>2. Wire(s)[Width * (e - 1) + t] = Encode(s[e])[t]
    BY WireIs
  <2> QED
    BY <1>5, <1>7, <2>1, <2>2, Zenon
<1>9. PICK q : q = Consume(p, x)
  OBVIOUS
<1>10. /\ t < Width => Place(q, s, ten, c, t) /\ q.sweeps = p.sweeps
       /\ t = Width /\ e < NChannels => Place(q, s, ten, e, 0) /\ q.sweeps = p.sweeps
       /\ t = Width /\ e = NChannels =>
              Idle(q, ten) /\ q.sweeps = Append(p.sweeps, LowerSweep(s, ten))
  <2>1. Fits(s[e], ten)
    BY <1>5
  <2>2. Follows(e, c) /\ Follows(t, r) /\ DigitIs(x, s[e], t) /\ Eaten(q, p, x)
    BY <1>5, <1>8, <1>9, Zenon DEF Follows, DigitIs, Eaten
  <2>3. Advanced(p, q, s, ten, c, e, t)
    BY <1>4, <2>1, <2>2, PlaceNext
  <2> QED
    BY <2>3, Zenon DEF Advanced
<1>11. p.sweeps = <<>>
  BY <1>3, Zenon DEF Midst
<1>12. ASSUME r + 1 < Width
       PROVE  Passed(q, s, ten, i + 1)
  <2>1. i + 1 # n
    <3>1. i = m + r
      BY <1>4, <1>6, Zenon
    <3> QED
      BY <1>0, <1>6, <1>12, <3>1
  <2>2. r + 1 \in 0..(Width - 1) /\ i + 1 = Width * c + (r + 1)
    BY <1>0, <1>4, <1>6, <1>12
  <2>3. Midst(q, s, ten, i + 1)
    BY <1>5, <1>10, <1>11, <1>12, <2>2, Zenon DEF Midst
  <2> QED
    BY <1>1, <2>1, <2>3, Zenon DEF Passed
<1>13. ASSUME r + 1 = Width, c + 1 < NChannels
       PROVE  Passed(q, s, ten, i + 1)
  <2>1. c + 1 \in 0..(NChannels - 1) /\ 0 \in 0..(Width - 1) /\ i + 1 = Width * (c + 1) + 0
    BY <1>0, <1>4, <1>6, <1>13
  <2>2. i + 1 # n
    <3>1. c + 1 \in Nat /\ (c + 1) + 1 <= NChannels
      BY <1>0, <1>13
    <3>2. Width * (c + 1) + Width <= Width * NChannels /\ Width * (c + 1) \in Nat
      BY <1>0, <3>1, NextMultiple, Zenon
    <3>3. PICK k \in Nat : k = Width * (c + 1)
      BY <3>2
    <3>4. k + Width <= n /\ i + 1 = k /\ Width > 0
      BY <1>1, <2>1, <3>2, <3>3, WireAssumption
    <3> QED
      BY <1>0, <3>4
  <2>3. Midst(q, s, ten, i + 1)
    BY <1>5, <1>10, <1>11, <1>13, <2>1, Zenon DEF Midst
  <2> QED
    BY <1>1, <2>2, <2>3, Zenon DEF Passed
<1>14. ASSUME r + 1 = Width, c + 1 = NChannels
       PROVE  Passed(q, s, ten, i + 1)
  <2>1. i + 1 = Width * NChannels
    BY <1>4, <1>6, <1>14
  <2>2. \A y : Append(<<>>, y) = <<y>>
    OBVIOUS
  <2>3. Idle(q, ten) /\ q.sweeps = <<LowerSweep(s, ten)>>
    BY <1>5, <1>10, <1>11, <1>14, <2>2, Zenon
  <2> QED
    BY <2>1, <2>3, Zenon DEF Passed
<1>15. r + 1 < Width \/ r + 1 = Width
  BY <1>0
<1>16. c + 1 < NChannels \/ c + 1 = NChannels
  BY <1>0
<1>17. Passed(q, s, ten, i + 1)
  BY <1>12, <1>13, <1>14, <1>15, <1>16
<1> QED
  BY <1>7, <1>9, <1>17, Zenon

\* What the receiver sends when it is started.
Greeting == Line("Started") \o <<DATA_START>>

\* The greeting is a message and the byte that starts the data.
LEMMA GreetingIs ==
  /\ Greeting \in Seq(Bytes) /\ Len(Greeting) = 4
  /\ Greeting[1] = MESSAGE_START /\ Greeting[2] \notin {MESSAGE_END, MESSAGE_START}
  /\ Greeting[3] = MESSAGE_END /\ Greeting[4] = DATA_START
<1>1. PICK l \in Seq(Bytes) : l = Line("Started")
  BY Replies
<1>2. Len(l) = 3 /\ l[1] = MESSAGE_START /\ l[2] = "Started" /\ l[3] = MESSAGE_END
  BY <1>1 DEF Line
<1>3. DATA_START \in Bytes
  BY DEF Bytes
<1>4. ASSUME NEW T, NEW a \in Seq(T), NEW y \in T, NEW r, r = a \o <<y>>
      PROVE  /\ r \in Seq(T) /\ Len(r) = Len(a) + 1
             /\ r[Len(a) + 1] = y /\ \A k \in 1..Len(a) : r[k] = a[k]
  BY <1>4
<1>5. PICK g : g = l \o <<DATA_START>>
  OBVIOUS
<1>6. g \in Seq(Bytes) /\ Len(g) = Len(l) + 1 /\ g[Len(l) + 1] = DATA_START
      /\ \A k \in 1..Len(l) : g[k] = l[k]
  BY <1>3, <1>4, <1>5
<1>7. /\ g \in Seq(Bytes) /\ Len(g) = 4 /\ g[4] = DATA_START /\ g[1] = MESSAGE_START
      /\ g[2] = "Started" /\ g[3] = MESSAGE_END
  BY <1>2, <1>6
<1>8. "Started" \notin {MESSAGE_END, MESSAGE_START}
  BY DEF MESSAGE_START, MESSAGE_END
<1> QED
  BY <1>1, <1>5, <1>7, <1>8, Zenon DEF Greeting

\* The parser after i bytes of it.
Opening(q, ten, i) ==
  /\ q \in Parsers /\ q.bad = FALSE /\ q.ten = ten /\ q.sweeps = <<>>
  /\ \/ i \in {0, 3} /\ q.in_message = FALSE /\ q.in_data = FALSE
     \/ i \in {1, 2} /\ q.in_message = TRUE /\ q.in_data = FALSE
     \/ i = 4 /\ Idle(q, ten)

\* One more byte of the greeting.
LEMMA OpeningNext ==
  ASSUME NEW ten, NEW i \in 0..3, NEW p, Opening(p, ten, i)
  PROVE  Opening(Consume(p, Greeting[i + 1]), ten, i + 1)
<1>1. /\ p \in Parsers /\ p.bad = FALSE /\ p.ten = ten /\ p.sweeps = <<>>
      /\ p.in_data = FALSE
      /\ i \in {0, 3} => p.in_message = FALSE
      /\ i \in {1, 2} => p.in_message = TRUE
  BY DEF Opening
<1>2. PICK x, q : x = Greeting[i + 1] /\ q = Consume(p, x)
  OBVIOUS
<1>3. x \in Bytes
  <2>1. i + 1 \in 1..4
    OBVIOUS
  <2>2. PICK g \in Seq(Bytes), j \in 1..4 : g = Greeting /\ Len(g) = 4 /\ j = i + 1
    BY <2>1, GreetingIs
  <2>3. g[j] \in Bytes
    <3>1. \A T : \A a \in Seq(T) : \A l \in 1..Len(a) : a[l] \in T
      OBVIOUS
    <3> QED
      BY <2>2, <3>1, Zenon
  <2> QED
    BY <1>2, <2>2, <2>3, Zenon
<1>4. q \in Parsers /\ q.ten = ten
  <2>1. PICK b, acc \in Seq(Seq(Lows)) : b = <<>> /\ acc = <<>>
    BY EmptyItems, Zenon
  <2>w. p \in Parsers /\ x \in Bytes /\ q = Consume(p, x)
    BY <1>1, <1>2, <1>3, Zenon
  <2>2. /\ q \in Parsers /\ q.ten = p.ten
        /\ p.bad => q.bad
        /\ Linked(b, p, acc) /\ ~q.bad => Linked(Append(b, x), q, acc)
    BY <2>1, <2>w, ConsumeTracks, Zenon
  <2> QED
    BY <1>1, <2>2
<1>5. CASE i = 0
  <2>1. x = MESSAGE_START
    BY <1>2, <1>5, GreetingIs
  <2>2. q = BeginMessage(p, <<>>)
    BY <1>1, <1>2, <1>3, <1>5, <2>1, ConsumeData
  <2>3. q.in_message = TRUE /\ q.in_data = FALSE /\ q.sweeps = <<>> /\ q.bad = FALSE
    <3> DEFINE M == Seq(Bytes)
               T == Seq(Seq(Bytes))
               H == Seq(Digits)
               S == Seq(Lows)
               R == Seq(Seq(Lows))
    <3>1. <<>> \in M /\ <<>> \in T
      BY EmptyItems
    <3>2. p \in ParserOf(M, H, S, R, T)
      BY <1>1, Zenon DEF Parsers
    <3> HIDE DEF M, T, H, S, R
    <3>3. MessageOf(p, q, TRUE, M, T)
      BY <2>2, <3>1, <3>2, MessageFields
    <3> QED
      BY <1>1, <3>3, Zenon DEF MessageOf
  <2>4. i + 1 \in {1, 2}
    BY <1>5
  <2> QED
    BY <1>2, <1>4, <2>3, <2>4, Zenon DEF Opening
<1>6. CASE i \in {1, 2}
  <2>1. q = ConsumeMessage(p, x)
    BY <1>1, <1>2, <1>6, Zenon DEF Consume
  <2>2. MessageOf(p, q, x # MESSAGE_END, Seq(Bytes), Seq(Seq(Bytes)))
    BY <1>1, <1>3, <1>6, <2>1, ConsumeMessageIs
  <2>3. q.in_data = FALSE /\ q.sweeps = <<>> /\ q.bad = FALSE /\ q.in_message = (x # MESSAGE_END)
    BY <1>1, <2>2, Zenon DEF MessageOf
  <2>4. (i = 1 => x # MESSAGE_END) /\ (i = 2 => x = MESSAGE_END)
    BY <1>2, GreetingIs
  <2>5. CASE i = 1
    <3>1. q.in_message = TRUE
      BY <2>3, <2>4, <2>5, Zenon
    <3>2. i + 1 \in {1, 2}
      BY <2>5
    <3> QED
      BY <1>2, <1>4, <2>3, <3>1, <3>2, Zenon DEF Opening
  <2>6. CASE i = 2
    <3>1. q.in_message = FALSE
      BY <2>3, <2>4, <2>6, Zenon
    <3>2. i + 1 \in {0, 3}
      BY <2>6
    <3> QED
      BY <1>2, <1>4, <2>3, <3>1, <3>2, Zenon DEF Opening
  <2> QED
    BY <1>6, <2>5, <2>6
<1>7. CASE i = 3
  <2>1. x = DATA_START
    BY <1>2, <1>7, GreetingIs
  <2>2. x # MESSAGE_START
    BY <2>1 DEF DATA_START, MESSAGE_START
  <2>3. q = BeginData(p, <<>>, <<>>)
    BY <1>1, <1>2, <1>3, <1>7, <2>1, <2>2, ConsumeData
  <2>4. DataOf(p, q, TRUE, <<>>, <<>>, p.sweeps, p.bad)
    <3>1. <<>> \in Seq(Digits) /\ <<>> \in Seq(Lows) /\ p.sweeps \in Seq(Seq(Lows))
      BY <1>1, EmptyItems, ParserTypes, Zenon
    <3> QED
      BY <1>1, <2>3, <3>1, ParserData
  <2>5. q.in_data = TRUE /\ q.in_message = FALSE /\ q.hexbuf = <<>> /\ q.sweep = <<>>
        /\ q.sweeps = <<>> /\ q.bad = FALSE
    BY <1>1, <1>7, <2>4 DEF DataOf
  <2>6. Idle(q, ten) /\ i + 1 = 4
    BY <1>4, <1>7, <2>5 DEF Idle, Receiving
  <2> QED
    BY <1>2, <1>4, <2>5, <2>6, Zenon DEF Opening
<1> QED
  BY <1>5, <1>6, <1>7

\* When its items were taken, the parser is where it was.
LEMMA TakingPlace ==
  ASSUME NEW p \in Parsers, NEW s, NEW ten, NEW i
  PROVE  /\ Midst(p, s, ten, i) => Midst(Taking(p), s, ten, i)
         /\ Opening(p, ten, i) => Opening(Taking(p), ten, i)
         /\ Idle(p, ten) => Idle(Taking(p), ten) /\ Taking(p).sweeps = <<>>
<1>1. PICK q \in Parsers : q = Taking(p)
  BY TakingType
<1>2. /\ q.ten = p.ten /\ q.bad = p.bad /\ q.sweeps = <<>> /\ q.in_message = p.in_message
      /\ q.in_data = p.in_data /\ q.hexbuf = p.hexbuf /\ q.sweep = p.sweep
  BY <1>1, TakingType
<1>3. Receiving(p, ten) => Receiving(q, ten)
  BY <1>2, Zenon DEF Receiving
<1>4. \A c, r : Place(p, s, ten, c, r) => Place(q, s, ten, c, r)
  BY <1>2, <1>3, Zenon DEF Place
<1>5. Midst(p, s, ten, i) => Midst(q, s, ten, i)
  BY <1>2, <1>4, Zenon DEF Midst
<1>6. Idle(p, ten) => Idle(q, ten)
  BY <1>2, <1>3, Zenon DEF Idle
<1>7. Opening(p, ten, i) => Opening(q, ten, i)
  BY <1>2, <1>6, Zenon DEF Opening
<1> QED
  BY <1>1, <1>2, <1>5, <1>6, <1>7, Zenon

\* Such a parser is of the type.
LEMMA PassedType ==
  ASSUME NEW q, NEW s, NEW ten, NEW i, Passed(q, s, ten, i)
  PROVE  q \in Parsers /\ q.bad = FALSE /\ q.ten = ten
BY Zenon DEF Passed, Midst, Place, Idle, Receiving

\* The bytes o are those of D after the first i.
Rest(o, D, i) == Len(o) = Len(D) - i /\ \A k \in 1..Len(o) : o[k] = D[i + k]

\* Some of them are read.
LEMMA RestTaken ==
  ASSUME NEW o \in Seq(Bytes), NEW D \in Seq(Bytes), NEW i \in Nat, Rest(o, D, i),
         NEW k \in 1..Len(o)
  PROVE  /\ DOMAIN SubSeq(o, 1, k) = 1..k /\ \A j \in 1..k : SubSeq(o, 1, k)[j] = D[i + j]
         /\ Rest(SubSeq(o, k + 1, Len(o)), D, i + k) /\ i + k <= Len(D)
         /\ SubSeq(o, k + 1, Len(o)) \in Seq(Bytes)
<1>1. PICK n \in Nat, d \in Nat : n = Len(o) /\ d = Len(D)
  OBVIOUS
<1>2. n = d - i /\ \A j \in 1..n : o[j] = D[i + j]
  BY <1>1, Zenon DEF Rest
<1>3. PICK a \in Seq(Bytes) : a = SubSeq(o, 1, k) /\ Len(a) = k /\ \A j \in 1..k : a[j] = o[j]
  <2>1. 1 \in Int /\ k \in Int /\ \A j \in 1..k : o[j] \in Bytes
    OBVIOUS
  <2>2. PICK m \in Int : m = 1 /\ \A j \in m..k : o[j] \in Bytes
    BY <2>1
  <2>3. /\ SubSeq(o, m, k) \in Seq(Bytes)
        /\ Len(SubSeq(o, m, k)) = IF m <= k THEN k - m + 1 ELSE 0
        /\ \A j \in 1..(k - m + 1) : SubSeq(o, m, k)[j] = o[m + j - 1]
    BY <2>1, <2>2, SubSeqProperties
  <2>w. PICK w : w = SubSeq(o, m, k)
    OBVIOUS
  <2>4. w \in Seq(Bytes) /\ Len(w) = k /\ \A j \in 1..k : w[j] = o[j]
    BY <2>2, <2>3, <2>w
  <2> QED
    BY <2>2, <2>w, <2>4, Zenon
<1>4. PICK b \in Seq(Bytes) :
        b = SubSeq(o, k + 1, n) /\ Len(b) = n - k /\ \A j \in 1..(n - k) : b[j] = o[k + j]
  <2>1. k + 1 \in Int /\ n \in Int /\ \A j \in (k + 1)..n : o[j] \in Bytes
    BY <1>1
  <2>2. PICK m \in Int : m = k + 1 /\ \A j \in m..n : o[j] \in Bytes
    BY <2>1
  <2>3. /\ SubSeq(o, m, n) \in Seq(Bytes)
        /\ Len(SubSeq(o, m, n)) = IF m <= n THEN n - m + 1 ELSE 0
        /\ \A j \in 1..(n - m + 1) : SubSeq(o, m, n)[j] = o[m + j - 1]
    BY <1>1, <2>2, SubSeqProperties
  <2>w. PICK w : w = SubSeq(o, m, n)
    OBVIOUS
  <2>n. m = k + 1 /\ n - m + 1 = n - k /\ (m <= n <=> k < n) /\ k <= n
    BY <1>1, <2>2
  <2>4. w \in Seq(Bytes) /\ Len(w) = n - k
    <3>1. (IF m <= n THEN n - m + 1 ELSE 0) = n - k
      BY <1>1, <2>n
    <3> QED
      BY <2>3, <2>w, <3>1, Zenon
  <2>5. ASSUME NEW j \in 1..(n - k) PROVE w[j] = o[k + j]
    <3>1. j \in 1..(n - m + 1) /\ m + j - 1 = k + j
      BY <1>1, <2>n
    <3>2. w[j] = o[m + j - 1]
      BY <2>3, <2>w, <3>1, Zenon
    <3> QED
      BY <3>1, <3>2, Zenon
  <2> QED
    BY <2>2, <2>w, <2>4, <2>5, Zenon
<1>5. \A j \in 1..k : a[j] = D[i + j]
  <2>1. \A j \in 1..k : j \in 1..n
    BY <1>1
  <2> QED
    BY <1>2, <1>3, <2>1, Zenon
<1>6. \A j \in 1..(n - k) : b[j] = D[(i + k) + j]
  <2>1. ASSUME NEW j \in 1..(n - k)
        PROVE  b[j] = D[(i + k) + j]
    <3>1. k + j \in 1..n /\ (i + k) + j = i + (k + j)
      BY <1>1
    <3>2. b[j] = o[k + j] /\ o[k + j] = D[i + (k + j)]
      BY <1>2, <1>4, <3>1, Zenon
    <3> QED
      BY <3>1, <3>2, Zenon
  <2> QED
    BY <2>1
<1>7. i + k <= d /\ n - k = d - (i + k)
  BY <1>1, <1>2
<1>8. Rest(b, D, i + k)
  BY <1>1, <1>4, <1>6, <1>7, Zenon DEF Rest
<1>9. DOMAIN a = 1..k
  BY <1>3
<1> QED
  BY <1>1, <1>3, <1>4, <1>5, <1>7, <1>8, <1>9, Zenon

\* A chunk of a transmission.
LEMMA FeedSweep ==
  ASSUME NEW s \in [1..NChannels -> Nat], NEW ten \in BOOLEAN,
         \A c \in 1..NChannels : Fits(s[c], ten),
         NEW i \in 0..(Width * NChannels - 1), NEW p \in Parsers, Midst(p, s, ten, i),
         NEW o \in Seq(Bytes), Rest(o, Wire(s), i), NEW k \in 1..Len(o)
  PROVE  /\ Passed(Feed(p, SubSeq(o, 1, k)), s, ten, i + k)
         /\ Rest(SubSeq(o, k + 1, Len(o)), Wire(s), i + k)
         /\ i + k <= Width * NChannels /\ i + k \in Nat
<1> DEFINE G == {z \in Nat \X Parsers : Passed(z[2], s, ten, z[1])}
<1>1. PICK D \in Seq(Bytes), n \in Nat : D = Wire(s) /\ n = Width * NChannels /\ Len(D) = n
  <2>1. Wire(s) \in Seq(Digits) /\ Len(Wire(s)) = Width * NChannels
    BY WireIs
  <2>2. Digits \subseteq Bytes
    BY DEF Bytes
  <2>3. Wire(s) \in Seq(Bytes) /\ Len(Wire(s)) \in Nat
    BY <2>1, <2>2
  <2> QED
    BY <2>1, <2>3, Zenon
<1>2. \A j, q : <<j, q>> \in G <=> j \in Nat /\ q \in Parsers /\ Passed(q, s, ten, j)
  OBVIOUS
<1> HIDE DEF G
<1>3. ASSUME NEW j \in 0..(n - 1), NEW q, <<j, q>> \in G
      PROVE  <<j + 1, Consume(q, D[j + 1])>> \in G
  <2>1. Passed(q, s, ten, j)
    BY <1>2, <1>3
  <2>2. Passed(Consume(q, Wire(s)[j + 1]), s, ten, j + 1)
    BY <1>1, <2>1, PassedNext
  <2>3. Consume(q, Wire(s)[j + 1]) \in Parsers
    BY <2>2, PassedType
  <2>4. j + 1 \in Nat
    BY <1>1
  <2> QED
    BY <1>1, <1>2, <2>2, <2>3, <2>4, Zenon
<1>4. i \in 0..n /\ i \in Nat /\ i # Width * NChannels
  BY <1>1
<1>5. <<i, Taking(p)>> \in G
  <2>1. Midst(Taking(p), s, ten, i) /\ Taking(p) \in Parsers
    BY TakingPlace, TakingType
  <2>2. Passed(Taking(p), s, ten, i)
    BY <1>4, <2>1, Zenon DEF Passed
  <2> QED
    BY <1>2, <1>4, <2>1, <2>2, Zenon
<1>6. /\ DOMAIN SubSeq(o, 1, k) = 1..k /\ \A j \in 1..k : SubSeq(o, 1, k)[j] = D[i + j]
      /\ Rest(SubSeq(o, k + 1, Len(o)), D, i + k) /\ i + k <= Len(D)
  <2>1. Rest(o, D, i)
    BY <1>1, Zenon
  <2> QED
    BY <1>4, <2>1, RestTaken
<1>7. k \in Nat /\ i + k <= n
  <2>1. k \in Nat
    OBVIOUS
  <2> QED
    BY <1>1, <1>6, <2>1, Zenon
<1>8. <<i + k, Feed(p, SubSeq(o, 1, k))>> \in G
  <2>1. \A j \in 0..(n - 1) : \A q : <<j, q>> \in G => <<j + 1, Consume(q, D[j + 1])>> \in G
    BY <1>3
  <2> QED
    BY <1>4, <1>5, <1>6, <1>7, <2>1, FeedThrough
<1> QED
  BY <1>1, <1>2, <1>6, <1>7, <1>8, Zenon

\* A chunk of the greeting.
LEMMA FeedGreeting ==
  ASSUME NEW ten, NEW i \in 0..3, NEW p \in Parsers, Opening(p, ten, i),
         NEW o \in Seq(Bytes), Rest(o, Greeting, i), NEW k \in 1..Len(o)
  PROVE  /\ Opening(Feed(p, SubSeq(o, 1, k)), ten, i + k)
         /\ Rest(SubSeq(o, k + 1, Len(o)), Greeting, i + k)
         /\ i + k \in 0..4
<1> DEFINE G == {z \in Nat \X Parsers : Opening(z[2], ten, z[1])}
<1>1. PICK D \in Seq(Bytes), n \in Nat : D = Greeting /\ n = 4 /\ Len(D) = n
  BY GreetingIs
<1>2. \A j, q : <<j, q>> \in G <=> j \in Nat /\ q \in Parsers /\ Opening(q, ten, j)
  OBVIOUS
<1> HIDE DEF G
<1>3. ASSUME NEW j \in 0..(n - 1), NEW q, <<j, q>> \in G
      PROVE  <<j + 1, Consume(q, D[j + 1])>> \in G
  <2>1. Opening(q, ten, j) /\ j \in 0..3
    BY <1>1, <1>2, <1>3
  <2>2. Opening(Consume(q, Greeting[j + 1]), ten, j + 1)
    BY <2>1, OpeningNext
  <2>3. Consume(q, Greeting[j + 1]) \in Parsers
    BY <2>2, Zenon DEF Opening
  <2>4. j + 1 \in Nat
    BY <2>1
  <2> QED
    BY <1>1, <1>2, <2>2, <2>3, <2>4, Zenon
<1>4. i \in 0..n /\ i \in Nat
  BY <1>1
<1>5. <<i, Taking(p)>> \in G
  BY <1>2, <1>4, TakingPlace, TakingType
<1>6. /\ DOMAIN SubSeq(o, 1, k) = 1..k /\ \A j \in 1..k : SubSeq(o, 1, k)[j] = D[i + j]
      /\ Rest(SubSeq(o, k + 1, Len(o)), D, i + k) /\ i + k <= Len(D)
  <2>1. Rest(o, D, i)
    BY <1>1, Zenon
  <2> QED
    BY <1>4, <2>1, RestTaken
<1>7. k \in Nat /\ i + k <= n /\ i + k \in 0..4
  <2>1. k \in Nat
    OBVIOUS
  <2>2. i + k <= n /\ n = 4
    BY <1>1, <1>6, Zenon
  <2> QED
    BY <1>4, <2>1, <2>2
<1>8. <<i + k, Feed(p, SubSeq(o, 1, k))>> \in G
  <2>1. \A j \in 0..(n - 1) : \A q : <<j, q>> \in G => <<j + 1, Consume(q, D[j + 1])>> \in G
    BY <1>3
  <2> QED
    BY <1>4, <1>5, <1>6, <1>7, <2>1, FeedThrough
<1> QED
  BY <1>1, <1>2, <1>6, <1>7, <1>8, Zenon

-----------------------------------------------------------------------------
(* The sweeps of a recording.                                              *)

Raw(f) == Seq([1..NChannels -> Samples[f]])

\* The sweeps g are the first of t, lowered.
Faithful(g, t, ten) ==
  /\ g \in Seq(Seq(Lows)) /\ Len(g) <= Len(t)
  /\ \A k \in 1..Len(g) : g[k] = LowerSweep(t[k], ten)

\* The stream of a recording: it reads the greeting, or no sweep is under way, or the
\* last one is, of which the parser has the first i digits and the rest is to come.
Streaming(ten) ==
  /\ rx = <<>> /\ got \in Seq(Seq(Lows))
  /\ \/ /\ sent = <<>> /\ got = <<>>
        /\ \E i \in 0..3 : Opening(parser, ten, i) /\ Rest(receiver.out, Greeting, i)
     \/ Len(sent) = Len(got) /\ receiver.out = <<>> /\ Idle(parser, ten) /\ parser.sweeps = <<>>
     \/ /\ Len(sent) = Len(got) + 1
        /\ \E i \in 0..(Width * NChannels - 1) :
             Midst(parser, sent[Len(sent)], ten, i) /\ Rest(receiver.out, Wire(sent[Len(sent)]), i)

\* What was read and what is on its way are the answer to a channel.
Ready(r, o) == r \o o = <<EEPROM_READY>>

\* What the receiver sent is in `got', in the parser, or on its way.
SentInv ==
  /\ sent \in Raw(receiver.fw)
  /\ call = "configure" => receiver.running = FALSE
  /\ call \in {"drain", "id", "status", "configure"} => sent = <<>>
  /\ call = "overview" => op # "record"
  /\ Clean =>
       /\ call # "redrain"
       /\ call = "configure" => Ready(rx, receiver.out)
       /\ op = "record" => Faithful(got, sent, Data10bit(receiver.fw))
       /\ call = "stream" => Streaming(Data10bit(receiver.fw))

\* A step that sends no sweep and yields none, outside the stream.
LEMMA SentKept ==
  ASSUME SentInv, receiver'.fw = receiver.fw, UNCHANGED <<sent, op, got>>, Clean' => Clean,
         call' = "configure" => receiver'.running = FALSE,
         call' \in {"drain", "id", "status", "configure"} =>
           call \in {"drain", "id", "status", "configure"},
         call' = "overview" => op # "record",
         call' # "stream", Clean' => call' # "redrain",
         Clean' /\ call' = "configure" => Ready(rx', receiver'.out)
  PROVE  SentInv'
<1>1. sent' \in Raw(receiver'.fw)
  BY Zenon DEF SentInv
<1>2. Clean' /\ op' = "record" => Faithful(got', sent', Data10bit(receiver'.fw))
  BY Zenon DEF SentInv
<1>3. call' \in {"drain", "id", "status", "configure"} => sent' = <<>>
  BY Zenon DEF SentInv
<1>4. op' = op
  OBVIOUS
<1> HIDE DEF Clean, Raw, Faithful
<1> QED
  BY <1>1, <1>2, <1>3, <1>4 DEF SentInv

\* Nothing was sent.
LEMMA SentInit == LinkInit => SentInv
<1> SUFFICES ASSUME LinkInit PROVE SentInv
  OBVIOUS
<1>1. call = "closed" /\ got = <<>> /\ sent = <<>>
  BY DEF LinkInit
<1>2. sent \in Raw(receiver.fw)
  BY <1>1, EmptyItems DEF Raw
<1>3. \A ten : Faithful(got, sent, ten)
  BY <1>1, EmptyItems DEF Faithful
<1> QED
  BY <1>1, <1>2, <1>3 DEF SentInv

\* What a channel and the start of the stream make the receiver send.
LEMMA ChannelIs ==
  ASSUME NEW d \in Receivers
  PROVE  /\ Write(d, <<"FE">>).out = d.out \o <<EEPROM_READY>>
         /\ Write(d, <<"FE">>).running = d.running
<1>1. Handle(d, "FE") = Says(d, <<EEPROM_READY>>)
  BY DEF Handle
<1>2. d \in [fw : DOMAIN StatusLine, running : BOOLEAN, out : Seq(Bytes)]
  BY DEF Receivers
<1>3. PICK a \in Seq(Bytes) : a = <<EEPROM_READY>>
  BY Replies
<1>4. Says(d, a).out = d.out \o a /\ Says(d, a).running = d.running
  BY <1>2, <1>3, SaysIs, Zenon
<1> QED
  BY <1>1, <1>3, <1>4, WriteOne, Zenon

\* The start of the stream makes the receiver send the greeting.
LEMMA StartIs ==
  ASSUME NEW d \in Receivers, d.out = <<>>
  PROVE  Write(d, InitStart).out = Greeting
<1>1. DOMAIN InitStart = 1..8 /\ 8 \in Nat
  BY CommandLists
<1>2. PICK f : WritePath(f, d, InitStart, 8)
  BY <1>1, WriteSteps
<1>3. /\ 1 \in 1..8 /\ 2 \in 1..8 /\ 3 \in 1..8 /\ 4 \in 1..8 /\ 5 \in 1..8 /\ 6 \in 1..8
      /\ 7 \in 1..8 /\ 8 \in 1..8
      /\ 1 - 1 = 0 /\ 2 - 1 = 1 /\ 3 - 1 = 2 /\ 4 - 1 = 3 /\ 5 - 1 = 4 /\ 6 - 1 = 5
      /\ 7 - 1 = 6 /\ 8 - 1 = 7
  OBVIOUS
<1>4. /\ f[0] = d /\ f[8] = Write(d, InitStart)
      /\ f[1] = Handle(f[0], InitStart[1]) /\ f[2] = Handle(f[1], InitStart[2])
      /\ f[3] = Handle(f[2], InitStart[3]) /\ f[4] = Handle(f[3], InitStart[4])
      /\ f[5] = Handle(f[4], InitStart[5]) /\ f[6] = Handle(f[5], InitStart[6])
      /\ f[7] = Handle(f[6], InitStart[7]) /\ f[8] = Handle(f[7], InitStart[8])
  BY <1>2, <1>3, Zenon DEF WritePath
<1>5. PICK a, b : a = f[7] /\ b = f[8]
  OBVIOUS
<1>6. /\ InitStart[1] = "GS" /\ InitStart[2] = "T" /\ InitStart[3] = "O" /\ InitStart[4] = "C"
      /\ InitStart[5] = "FS" /\ InitStart[6] = "L" /\ InitStart[7] = "S1" /\ InitStart[8] = "GE"
  BY DEF InitStart
<1>7. \A e : /\ Handle(e, "GS") = e /\ Handle(e, "T") = e /\ Handle(e, "O") = e
             /\ Handle(e, "C") = e /\ Handle(e, "FS") = e /\ Handle(e, "L") = e
             /\ Handle(e, "S1") = Says(e, Line("Started"))
             /\ Handle(e, "GE") = Says([e EXCEPT !.running = TRUE], <<DATA_START>>)
  BY DEF Handle
<1>8. f[6] = d
  <2>1. f[1] = Handle(d, "GS") /\ f[2] = Handle(f[1], "T") /\ f[3] = Handle(f[2], "O")
        /\ f[4] = Handle(f[3], "C") /\ f[5] = Handle(f[4], "FS") /\ f[6] = Handle(f[5], "L")
    BY <1>4, <1>6, Zenon
  <2>2. PICK a1, a2, a3, a4, a5, a6 :
          a1 = f[1] /\ a2 = f[2] /\ a3 = f[3] /\ a4 = f[4] /\ a5 = f[5] /\ a6 = f[6]
    OBVIOUS
  <2>3. a1 = d
    BY <1>7, <2>1, <2>2, Zenon
  <2>4. a2 = a1
    BY <1>7, <2>1, <2>2, Zenon
  <2>5. a3 = a2
    BY <1>7, <2>1, <2>2, Zenon
  <2>6. a4 = a3
    BY <1>7, <2>1, <2>2, Zenon
  <2>7. a5 = a4
    BY <1>7, <2>1, <2>2, Zenon
  <2>8. a6 = a5
    BY <1>7, <2>1, <2>2, Zenon
  <2> QED
    BY <2>2, <2>3, <2>4, <2>5, <2>6, <2>7, <2>8, Zenon
<1>9. PICK s \in Seq(Bytes), t \in Seq(Bytes) : s = Line("Started") /\ t = <<DATA_START>>
  BY Replies
<1>10. a = Says(d, s)
  BY <1>4, <1>5, <1>6, <1>7, <1>8, <1>9, Zenon
<1>11. PICK e : e = [a EXCEPT !.running = TRUE]
  OBVIOUS
<1>12. b = Says(e, t)
  BY <1>4, <1>5, <1>6, <1>7, <1>9, <1>11, Zenon
<1>13. Receivers = [fw : DOMAIN StatusLine, running : BOOLEAN, out : Seq(Bytes)]
  BY DEF Receivers
<1>14. a \in Receivers /\ a.out = d.out \o s
  BY <1>9, <1>10, <1>13, SaysIs, Zenon
<1>15. e \in Receivers /\ e.out = a.out
  BY <1>11, <1>14, RunningIs, Zenon
<1>16. b.out = e.out \o t
  BY <1>9, <1>12, <1>13, <1>15, SaysIs, Zenon
<1>17. <<>> \o s = s
  OBVIOUS
<1>18. b.out = s \o t
  BY <1>14, <1>15, <1>16, <1>17, Zenon
<1> QED
  BY <1>4, <1>5, <1>9, <1>18, Zenon DEF Greeting

\* A channel is acknowledged.
LEMMA ReadyStart == Ready(<<>>, <<>> \o <<EEPROM_READY>>)
<1>1. PICK s \in Seq(Bytes) : s = <<EEPROM_READY>>
  BY Replies
<1>2. <<>> \o s = s /\ <<>> \o (<<>> \o s) = s
  OBVIOUS
<1> QED
  BY <1>1, <1>2, Zenon DEF Ready

\* A read moves bytes of the acknowledgement to _rx.
LEMMA ReadyFill ==
  ASSUME NEW r \in Seq(Bytes), NEW o \in Seq(Bytes), Ready(r, o), NEW k \in 1..Len(o)
  PROVE  Ready(r \o SubSeq(o, 1, k), SubSeq(o, k + 1, Len(o)))
BY JoinFill, Zenon DEF Ready

\* The acknowledgement is taken whole, and nothing is left.
LEMMA ReadyTaken ==
  ASSUME rx \in Seq(Bytes), receiver \in Receivers, Found, call = "configure",
         Ready(rx, receiver.out)
  PROVE  After = <<>> /\ receiver.out = <<>>
<1>1. Contains(rx, EEPROM_READY) /\ Awaited = EEPROM_READY
  BY DEF Found, Awaited
<1>2. receiver.out \in Seq(Bytes)
  BY DEF Receivers
<1>3. PICK l \in Seq(Bytes), o \in Seq(Bytes) : l = <<EEPROM_READY>> /\ Len(l) = 1 /\ o = receiver.out
  BY <1>2, Replies
<1>4. rx \o o = l
  BY <1>3 DEF Ready
<1>5. Len(rx) + Len(o) = 1
  <2>1. Len(rx \o o) = Len(rx) + Len(o)
    BY JoinParts
  <2> QED
    BY <1>3, <1>4, <2>1, Zenon
<1>6. At \in 1..Len(rx)
  <2>1. At = CHOOSE k \in DOMAIN rx : rx[k] = EEPROM_READY /\ \A j \in 1..(k - 1) : rx[j] # EEPROM_READY
    BY <1>1, Zenon DEF At
  <2> QED
    BY <1>1, <2>1, FirstPlace, Zenon
<1>7. Len(rx) = 1 /\ Len(o) = 0 /\ At = 1
  <2>1. Len(rx) \in Nat /\ Len(o) \in Nat
    OBVIOUS
  <2>2. \A x \in Nat, y \in Nat : \A z \in 1..x : x + y = 1 => x = 1 /\ y = 0 /\ z = 1
    OBVIOUS
  <2> QED
    BY <1>5, <1>6, <2>1, <2>2, Zenon
<1>8. After = SubSeq(rx, 2, 1)
  <2>1. 1 + 1 = 2
    OBVIOUS
  <2> QED
    BY <1>7, <2>1, Zenon DEF After
<1>9. SubSeq(rx, 2, 1) = <<>>
  <2>1. 2 \in Int /\ 1 \in Int /\ 1 < 2
    OBVIOUS
  <2> QED
    BY <2>1, SubSeqEmpty, Zenon
<1> QED
  BY <1>3, <1>7, <1>8, <1>9

\* Each step of a session keeps SentInv; first the steps of the handshake.
LEMMA SentConnect ==
  ASSUME LinkInv, FirmwareInv, SentInv, Connect
  PROVE  SentInv'
<1>1. call' = "drain" /\ got' = <<>> /\ sent' = <<>>
  BY DEF Connect
<1>2. sent' \in Raw(receiver'.fw)
  BY <1>1, EmptyItems DEF Raw
<1>3. \A ten : Faithful(got', sent', ten)
  BY <1>1, EmptyItems DEF Faithful
<1> QED
  BY <1>1, <1>2, <1>3 DEF SentInv

\* The drain sends nothing.
LEMMA SentDrain ==
  ASSUME LinkInv, FirmwareInv, SentInv, Drain
  PROVE  SentInv'
<1>1. receiver'.fw = receiver.fw
  BY ReadType DEF Drain, LinkInv, LinkTyped
<1>2. UNCHANGED <<call, op, got, sent, undrained, lost>> /\ call \in {"drain", "redrain"}
  BY DEF Drain, driver
<1>3. Clean => call # "redrain"
  BY DEF SentInv
<1>4. Clean' => Clean
  BY <1>2 DEF Clean
<1>5. call' = call /\ call' # "configure" /\ call' # "stream" /\ call' # "overview"
  BY <1>2
<1> QED
  BY <1>1, <1>2, <1>3, <1>4, <1>5, SentKept

\* A session begins with nothing sent and nothing yielded.
LEMMA SentDrainEnds ==
  ASSUME LinkInv, FirmwareInv, SentInv, DrainEnds
  PROVE  SentInv'
<1>1. UNCHANGED <<op, got, sent>> /\ call = "drain"
  BY DEF DrainEnds
<1>2. got = <<>> /\ sent = <<>>
  BY <1>1 DEF LinkInv, StreamInv, SentInv
<1>3. call' \in {"id", "overview", "detector"} /\ (call' = "overview" => op # "record")
  BY DEF DrainEnds, BeginCall, LinkInv, LinkTyped
<1>4. sent' \in Raw(receiver'.fw)
  BY <1>1, <1>2, EmptyItems DEF Raw
<1>5. \A ten : Faithful(got', sent', ten)
  BY <1>1, <1>2, EmptyItems DEF Faithful
<1> QED
  BY <1>1, <1>2, <1>3, <1>4, <1>5 DEF SentInv

\* The handshake reads while the receiver is idle.
LEMMA SentFill ==
  ASSUME LinkInv, FirmwareInv, SentInv, Fill
  PROVE  SentInv'
<1>1. PICK part \in Arrivals : receiver' = Taken(part) /\ rx' = rx \o part
  BY DEF Fill
<1>2. receiver \in Receivers /\ rx \in Seq(Bytes) /\ receiver.out \in Seq(Bytes)
  BY DEF LinkInv, LinkTyped, Receivers
<1>3. receiver'.fw = receiver.fw /\ receiver'.running = receiver.running
  BY <1>1, <1>2, ReadType
<1>4. PICK k \in 1..Len(receiver.out) :
        /\ part = SubSeq(receiver.out, 1, k)
        /\ receiver'.out = SubSeq(receiver.out, k + 1, Len(receiver.out))
  BY <1>1, <1>2, ReadType, Zenon
<1>5. Ready(rx, receiver.out) => Ready(rx', receiver'.out)
  <2> SUFFICES ASSUME Ready(rx, receiver.out) PROVE Ready(rx', receiver'.out)
    OBVIOUS
  <2>1. Ready(rx \o SubSeq(receiver.out, 1, k), SubSeq(receiver.out, k + 1, Len(receiver.out)))
    BY <1>2, ReadyFill, Zenon
  <2> QED
    BY <1>1, <1>4, <2>1, Zenon
<1>6. UNCHANGED <<call, op, got, sent, undrained, lost>> /\ call \in {"id", "status", "configure"}
  BY DEF Fill, Waiting
<1>7. Clean' => Clean
  BY <1>6 DEF Clean
<1>8. call = "configure" => receiver.running = FALSE
  BY DEF SentInv
<1>9. Clean /\ call = "configure" => Ready(rx, receiver.out)
  BY Zenon DEF SentInv
<1>10. call' = call /\ call' # "redrain" /\ call' # "stream" /\ call' # "overview"
       /\ call \in {"drain", "id", "status", "configure"}
  BY <1>6
<1> HIDE DEF Clean, Ready
<1> QED
  BY <1>3, <1>5, <1>6, <1>7, <1>8, <1>9, <1>10, SentKept, Zenon

\* An empty read sends nothing.
LEMMA SentNoAnswer ==
  ASSUME LinkInv, FirmwareInv, SentInv, NoAnswer
  PROVE  SentInv'
<1>1. /\ UNCHANGED <<receiver, rx, op, got, sent, lost, undrained>>
      /\ call \in {"id", "status", "configure"} /\ (call' = call \/ call' = "failed")
  BY DEF NoAnswer, Fails, Waiting
<1>2. Clean' => Clean
  BY <1>1 DEF Clean
<1>3. call = "configure" => receiver.running = FALSE
  BY DEF SentInv
<1>4. Clean /\ call = "configure" => Ready(rx, receiver.out)
  BY Zenon DEF SentInv
<1>5. CASE call' = call
  <2>1. call' # "redrain" /\ call' # "stream" /\ call' # "overview"
        /\ call \in {"drain", "id", "status", "configure"}
    BY <1>1, <1>5
  <2>2. receiver'.fw = receiver.fw /\ receiver'.running = receiver.running
        /\ receiver'.out = receiver.out
    BY <1>1
  <2> QED
    BY <1>1, <1>2, <1>3, <1>4, <1>5, <2>1, <2>2, SentKept, Zenon
<1>6. CASE call' = "failed"
  <2>1. receiver'.fw = receiver.fw /\ call' \notin {"drain", "id", "status", "configure"}
        /\ call' # "redrain" /\ call' # "stream" /\ call' # "overview" /\ call' # "configure"
    BY <1>1, <1>6
  <2> QED
    BY <1>1, <1>2, <2>1, SentKept, Zenon
<1> QED
  BY <1>1, <1>5, <1>6

\* The receiver is idle when it is identified.
LEMMA SentIdentify ==
  ASSUME LinkInv, FirmwareInv, SentInv, Identify
  PROVE  SentInv'
<1>1. /\ UNCHANGED <<op, got, sent, lost, undrained>> /\ call = "id"
      /\ \/ receiver' = receiver
         \/ receiver' = Write(receiver, STATUS_QUERY)
      /\ call' \in {"status", "failed"}
  BY DEF Identify, Fails
<1>2. receiver'.fw = receiver.fw
  BY <1>1, WriteTyped DEF LinkInv, LinkTyped
<1>3. Clean' => Clean
  BY <1>1 DEF Clean
<1>4. call' # "redrain" /\ call' # "stream" /\ call' # "overview" /\ call' # "configure"
      /\ call \in {"drain", "id", "status", "configure"}
  BY <1>1
<1> QED
  BY <1>1, <1>2, <1>3, <1>4, SentKept, Zenon

\* Then nothing is on its way but the acknowledgement of the first channel.
LEMMA SentStatus ==
  ASSUME LinkInv, FirmwareInv, SentInv, Status
  PROVE  SentInv'
<1>1. /\ UNCHANGED <<op, got, sent, lost, undrained>> /\ call = "status" /\ Found
      /\ call' = "configure" /\ rx' = After /\ receiver' = Write(receiver, <<"FE">>)
  BY DEF Status
<1>2. receiver \in Receivers /\ rx \in Seq(Bytes) /\ receiver.fw \in DOMAIN StatusLine
  BY DEF LinkInv, LinkTyped, Receivers
<1>3. receiver'.fw = receiver.fw
  BY <1>1, <1>2, WriteTyped
<1>4. /\ receiver'.out = receiver.out \o <<EEPROM_READY>>
      /\ receiver'.running = receiver.running
  BY <1>1, <1>2, ChannelIs, Zenon
<1>5. receiver'.running = FALSE
  BY <1>1, <1>4 DEF FirmwareInv
<1>6. Clean' => Clean
  BY <1>1 DEF Clean
<1>7. ASSUME Clean'
      PROVE  Ready(rx', receiver'.out)
  <2>1. Pending(rx, receiver.out, StatusLine[receiver.fw])
    BY <1>1, <1>6, <1>7 DEF FirmwareInv
  <2>2. StatusLine[receiver.fw] \in Texts
    BY <1>2, StatusText
  <2>3. After = <<>> /\ receiver.out = <<>>
    BY <1>1, <1>2, <2>1, <2>2, AnswerTaken
  <2> QED
    BY <1>1, <1>4, <2>3, ReadyStart, Zenon
<1>8. call' # "redrain" /\ call' # "stream" /\ call' # "overview"
      /\ call \in {"drain", "id", "status", "configure"}
  BY <1>1
<1> QED
  BY <1>1, <1>3, <1>5, <1>6, <1>7, <1>8, SentKept, Zenon

\* What was yielded stays so when the stream ends.
LEMMA SentRestart ==
  ASSUME LinkInv, FirmwareInv, SentInv, StopStream \/ CloseDriver
  PROVE  SentInv'
<1>1. \E s \in {<<"GD">>, <<"S0">>, <<"GD", "S0">>} : receiver' = Write(receiver, s)
  BY DEF StopStream, CloseDriver
<1>2. receiver'.fw = receiver.fw
  BY <1>1, WriteTyped DEF LinkInv, LinkTyped
<1>3. UNCHANGED <<op, got, sent, lost, undrained>> /\ call' \in {"done", "closed"}
  BY DEF StopStream, CloseDriver
<1>4. Clean' => Clean
  BY <1>3 DEF Clean
<1>5. call' # "redrain" /\ call' # "stream" /\ call' # "overview" /\ call' # "configure"
      /\ call' \notin {"drain", "id", "status", "configure"}
  BY <1>3
<1> QED
  BY <1>2, <1>3, <1>4, <1>5, SentKept, Zenon

\* A session in which bytes were lost or left is not spoken of.
LEMMA SentUnclean ==
  ASSUME SentInv, ~Clean', sent' \in Raw(receiver'.fw),
         call' = "configure" => receiver'.running = FALSE,
         call' \in {"drain", "id", "status", "configure"} => sent' = <<>>,
         call' = "overview" => op' # "record"
  PROVE  SentInv'
<1> HIDE DEF Clean, Raw
<1> QED
  BY DEF SentInv

\* A restart follows a heal, of which a clean session has none.
LEMMA SentAgain ==
  ASSUME LinkInv, FirmwareInv, SentInv, Restart
  PROVE  SentInv'
<1>1. call = "redrain" /\ UNCHANGED <<op, got, sent, lost, undrained>> /\ call' = "stream"
      /\ receiver' = Write(receiver, InitStart)
  BY DEF Restart
<1>2. receiver'.fw = receiver.fw
  BY <1>1, WriteTyped DEF LinkInv, LinkTyped
<1>3. ~Clean
  BY <1>1 DEF SentInv
<1>4. ~Clean'
  BY <1>1, <1>3 DEF Clean
<1>5. sent' \in Raw(receiver'.fw)
  BY <1>1, <1>2, Zenon DEF SentInv
<1> QED
  BY <1>1, <1>4, <1>5, SentUnclean

\* The loss of an answer's byte is counted.
LEMMA SentLoseReply ==
  ASSUME LinkInv, FirmwareInv, SentInv, LoseReply
  PROVE  SentInv'
<1>1. receiver'.running = receiver.running /\ receiver'.fw = receiver.fw
  <2>1. receiver \in Receivers
    BY DEF LinkInv, LinkTyped
  <2>2. \A R : \A d \in [fw : DOMAIN StatusLine, running : BOOLEAN, out : R] : \A o :
          [d EXCEPT !.out = o].running = d.running /\ [d EXCEPT !.out = o].fw = d.fw
    OBVIOUS
  <2> QED
    BY <2>1, <2>2, Zenon DEF LoseReply, Receivers
<1>2. UNCHANGED <<call, op, sent>> /\ lost' = lost + 1 /\ call \in {"id", "status", "configure"}
  BY DEF LoseReply, driver
<1>3. ~Clean'
  BY <1>2 DEF FirmwareInv, Clean
<1>4. sent' \in Raw(receiver'.fw)
  BY <1>1, <1>2, Zenon DEF SentInv
<1>5. (call = "configure" => receiver.running = FALSE) /\ sent = <<>>
  BY <1>2 DEF SentInv
<1>6. call' # "overview" /\ call' = call
  BY <1>2
<1> QED
  BY <1>1, <1>2, <1>3, <1>4, <1>5, <1>6, SentUnclean

\* The other calls record nothing.
LEMMA SentOther ==
  ASSUME LinkInv, FirmwareInv, SentInv, Overview \/ Detector
  PROVE  SentInv'
<1>1. UNCHANGED <<op, sent, lost, undrained>>
  BY DEF Overview, Detector
<1>2. receiver'.fw = receiver.fw
  BY ReadType DEF Overview, Detector, LinkInv, LinkTyped
<1>3. Clean' => Clean
  BY <1>1 DEF Clean
<1>4. CASE Detector
  <2>1. UNCHANGED got /\ call' \in {"detector", "done"}
    BY <1>4 DEF Detector
  <2>2. call' # "redrain" /\ call' # "stream" /\ call' # "overview" /\ call' # "configure"
        /\ call' \notin {"drain", "id", "status", "configure"}
    BY <2>1
  <2> QED
    BY <1>1, <1>2, <1>3, <2>1, <2>2, SentKept, Zenon
<1>5. CASE Overview
  <2>1. call = "overview" /\ op # "record"
    BY <1>5 DEF Overview, SentInv
  <2>2. call' \in {"done", "failed", "overview"}
    <3>1. \A P : (IF P THEN "done" ELSE "overview") \in {"done", "failed", "overview"}
                 /\ (IF P THEN "failed" ELSE "overview") \in {"done", "failed", "overview"}
      OBVIOUS
    <3>2. CASE \E part \in Arrivals : call' = IF Contains(got', "end") THEN "done" ELSE call
      BY <2>1, <3>1, <3>2, Zenon
    <3>3. CASE call' = IF waits' = MaxEmpty THEN "failed" ELSE call
      BY <2>1, <3>1, <3>3, Zenon
    <3> QED
      BY <1>5, <3>2, <3>3 DEF Overview
  <2>3. sent' \in Raw(receiver'.fw)
    BY <1>1, <1>2, Zenon DEF SentInv
  <2>4. op' # "record"
    BY <1>1, <2>1
  <2>5. call' # "redrain" /\ call' # "stream" /\ call' # "configure"
        /\ call' \notin {"drain", "id", "status", "configure"}
    BY <2>2
  <2> HIDE DEF Clean, Raw
  <2> QED
    BY <2>3, <2>4, <2>5 DEF SentInv
<1> QED
  BY <1>4, <1>5

\* The last channel starts the stream with a new parser.
LEMMA SentConfigure ==
  ASSUME LinkInv, FirmwareInv, SentInv, Configure
  PROVE  SentInv'
<1>1. /\ UNCHANGED <<op, got, sent, lost, undrained>> /\ call = "configure" /\ Found /\ rx' = After
      /\ \/ receiver' = Write(receiver, <<"FE">>) /\ call' = call
         \/ /\ receiver' = Write(receiver, InitStart) /\ call' = "stream"
            /\ parser' = NewParser(Data10bit(fw))
  BY DEF Configure
<1>2. receiver \in Receivers /\ rx \in Seq(Bytes) /\ receiver.running = FALSE /\ got = <<>> /\ sent = <<>>
  BY <1>1 DEF LinkInv, LinkTyped, StreamInv, SentInv
<1>3. receiver'.fw = receiver.fw
  BY <1>1, <1>2, WriteTyped
<1>4. Clean' => Clean
  BY <1>1 DEF Clean
<1>5. Clean => After = <<>> /\ receiver.out = <<>>
  BY <1>1, <1>2, ReadyTaken DEF SentInv
<1>6. CASE receiver' = Write(receiver, <<"FE">>) /\ call' = call
  <2>1. /\ receiver'.out = receiver.out \o <<EEPROM_READY>>
        /\ receiver'.running = receiver.running
    BY <1>2, <1>6, ChannelIs, Zenon
  <2>2. Clean' => Ready(rx', receiver'.out)
    BY <1>1, <1>4, <1>5, <2>1, ReadyStart, Zenon
  <2>3. call' # "redrain" /\ call' # "stream" /\ call' # "overview" /\ receiver'.running = FALSE
        /\ call \in {"drain", "id", "status", "configure"}
    BY <1>1, <1>2, <1>6, <2>1
  <2> QED
    BY <1>1, <1>3, <1>4, <2>2, <2>3, SentKept, Zenon
<1>7. CASE /\ receiver' = Write(receiver, InitStart) /\ call' = "stream"
           /\ parser' = NewParser(Data10bit(fw))
  <2>1. sent' \in Raw(receiver'.fw)
    BY <1>1, <1>3, Zenon DEF SentInv
  <2>2. \A ten : Faithful(got', sent', ten)
    BY <1>1, <1>2, EmptyItems DEF Faithful
  <2>3. ASSUME Clean'
        PROVE  Streaming(Data10bit(receiver.fw))'
    <3>1. fw = receiver.fw /\ After = <<>> /\ receiver.out = <<>>
      BY <1>1, <1>4, <1>5, <2>3 DEF FirmwareInv
    <3>2. receiver'.out = Greeting
      BY <1>2, <1>7, <3>1, StartIs
    <3>3. PICK ten \in BOOLEAN : ten = Data10bit(receiver.fw)
      BY <3>1, BitDepth
    <3>4. Opening(parser', ten, 0)
      <4>1. parser' = NewParser(ten)
        BY <1>7, <3>1, <3>3, Zenon
      <4>2. NewParser(ten).bad = FALSE
        <5>1. NewParser(ten) \in Parsers /\ ~NewParser(ten).bad
          BY NewParserType
        <5> QED
          BY <5>1, ParserTypes
      <4>3. 0 \in {0, 3}
        OBVIOUS
      <4> QED
        BY <4>1, <4>2, <4>3, NewParserType, Zenon DEF Opening
    <3>5. Rest(receiver'.out, Greeting, 0)
      <4>1. PICK g \in Seq(Bytes) : g = Greeting
        BY GreetingIs
      <4>2. Rest(g, g, 0)
        BY DEF Rest
      <4> QED
        BY <3>2, <4>1, <4>2, Zenon
    <3>6. /\ rx' = <<>> /\ got' = <<>> /\ sent' = <<>> /\ Data10bit(receiver'.fw) = ten /\ 0 \in 0..3
          /\ got' \in Seq(Seq(Lows))
      BY <1>1, <1>2, <1>3, <3>1, <3>3, EmptyItems
    <3> QED
      BY <3>4, <3>5, <3>6, Zenon DEF Streaming
  <2>4. call' # "redrain" /\ call' # "overview" /\ call' # "configure"
        /\ call' \notin {"drain", "id", "status", "configure"}
    BY <1>7
  <2> HIDE DEF Clean, Raw, Faithful, Streaming
  <2> QED
    BY <2>1, <2>2, <2>3, <2>4 DEF SentInv
<1> QED
  BY <1>1, <1>6, <1>7

\* A transmission, and what it does to a faithful recording.
LEMMA SweepIs ==
  ASSUME receiver \in Receivers, Sweeping(0)
  PROVE  \E s \in [1..NChannels -> Samples[receiver.fw]] :
           /\ receiver'.out = Wire(s) /\ receiver'.fw = receiver.fw
           /\ receiver'.running = receiver.running
           /\ sent' = Append(sent, s) /\ receiver.out = <<>> /\ receiver.running = TRUE
<1>1. PICK s \in [1..NChannels -> Samples[receiver.fw]] :
         LET digits == FlattenSeq([c \in 1..NChannels |-> Encode(s[c])])
         IN /\ receiver' = Says(receiver, IF 0 = 0 THEN digits ELSE RemoveAt(digits, 0))
            /\ sent' = Append(sent, s)
  BY Zenon DEF Sweeping
<1>2. receiver.fw \in DOMAIN StatusLine /\ receiver.running \in BOOLEAN
  BY DEF Receivers
<1>3. s \in [1..NChannels -> Nat]
  BY <1>2, LinkAssumption
<1>4. PICK w \in Seq(Bytes) : w = Wire(s)
  <2>1. Wire(s) \in Seq(Digits)
    BY <1>3, WireIs
  <2>2. Digits \subseteq Bytes
    BY DEF Bytes
  <2> QED
    BY <2>1, <2>2
<1>5. receiver' = Says(receiver, w)
  <2>1. \A x, y : (IF 0 = 0 THEN x ELSE y) = x
    OBVIOUS
  <2> QED
    BY <1>1, <1>4, <2>1, Zenon DEF Wire
<1>6. receiver \in [fw : DOMAIN StatusLine, running : BOOLEAN, out : Seq(Bytes)]
  BY DEF Receivers
<1>7. /\ Says(receiver, w).fw = receiver.fw /\ Says(receiver, w).running = receiver.running
      /\ Says(receiver, w).out = receiver.out \o w
  BY <1>6, SaysIs, Zenon
<1>8. receiver.out = <<>> /\ receiver.running = TRUE
  BY <1>2 DEF Sweeping
<1>9. <<>> \o w = w
  OBVIOUS
<1> QED
  BY <1>1, <1>4, <1>5, <1>7, <1>8, <1>9, Zenon

\* A sweep that is sent leaves the sweeps that were yielded true.
LEMMA FaithfulMore ==
  ASSUME NEW X, NEW t \in Seq(X), NEW x \in X, NEW g, NEW ten, Faithful(g, t, ten)
  PROVE  Faithful(g, Append(t, x), ten)
<1>1. PICK m \in Nat, n \in Nat : m = Len(g) /\ n = Len(t) /\ m <= n
  <2>1. g \in Seq(Seq(Lows)) /\ Len(g) <= Len(t)
    BY Zenon DEF Faithful
  <2> QED
    BY <2>1
<1>2. PICK u : u = Append(t, x)
  OBVIOUS
<1>3. Len(u) = n + 1 /\ \A k \in 1..n : u[k] = t[k]
  BY <1>1, <1>2
<1>4. m <= n + 1 /\ \A k \in 1..m : k \in 1..n
  BY <1>1
<1>5. \A k \in 1..m : g[k] = LowerSweep(t[k], ten)
  BY <1>1, Zenon DEF Faithful
<1>6. \A k \in 1..m : g[k] = LowerSweep(u[k], ten)
  BY <1>3, <1>4, <1>5, Zenon
<1> QED
  BY <1>1, <1>2, <1>3, <1>4, <1>6, Zenon DEF Faithful

\* The last sweep that was sent, lowered, is the next one to yield.
LEMMA FaithfulGrows ==
  ASSUME NEW t, NEW g, NEW ten, Faithful(g, t, ten), Len(t) = Len(g) + 1,
         NEW y \in Seq(Lows), y = LowerSweep(t[Len(t)], ten)
  PROVE  Faithful(g \o <<y>>, t, ten) /\ Len(t) = Len(g \o <<y>>)
<1>1. g \in Seq(Seq(Lows)) /\ \A k \in 1..Len(g) : g[k] = LowerSweep(t[k], ten)
  BY Zenon DEF Faithful
<1>2. PICK m \in Nat, n \in Nat : m = Len(g) /\ n = Len(t) /\ n = m + 1
  BY <1>1
<1>3. ASSUME NEW T, NEW a \in Seq(T), NEW z \in T, NEW r, r = a \o <<z>>
      PROVE  /\ r \in Seq(T) /\ Len(r) = Len(a) + 1
             /\ r[Len(a) + 1] = z /\ \A k \in 1..Len(a) : r[k] = a[k]
  BY <1>3
<1>4. PICK h : h = g \o <<y>>
  OBVIOUS
<1>5. h \in Seq(Seq(Lows)) /\ Len(h) = m + 1 /\ h[m + 1] = y /\ \A k \in 1..m : h[k] = g[k]
  <2>1. PICK T : T = Seq(Lows)
    OBVIOUS
  <2>2. g \in Seq(T) /\ y \in T
    BY <1>1, <2>1
  <2>3. /\ h \in Seq(T) /\ Len(h) = Len(g) + 1
        /\ h[Len(g) + 1] = y /\ \A k \in 1..Len(g) : h[k] = g[k]
    BY <1>3, <1>4, <2>2
  <2> QED
    BY <1>2, <2>1, <2>3, Zenon
<1>6. ASSUME NEW k \in 1..n
      PROVE  h[k] = LowerSweep(t[k], ten)
  <2>1. CASE k \in 1..m
    BY <1>1, <1>2, <1>5, <2>1, Zenon
  <2>2. CASE k = n
    BY <1>2, <1>5, <2>2, Zenon
  <2> QED
    BY <1>2, <2>1, <2>2
<1>7. n <= n
  OBVIOUS
<1> QED
  BY <1>2, <1>4, <1>5, <1>6, <1>7, Zenon DEF Faithful

\* The samples of a sweep that was sent fit.
LEMMA SentFits ==
  ASSUME NEW f \in DOMAIN StatusLine, NEW s \in [1..NChannels -> Samples[f]]
  PROVE  s \in [1..NChannels -> Nat] /\ \A c \in 1..NChannels : Fits(s[c], Data10bit(f))
<1>1. s \in [1..NChannels -> Nat]
  BY LinkAssumption
<1>2. \A v \in Samples[f] : v < Limit(Data10bit(f)) /\ v # EndMarker /\ v < Power[Width]
  BY SampleAssumption, Zenon
<1>3. \A c \in 1..NChannels : s[c] \in Nat /\ s[c] \in Samples[f]
  BY <1>1
<1> QED
  BY <1>1, <1>2, <1>3, Zenon DEF Fits

\* Before its first digit a sweep is under way.
LEMMA MidstStart ==
  ASSUME NEW p, NEW ten, Idle(p, ten), p.sweeps = <<>>, NEW s
  PROVE  Midst(p, s, ten, 0) /\ 0 \in 0..(Width * NChannels - 1)
<1>0. Width \in Nat \ {0} /\ NChannels \in Nat \ {0}
  BY WireAssumption
<1>1. Receiving(p, ten) /\ p.hexbuf = <<>> /\ p.sweep = <<>>
  BY Zenon DEF Idle
<1>2. WordAt(p.hexbuf, s[0 + 1], 0) /\ SamplesAt(p.sweep, s, ten, 0)
  BY <1>1 DEF WordAt, SamplesAt
<1>3. PICK c \in 0..(NChannels - 1), r \in 0..(Width - 1) : c = 0 /\ r = 0
  BY <1>0
<1>4. Place(p, s, ten, c, r)
  BY <1>1, <1>2, <1>3, Zenon DEF Place
<1>5. 0 = Width * c + r
  BY <1>0, <1>3
<1>6. 0 \in 0..(Width * NChannels - 1)
  <2>1. \A x \in Nat \ {0}, y \in Nat \ {0} : 0 \in 0..(x * y - 1)
    <3>1. \A x \in Nat \ {0}, y \in Nat \ {0} : x * y \in Nat /\ x * y # 0
      OBVIOUS
    <3>2. \A z \in Nat : z # 0 => 0 \in 0..(z - 1)
      OBVIOUS
    <3> QED
      BY <3>1, <3>2, Zenon
  <2> QED
    BY <1>0, <2>1, Zenon
<1> QED
  BY <1>4, <1>5, <1>6, Zenon DEF Midst

\* All of a transmission is to come.
LEMMA RestWhole ==
  ASSUME NEW D \in Seq(Bytes)
  PROVE  Rest(D, D, 0)
BY DEF Rest

\* The receiver sends when its last sweep was read, so that the stream is idle.
LEMMA IdleWhen ==
  ASSUME NEW ten, Streaming(ten), receiver.out = <<>>, sent \in Raw(receiver.fw),
         receiver.fw \in DOMAIN StatusLine
  PROVE  Len(sent) = Len(got) /\ Idle(parser, ten) /\ parser.sweeps = <<>> /\ rx = <<>>
<1>1. PICK o \in Seq(Bytes) : o = receiver.out /\ Len(o) = 0
  <2>1. <<>> \in Seq(Bytes) /\ Len(<<>>) = 0
    OBVIOUS
  <2> QED
    BY <2>1
<1>2. ASSUME NEW D, NEW n \in Nat, NEW i \in 0..(n - 1), Len(D) = n, Rest(o, D, i)
      PROVE  FALSE
  <2>1. 0 = n - i
    BY <1>1, <1>2 DEF Rest
  <2> QED
    BY <2>1
<1>3. ~ \E i \in 0..3 : Rest(receiver.out, Greeting, i)
  <2>1. Len(Greeting) = 4 /\ 4 \in Nat /\ 4 - 1 = 3
    BY GreetingIs
  <2>2. PICK n \in Nat : n = 4 /\ n - 1 = 3 /\ Len(Greeting) = n
    BY <2>1
  <2>3. \A i \in 0..(n - 1) : ~Rest(o, Greeting, i)
    BY <1>2, <2>2
  <2> QED
    BY <1>1, <2>2, <2>3, Zenon
<1>4. ASSUME Len(sent) = Len(got) + 1,
             \E i \in 0..(Width * NChannels - 1) : Rest(receiver.out, Wire(sent[Len(sent)]), i)
      PROVE  FALSE
  <2>1. PICK n \in Nat : n = Width * NChannels
    <3>1. \A x \in Nat, y \in Nat : x * y \in Nat
      OBVIOUS
    <3> QED
      BY WireAssumption, <3>1
  <2>2. PICK s : s = sent[Len(sent)]
    OBVIOUS
  <2>3. s \in [1..NChannels -> Nat]
    <3>1. s \in [1..NChannels -> Samples[receiver.fw]]
      <4>1. sent \in Seq([1..NChannels -> Samples[receiver.fw]])
        BY DEF Raw
      <4>2. Len(sent) \in Nat /\ Len(sent) # 0
        <5>1. got \in Seq(Seq(Lows))
          BY DEF Streaming
        <5> QED
          BY <1>4, <4>1, <5>1
      <4> QED
        BY <2>2, <4>1, <4>2
    <3> QED
      BY <3>1, SentFits
  <2>4. Len(Wire(s)) = n
    BY <2>1, <2>3, WireIs
  <2>5. PICK D : D = Wire(s)
    OBVIOUS
  <2>6. \A i \in 0..(n - 1) : ~Rest(o, D, i)
    BY <1>2, <2>4, <2>5
  <2> QED
    BY <1>1, <1>4, <2>1, <2>2, <2>5, <2>6, Zenon
<1> QED
  BY <1>3, <1>4, Zenon DEF Streaming

\* The receiver sends a sweep, whole or without a digit.
LEMMA SentSweep ==
  ASSUME LinkInv, FirmwareInv, SentInv, EmitSweep
  PROVE  SentInv'
<1>1. receiver \in Receivers /\ receiver.fw \in DOMAIN StatusLine
  BY DEF LinkInv, LinkTyped, Receivers
<1>2. UNCHANGED <<call, op, rx, parser, got, lost, undrained>> /\ Sweeping(0)
  BY DEF EmitSweep, driver
<1>3. PICK s \in [1..NChannels -> Samples[receiver.fw]] :
        /\ receiver'.out = Wire(s) /\ receiver'.fw = receiver.fw
        /\ receiver'.running = receiver.running
        /\ sent' = Append(sent, s) /\ receiver.out = <<>> /\ receiver.running = TRUE
  BY <1>1, <1>2, SweepIs
<1>4. call \notin {"drain", "id", "status", "configure"} /\ (call = "overview" => op # "record")
  BY <1>3 DEF FirmwareInv, SentInv
<1>5. Clean' => Clean
  BY <1>2 DEF Clean
<1>6. PICK X : X = [1..NChannels -> Samples[receiver.fw]]
  OBVIOUS
<1>7. sent \in Seq(X) /\ s \in X
  BY <1>6 DEF SentInv, Raw
<1>8. PICK t : t = Append(sent, s)
  OBVIOUS
<1>9. t \in Seq(X) /\ Len(t) = Len(sent) + 1 /\ t[Len(t)] = s
  BY <1>7, <1>8
<1>10. sent' \in Raw(receiver'.fw)
  BY <1>3, <1>6, <1>8, <1>9, Zenon DEF Raw
<1>11. PICK ten \in BOOLEAN : ten = Data10bit(receiver.fw) /\ ten = Data10bit(receiver'.fw)
  <2>1. \A f : Data10bit(f) \in BOOLEAN
    BY DEF Data10bit
  <2> QED
    BY <1>3, <2>1, Zenon
<1>12. Clean /\ op = "record" => Faithful(got, t, ten)
  <2>1. Clean /\ op = "record" => Faithful(got, sent, ten)
    BY <1>11, Zenon DEF SentInv
  <2> QED
    BY <1>7, <1>8, <2>1, FaithfulMore, Zenon
<1>13. ASSUME Clean, call = "stream"
       PROVE  Streaming(Data10bit(receiver.fw))'
  <2>1. Streaming(ten) /\ sent \in Raw(receiver.fw)
    BY <1>11, <1>13, Zenon DEF SentInv
  <2>2. Len(sent) = Len(got) /\ Idle(parser, ten) /\ parser.sweeps = <<>> /\ rx = <<>>
    BY <1>1, <1>3, <2>1, IdleWhen
  <2>3. Midst(parser, s, ten, 0) /\ 0 \in 0..(Width * NChannels - 1)
    BY <2>2, MidstStart
  <2>4. Rest(Wire(s), Wire(s), 0)
    <3>1. s \in [1..NChannels -> Nat]
      BY <1>1, SentFits
    <3>2. Wire(s) \in Seq(Digits)
      BY <3>1, WireIs
    <3>3. Digits \subseteq Bytes
      BY DEF Bytes
    <3>4. Wire(s) \in Seq(Bytes)
      BY <3>2, <3>3
    <3> QED
      BY <3>4, RestWhole
  <2>5. Midst(parser', sent'[Len(sent')], ten, 0)
        /\ Rest(receiver'.out, Wire(sent'[Len(sent')]), 0)
    BY <1>2, <1>3, <1>8, <1>9, <2>3, <2>4, Zenon
  <2>6. Len(sent') = Len(got') + 1
    BY <1>2, <1>3, <1>8, <1>9, <2>2, Zenon
  <2>7. rx' = <<>> /\ got' \in Seq(Seq(Lows))
    BY <1>2, <2>1, <2>2, Zenon DEF Streaming
  <2> QED
    BY <1>11, <2>3, <2>5, <2>6, <2>7, Zenon DEF Streaming
<1>14. Clean => call # "redrain"
  BY DEF SentInv
<1>15. call' # "configure" /\ call' \notin {"drain", "id", "status", "configure"}
  BY <1>2, <1>4
<1>16. Clean' /\ op' = "record" => Faithful(got', sent', Data10bit(receiver'.fw))
  BY <1>2, <1>3, <1>5, <1>8, <1>11, <1>12, Zenon
<1>17. Clean' /\ call' = "stream" => Streaming(Data10bit(receiver.fw))'
  BY <1>2, <1>5, <1>13, Zenon
<1> HIDE DEF Clean, Raw, Faithful, Streaming
<1> QED
  BY <1>2, <1>4, <1>5, <1>10, <1>14, <1>15, <1>16, <1>17 DEF SentInv

\* The loss of a digit is counted.
LEMMA SentLoseDigit ==
  ASSUME LinkInv, FirmwareInv, SentInv, LoseDigit
  PROVE  SentInv'
<1>1. PICK miss \in 1..(NChannels * Width) : Sweeping(miss)
  BY DEF LoseDigit
<1>2. UNCHANGED <<call, op>> /\ lost' = lost + 1
  BY DEF LoseDigit, driver
<1>3. receiver'.fw = receiver.fw
  <2>1. miss \in 0..(NChannels * Width)
    OBVIOUS
  <2> QED
    BY <1>1, <2>1, SweepingType DEF LinkInv, LinkTyped
<1>4. PICK s \in [1..NChannels -> Samples[receiver.fw]] : sent' = Append(sent, s)
  BY <1>1, Zenon DEF Sweeping
<1>5. sent' \in Raw(receiver'.fw)
  <2>1. PICK X : X = [1..NChannels -> Samples[receiver.fw]]
    OBVIOUS
  <2>2. sent \in Seq(X) /\ s \in X
    BY <2>1 DEF SentInv, Raw
  <2>3. Append(sent, s) \in Seq(X)
    BY <2>2
  <2> QED
    BY <1>3, <1>4, <2>1, <2>3, Zenon DEF Raw
<1>6. receiver.running
  BY <1>1 DEF Sweeping
<1>7. call \notin {"drain", "id", "status", "configure"} /\ (call = "overview" => op # "record")
  BY <1>6 DEF FirmwareInv, SentInv
<1>8. ~Clean'
  BY <1>2 DEF FirmwareInv, Clean
<1>9. call' # "configure" /\ call' \notin {"drain", "id", "status", "configure"}
      /\ (call' = "overview" => op' # "record")
  BY <1>2, <1>7
<1> QED
  BY <1>5, <1>8, <1>9, SentUnclean

\* The stream goes on after a chunk of k bytes that took the parser to q.
Goes(q, k) ==
  /\ rx' = <<>> /\ parser' = Taking(q) /\ got' = got \o q.sweeps /\ sent' = sent
  /\ receiver'.out = SubSeq(receiver.out, k + 1, Len(receiver.out))

\* A sequence with one more element.
LEMMA OneMore ==
  ASSUME NEW T, NEW g \in Seq(T), NEW y \in T, NEW h, h = g \o <<y>>
  PROVE  h \in Seq(T) /\ Len(h) = Len(g) + 1
OBVIOUS

\* Nothing is left.
LEMMA RestNone ==
  ASSUME NEW o \in Seq(Bytes), NEW D, NEW n \in Nat, Len(D) = n, Rest(o, D, n)
  PROVE  o = <<>>
<1>1. Len(o) = n - n
  BY DEF Rest
<1>2. Len(o) = 0
  BY <1>1
<1> QED
  BY <1>2

\* A chunk of the greeting.
LEMMA StreamGreeting ==
  ASSUME NEW ten \in BOOLEAN, receiver \in Receivers, parser \in Parsers,
         rx = <<>>, sent = <<>>, got = <<>>, NEW i \in 0..3,
         Opening(parser, ten, i), Rest(receiver.out, Greeting, i),
         NEW k \in 1..Len(receiver.out), NEW q, q = Feed(parser, SubSeq(receiver.out, 1, k))
  PROVE  /\ q.bad = FALSE
         /\ Goes(q, k) => Streaming(ten)' /\ got' = got
<1>0. PICK o \in Seq(Bytes), p \in Parsers : o = receiver.out /\ p = parser
  BY DEF Receivers
<1>1. PICK j \in 1..Len(o) : o = receiver.out /\ p = parser /\ j = k
  BY <1>0
<1>2. Opening(p, ten, i) /\ Rest(o, Greeting, i) /\ q = Feed(p, SubSeq(o, 1, j))
  BY <1>1, Zenon
<1>3. Opening(q, ten, i + j) /\ Rest(SubSeq(o, j + 1, Len(o)), Greeting, i + j) /\ i + j \in 0..4
  BY <1>2, FeedGreeting
<1>4. PICK n \in 0..4 : n = i + j
  BY <1>3
<1>5. PICK u \in Seq(Bytes) : u = SubSeq(o, j + 1, Len(o))
  <2>1. j + 1 \in 1..(Len(o) + 1)
    OBVIOUS
  <2> QED
    BY <2>1, SuffixType
<1>6. Opening(q, ten, n) /\ Rest(u, Greeting, n)
  BY <1>3, <1>4, <1>5, Zenon
<1>7. q \in Parsers /\ q.bad = FALSE /\ q.sweeps = <<>>
  BY <1>6, Zenon DEF Opening
<1>8. Opening(Taking(q), ten, n)
  BY <1>6, <1>7, TakingPlace
<1>9. ASSUME Goes(q, k)
      PROVE  Streaming(ten)' /\ got' = got
  <2>1. rx' = <<>> /\ parser' = Taking(q) /\ got' = <<>> /\ sent' = <<>>
    <3>1. rx' = <<>> /\ parser' = Taking(q) /\ got' = got \o q.sweeps /\ sent' = sent
      BY <1>9, Zenon DEF Goes
    <3>2. got \o q.sweeps = <<>>
      BY <1>7
    <3> QED
      BY <3>1, <3>2
  <2>2. receiver'.out = u
    BY <1>1, <1>5, <1>9, Zenon DEF Goes
  <2>3. got' \in Seq(Seq(Lows)) /\ Len(sent') = Len(got')
    BY <2>1, EmptyItems
  <2>4. CASE n \in 0..3
    BY <1>6, <1>8, <2>1, <2>2, <2>3, <2>4, Zenon DEF Streaming
  <2>5. CASE n = 4
    <3>1. Idle(Taking(q), ten) /\ Taking(q).sweeps = <<>>
      BY <1>8, <2>5 DEF Opening
    <3>2. u = <<>>
      <4>1. Len(Greeting) = n /\ n \in Nat
        BY <2>5, GreetingIs
      <4> QED
        BY <1>6, <4>1, RestNone
    <3> QED
      BY <2>1, <2>2, <2>3, <3>1, <3>2, Zenon DEF Streaming
  <2>6. n \in 0..3 \/ n = 4
    OBVIOUS
  <2> QED
    BY <2>1, <2>4, <2>5, <2>6, Zenon
<1> QED
  BY <1>7, <1>9

\* A chunk of a sweep.
LEMMA StreamSweep ==
  ASSUME NEW ten \in BOOLEAN, receiver \in Receivers, parser \in Parsers,
         rx = <<>>, got \in Seq(Seq(Lows)), Len(sent) = Len(got) + 1,
         NEW s \in [1..NChannels -> Nat], s = sent[Len(sent)],
         \A c \in 1..NChannels : Fits(s[c], ten),
         NEW i \in 0..(Width * NChannels - 1),
         Midst(parser, s, ten, i), Rest(receiver.out, Wire(s), i),
         NEW k \in 1..Len(receiver.out), NEW q, q = Feed(parser, SubSeq(receiver.out, 1, k))
  PROVE  /\ q.bad = FALSE
         /\ Goes(q, k) =>
              /\ Streaming(ten)'
              /\ Faithful(got, sent, ten) => Faithful(got', sent', ten)
<1>0. PICK o \in Seq(Bytes), p \in Parsers : o = receiver.out /\ p = parser
  BY DEF Receivers
<1>1. PICK j \in 1..Len(o) : o = receiver.out /\ p = parser /\ j = k
  BY <1>0
<1>2. Midst(p, s, ten, i) /\ Rest(o, Wire(s), i) /\ q = Feed(p, SubSeq(o, 1, j))
  BY <1>1, Zenon
<1>3. /\ Passed(q, s, ten, i + j) /\ Rest(SubSeq(o, j + 1, Len(o)), Wire(s), i + j)
      /\ i + j <= Width * NChannels /\ i + j \in Nat
  BY <1>2, FeedSweep
<1>4. PICK m \in Nat : m = Width * NChannels
  <2>1. \A x \in Nat, y \in Nat : x * y \in Nat
    OBVIOUS
  <2> QED
    BY WireAssumption, <2>1
<1>5. PICK n \in Nat : n = i + j /\ n <= m
  BY <1>3, <1>4, Zenon
<1>6. PICK u \in Seq(Bytes) : u = SubSeq(o, j + 1, Len(o))
  <2>1. j + 1 \in 1..(Len(o) + 1)
    OBVIOUS
  <2> QED
    BY <2>1, SuffixType
<1>7. Passed(q, s, ten, n) /\ Rest(u, Wire(s), n)
  BY <1>3, <1>5, <1>6, Zenon
<1>8. q \in Parsers /\ q.bad = FALSE
  BY <1>7, PassedType
<1>9. ASSUME Goes(q, k)
      PROVE  Streaming(ten)' /\ (Faithful(got, sent, ten) => Faithful(got', sent', ten))
  <2>1. rx' = <<>> /\ parser' = Taking(q) /\ got' = got \o q.sweeps /\ sent' = sent
    BY <1>9, Zenon DEF Goes
  <2>2. receiver'.out = u
    BY <1>1, <1>6, <1>9, Zenon DEF Goes
  <2>3. CASE n # m
    <3>1. Midst(q, s, ten, n)
      BY <1>4, <1>7, <2>3, Zenon DEF Passed
    <3>2. Midst(Taking(q), s, ten, n) /\ q.sweeps = <<>>
      BY <1>8, <3>1, TakingPlace, Zenon DEF Midst
    <3>3. got' = got
      BY <2>1, <3>2, ConcatNone, Zenon
    <3>4. n \in 0..(Width * NChannels - 1)
      <4>1. \A x \in Nat, z \in Nat : x <= z /\ x # z => x \in 0..(z - 1)
        OBVIOUS
      <4>2. n \in 0..(m - 1)
        BY <1>4, <1>5, <2>3, <4>1, Zenon
      <4> QED
        BY <1>4, <4>2, Zenon
    <3>5. sent'[Len(sent')] = s /\ Len(sent') = Len(got') + 1
      BY <2>1, <3>3, Zenon
    <3>6. Streaming(ten)'
      BY <1>7, <2>1, <2>2, <3>2, <3>3, <3>4, <3>5, Zenon DEF Streaming
    <3> QED
      BY <2>1, <3>3, <3>6, Zenon
  <2>4. CASE n = m
    <3>1. Idle(q, ten) /\ q.sweeps = <<LowerSweep(s, ten)>>
      BY <1>4, <1>7, <2>4, Zenon DEF Passed
    <3>2. Idle(Taking(q), ten) /\ Taking(q).sweeps = <<>>
      BY <1>8, <3>1, TakingPlace
    <3>3. PICK y : y = LowerSweep(s, ten)
      OBVIOUS
    <3>4. y \in Seq(Lows)
      <4>1. PICK z : z = q.sweeps
        OBVIOUS
      <4>2. z \in Seq(Seq(Lows)) /\ z = <<y>>
        BY <1>8, <3>1, <3>3, <4>1, ParserTypes, Zenon
      <4> QED
        BY <4>2
    <3>5. got' = got \o <<y>>
      BY <2>1, <3>1, <3>3, Zenon
    <3>6. got' \in Seq(Seq(Lows)) /\ Len(got') = Len(got) + 1
      BY <3>4, <3>5, OneMore
    <3>7. u = <<>>
      <4>1. PICK D : D = Wire(s)
        OBVIOUS
      <4>2. Len(D) = n /\ Rest(u, D, n)
        BY <1>4, <1>7, <2>4, <4>1, WireIs, Zenon
      <4> QED
        BY <4>2, RestNone
    <3>8. Streaming(ten)'
      <4>1. Len(sent') = Len(got')
        BY <2>1, <3>6, Zenon
      <4> QED
        BY <2>1, <2>2, <3>2, <3>6, <3>7, <4>1, Zenon DEF Streaming
    <3>9. ASSUME Faithful(got, sent, ten)
          PROVE  Faithful(got', sent', ten)
      <4>1. y = LowerSweep(sent[Len(sent)], ten)
        BY <3>3, Zenon
      <4>2. Faithful(got \o <<y>>, sent, ten)
        BY <3>4, <3>9, <4>1, FaithfulGrows
      <4> QED
        BY <2>1, <3>5, <4>2, Zenon
    <3> QED
      BY <3>8, <3>9
  <2> QED
    BY <2>3, <2>4, Zenon
<1> QED
  BY <1>8, <1>9

\* A turn of the stream.
LEMMA SentStream ==
  ASSUME LinkInv, FirmwareInv, SentInv, Stream
  PROVE  SentInv'
<1>1. UNCHANGED <<op, sent, lost, undrained>> /\ call = "stream" /\ rx' = <<>>
  BY DEF Stream
<1>2. receiver \in Receivers /\ rx \in Seq(Bytes) /\ parser \in Parsers
      /\ receiver.fw \in DOMAIN StatusLine
  BY DEF LinkInv, LinkTyped, Receivers
<1>3. PICK part \in Arrivals :
        LET p == Feed(parser, rx \o part)
            over == \E k \in DOMAIN p.texts : Contains(p.texts[k], "Stopped")
        IN \/ /\ p.bad /\ receiver' = Write(Taken(part), RESET) /\ call' = "redrain"
           \/ /\ p.bad /\ receiver' = Taken(part) /\ call' = "failed"
           \/ /\ ~p.bad /\ receiver' = Taken(part)
              /\ call' = IF over THEN "done" ELSE "stream"
              /\ parser' = [p EXCEPT !.sweeps = <<>>, !.texts = <<>>]
              /\ got' = got \o p.sweeps
  BY <1>1, Zenon DEF Stream
<1>4. PICK q : q = Feed(parser, rx \o part)
  OBVIOUS
<1>5. \/ q.bad /\ receiver' = Write(Taken(part), RESET) /\ call' = "redrain"
      \/ q.bad /\ receiver' = Taken(part) /\ call' = "failed"
      \/ /\ ~q.bad /\ receiver' = Taken(part) /\ call' \in {"done", "stream"}
         /\ parser' = Taking(q) /\ got' = got \o q.sweeps
  BY <1>3, <1>4, Zenon DEF Taking
<1>6. /\ Taken(part) \in Receivers /\ Taken(part).fw = receiver.fw /\ part \in Seq(Bytes)
      /\ \E k \in 1..Len(receiver.out) :
           /\ part = SubSeq(receiver.out, 1, k)
           /\ Taken(part).out = SubSeq(receiver.out, k + 1, Len(receiver.out))
  BY <1>2, ReadType
<1>7. receiver'.fw = receiver.fw
  <2>1. Write(Taken(part), RESET).fw = Taken(part).fw
    BY <1>6, CommandsType
  <2> QED
    BY <1>5, <1>6, <2>1, Zenon
<1>8. sent' \in Raw(receiver'.fw)
  BY <1>1, <1>7, Zenon DEF SentInv
<1>9. call' \in {"redrain", "failed", "done", "stream"}
  BY <1>5
<1>10. call' # "configure" /\ call' # "overview" /\ call' \notin {"drain", "id", "status", "configure"}
  BY <1>9
<1>11. CASE ~Clean
  <2>1. ~Clean'
    BY <1>1, <1>11 DEF Clean
  <2> QED
    BY <1>8, <1>10, <2>1, SentUnclean
<1>12. CASE Clean
  <2>1. PICK ten \in BOOLEAN : ten = Data10bit(receiver.fw)
    <3>1. \A f : Data10bit(f) \in BOOLEAN
      BY DEF Data10bit
    <3> QED
      BY <3>1, Zenon
  <2>2. /\ Streaming(ten) /\ sent \in Raw(receiver.fw)
        /\ op = "record" => Faithful(got, sent, ten)
    BY <1>1, <1>12, <2>1, Zenon DEF SentInv
  <2>3. rx = <<>> /\ got \in Seq(Seq(Lows))
    BY <2>2, Zenon DEF Streaming
  <2>4. PICK k \in 1..Len(receiver.out) :
          /\ part = SubSeq(receiver.out, 1, k)
          /\ Taken(part).out = SubSeq(receiver.out, k + 1, Len(receiver.out))
    BY <1>6
  <2>5. q = Feed(parser, SubSeq(receiver.out, 1, k))
    <3>1. \A s \in Seq(Bytes) : <<>> \o s = s
      OBVIOUS
    <3>2. rx \o part = part
      BY <1>6, <2>3, <3>1, Zenon
    <3> QED
      BY <1>4, <2>4, <3>2, Zenon
  <2>6. /\ q.bad = FALSE
        /\ Goes(q, k) => Streaming(ten)' /\ (Faithful(got, sent, ten) => Faithful(got', sent', ten))
    <3>1. CASE /\ sent = <<>> /\ got = <<>>
               /\ \E i \in 0..3 : Opening(parser, ten, i) /\ Rest(receiver.out, Greeting, i)
      <4>1. PICK i \in 0..3 : Opening(parser, ten, i) /\ Rest(receiver.out, Greeting, i)
        BY <3>1
      <4>2. q.bad = FALSE /\ (Goes(q, k) => Streaming(ten)' /\ got' = got)
        BY <1>2, <2>3, <2>5, <3>1, <4>1, StreamGreeting
      <4> QED
        BY <1>1, <4>2, Zenon
    <3>2. CASE receiver.out = <<>>
      <4>1. PICK o \in Seq(Bytes) : o = receiver.out /\ k \in 1..Len(o)
        BY <1>2 DEF Receivers
      <4> QED
        BY <3>2, <4>1
    <3>3. CASE /\ Len(sent) = Len(got) + 1
               /\ \E i \in 0..(Width * NChannels - 1) :
                    /\ Midst(parser, sent[Len(sent)], ten, i)
                    /\ Rest(receiver.out, Wire(sent[Len(sent)]), i)
      <4>1. PICK s : s = sent[Len(sent)]
        OBVIOUS
      <4>2. PICK i \in 0..(Width * NChannels - 1) :
              Midst(parser, s, ten, i) /\ Rest(receiver.out, Wire(s), i)
        BY <3>3, <4>1
      <4>3. s \in [1..NChannels -> Samples[receiver.fw]]
        <5>1. sent \in Seq([1..NChannels -> Samples[receiver.fw]])
          BY <2>2 DEF Raw
        <5>2. Len(sent) \in Nat /\ Len(sent) # 0
          BY <2>3, <3>3, <5>1
        <5> QED
          BY <4>1, <5>1, <5>2
      <4>4. s \in [1..NChannels -> Nat] /\ \A c \in 1..NChannels : Fits(s[c], ten)
        BY <1>2, <2>1, <4>3, SentFits, Zenon
      <4> QED
        BY <1>2, <2>3, <2>5, <3>3, <4>1, <4>2, <4>4, StreamSweep
    <3> QED
      BY <2>2, <3>1, <3>2, <3>3, Zenon DEF Streaming
  <2>7. /\ receiver' = Taken(part) /\ call' \in {"done", "stream"}
        /\ parser' = Taking(q) /\ got' = got \o q.sweeps
    BY <1>5, <2>6
  <2>8. Goes(q, k)
    BY <1>1, <2>4, <2>7, Zenon DEF Goes
  <2>9. Streaming(Data10bit(receiver.fw))'
    BY <1>7, <2>1, <2>6, <2>8, Zenon DEF Streaming
  <2>10. op' = "record" => Faithful(got', sent', Data10bit(receiver'.fw))
    BY <1>1, <1>7, <2>1, <2>2, <2>6, <2>8, Zenon
  <2>11. call' # "redrain"
    BY <2>7
  <2> HIDE DEF Clean, Raw, Faithful, Streaming
  <2> QED
    BY <1>8, <1>10, <2>9, <2>10, <2>11 DEF SentInv
<1> QED
  BY <1>11, <1>12

\* Every step keeps what was sent in the recording, the parser or on its way.
LEMMA SentNext ==
  ASSUME LinkInv, FirmwareInv, SentInv, [LinkNext]_linkVars
  PROVE  SentInv'
<1>1. CASE UNCHANGED linkVars
  <2>1. UNCHANGED <<receiver, call, op, rx, parser, got, lost, undrained, sent>>
    BY <1>1 DEF linkVars, driver
  <2>2. Clean' = Clean /\ (Streaming(Data10bit(receiver.fw))' <=> Streaming(Data10bit(receiver.fw)))
    BY <2>1, Zenon DEF Clean, Streaming
  <2> HIDE DEF Clean, Raw, Faithful, Streaming, Ready
  <2> QED
    BY <2>1, <2>2 DEF SentInv
<1> QED
  BY <1>1, SentSweep, SentLoseDigit, SentLoseReply, SentConnect, SentDrain, SentDrainEnds,
     SentFill, SentNoAnswer, SentIdentify, SentStatus, SentConfigure, SentStream, SentAgain,
     SentRestart, SentOther DEF LinkNext

\* The invariants of the profile and of the sweeps.
LEMMA SentAlways == LinkSpec => [](FirmwareInv /\ SentInv)
BY LinkAlways, FirmwareInit, FirmwareNext, SentInit, SentNext, PTL DEF LinkSpec

\* A prefix is given by its elements.
LEMMA PrefixIs ==
  ASSUME NEW X, NEW s \in Seq(X), NEW t \in Seq(X), Len(s) <= Len(t),
         \A k \in 1..Len(s) : s[k] = t[k]
  PROVE  IsPrefix(s, t)
<1>1. PICK m \in Nat, n \in Nat : m = 1 /\ n = Len(s)
  OBVIOUS
<1>2. (\A k \in m..n : s[k] \in X) /\ (\A k \in m..n : t[k] \in X)
  BY <1>1
<1>3. PICK a, b : a = SubSeq(s, m, n) /\ b = SubSeq(t, m, n)
  OBVIOUS
<1>4. /\ a \in Seq(X) /\ Len(a) = IF m <= n THEN n - m + 1 ELSE 0
      /\ \A i \in 1..(n - m + 1) : a[i] = s[m + i - 1]
  BY <1>1, <1>2, <1>3, SubSeqProperties
<1>5. /\ b \in Seq(X) /\ Len(b) = IF m <= n THEN n - m + 1 ELSE 0
      /\ \A i \in 1..(n - m + 1) : b[i] = t[m + i - 1]
  BY <1>1, <1>2, <1>3, SubSeqProperties
<1>6. Len(a) = Len(b) /\ \A i \in 1..Len(a) : a[i] = b[i]
  BY <1>1, <1>4, <1>5
<1>7. a = b
  BY <1>4, <1>5, <1>6, SeqIs
<1> QED
  BY <1>1, <1>3, <1>7, Zenon DEF IsPrefix

\* SweepsTrue: when all answers to RESET were read before S0 and no byte is lost, what
\* stream() yields is what the receiver measured, sweep for sweep from the first one, and
\* no sweep is false.  For every alphabet, sweep, number of sessions and chunking.
THEOREM SweepsTheorem == LinkSpec => [](~undrained /\ lost = 0 => SweepsTrue)
<1>1. ASSUME LinkInv, SentInv, ~undrained /\ lost = 0
      PROVE  SweepsTrue
  <2>1. SUFFICES ASSUME op = "record"
                 PROVE  /\ IsPrefix(got, [k \in DOMAIN sent |-> Normal(sent[k])])
                        /\ Cardinality({k \in DOMAIN got :
                             \A j \in DOMAIN sent : got[k] # Normal(sent[j])}) <= lost
    BY Zenon DEF SweepsTrue
  <2>2. PICK ten : ten = Data10bit(receiver.fw)
    OBVIOUS
  <2>3. Faithful(got, sent, ten) /\ sent \in Raw(receiver.fw)
    BY <1>1, <2>1, <2>2 DEF SentInv, Clean
  <2>4. got \in Seq(Seq(Lows)) /\ Len(got) <= Len(sent)
        /\ \A k \in 1..Len(got) : got[k] = LowerSweep(sent[k], ten)
    BY <2>3, Zenon DEF Faithful
  <2>5. \A s : Normal(s) = LowerSweep(s, ten)
    BY <2>2, Zenon DEF Normal, LowerSweep
  <2>6. PICK m \in Nat, n \in Nat :
          /\ m = Len(got) /\ DOMAIN got = 1..m /\ n = Len(sent) /\ DOMAIN sent = 1..n /\ m <= n
    BY <2>3, <2>4 DEF Raw
  <2>7. \A k \in 1..m : k \in 1..n /\ got[k] = Normal(sent[k])
    <3>1. \A k \in 1..m : k \in 1..n
      BY <2>6
    <3> QED
      BY <2>4, <2>5, <2>6, <3>1, Zenon
  <2>8. {k \in DOMAIN got : \A j \in DOMAIN sent : got[k] # Normal(sent[j])} = {}
    BY <2>6, <2>7, Zenon
  <2>9. IsPrefix(got, [k \in DOMAIN sent |-> Normal(sent[k])])
    <3> DEFINE X == {Normal(sent[k]) : k \in 1..n}
    <3>1. PICK t : t = [k \in DOMAIN sent |-> Normal(sent[k])]
      OBVIOUS
    <3>2. t \in [1..n -> X] /\ \A k \in 1..n : t[k] = Normal(sent[k])
      BY <2>6, <3>1, Zenon
    <3>3. \A k \in 1..m : got[k] \in X
      BY <2>7, Zenon
    <3> HIDE DEF X
    <3>4. t \in Seq(X) /\ Len(t) = n
      BY <3>2, ListIsSeq
    <3>5. got \in Seq(X)
      BY <2>4, <2>6, <3>3
    <3>6. \A k \in 1..m : got[k] = t[k]
      BY <2>7, <3>2, Zenon
    <3>7. IsPrefix(got, t)
      <4>1. Len(got) <= Len(t) /\ \A k \in 1..Len(got) : got[k] = t[k]
        BY <2>6, <3>4, <3>6, Zenon
      <4> QED
        BY <3>4, <3>5, <4>1, PrefixIs
    <3> QED
      BY <3>1, <3>7, Zenon
  <2>10. Cardinality({k \in DOMAIN got : \A j \in DOMAIN sent : got[k] # Normal(sent[j])}) <= lost
    <3>1. Cardinality({}) = 0 /\ 0 <= lost
      BY <1>1, FS_EmptySet
    <3> QED
      BY <2>8, <3>1, Zenon
  <2> QED
    BY <2>9, <2>10
<1> QED
  BY <1>1, LinkAlways, SentAlways, PTL

-----------------------------------------------------------------------------
(* The recording loop and the self-heal.                                   *)

USE DEF Pcs, Endings, history

-----------------------------------------------------------------------------
(* Lemmas about time and the deque. *)

\* The empty sequence is one over every set.
LEMMA EmptyIsSeq == \A S : <<>> \in Seq(S)
OBVIOUS

\* A capped sum stays within the cap.
LEMMA CappedType ==
  ASSUME NEW n \in Nat, NEW cap \in Nat
  PROVE  Capped(n, cap) \in 0..cap /\ Capped(n, cap) <= n
BY DEF Capped

\* Ageing keeps the length of the deque and the range of the ages.
LEMMA OlderType ==
  ASSUME resets \in Seq(0..AgeCap), NEW d \in Nat
  PROVE  Older(d) \in Seq(0..AgeCap) /\ Len(Older(d)) = Len(resets)
<1>1. AgeCap \in Nat BY TimeAssumption DEF AgeCap
<1>2. Len(resets) \in Nat /\ DOMAIN resets = 1..Len(resets) OBVIOUS
<1>3. \A i \in 1..Len(resets) : resets[i] \in Nat BY <1>1, <1>2
<1>4. \A i \in 1..Len(resets) : resets[i] + d \in Nat BY <1>3
<1>5. \A i \in 1..Len(resets) : Capped(resets[i] + d, AgeCap) \in 0..AgeCap
  BY <1>1, <1>4, CappedType
<1> QED BY <1>2, <1>5 DEF Older

\* The recent part of the deque is a sequence of ages, and no longer.
LEMMA RecentType ==
  ASSUME resets \in Seq(0..AgeCap)
  PROVE  Recent \in Seq(0..AgeCap) /\ Len(Recent) \in Nat /\ Len(Recent) <= Len(resets)
<1> DEFINE D == DOMAIN resets
           O == {i \in D : resets[i] > Window}
           old == Cardinality(O)
<1>1. Len(resets) \in Nat /\ D = 1..Len(resets) OBVIOUS
<1>2. IsFiniteSet(D) /\ Cardinality(D) = Len(resets) BY <1>1, FS_Interval
<1>3. O \in SUBSET D OBVIOUS
<1>4. IsFiniteSet(O) /\ old <= Len(resets) BY <1>2, <1>3, FS_Subset
<1>5. old \in Nat BY <1>4, FS_CardinalityType
<1> HIDE DEF O, old
<1>6. old + 1 \in Int /\ Len(resets) \in Int BY <1>1, <1>5
<1>7. \A i \in (old + 1)..Len(resets) : resets[i] \in 0..AgeCap
  <2>1. \A i \in (old + 1)..Len(resets) : i \in 1..Len(resets) BY <1>1, <1>5
  <2>2. \A i \in 1..Len(resets) : resets[i] \in 0..AgeCap
    BY ElementOfSeq
  <2> QED BY <2>1, <2>2
<1>8. /\ SubSeq(resets, old + 1, Len(resets)) \in Seq(0..AgeCap)
      /\ Len(SubSeq(resets, old + 1, Len(resets)))
           = IF old + 1 <= Len(resets) THEN Len(resets) - (old + 1) + 1 ELSE 0
  BY <1>6, <1>7, SubSeqProperties
<1>9. Recent = SubSeq(resets, old + 1, Len(resets)) BY DEF Recent, old, O
<1> QED BY <1>1, <1>4, <1>5, <1>8, <1>9

-----------------------------------------------------------------------------
(* Types. *)

\* A thread that delivers has a sweep to deliver, and a thread that reads,
\* delivers, checks or heals has no reason to end yet.
TypeInv ==
  /\ TypeOK
  /\ pc = "deliver" => chunk # <<>>
  /\ ending # None => pc \in {"flush", "close", "done"}

\* The start satisfies the types.
LEMMA TypeInit == Init => TypeInv
<1> SUFFICES ASSUME Init PROVE TypeInv OBVIOUS
<1>1. gap \in 0..GapCap BY TimeAssumption DEF Init, GapCap
<1>2. /\ resets \in Seq(0..AgeCap) /\ chunk \in Seq(Nat) /\ batch \in Seq(Nat)
      /\ filed \in Seq(Nat) /\ acquired \in Seq(Nat)
  BY EmptyIsSeq, Zenon DEF Init
<1>3. nsweep \in Nat /\ faults \in Nat /\ holds \in Nat BY DEF Init
<1>4. pc \in Pcs /\ ending \in Endings /\ dev \in {"ok"} \cup Kinds
  BY DEF Init
<1>5. running \in BOOLEAN /\ unwritten \in BOOLEAN /\ held \in BOOLEAN
  BY Zenon DEF Init
<1>6. pc # "deliver" /\ ending = None BY DEF Init
<1> QED BY <1>1, <1>2, <1>3, <1>4, <1>5, <1>6, Zenon DEF TypeInv, TypeOK

\* Every step of the recording keeps the types.
LEMMA TypeStep ==
  ASSUME TypeInv, [Next]_vars
  PROVE  TypeInv'
<1> USE TimeAssumption, NoneAssumption, BoundAssumption
<1>a. GapCap \in Nat /\ AgeCap \in Nat /\ gap \in Nat
  BY DEF GapCap, AgeCap, TypeInv, TypeOK
<1>b. ASSUME NEW d \in Nat
      PROVE  /\ Capped(gap + d, GapCap) \in 0..GapCap
             /\ Capped(d, GapCap) \in 0..GapCap
             /\ Older(d) \in Seq(0..AgeCap)
  <2>1. gap + d \in Nat BY <1>a
  <2>2. Capped(gap + d, GapCap) \in 0..GapCap BY <1>a, <2>1, CappedType
  <2>3. Capped(d, GapCap) \in 0..GapCap BY <1>a, CappedType
  <2>4. Older(d) \in Seq(0..AgeCap) BY OlderType DEF TypeInv, TypeOK
  <2> QED BY <2>2, <2>3, <2>4
<1>e. ASSUME NEW why \in {"stop", "loss", "error", "fatal"}, Ends(why)
      PROVE  /\ ending' \in Endings /\ chunk' \in Seq(Nat)
             /\ pc' \in {"flush", "close"}
  <2>1. chunk' \in Seq(Nat) BY <1>e, EmptyIsSeq, Zenon DEF Ends
  <2>2. ending' \in Endings /\ pc' \in {"flush", "close"} BY <1>e DEF Ends
  <2> QED BY <2>1, <2>2
<1>c. Recent \in Seq(0..AgeCap) BY RecentType DEF TypeInv, TypeOK
<1>1. CASE ReadSweeps
  <2>1. PICK k \in 1..MaxChunk :
          nsweep' = nsweep + k /\ chunk' = [i \in 1..k |-> nsweep + i]
    BY <1>1 DEF ReadSweeps
  <2>2. chunk' \in Seq(Nat) /\ Len(chunk') = k
    BY <2>1 DEF TypeInv, TypeOK
  <2>3. chunk' # <<>> BY <2>2
  <2>4. nsweep' \in Nat BY <2>1 DEF TypeInv, TypeOK
  <2> QED BY <1>1, <2>2, <2>3, <2>4 DEF ReadSweeps, TypeInv, TypeOK
<1>2. CASE ReadNothing
  <2>1. gap' \in 0..GapCap /\ resets' \in Seq(0..AgeCap)
    BY <1>2, <1>b DEF ReadNothing, Pass
  <2> QED BY <1>2, <2>1 DEF ReadNothing, TypeInv, TypeOK
<1>3. CASE ReadStopped BY <1>3 DEF ReadStopped, TypeInv, TypeOK
<1>4. CASE ReadCorrupt BY <1>4 DEF ReadCorrupt, TypeInv, TypeOK
<1>5. CASE ReadError BY <1>5 DEF ReadError, TypeInv, TypeOK
<1>6. CASE Check BY <1>6 DEF Check, TypeInv, TypeOK
<1>7. CASE Deliver
  <2>1. Head(chunk) \in Nat /\ Tail(chunk) \in Seq(Nat)
    BY <1>7, HeadTailProperties DEF Deliver, TypeInv, TypeOK
  <2>2. batch' \in Seq(Nat) /\ acquired' \in Seq(Nat) /\ chunk' \in Seq(Nat)
    BY <1>7, <2>1, AppendProperties DEF Deliver, TypeInv, TypeOK
  <2>3. gap' \in 0..GapCap /\ resets' \in Seq(0..AgeCap)
    BY <1>7, <1>b DEF Deliver
  <2>5. held' \in BOOLEAN /\ holds' \in Nat
    BY <1>7 DEF Deliver, Late, TypeInv, TypeOK
  <2>4. pc' \in {"flush", "deliver", "check"} /\ (pc' = "deliver" => chunk' # <<>>)
    BY <1>7 DEF Deliver
  <2> QED BY <1>7, <2>2, <2>3, <2>4, <2>5 DEF Deliver, TypeInv, TypeOK
<1>8. CASE Reject BY <1>8, <1>e DEF Reject, TypeInv, TypeOK
<1>9. CASE Flush
  <2>1. filed' \in Seq(Nat) /\ batch' \in Seq(Nat)
    BY <1>9, ConcatProperties DEF Flush, TypeInv, TypeOK
  <2>2. gap' \in 0..GapCap /\ resets' \in Seq(0..AgeCap)
    BY <1>9, <1>b DEF Flush, Pass
  <2>4. held' \in BOOLEAN /\ holds' \in Nat
    BY <1>9 DEF Flush, Late, TypeInv, TypeOK
  <2>3. /\ pc' \in {"close", "deliver", "check"} /\ chunk' \in Seq(Nat)
        /\ ending' \in Endings
        /\ pc' = "deliver" => chunk' # <<>>
        /\ ending' # None => pc' = "close"
    <3>1. CASE /\ pc' = IF ending # None THEN "close"
                        ELSE IF chunk # <<>> THEN "deliver" ELSE "check"
               /\ UNCHANGED <<ending, chunk>>
      BY <3>1 DEF TypeInv, TypeOK
    <3>2. CASE pc' = "close" /\ ending' = "error" /\ chunk' = <<>>
      BY <3>2, EmptyIsSeq
    <3> QED BY <1>9, <3>1, <3>2 DEF Flush
  <2> QED BY <1>9, <2>1, <2>2, <2>3, <2>4 DEF Flush, TypeInv, TypeOK
<1>10. CASE FlushFails BY <1>10 DEF FlushFails, TypeInv, TypeOK
<1>11. CASE StreamEnds BY <1>11, <1>e DEF StreamEnds, TypeInv, TypeOK
<1>12. CASE Close BY <1>12 DEF Close, TypeInv, TypeOK
<1>13. CASE GiveUp BY <1>13, <1>c, <1>e DEF GiveUp, TypeInv, TypeOK
<1>14. CASE Reset
  <2>1. resets' \in Seq(0..AgeCap)
    BY <1>14, <1>a, <1>c, AppendProperties DEF Reset
  <2>2. dev' \in {"ok"} \cup Kinds BY <1>14 DEF Reset, Healed, TypeInv, TypeOK
  <2>3. gap' \in 0..GapCap /\ pc' \in {"read", "drain"}
    BY <1>14, <1>a DEF Reset, TypeInv, TypeOK
  <2> QED BY <1>14, <2>1, <2>2, <2>3 DEF Reset, TypeInv, TypeOK
<1>15. CASE Drained
  <2>1. gap' \in 0..GapCap /\ resets' \in Seq(0..AgeCap)
    BY <1>15, <1>a, <1>b DEF Drained
  <2> QED BY <1>15, <2>1 DEF Drained, TypeInv, TypeOK
<1>16. CASE Stop BY <1>16 DEF Stop, TypeInv, TypeOK
<1>17. CASE Break BY <1>17 DEF Break, TypeInv, TypeOK
<1>18. CASE UNCHANGED vars BY <1>18 DEF vars, TypeInv, TypeOK
<1> QED BY <1>1, <1>2, <1>3, <1>4, <1>5, <1>6, <1>7, <1>8, <1>9, <1>10, <1>11,
           <1>12, <1>13, <1>14, <1>15, <1>16, <1>17, <1>18 DEF Next, Thread, Read

\* TypeInv holds throughout.
LEMMA TypeInvariant == Spec => []TypeInv
<1>1. Init => TypeInv BY TypeInit
<1>2. TypeInv /\ [Next]_vars => TypeInv' BY TypeStep
<1> QED BY <1>1, <1>2, PTL DEF Spec

\* Every reachable state of the recording has the declared types.
THEOREM TypeCorrect == Spec => []TypeOK
<1>1. TypeInv => TypeOK BY DEF TypeInv
<1> QED BY <1>1, TypeInvariant, PTL

-----------------------------------------------------------------------------
(* No sweep is lost. *)

\* Files and current batch together are what the consumer accepted; the
\* batch is empty once the flush of the `finally' is over.
FlushInv ==
  /\ ~unwritten => filed \o batch = acquired
  /\ pc \in {"close", "done"} => batch = <<>>

\* Leaving the loop over the stream does not skip a flush.
LEMMA EndsFlushes ==
  ASSUME NEW why, Ends(why), FlushInv, UNCHANGED <<batch, filed, acquired, unwritten>>
  PROVE  FlushInv'
BY DEF Ends, FlushInv

\* Every step of the recording keeps FlushInv.
LEMMA FlushStep ==
  ASSUME TypeInv, FlushInv, [Next]_vars
  PROVE  FlushInv'
<1>1. CASE ReadSweeps BY <1>1 DEF ReadSweeps, FlushInv
<1>2. CASE ReadNothing BY <1>2 DEF ReadNothing, FlushInv
<1>3. CASE ReadStopped BY <1>3 DEF ReadStopped, FlushInv
<1>4. CASE ReadCorrupt BY <1>4 DEF ReadCorrupt, FlushInv
<1>5. CASE ReadError BY <1>5 DEF ReadError, FlushInv
<1>6. CASE Check BY <1>6 DEF Check, FlushInv
<1>7. CASE Deliver
  <2> DEFINE e == Head(chunk)
  <2>1. e \in Nat BY <1>7, HeadTailProperties DEF Deliver, TypeInv, TypeOK
  <2>2. batch \in Seq(Nat) /\ filed \in Seq(Nat) /\ acquired \in Seq(Nat)
    BY DEF TypeInv, TypeOK
  <2>3. batch' = Append(batch, e) /\ acquired' = Append(acquired, e)
        /\ filed' = filed /\ unwritten' = unwritten
    BY <1>7 DEF Deliver
  <2> HIDE DEF e
  <2>4. Append(batch, e) = batch \o <<e>> /\ Append(acquired, e) = acquired \o <<e>>
    BY <2>1, <2>2, AppendIsConcat
  <2>5. <<e>> \in Seq(Nat) BY <2>1
  <2>6. filed \o (batch \o <<e>>) = (filed \o batch) \o <<e>>
    BY <2>2, <2>5, ConcatAssociative
  <2>7. ~unwritten' => filed' \o batch' = acquired'
    BY <2>3, <2>4, <2>6, Zenon DEF FlushInv
  <2>8. pc' \notin {"close", "done"} BY <1>7 DEF Deliver
  <2> QED BY <2>7, <2>8 DEF FlushInv
<1>8. CASE Reject BY <1>8, EndsFlushes DEF Reject
<1>9. CASE Flush
  <2>1. batch' = <<>> /\ filed' = filed \o batch
        /\ acquired' = acquired /\ unwritten' = unwritten
    BY <1>9 DEF Flush
  <2>2. filed \o batch \in Seq(Nat)
    BY ConcatProperties DEF TypeInv, TypeOK
  <2>3. (filed \o batch) \o <<>> = filed \o batch BY <2>2, ConcatEmptySeq
  <2> QED BY <2>1, <2>3, Zenon DEF FlushInv
<1>10. CASE FlushFails BY <1>10 DEF FlushFails, FlushInv
<1>11. CASE StreamEnds BY <1>11, EndsFlushes DEF StreamEnds
<1>12. CASE Close BY <1>12 DEF Close, FlushInv
<1>13. CASE GiveUp BY <1>13, EndsFlushes DEF GiveUp
<1>14. CASE Reset BY <1>14 DEF Reset, FlushInv
<1>15. CASE Drained BY <1>15 DEF Drained, FlushInv
<1>16. CASE Stop BY <1>16 DEF Stop, FlushInv
<1>17. CASE Break BY <1>17 DEF Break, FlushInv
<1>18. CASE UNCHANGED vars BY <1>18 DEF vars, FlushInv
<1> QED BY <1>1, <1>2, <1>3, <1>4, <1>5, <1>6, <1>7, <1>8, <1>9, <1>10, <1>11,
           <1>12, <1>13, <1>14, <1>15, <1>16, <1>17, <1>18 DEF Next, Thread, Read

\* record_continuous: "acquired sweeps are never lost".  Whatever ends the
\* recording, and for any number of sweeps and any file length, the files hold
\* the accepted sweeps in order, unless a file could not be written.
THEOREM NothingLostTheorem == Spec => []NothingLost
<1>1. Init => FlushInv
  <2>1. <<>> \o <<>> = <<>> BY EmptyIsSeq, ConcatEmptySeq
  <2> QED BY <2>1 DEF Init, FlushInv
<1>2. TypeInv /\ FlushInv /\ [Next]_vars => FlushInv' BY FlushStep
<1>3. TypeInv /\ FlushInv => NothingLost
  <2> SUFFICES ASSUME TypeInv, FlushInv, pc \in {"close", "done"}, ~unwritten
               PROVE  filed = acquired
    BY DEF NothingLost
  <2>1. batch = <<>> /\ filed \o batch = acquired BY DEF FlushInv
  <2>2. filed \o <<>> = filed BY ConcatEmptySeq DEF TypeInv, TypeOK
  <2> QED BY <2>1, <2>2
<1> QED BY <1>1, <1>2, <1>3, TypeInvariant, PTL DEF Spec

-----------------------------------------------------------------------------
(* A receiver that sends is left alone. *)

\* While a healthy receiver is read, its last sweep is recent, or it was the
\* consumer that let the time pass.
HealthyInv ==
  /\ dev = "ok" /\ pc \in {"read", "deliver", "check", "flush"} /\ ending = None
       => gap <= Timeout \/ held
  /\ HealthyLeftAlone

\* Every step keeps HealthyInv, when the receiver sends in time.
LEMMA HealthyStep ==
  ASSUME Period <= Timeout, TypeInv, HealthyInv, [Next]_vars
  PROVE  HealthyInv'
<1> USE TimeAssumption, NoneAssumption DEF HealthyLeftAlone
<1>a. GapCap \in Nat /\ gap \in Nat BY DEF GapCap, TypeInv, TypeOK
<1>1. CASE ReadSweeps BY <1>1 DEF ReadSweeps, HealthyInv
<1>2. CASE ReadNothing
  <2>1. gap' <= gap + 1 BY <1>2, <1>a, CappedType DEF ReadNothing, Pass
  <2>2. gap' \in Nat BY <1>2, <1>a, CappedType DEF ReadNothing, Pass
  <2> QED BY <1>2, <1>a, <2>1, <2>2 DEF ReadNothing, HealthyInv
<1>3. CASE ReadStopped BY <1>3 DEF ReadStopped, HealthyInv
<1>4. CASE ReadCorrupt BY <1>4 DEF ReadCorrupt, HealthyInv
<1>5. CASE ReadError BY <1>5 DEF ReadError, HealthyInv
<1>6. CASE Check
  BY <1>6, <1>a DEF Check, Stalled, HealthyInv, TypeInv
<1>7. CASE Deliver
  <2>1. PICK d \in 0..MaxSlow : gap' = Capped(d, GapCap) /\ held' = Late(0, d)
    BY <1>7 DEF Deliver
  <2>2. gap' <= d /\ gap' \in Nat BY <1>a, <2>1, CappedType
  <2>3. d <= Timeout \/ Late(0, d) BY DEF Late
  <2>5. d <= Timeout => gap' <= Timeout BY <2>2
  <2>6. gap' <= Timeout \/ held' BY <2>1, <2>3, <2>5, Zenon
  <2>4. pc' # "stall" BY <1>7 DEF Deliver
  <2> QED BY <2>4, <2>6 DEF HealthyInv
<1>8. CASE Reject BY <1>8 DEF Reject, Ends, HealthyInv
<1>9. CASE Flush
  <2>1. PICK d \in 0..MaxSlow :
          gap' = Capped(gap + d, GapCap) /\ held' = (held \/ Late(gap, d))
    BY <1>9 DEF Flush, Pass
  <2>2. gap + d \in Nat BY <1>a
  <2>3. gap' <= gap + d /\ gap' \in Nat BY <1>a, <2>1, <2>2, CappedType
  <2>6. gap <= Timeout => gap + d <= Timeout \/ Late(gap, d)
    BY <1>a DEF Late
  <2>7. gap + d <= Timeout => gap' <= Timeout BY <2>2, <2>3
  <2>4. gap <= Timeout \/ held => gap' <= Timeout \/ held'
    BY <2>1, <2>6, <2>7, Zenon
  <2>5. /\ pc = "flush" /\ pc' # "stall" /\ dev' = dev
        /\ ending' = None => ending = None
    BY <1>9 DEF Flush
  <2> QED BY <2>4, <2>5 DEF HealthyInv
<1>10. CASE FlushFails BY <1>10 DEF FlushFails, HealthyInv
<1>11. CASE StreamEnds BY <1>11 DEF StreamEnds, Ends, HealthyInv
<1>12. CASE Close BY <1>12 DEF Close, HealthyInv
<1>13. CASE GiveUp BY <1>13 DEF GiveUp, Ends, HealthyInv
<1>14. CASE Reset BY <1>14 DEF Reset, HealthyInv
<1>15. CASE Drained BY <1>15 DEF Drained, HealthyInv
<1>16. CASE Stop BY <1>16 DEF Stop, HealthyInv
<1>17. CASE Break
  BY <1>17, KindAssumption DEF Break, HealthyInv, Curable, Hopeless
<1>18. CASE UNCHANGED vars BY <1>18 DEF vars, HealthyInv
<1> QED BY <1>1, <1>2, <1>3, <1>4, <1>5, <1>6, <1>7, <1>8, <1>9, <1>10, <1>11,
           <1>12, <1>13, <1>14, <1>15, <1>16, <1>17, <1>18 DEF Next, Thread, Read

\* HealthyInv holds throughout.
LEMMA HealthyInvariant ==
  ASSUME Period <= Timeout
  PROVE  Spec => []HealthyInv
<1>1. Init => HealthyInv BY TimeAssumption DEF Init, HealthyInv, HealthyLeftAlone
<1>2. TypeInv /\ HealthyInv /\ [Next]_vars => HealthyInv' BY HealthyStep
<1> QED BY <1>1, <1>2, TypeInvariant, PTL DEF Spec

\* stream(): a receiver that sends in time is reset for a stall only after a
\* turn of the consumer that outlasted the timeout, however long the consumer
\* and earlier resets may take.
THEOREM HealthyTheorem ==
  ASSUME Period <= Timeout
  PROVE  Spec => []HealthyLeftAlone
<1>1. HealthyInv => HealthyLeftAlone BY DEF HealthyInv
<1> QED BY <1>1, HealthyInvariant, PTL

-----------------------------------------------------------------------------
(* The reset budget. *)

\* What may cost a reset: a fault, or a turn in which the consumer outlasts the
\* timeout.
Incidents == faults + holds

\* An incident whose reset is still to come, although the receiver sends.
Owing == pc = "fault" \/ held

\* Resets are paid for by incidents: one each, and the first of a window may
\* cost two, since a soft reset does not cure everything.
PaidInv ==
  /\ dev # "ok" => faults >= 1
  /\ dev = "ok" /\ ~Owing
       => Len(resets) <= IF Incidents = 0 THEN 0 ELSE Incidents + 1
  /\ dev = "ok" /\ Owing => Len(resets) <= Incidents /\ Incidents >= 1
  /\ dev \in Curable => Len(resets) <= Incidents
  /\ FatalJustified

\* A step that only lets time pass keeps PaidInv.
LEMMA PaidWait ==
  ASSUME PaidInv, Len(resets') = Len(resets),
         UNCHANGED <<dev, faults, held, holds>>,
         pc' = "fault" => pc = "fault", pc = "fault" => pc' = "fault" \/ dev # "ok",
         ending' = "fatal" => ending = "fatal"
  PROVE  PaidInv'
BY DEF PaidInv, FatalJustified, Incidents, Owing

\* A turn of the consumer keeps PaidInv: it is an incident when it is slow.
LEMMA PaidTurn ==
  ASSUME TypeInv, PaidInv, Len(resets') = Len(resets), UNCHANGED <<dev, faults>>,
         NEW slow \in BOOLEAN,
         holds' = IF slow THEN holds + 1 ELSE holds,
         held' => held \/ slow,
         pc \notin {"fault"}, pc' \notin {"fault"},
         ending' = "fatal" => ending = "fatal"
  PROVE  PaidInv'
<1>1. faults \in Nat /\ holds \in Nat /\ Len(resets) \in Nat
  BY DEF TypeInv, TypeOK
<1>2. CASE slow
  BY <1>1, <1>2, NoneAssumption, BudgetAssumption
     DEF PaidInv, FatalJustified, Incidents, Owing
<1>3. CASE ~slow
  BY <1>1, <1>3, NoneAssumption, BudgetAssumption
     DEF PaidInv, FatalJustified, Incidents, Owing
<1> QED BY <1>2, <1>3

\* Every step keeps PaidInv.
LEMMA PaidStep ==
  ASSUME TypeInv, HealthyInv, PaidInv, [Next]_vars
  PROVE  PaidInv'
<1> USE NoneAssumption, BudgetAssumption DEF Incidents
<1>a. /\ faults \in Nat /\ holds \in Nat /\ held \in BOOLEAN
      /\ resets \in Seq(0..AgeCap) /\ Len(resets) \in Nat
  BY DEF TypeInv, TypeOK
<1>b. Recent \in Seq(0..AgeCap) /\ Len(Recent) \in Nat /\ Len(Recent) <= Len(resets)
  BY <1>a, RecentType
<1>c. \A d \in Nat : Len(Older(d)) = Len(resets) BY <1>a, OlderType
<1>k. dev = "ok" \/ dev \in Curable \/ dev \in Hopeless
  BY KindAssumption DEF TypeInv, TypeOK
<1>n. "ok" \notin Curable /\ "ok" \notin Hopeless /\ Curable \cap Hopeless = {}
  BY DEF Curable, Hopeless
<1>p. dev = "ok" /\ pc \in {"stall", "fault"} => Owing
  BY DEF HealthyInv, HealthyLeftAlone, Owing
<1>1. CASE ReadSweeps BY <1>1, PaidWait DEF ReadSweeps
<1>2. CASE ReadNothing BY <1>2, <1>c, PaidWait DEF ReadNothing, Pass
<1>3. CASE ReadStopped BY <1>3, PaidWait DEF ReadStopped
<1>4. CASE ReadCorrupt
  <2>1. /\ pc = "read" /\ pc' = "fault" /\ dev = "ok" /\ dev' = dev
        /\ resets' = resets /\ faults' = faults + 1 /\ ending' = ending
        /\ UNCHANGED <<held, holds>>
    BY <1>4 DEF ReadCorrupt
  <2> QED BY <2>1, <1>a, <1>n DEF PaidInv, FatalJustified, Owing
<1>5. CASE ReadError
  <2>1. /\ pc = "read" /\ dev # "ok"
        /\ UNCHANGED <<dev, faults, resets, ending, held, holds>>
    BY <1>5 DEF ReadError
  <2> QED BY <2>1 DEF PaidInv, FatalJustified
<1>6. CASE Check
  <2>1. /\ pc = "check" /\ pc' # "fault"
        /\ UNCHANGED <<dev, faults, resets, ending, held, holds>>
    BY <1>6 DEF Check
  <2> QED BY <2>1, PaidWait
<1>7. CASE Deliver
  <2>1. PICK d \in 0..MaxSlow :
          /\ resets' = Older(d) /\ held' = Late(0, d)
          /\ holds' = IF Late(0, d) THEN holds + 1 ELSE holds
    BY <1>7 DEF Deliver
  <2>2. /\ pc = "deliver" /\ pc' # "fault" /\ Len(resets') = Len(resets)
        /\ UNCHANGED <<dev, faults, ending>>
    BY <1>7, <1>c, <2>1 DEF Deliver
  <2>3. Late(0, d) \in BOOLEAN BY DEF Late
  <2> QED BY <2>1, <2>2, <2>3, PaidTurn
<1>8. CASE Reject
  <2>1. /\ pc = "deliver" /\ pc' # "fault" /\ ending' # "fatal"
        /\ UNCHANGED <<dev, faults, resets, held, holds>>
    BY <1>8 DEF Reject, Ends
  <2> QED BY <2>1, PaidWait
<1>9. CASE Flush
  <2>1. PICK d \in 0..MaxSlow :
          /\ resets' = Older(d) /\ held' = (held \/ Late(gap, d))
          /\ holds' = IF Late(gap, d) THEN holds + 1 ELSE holds
    BY <1>9 DEF Flush, Pass
  <2>2. /\ pc = "flush" /\ pc' # "fault" /\ Len(resets') = Len(resets)
        /\ UNCHANGED <<dev, faults>> /\ (ending' = "fatal" => ending = "fatal")
    BY <1>9, <1>c, <2>1 DEF Flush
  <2>3. Late(gap, d) \in BOOLEAN BY DEF Late
  <2> QED BY <2>1, <2>2, <2>3, PaidTurn
<1>10. CASE FlushFails
  <2>1. /\ pc = "flush" /\ pc' # "fault" /\ ending' # "fatal"
        /\ UNCHANGED <<dev, faults, resets, held, holds>>
    BY <1>10 DEF FlushFails
  <2> QED BY <2>1, PaidWait
<1>11. CASE StreamEnds
  <2>1. /\ pc = "read" /\ pc' # "fault" /\ ending' # "fatal"
        /\ UNCHANGED <<dev, faults, resets, held, holds>>
    BY <1>11 DEF StreamEnds, Ends
  <2> QED BY <2>1, PaidWait
<1>12. CASE Close
  <2>1. /\ pc = "close" /\ pc' # "fault"
        /\ UNCHANGED <<dev, faults, resets, ending, held, holds>>
    BY <1>12 DEF Close
  <2> QED BY <2>1, PaidWait
<1>13. CASE GiveUp
  <2>1. /\ pc \in {"stall", "fault"} /\ pc' \notin {"stall", "fault"}
        /\ Len(Recent) >= Budget /\ resets' = Recent
        /\ UNCHANGED <<dev, faults, held, holds>>
    BY <1>13 DEF GiveUp, Ends
  <2>2. dev = "ok" => Len(Recent) <= Incidents /\ Incidents >= 1
    BY <2>1, <1>a, <1>b, <1>p DEF PaidInv
  <2>3. dev \in Hopeless \/ Incidents >= Budget
    <3>1. CASE dev = "ok" BY <2>1, <2>2, <3>1, <1>a, <1>b
    <3>2. CASE dev \in Curable BY <2>1, <3>2, <1>a, <1>b DEF PaidInv
    <3> QED BY <3>1, <3>2, <1>k
  <2> QED BY <2>1, <2>2, <2>3, <1>a, <1>b DEF PaidInv, FatalJustified
<1>14. CASE Reset
  <2>1. /\ pc \in {"stall", "fault"} /\ pc' \in {"read", "drain"} /\ ~held'
        /\ resets' = Append(Recent, 0) /\ dev' = Healed(Escalate)
        /\ UNCHANGED <<faults, ending, holds>>
    BY <1>14 DEF Reset
  <2>2. Len(resets') = Len(Recent) + 1
    <3>1. 0 \in 0..AgeCap BY TimeAssumption DEF AgeCap
    <3> QED BY <2>1, <3>1, <1>b, AppendProperties
  <2>3. Incidents >= 1 /\ (dev = "ok" => Len(resets) <= Incidents)
    BY <2>1, <1>a, <1>p DEF PaidInv
  <2>4. ending' # "fatal" BY <2>1 DEF TypeInv
  <2>5. CASE dev' = "ok"
    <3>1. dev \notin Hopeless BY <2>1, <2>5, <1>n DEF Healed, Curable, Hopeless
    <3>2. Len(resets) <= Incidents BY <3>1, <2>3, <1>k DEF PaidInv
    <3>3. ~Owing' BY <2>1 DEF Owing
    <3> QED BY <2>1, <2>2, <2>3, <2>4, <2>5, <3>2, <3>3, <1>a, <1>b, <1>n
            DEF PaidInv, FatalJustified
  <2>6. CASE dev' \in Curable
    <3>1. ~Escalate BY <2>1, <2>6 DEF Healed, Curable
    <3>2. Len(resets') = 1 BY <3>1, <2>2, <1>b DEF Escalate
    <3>3. dev' = dev /\ dev # "ok" BY <2>1, <2>6, <1>n DEF Healed
    <3>4. faults >= 1 BY <3>3 DEF PaidInv
    <3> QED BY <2>1, <2>3, <2>4, <3>2, <3>3, <3>4, <1>a, <1>n
            DEF PaidInv, FatalJustified
  <2>7. CASE dev' \in Hopeless
    <3>1. dev' # "ok" /\ dev' \notin Curable BY <2>7, <1>n
    <3>2. dev' = dev BY <2>1, <3>1 DEF Healed
    <3>3. faults >= 1 BY <3>1, <3>2 DEF PaidInv
    <3> QED BY <2>1, <2>4, <3>1, <3>3 DEF PaidInv, FatalJustified
  <2>8. dev' = "ok" \/ dev' = dev BY <2>1 DEF Healed
  <2> QED BY <2>5, <2>6, <2>7, <2>8, <1>k
<1>15. CASE Drained
  <2>1. /\ pc = "drain" /\ pc' # "fault" /\ Len(resets') = Len(resets)
        /\ UNCHANGED <<dev, faults, ending, held, holds>>
    BY <1>15, <1>c DEF Drained
  <2> QED BY <2>1, PaidWait
<1>16. CASE Stop
  <2>1. UNCHANGED <<pc, dev, faults, resets, ending, held, holds>>
    BY <1>16 DEF Stop
  <2> QED BY <2>1, PaidWait
<1>17. CASE Break
  <2>1. /\ dev = "ok" /\ dev' \in Kinds /\ faults' = faults + 1
        /\ UNCHANGED <<pc, resets, ending, held, holds>>
    BY <1>17 DEF Break
  <2>2. dev' # "ok" BY <2>1, <1>n, KindAssumption
  <2>3. Len(resets) <= Incidents + 1 BY <2>1, <1>a DEF PaidInv
  <2> QED BY <2>1, <2>2, <2>3, <1>a, <1>n DEF PaidInv, FatalJustified
<1>18. CASE UNCHANGED vars BY <1>18 DEF vars, PaidInv, FatalJustified, Owing
<1> QED BY <1>1, <1>2, <1>3, <1>4, <1>5, <1>6, <1>7, <1>8, <1>9, <1>10, <1>11,
           <1>12, <1>13, <1>14, <1>15, <1>16, <1>17, <1>18 DEF Next, Thread, Read

\* _recover: when the receiver sends in time, FatalInstrumentError is raised
\* only for a receiver beyond repair, or after Budget faults and turns of the
\* consumer that outlasted the timeout, whatever the budget and the window are.
THEOREM FatalTheorem ==
  ASSUME Period <= Timeout
  PROVE  Spec => []FatalJustified
<1>1. Init => PaidInv
  BY NoneAssumption DEF Init, PaidInv, FatalJustified, Curable, Incidents, Owing
<1>2. TypeInv /\ HealthyInv /\ PaidInv /\ [Next]_vars => PaidInv' BY PaidStep
<1>3. PaidInv => FatalJustified BY DEF PaidInv
<1> QED BY <1>1, <1>2, <1>3, TypeInvariant, HealthyInvariant, PTL DEF Spec
=============================================================================
