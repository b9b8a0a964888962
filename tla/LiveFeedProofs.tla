--------------------------- MODULE LiveFeedProofs ---------------------------
(***************************************************************************)
(* Proofs about LiveFeed: every viewer gets the frames of its instrument   *)
(* once and in order, and all of them while its queue has room.            *)
(***************************************************************************)
EXTENDS LiveFeed, SequenceTheorems, WellFoundedInduction, TLAPS

-----------------------------------------------------------------------------
(* The inductive invariant. *)

Frame == Instr \X Nat
Datagram == Frame \cup {Junk}
Fan == [frame : Datagram, to : Seq(Conns)]

TypeOK ==
  /\ web \in [up : BOOLEAN, listening : BOOLEAN]
  /\ made \in [Instr -> Nat]
  /\ net \in Seq(Datagram)
  /\ subs \in [Instr -> Seq(Conns)]
  /\ fan \in [Threads -> Fan]
  /\ queue \in [Conns -> Seq(Frame)]
  /\ pc \in [Conns -> {"new", "loop", "send", "off"}]
  /\ watch \in [Conns -> Instr]
  /\ held \in [Conns -> Seq(Frame)]
  /\ idle \in [Conns -> Nat]
  /\ status \in [Conns -> {"none", "live", "stalled"}]
  /\ log \in [Instr -> Seq(Frame)]
  /\ since \in [Conns -> Nat]
  /\ seen \in [Conns -> Seq(Frame)]
  /\ full \in [Conns -> BOOLEAN]
  /\ stray \in Nat /\ crashes \in Nat

\* The thread that publishes the frames of an instrument in the web process.
Publisher(i) == IF i \in Remote THEN Listener ELSE i

Distinct(s) == \A j, k \in DOMAIN s : s[j] = s[k] => j = k
Listed(s, x) == \E k \in DOMAIN s : s[k] = x

\* The frames of an instrument that reached the hub, in the order of recording.
LogOk(i) ==
  /\ \A k \in DOMAIN log[i] : log[i][k][1] = i /\ log[i][k][2] <= made[i]
  /\ \A j, k \in DOMAIN log[i] : j < k => log[i][j][2] < log[i][k][2]

\* A frame on its way from the daemon is newer than those that arrived, and the
\* frames of an instrument keep their order.
NetOk(k) ==
  LET i == net[k][1]
  IN  net[k] # Junk =>
        /\ i \in Remote /\ net[k][2] <= made[i]
        /\ \A l \in DOMAIN log[i] : log[i][l][2] < net[k][2]
        /\ \A j \in DOMAIN net :
             j < k /\ net[j] # Junk /\ net[j][1] = i => net[j][2] < net[k][2]

\* The subscribers of an instrument are its open connections.
SubsOk(i) ==
  /\ Distinct(subs[i])
  /\ \A c \in Conns : Listed(subs[i], c) <=> c \in Open /\ watch[c] = i

\* What a thread puts is the last frame of the log, for viewers of the
\* instrument that subscribed before it came.
FanOk(t) ==
  LET f == fan[t].frame
  IN  fan[t].to # <<>> =>
        /\ f \in Frame /\ Publisher(f[1]) = t
        /\ log[f[1]] # <<>> /\ f = log[f[1]][Len(log[f[1]])]
        /\ Distinct(fan[t].to)
        /\ \A c \in Conns : Listed(fan[t].to, c) =>
             /\ watch[c] = f[1] /\ pc[c] # "new"
             /\ c \in Open => since[c] < Len(log[f[1]])

\* A connection has nothing before it opens, and holds a frame only to send it.
ConnOk(c) ==
  /\ pc[c] = "new" => queue[c] = <<>> /\ held[c] = <<>> /\ seen[c] = <<>> /\ ~full[c]
  /\ pc[c] = "loop" => held[c] = <<>>
  /\ c \in Open => since[c] <= Len(log[watch[c]])

FeedInv ==
  /\ \A i \in Instr : LogOk(i) /\ SubsOk(i)
  /\ \A k \in DOMAIN net : NetOk(k)
  /\ \A t \in Threads : FanOk(t)
  /\ \A c \in Conns : ConnOk(c)
  /\ FeedFaithful

-----------------------------------------------------------------------------
(* Lists of connections. *)

\* What is listed after an element was appended.
LEMMA AppendList ==
  ASSUME NEW S, NEW s \in Seq(S), NEW e \in S
  PROVE  /\ \A x : Listed(Append(s, e), x) <=> Listed(s, x) \/ x = e
         /\ Distinct(s) /\ ~Listed(s, e) => Distinct(Append(s, e))
<1>1. /\ Len(s) \in Nat /\ DOMAIN s = 1 .. Len(s)
      /\ DOMAIN Append(s, e) = 1 .. (Len(s) + 1)
      /\ \A k \in 1 .. Len(s) : Append(s, e)[k] = s[k]
      /\ Append(s, e)[Len(s) + 1] = e
  OBVIOUS
<1> DEFINE a == Append(s, e)
           n == Len(s)
<1> HIDE DEF a, n
<1>2. ASSUME NEW x PROVE Listed(a, x) <=> Listed(s, x) \/ x = e
  BY <1>1 DEF Listed, a, n
<1>3. ASSUME Distinct(s), ~Listed(s, e) PROVE Distinct(a)
  BY <1>1, <1>3 DEF Listed, Distinct, a, n
<1> QED
  BY <1>2, <1>3 DEF a

\* What is listed after the first element was taken.
LEMMA TailList ==
  ASSUME NEW S, NEW s \in Seq(S), s # <<>>
  PROVE  /\ Listed(s, Head(s)) /\ Head(s) \in S /\ Tail(s) \in Seq(S)
         /\ \A x : Listed(Tail(s), x) => Listed(s, x)
         /\ \A x : Listed(s, x) => Listed(Tail(s), x) \/ x = Head(s)
         /\ Distinct(s) => Distinct(Tail(s)) /\ ~Listed(Tail(s), Head(s))
<1>1. /\ Len(s) \in Nat \ {0} /\ DOMAIN s = 1 .. Len(s)
      /\ Head(s) = s[1] /\ Head(s) \in S /\ Tail(s) \in Seq(S)
      /\ DOMAIN Tail(s) = 1 .. (Len(s) - 1)
      /\ \A k \in 1 .. (Len(s) - 1) : Tail(s)[k] = s[k + 1]
  OBVIOUS
<1> DEFINE t == Tail(s)
           n == Len(s)
           h == Head(s)
<1> HIDE DEF t, n, h
<1>2. Listed(s, h)
  BY <1>1 DEF Listed, h, n
<1>3. ASSUME NEW x, Listed(t, x) PROVE Listed(s, x)
  BY <1>1, <1>3 DEF Listed, t, n
<1>4. ASSUME NEW x, Listed(s, x) PROVE Listed(t, x) \/ x = h
  <2>1. PICK k \in 1 .. n : s[k] = x
    BY <1>1, <1>4 DEF Listed, n
  <2>2. CASE k = 1
    BY <1>1, <2>1, <2>2 DEF h
  <2>3. CASE k > 1
    <3>1. k - 1 \in DOMAIN t /\ t[k - 1] = s[k]
      BY <1>1, <2>1, <2>3 DEF t, n
    <3> QED
      BY <2>1, <3>1 DEF Listed
  <2> QED
    BY <1>1, <2>1, <2>2, <2>3 DEF n
<1>5. ASSUME Distinct(s) PROVE Distinct(t) /\ ~Listed(t, h)
  <2>1. Distinct(t)
    BY <1>1, <1>5 DEF Distinct, t, n
  <2>2. ~Listed(t, h)
    BY <1>1, <1>5 DEF Distinct, Listed, t, n, h
  <2> QED
    BY <2>1, <2>2
<1> QED
  BY <1>1, <1>2, <1>3, <1>4, <1>5 DEF t, h

\* What is left of a list when the element at k is removed.
LEMMA RemoveAtList ==
  ASSUME NEW S, NEW s \in Seq(S), NEW k \in DOMAIN s
  PROVE  /\ RemoveAt(s, k) \in Seq(S)
         /\ Len(RemoveAt(s, k)) = Len(s) - 1
         /\ \A n \in DOMAIN RemoveAt(s, k) :
              RemoveAt(s, k)[n] = s[IF n < k THEN n ELSE n + 1]
<1> DEFINE before == SubSeq(s, 1, k - 1)
           after  == SubSeq(s, k + 1, Len(s))
<1>1. k \in 1..Len(s) /\ Len(s) \in Nat
  OBVIOUS
<1>2. /\ before \in Seq(S) /\ Len(before) = k - 1
      /\ \A n \in 1..(k - 1) : before[n] = s[n]
  BY <1>1
<1>3. /\ after \in Seq(S) /\ Len(after) = Len(s) - k
      /\ \A n \in 1..(Len(s) - k) : after[n] = s[n + k]
  BY <1>1
<1>4. RemoveAt(s, k) = before \o after
  BY DEF RemoveAt
<1> HIDE DEF before, after
<1>5. Len(before \o after) = Len(s) - 1 /\ before \o after \in Seq(S)
  BY <1>1, <1>2, <1>3
<1>6. ASSUME NEW n \in 1..(Len(s) - 1)
      PROVE  (before \o after)[n] = s[IF n < k THEN n ELSE n + 1]
  BY <1>1, <1>2, <1>3
<1>7. DOMAIN (before \o after) = 1..(Len(s) - 1)
  BY <1>1, <1>5
<1> QED
  BY <1>4, <1>5, <1>6, <1>7

\* list.remove of a list without duplicates.
LEMMA RemoveFirstList ==
  ASSUME NEW S, NEW s \in Seq(S), NEW e \in S, Distinct(s)
  PROVE  /\ RemoveFirst(s, e) \in Seq(S) /\ Distinct(RemoveFirst(s, e))
         /\ \A x : Listed(RemoveFirst(s, e), x) <=> Listed(s, x) /\ x # e
<1>1. Len(s) \in Nat /\ DOMAIN s = 1 .. Len(s)
  OBVIOUS
<1>2. CASE ~Listed(s, e)
  <2>1. RemoveFirst(s, e) = s
    BY <1>1, <1>2 DEF RemoveFirst, Listed
  <2> QED
    BY <1>2, <2>1
<1>3. CASE Listed(s, e)
  <2> DEFINE I == {i \in 1 .. Len(s) : s[i] = e}
             k == Min(I)
             r == RemoveAt(s, k)
             n == Len(s)
  <2>1. I # {} /\ I \in SUBSET Nat
    BY <1>1, <1>3 DEF Listed
  <2>2. RemoveFirst(s, e) = r
    BY <1>1, <1>3, <2>1 DEF RemoveFirst, Listed, SelectInSeq
  <2>3. k \in I
    <3>1. \E x \in I : \A y \in I : ~(<<y, x>> \in OpToRel(<, Nat))
      BY <2>1, NatLessThanWellFounded, WFMin
    <3>2. \A x, y \in Nat : y < x => <<y, x>> \in OpToRel(<, Nat)
      BY DEF OpToRel
    <3>3. \E x \in I : \A y \in I : ~(y < x)
      BY <2>1, <3>1, <3>2, Zenon
    <3>4. \E x \in I : \A y \in I : x =< y
      BY <2>1, <3>3
    <3> HIDE DEF I
    <3> QED
      BY <3>4 DEF Min
  <2>4. k \in 1 .. n /\ s[k] = e
    BY <2>3
  <2> HIDE DEF k, I
  <2>5. /\ r \in Seq(S) /\ DOMAIN r = 1 .. (n - 1)
        /\ \A j \in 1 .. (n - 1) : r[j] = s[IF j < k THEN j ELSE j + 1]
    <3>1. k \in DOMAIN s
      BY <1>1, <2>4
    <3>2. r \in Seq(S) /\ Len(r) = n - 1
      BY <3>1, RemoveAtList
    <3>3. DOMAIN r = 1 .. (n - 1)
      BY <3>2
    <3> QED
      BY <3>1, <3>2, <3>3, RemoveAtList
  <2> HIDE DEF r
  <2>6. Distinct(r)
    BY <1>1, <2>4, <2>5 DEF Distinct
  <2>7. ASSUME NEW x, Listed(r, x) PROVE Listed(s, x) /\ x # e
    <3>1. PICK j \in 1 .. (n - 1) : r[j] = x
      BY <2>5, <2>7 DEF Listed
    <3>2. PICK m \in 1 .. n : m # k /\ s[m] = x
      BY <1>1, <2>4, <2>5, <3>1
    <3> QED
      BY <1>1, <2>4, <3>2 DEF Distinct, Listed
  <2>8. ASSUME NEW x, Listed(s, x), x # e PROVE Listed(r, x)
    <3>1. PICK j \in 1 .. n : s[j] = x
      BY <1>1, <2>8 DEF Listed
    <3>2. CASE j < k
      <4>1. j \in 1 .. (n - 1) /\ r[j] = s[j]
        BY <1>1, <2>4, <2>5, <3>2
      <4> QED
        BY <2>5, <3>1, <4>1 DEF Listed
    <3>3. CASE j > k
      <4>1. j - 1 \in 1 .. (n - 1) /\ r[j - 1] = s[j]
        BY <1>1, <2>4, <2>5, <3>3
      <4> QED
        BY <2>5, <3>1, <4>1 DEF Listed
    <3> QED
      BY <1>1, <2>4, <2>8, <3>1, <3>2, <3>3
  <2> QED
    BY <2>2, <2>5, <2>6, <2>7, <2>8
<1> QED
  BY <1>2, <1>3

-----------------------------------------------------------------------------
(* Types. *)

\* The listener and the publishers are threads of their own.
LEMMA ThreadFacts ==
  /\ Listener \in Threads /\ Listener \notin Instr
  /\ \A i \in Instr : Publisher(i) \in Threads
  /\ \A i \in Instr : i \notin Remote => i \in Threads /\ Publisher(i) = i
BY FeedConstants DEF Threads, Listener, Publisher

\* A frame with a copied subscriber list.
LEMMA CopiesType ==
  ASSUME NEW f \in Frame, NEW to \in Seq(Conns)
  PROVE  /\ Copies(f, to) \in Fan /\ Copies(f, to).to = to
         /\ to # <<>> => Copies(f, to).frame = f
BY DEF Copies, NoFan, Fan, Datagram

\* A thread that hands out nothing.
LEMMA NoFanType == NoFan \in Fan /\ NoFan.to = <<>>
BY DEF NoFan, Fan, Datagram

\* The queue that a thread puts into next.
LEMMA NextPut ==
  ASSUME TypeOK, \A t \in Threads : FanOk(t), NEW t \in Threads, fan[t].to # <<>>
  PROVE  /\ fan[t].to \in Seq(Conns) /\ fan[t].frame \in Frame
         /\ Head(fan[t].to) \in Conns /\ Tail(fan[t].to) \in Seq(Conns)
<1>1. fan[t].to \in Seq(Conns)
  BY DEF TypeOK, Fan
<1>2. fan[t].frame \in Frame
  BY DEF FanOk
<1> QED
  BY <1>1, <1>2, TailList

\* A publication keeps the types of the logs and of what is handed out.
LEMMA PublishTypes ==
  ASSUME TypeOK, NEW t \in Threads, NEW f \in Frame, PublishLocal(t, f)
  PROVE  fan' \in [Threads -> Fan] /\ log' \in [Instr -> Seq(Frame)]
<1>1. f[1] \in Instr
  BY DEF Frame
<1>2. subs[f[1]] \in Seq(Conns) /\ log[f[1]] \in Seq(Frame)
  BY <1>1 DEF TypeOK
<1>3. Copies(f, subs[f[1]]) \in Fan
  BY <1>2, CopiesType
<1>4. Append(log[f[1]], f) \in Seq(Frame)
  BY <1>2
<1> QED
  BY <1>1, <1>3, <1>4 DEF TypeOK, PublishLocal

\* A datagram joins those on the network.
LEMMA DeliverType ==
  ASSUME TypeOK, NEW d \in Datagram, Deliver(d)
  PROVE  net' \in Seq(Datagram)
<1>1. net \in Seq(Datagram)
  BY DEF TypeOK
<1>2. Append(net, d) \in Seq(Datagram)
  BY <1>1
<1> QED
  BY <1>1, <1>2 DEF Deliver

\* A connection that is gone keeps the types.
LEMMA ForgetTypes ==
  ASSUME TypeOK, NEW C, Forget(C)
  PROVE  /\ queue' \in [Conns -> Seq(Frame)] /\ held' \in [Conns -> Seq(Frame)]
         /\ seen' \in [Conns -> Seq(Frame)] /\ idle' \in [Conns -> Nat]
         /\ since' \in [Conns -> Nat] /\ full' \in [Conns -> BOOLEAN]
         /\ status' \in [Conns -> {"none", "live", "stalled"}]
<1>1. queue' \in [Conns -> Seq(Frame)] /\ held' \in [Conns -> Seq(Frame)]
      /\ seen' \in [Conns -> Seq(Frame)]
  BY DEF TypeOK, Forget
<1>2. idle' \in [Conns -> Nat] /\ since' \in [Conns -> Nat]
  BY DEF TypeOK, Forget
<1>3. full' \in [Conns -> BOOLEAN]
  BY DEF TypeOK, Forget
<1>4. status' \in [Conns -> {"none", "live", "stalled"}]
  BY DEF TypeOK, Forget
<1> QED
  BY <1>1, <1>2, <1>3, <1>4

\* Every step keeps the type.
LEMMA TypeStep == TypeOK /\ FeedInv /\ [Next]_feedVars => TypeOK'
<1> SUFFICES ASSUME TypeOK, FeedInv, [Next]_feedVars PROVE TypeOK'
  OBVIOUS
<1>1. ASSUME NEW i \in Instr, Publish(i) PROVE TypeOK'
  <2>1. i \in Threads /\ made[i] + 1 \in Nat /\ <<i, made[i] + 1>> \in Frame
    BY <1>1, ThreadFacts DEF Publish, TypeOK, Frame
  <2>2. PublishLocal(i, <<i, made[i] + 1>>)
    BY <1>1 DEF Publish
  <2>3. fan' \in [Threads -> Fan] /\ log' \in [Instr -> Seq(Frame)]
    BY <2>1, <2>2, PublishTypes
  <2>4. made' \in [Instr -> Nat]
    BY <1>1, <2>1 DEF Publish, TypeOK
  <2> QED
    BY <1>1, <2>3, <2>4 DEF Publish, TypeOK
<1>2. ASSUME NEW i \in Instr, NEW oversize \in BOOLEAN, Forward(i, oversize) PROVE TypeOK'
  <2>1. made[i] + 1 \in Nat /\ <<i, made[i] + 1>> \in Datagram
    BY DEF TypeOK, Frame, Datagram
  <2>2. made' \in [Instr -> Nat]
    BY <1>2, <2>1 DEF Forward, TypeOK
  <2>3. net' \in Seq(Datagram)
    <3>1. CASE oversize
      BY <1>2, <3>1 DEF Forward, TypeOK
    <3>2. CASE ~oversize
      BY <1>2, <2>1, <3>2, DeliverType DEF Forward
    <3> QED
      BY <3>1, <3>2
  <2> QED
    BY <1>2, <2>2, <2>3 DEF Forward, TypeOK
<1>3. ASSUME NEW t \in Threads, Put(t) PROVE TypeOK'
  <2> DEFINE c == Head(fan[t].to)
  <2>1. fan[t].to # <<>>
    BY <1>3 DEF Put
  <2>2. /\ fan[t].frame \in Frame /\ c \in Conns /\ Tail(fan[t].to) \in Seq(Conns)
    BY <2>1, NextPut DEF FeedInv
  <2>3. Copies(fan[t].frame, Tail(fan[t].to)) \in Fan
    BY <2>2, CopiesType
  <2>4. fan' \in [Threads -> Fan]
    BY <1>3, <2>3 DEF Put, TypeOK
  <2>5. Append(queue[c], fan[t].frame) \in Seq(Frame)
    BY <2>2 DEF TypeOK
  <2> HIDE DEF c
  <2>6. queue' \in [Conns -> Seq(Frame)]
    <3>1. queue' \in {queue, [queue EXCEPT ![c] = Append(queue[c], fan[t].frame)]}
      BY <1>3 DEF Put, c
    <3> QED
      BY <2>2, <2>5, <3>1 DEF TypeOK
  <2>7. full' \in [Conns -> BOOLEAN]
    <3>1. \E b \in BOOLEAN : full' = [full EXCEPT ![c] = full[c] \/ b]
      BY <1>3 DEF Put, c
    <3> QED
      BY <2>2, <3>1 DEF TypeOK
  <2> QED
    BY <1>3, <2>4, <2>6, <2>7 DEF Put, TypeOK
<1>4. ASSUME Stray PROVE TypeOK'
  <2>1. net' \in Seq(Datagram)
    BY <1>4, DeliverType DEF Stray, Datagram
  <2> QED
    BY <1>4, <2>1 DEF Stray, TypeOK
<1>5. ASSUME Ingest PROVE TypeOK'
  <2>1. net \in Seq(Datagram) /\ net # <<>>
    BY <1>5 DEF Ingest, TypeOK
  <2>2. Tail(net) \in Seq(Datagram) /\ Head(net) \in Datagram
    BY <2>1
  <2>3. fan' \in [Threads -> Fan] /\ log' \in [Instr -> Seq(Frame)]
    <3>1. CASE Head(net) = Junk
      BY <1>5, <3>1 DEF Ingest, TypeOK
    <3>2. CASE Head(net) # Junk
      <4>1. Head(net) \in Frame /\ PublishLocal(Listener, Head(net))
        BY <1>5, <2>2, <3>2 DEF Ingest, Datagram
      <4> QED
        BY <4>1, ThreadFacts, PublishTypes
    <3> QED
      BY <3>1, <3>2
  <2> QED
    BY <1>5, <2>2, <2>3 DEF Ingest, TypeOK
<1>6. ASSUME NEW c \in Conns, Connect(c) PROVE TypeOK'
  <2>1. watch[c] \in Instr
    BY DEF TypeOK
  <2>2. subs[watch[c]] \in Seq(Conns) /\ Len(log[watch[c]]) \in Nat
    BY <2>1 DEF TypeOK
  <2>3. Append(subs[watch[c]], c) \in Seq(Conns)
    BY <2>2
  <2>4. subs' \in [Instr -> Seq(Conns)]
    BY <1>6, <2>1, <2>3 DEF Connect, Subscribe, TypeOK
  <2>5. since' \in [Conns -> Nat]
    BY <1>6, <2>2 DEF Connect, TypeOK
  <2> QED
    BY <1>6, <2>4, <2>5 DEF Connect, TypeOK
<1>7. ASSUME NEW c \in Conns, Poll(c) PROVE TypeOK'
  BY <1>7 DEF Poll, EmitStatus, TypeOK
<1>8. ASSUME NEW c \in Conns, Take(c) PROVE TypeOK'
  <2>1. queue[c] \in Seq(Frame) /\ queue[c] # <<>>
    BY <1>8 DEF Take, TypeOK
  <2>2. <<Head(queue[c])>> \in Seq(Frame) /\ Tail(queue[c]) \in Seq(Frame)
    BY <2>1
  <2>3. held' \in [Conns -> Seq(Frame)] /\ queue' \in [Conns -> Seq(Frame)]
    BY <1>8, <2>2 DEF Take, TypeOK
  <2> QED
    BY <1>8, <2>3 DEF Take, EmitStatus, TypeOK
<1>9. ASSUME NEW c \in Conns, Send(c) PROVE TypeOK'
  <2>1. seen[c] \o held[c] \in Seq(Frame)
    BY DEF TypeOK
  <2>2. seen' \in [Conns -> Seq(Frame)] /\ held' \in [Conns -> Seq(Frame)]
    BY <1>9, <2>1 DEF Send, TypeOK
  <2> QED
    BY <1>9, <2>2 DEF Send, TypeOK
<1>10. ASSUME NEW c \in Conns, Leave(c) PROVE TypeOK'
  <2>1. watch[c] \in Instr /\ subs[watch[c]] \in Seq(Conns)
    BY DEF TypeOK
  <2>2. RemoveFirst(subs[watch[c]], c) \in Seq(Conns)
    BY <2>1, RemoveFirstList DEF FeedInv, SubsOk
  <2>3. subs' \in [Instr -> Seq(Conns)]
    BY <1>10, <2>1, <2>2 DEF Leave, Unsubscribe, TypeOK
  <2>4. Forget({c})
    BY <1>10 DEF Leave
  <2> QED
    BY <1>10, <2>3, <2>4, ForgetTypes DEF Leave, TypeOK
<1>11. ASSUME NEW bound \in BOOLEAN, WebStart(bound) PROVE TypeOK'
  BY <1>11 DEF WebStart, TypeOK
<1>12. ASSUME WebCrash PROVE TypeOK'
  <2>1. Forget(Open)
    BY <1>12 DEF WebCrash
  <2>2. fan' \in [Threads -> Fan] /\ net' \in Seq(Datagram) /\ subs' \in [Instr -> Seq(Conns)]
    BY <1>12, NoFanType DEF WebCrash
  <2>3. pc' \in [Conns -> {"new", "loop", "send", "off"}]
    BY <1>12 DEF WebCrash, TypeOK
  <2> QED
    BY <1>12, <2>1, <2>2, <2>3, ForgetTypes DEF WebCrash, TypeOK
<1>13. ASSUME Tick PROVE TypeOK'
  <2>1. idle \in [Conns -> Nat]
    BY DEF TypeOK
  <2>2. idle' \in [Conns -> Nat]
    BY <1>13, <2>1 DEF Tick
  <2> QED
    BY <1>13, <2>2 DEF Tick, TypeOK
<1>14. CASE UNCHANGED feedVars
  BY <1>14 DEF feedVars, TypeOK
<1> QED
  BY <1>1, <1>2, <1>3, <1>4, <1>5, <1>6, <1>7, <1>8, <1>9, <1>10, <1>11, <1>12, <1>13, <1>14
  DEF Next, Watch

-----------------------------------------------------------------------------
(* What is got and what is due. *)

\* FeedFaithful for one connection that got g of what is due d.
Faithful(g, d, dropped) ==
  /\ ~dropped => g = d
  /\ \A k \in DOMAIN g : \E j \in DOMAIN d : g[k] = d[j]
  /\ \A j, k \in DOMAIN g : j < k => g[j][2] < g[k][2]

\* FeedFaithful, viewer by viewer.
LEMMA FeedFaithfulEach ==
  /\ FeedFaithful <=> \A c \in Open : Faithful(Got(c), Due(c), full[c])
  /\ FeedFaithful' <=> \A c \in Open' : Faithful(Got(c)', Due(c)', full'[c])
BY DEF FeedFaithful, Faithful

\* A newer frame became due and was put.
LEMMA FaithfulPut ==
  ASSUME NEW g \in Seq(Frame), NEW d \in Seq(Frame), NEW b, NEW f \in Frame,
         Faithful(g, d, b), \A j \in DOMAIN d : d[j][2] < f[2]
  PROVE  Faithful(Append(g, f), Append(d, f), b)
<1> DEFINE h == Append(g, f)
           e == Append(d, f)
           m == Len(g)
           n == Len(d)
<1>1. /\ m \in Nat /\ DOMAIN g = 1 .. m /\ DOMAIN h = 1 .. (m + 1)
      /\ (\A k \in 1 .. m : h[k] = g[k]) /\ h[m + 1] = f
  OBVIOUS
<1>2. /\ n \in Nat /\ DOMAIN d = 1 .. n /\ DOMAIN e = 1 .. (n + 1)
      /\ (\A k \in 1 .. n : e[k] = d[k]) /\ e[n + 1] = f
  OBVIOUS
<1>3. ~b => h = e
  BY DEF Faithful
<1> HIDE DEF h, e, m, n
<1>4. ASSUME NEW k \in DOMAIN h PROVE \E j \in DOMAIN e : h[k] = e[j]
  <2>1. CASE k \in 1 .. m
    <3>1. PICK j \in DOMAIN d : g[k] = d[j]
      BY <1>1, <2>1 DEF Faithful
    <3>2. j \in DOMAIN e /\ e[j] = d[j]
      BY <1>2
    <3> QED
      BY <1>1, <2>1, <3>1, <3>2
  <2>2. CASE k = m + 1
    BY <1>1, <1>2, <2>2
  <2> QED
    BY <1>1, <1>4, <2>1, <2>2
<1>5. ASSUME NEW k \in 1 .. m PROVE g[k][2] < f[2]
  <2>1. PICK j \in DOMAIN d : g[k] = d[j]
    BY <1>1 DEF Faithful
  <2> QED
    BY <2>1
<1>6. ASSUME NEW j \in DOMAIN h, NEW k \in DOMAIN h, j < k PROVE h[j][2] < h[k][2]
  <2>1. CASE k \in 1 .. m
    BY <1>1, <1>6, <2>1 DEF Faithful
  <2>2. CASE k = m + 1
    BY <1>1, <1>5, <1>6, <2>2
  <2> QED
    BY <1>1, <1>6, <2>1, <2>2
<1> QED
  BY <1>3, <1>4, <1>6 DEF Faithful, h, e

\* A frame became due and was dropped.
LEMMA FaithfulDropped ==
  ASSUME NEW g \in Seq(Frame), NEW d \in Seq(Frame), NEW b, NEW f \in Frame,
         Faithful(g, d, b)
  PROVE  Faithful(g, Append(d, f), TRUE)
<1>1. /\ DOMAIN d \subseteq DOMAIN Append(d, f)
      /\ \A k \in DOMAIN d : Append(d, f)[k] = d[k]
  OBVIOUS
<1>2. ASSUME NEW k \in DOMAIN g PROVE \E j \in DOMAIN Append(d, f) : g[k] = Append(d, f)[j]
  <2>1. PICK j \in DOMAIN d : g[k] = d[j]
    BY DEF Faithful
  <2> QED
    BY <1>1, <2>1
<1> QED
  BY <1>2 DEF Faithful

\* A subsequence up to the last element but one, and up to the last.
LEMMA DueGrows ==
  ASSUME NEW l \in Seq(Frame), NEW s \in Nat, s < Len(l)
  PROVE  LET n == Len(l)
             d == SubSeq(l, s + 1, n - 1)
         IN  /\ d \in Seq(Frame)
             /\ \A j \in DOMAIN d : \E k \in 1 .. (n - 1) : d[j] = l[k]
             /\ SubSeq(l, s + 1, n) = Append(d, l[n])
<1> DEFINE n == Len(l)
           d == SubSeq(l, s + 1, n - 1)
<1>1. n \in Nat /\ s + 1 \in 1 .. n /\ n \in (s + 1) .. n
  OBVIOUS
<1>2. /\ d \in Seq(Frame) /\ Len(d) = n - 1 - s
      /\ \A j \in 1 .. (n - 1 - s) : d[j] = l[s + j]
  BY <1>1
<1>3. SubSeq(l, s + 1, n) = d \o <<l[n]>>
  BY <1>1, SubSeqRecursiveSecond
<1>4. l[n] \in Frame
  BY <1>1
<1>5. d \o <<l[n]>> = Append(d, l[n])
  BY <1>2, <1>4, AppendIsConcat
<1>6. ASSUME NEW j \in DOMAIN d PROVE \E k \in 1 .. (n - 1) : d[j] = l[k]
  <2>1. j \in 1 .. (n - 1 - s)
    BY <1>1, <1>2
  <2>2. s + j \in 1 .. (n - 1)
    BY <1>1, <2>1
  <2> QED
    BY <1>2, <2>1, <2>2
<1> QED
  BY <1>2, <1>3, <1>5, <1>6

\* A frame that is still being put is not due yet.
LEMMA DueWaits ==
  ASSUME NEW l \in Seq(Frame), NEW f \in Frame, NEW s \in Nat, s <= Len(l)
  PROVE  SubSeq(Append(l, f), s + 1, Len(l)) = SubSeq(l, s + 1, Len(l))
<1> DEFINE n == Len(l)
           a == SubSeq(Append(l, f), s + 1, n)
           b == SubSeq(l, s + 1, n)
<1>1. n \in Nat /\ Append(l, f) \in Seq(Frame) /\ Len(Append(l, f)) = n + 1
      /\ \A k \in 1 .. n : Append(l, f)[k] = l[k]
  OBVIOUS
<1>2. b \in Seq(Frame) /\ Len(b) = n - s /\ \A j \in 1 .. (n - s) : b[j] = l[s + j]
  BY <1>1
<1>3. a \in Seq(Frame) /\ Len(a) = n - s /\ \A j \in 1 .. (n - s) : a[j] = Append(l, f)[s + j]
  BY <1>1
<1>4. ASSUME NEW j \in 1 .. Len(a) PROVE a[j] = b[j]
  <2>1. j \in 1 .. (n - s) /\ s + j \in 1 .. n
    BY <1>1, <1>3
  <2> QED
    BY <1>1, <1>2, <1>3, <2>1
<1> HIDE DEF a, b
<1> QED
  BY <1>2, <1>3, <1>4, SeqEqual DEF a, b

\* Got, when a frame is put, taken and sent.
LEMMA GotSteps ==
  ASSUME NEW x \in Seq(Frame), NEW y \in Seq(Frame), NEW q \in Seq(Frame), NEW f \in Frame
  PROVE  /\ (x \o y) \o q \in Seq(Frame)
         /\ (x \o y) \o Append(q, f) = Append((x \o y) \o q, f)
         /\ ((x \o y) \o <<>>) \o q = (x \o y) \o q
         /\ q # <<>> => (x \o <<>>) \o q = (x \o <<Head(q)>>) \o Tail(q)
<1>1. x \o y \in Seq(Frame) /\ (x \o y) \o q \in Seq(Frame)
  BY ConcatProperties
<1>2. <<f>> \in Seq(Frame)
  OBVIOUS
<1>3. (x \o y) \o Append(q, f) = Append((x \o y) \o q, f)
  <2>1. Append(q, f) = q \o <<f>> /\ Append((x \o y) \o q, f) = ((x \o y) \o q) \o <<f>>
    BY <1>1, AppendIsConcat
  <2> QED
    BY <1>1, <1>2, <2>1, ConcatAssociative
<1>4. (x \o y) \o <<>> = x \o y /\ x \o <<>> = x
  BY <1>1, ConcatEmptySeq
<1>5. ASSUME q # <<>> PROVE x \o q = (x \o <<Head(q)>>) \o Tail(q)
  <2>1. Head(q) \in Frame /\ Tail(q) \in Seq(Frame) /\ <<Head(q)>> \in Seq(Frame)
    BY <1>5, HeadTailProperties
  <2>2. q = <<Head(q)>> \o Tail(q)
    BY <1>5, <2>1
  <2>3. (x \o <<Head(q)>>) \o Tail(q) = x \o (<<Head(q)>> \o Tail(q))
    BY <2>1, ConcatAssociative
  <2> QED
    BY <2>2, <2>3
<1> QED
  BY <1>1, <1>3, <1>4, <1>5

-----------------------------------------------------------------------------
(* The steps. *)

\* A connection that is in a thread's copy watches that thread's instrument.
LEMMA InCopy ==
  ASSUME TypeOK, FeedInv, NEW t \in Threads, NEW c \in Conns, Listed(fan[t].to, c)
  PROVE  /\ fan[t].to # <<>> /\ watch[c] = fan[t].frame[1] /\ Publisher(watch[c]) = t
         /\ pc[c] # "new" /\ fan[t].frame \in Frame
<1>1. fan[t].to # <<>>
  BY DEF Listed
<1> QED
  BY <1>1 DEF FeedInv, FanOk

\* A frame is under way to the viewers that some thread still has to serve.
LEMMA InFlightListed ==
  /\ \A c : InFlight(c) <=> \E t \in Threads : Listed(fan[t].to, c)
  /\ \A c : InFlight(c)' <=> \E t \in Threads : Listed(fan'[t].to, c)
BY DEF InFlight, Listed

\* The viewers' side of publishing a frame: all but the datagrams.
LEMMA PublishFeed ==
  ASSUME TypeOK, FeedInv, NEW t \in Threads, NEW f \in Frame, Publisher(f[1]) = t,
         fan[t].to = <<>>, PublishLocal(t, f),
         UNCHANGED <<subs, queue, pc, watch, held, since, seen, full>>,
         made' \in [Instr -> Nat], \A i \in Instr : made[i] <= made'[i],
         f[2] <= made'[f[1]],
         \A k \in DOMAIN log[f[1]] : log[f[1]][k][2] < f[2]
  PROVE  /\ \A i \in Instr : LogOk(i)' /\ SubsOk(i)'
         /\ \A u \in Threads : FanOk(u)'
         /\ \A c \in Conns : ConnOk(c)'
         /\ FeedFaithful'
<1> DEFINE i == f[1]
           n == Len(log[i])
<1>1. i \in Instr /\ f[2] \in Nat
  BY DEF Frame
<1>2. /\ log[i] \in Seq(Frame) /\ n \in Nat /\ DOMAIN log[i] = 1 .. n
      /\ subs[i] \in Seq(Conns)
  BY <1>1 DEF TypeOK
<1>3. /\ log' = [log EXCEPT ![i] = Append(log[i], f)]
      /\ fan' = [fan EXCEPT ![t] = Copies(f, subs[i])]
  BY DEF PublishLocal
<1>4. log'[i] = Append(log[i], f) /\ \A j \in Instr : j # i => log'[j] = log[j]
  BY <1>1, <1>3 DEF TypeOK
<1>5. /\ DOMAIN log'[i] = 1 .. (n + 1) /\ Len(log'[i]) = n + 1 /\ log'[i] # <<>>
      /\ (\A k \in 1 .. n : log'[i][k] = log[i][k]) /\ log'[i][n + 1] = f
  BY <1>2, <1>4
<1>6. /\ fan'[t].to = subs[i] /\ (subs[i] # <<>> => fan'[t].frame = f)
      /\ \A u \in Threads : u # t => fan'[u] = fan[u]
  BY <1>2, <1>3, CopiesType DEF TypeOK
<1> HIDE DEF n
<1>7. ASSUME NEW j \in Instr PROVE LogOk(j)'
  <2>1. CASE j # i
    <3>1. log'[j] = log[j] /\ made[j] <= made'[j] /\ LogOk(j)
      BY <1>4, <2>1 DEF FeedInv
    <3>2. log[j] \in Seq(Frame) /\ made[j] \in Nat /\ made'[j] \in Nat
      BY DEF TypeOK
    <3>3. \A k \in DOMAIN log[j] : log[j][k][2] \in Nat
      BY <3>2 DEF Frame
    <3> QED
      BY <3>1, <3>2, <3>3 DEF LogOk
  <2>2. CASE j = i
    <3>1. LogOk(i) /\ made[i] <= made'[i] /\ made[i] \in Nat /\ made'[i] \in Nat
      BY <1>1 DEF FeedInv, TypeOK
    <3>2. \A k \in 1 .. n : log[i][k][2] \in Nat
      <4>1. \A k \in 1 .. n : log[i][k] \in Frame
        BY <1>2
      <4> QED
        BY <4>1 DEF Frame
    <3>3. \A k \in 1 .. (n + 1) : log'[i][k][1] = i /\ log'[i][k][2] <= made'[i]
      <4> TAKE k \in 1 .. (n + 1)
      <4>1. CASE k \in 1 .. n
        <5>1. log[i][k][1] = i /\ log[i][k][2] <= made[i]
          BY <1>2, <3>1, <4>1 DEF LogOk
        <5>2. log'[i][k] = log[i][k] /\ log[i][k][2] \in Nat
          BY <1>5, <3>2, <4>1
        <5> QED
          BY <3>1, <5>1, <5>2
      <4>2. CASE k = n + 1
        BY <1>5, <4>2
      <4> QED
        BY <1>2, <4>1, <4>2
    <3>4. ASSUME NEW l \in 1 .. (n + 1), NEW k \in 1 .. (n + 1), l < k
          PROVE  log'[i][l][2] < log'[i][k][2]
      <4>1. CASE k \in 1 .. n
        <5>1. l \in 1 .. n
          BY <1>2, <3>4, <4>1
        <5> QED
          BY <1>2, <1>5, <3>1, <3>4, <4>1, <5>1 DEF LogOk
      <4>2. CASE k = n + 1
        <5>1. l \in 1 .. n
          BY <1>2, <3>4, <4>2
        <5> QED
          BY <1>2, <1>5, <4>2, <5>1
      <4> QED
        BY <1>2, <4>1, <4>2
    <3> QED
      BY <1>5, <2>2, <3>3, <3>4 DEF LogOk
  <2> QED
    BY <2>1, <2>2
<1>8. ASSUME NEW j \in Instr PROVE SubsOk(j)'
  BY DEF FeedInv, SubsOk, Listed, Distinct, Open
<1>9. ASSUME NEW c \in Conns PROVE ConnOk(c)'
  <2>1. ConnOk(c) /\ watch[c] \in Instr /\ since[c] \in Nat /\ log[watch[c]] \in Seq(Frame)
    BY DEF FeedInv, TypeOK
  <2>2. Len(log[watch[c]]) <= Len(log'[watch[c]])
    BY <1>2, <1>4, <1>5, <2>1 DEF n
  <2>3. Len(log[watch[c]]) \in Nat /\ Len(log'[watch[c]]) \in Nat
    BY <1>2, <1>4, <1>5, <2>1
  <2>4. c \in Open => since[c] <= Len(log'[watch[c]])
    BY <2>1, <2>2, <2>3 DEF ConnOk
  <2> QED
    BY <2>1, <2>4 DEF ConnOk, Open
<1>10. ASSUME NEW u \in Threads PROVE FanOk(u)'
  <2>1. CASE u = t
    <3> SUFFICES ASSUME fan'[t].to # <<>> PROVE FanOk(t)'
      BY <2>1 DEF FanOk
    <3>1. fan'[t].to = subs[i] /\ fan'[t].frame = f
      BY <1>6
    <3>2. SubsOk(i)
      BY <1>1 DEF FeedInv
    <3>3. ASSUME NEW c \in Conns, Listed(subs[i], c)
          PROVE  watch[c] = i /\ pc[c] # "new" /\ since[c] < n + 1
      <4>1. c \in Open /\ watch[c] = i
        BY <3>2, <3>3 DEF SubsOk
      <4>2. since[c] <= n /\ since[c] \in Nat
        BY <4>1 DEF FeedInv, ConnOk, TypeOK, n
      <4> QED
        BY <1>2, <4>1, <4>2 DEF Open
    <3>4. Distinct(subs[i])
      BY <3>2 DEF SubsOk
    <3>5. \A c \in Conns : Listed(fan'[t].to, c) =>
             /\ watch'[c] = f[1] /\ pc'[c] # "new"
             /\ c \in Open' => since'[c] < Len(log'[f[1]])
      BY <1>5, <3>1, <3>3
    <3>6. log'[f[1]] # <<>> /\ f = log'[f[1]][Len(log'[f[1]])]
      BY <1>5
    <3> QED
      BY <3>1, <3>4, <3>5, <3>6 DEF FanOk, Distinct, Listed
  <2>2. CASE u # t
    <3> SUFFICES ASSUME fan[u].to # <<>> PROVE FanOk(u)'
      BY <1>6, <2>2 DEF FanOk
    <3>1. FanOk(u) /\ fan'[u] = fan[u]
      BY <1>6, <2>2 DEF FeedInv
    <3>2. fan[u].frame[1] # i /\ fan[u].frame[1] \in Instr
      BY <2>2, <3>1 DEF FanOk, Frame
    <3>3. log'[fan[u].frame[1]] = log[fan[u].frame[1]]
      BY <1>4, <3>2
    <3>4. Open' = Open
      BY DEF Open
    <3> QED
      BY <3>1, <3>3, <3>4 DEF FanOk
  <2> QED
    BY <2>1, <2>2
<1>11. ASSUME NEW c \in Open' PROVE Faithful(Got(c)', Due(c)', full'[c])
  <2>1. c \in Open /\ c \in Conns /\ watch[c] \in Instr /\ since[c] \in Nat
    BY DEF Open, TypeOK
  <2>2. Faithful(Got(c), Due(c), full[c])
    BY <2>1, FeedFaithfulEach DEF FeedInv
  <2>3. Got(c)' = Got(c) /\ full'[c] = full[c]
    BY DEF Got
  <2>4. CASE watch[c] = i
    <3>1. ~InFlight(c)
      <4>1. \A u \in Threads : Listed(fan[u].to, c) => u = t
        BY <2>1, <2>4, InCopy
      <4>2. ~Listed(fan[t].to, c)
        BY DEF Listed
      <4> QED
        BY <4>1, <4>2, InFlightListed
    <3>2. InFlight(c)'
      <4>1. Listed(subs[i], c)
        BY <1>1, <2>1, <2>4 DEF FeedInv, SubsOk
      <4> QED
        BY <1>6, <4>1, InFlightListed
    <3>3. since[c] <= n
      BY <2>1, <2>4 DEF FeedInv, ConnOk, n
    <3>4. Due(c) = SubSeq(log[i], since[c] + 1, n)
      <4>1. Len(log[i]) - 0 = n
        BY <1>2 DEF n
      <4> QED
        BY <2>4, <3>1, <4>1 DEF Due
    <3>5. Due(c)' = SubSeq(log'[i], since[c] + 1, n)
      <4>1. Len(log'[i]) - 1 = n
        BY <1>2, <1>5
      <4> QED
        BY <2>4, <3>2, <4>1 DEF Due
    <3>6. SubSeq(Append(log[i], f), since[c] + 1, n) = SubSeq(log[i], since[c] + 1, n)
      BY <1>2, <2>1, <3>3, DueWaits DEF n
    <3>7. Due(c)' = Due(c)
      BY <1>4, <3>4, <3>5, <3>6
    <3> QED
      BY <2>2, <2>3, <3>7
  <2>5. CASE watch[c] # i
    <3>1. InFlight(c)' <=> InFlight(c)
      <4>1. ~Listed(subs[i], c)
        BY <1>1, <2>1, <2>5 DEF FeedInv, SubsOk
      <4>2. ~Listed(fan[t].to, c)
        BY DEF Listed
      <4> QED
        BY <1>6, <4>1, <4>2, InFlightListed
    <3>2. log'[watch[c]] = log[watch[c]]
      BY <1>4, <2>1, <2>5
    <3>3. Due(c)' = Due(c)
      BY <3>1, <3>2 DEF Due
    <3> QED
      BY <2>2, <2>3, <3>3
  <2> QED
    BY <2>4, <2>5
<1> QED
  BY <1>7, <1>8, <1>9, <1>10, <1>11, FeedFaithfulEach

\* Steps that the viewers do not notice.
LEMMA QuietFeed ==
  ASSUME TypeOK, FeedInv, UNCHANGED <<subs, fan, queue, pc, watch, held, log, since, seen, full>>,
         made' \in [Instr -> Nat], \A i \in Instr : made[i] <= made'[i],
         \A k \in DOMAIN net' : NetOk(k)'
  PROVE  FeedInv'
<1>1. ASSUME NEW i \in Instr PROVE LogOk(i)'
  <2>1. LogOk(i) /\ made[i] <= made'[i] /\ made[i] \in Nat /\ made'[i] \in Nat
    BY DEF FeedInv, TypeOK
  <2>2. log[i] \in Seq(Frame)
    BY DEF TypeOK
  <2>3. \A k \in DOMAIN log[i] : log[i][k] \in Frame
    BY <2>2
  <2>4. \A k \in DOMAIN log[i] : log[i][k][2] \in Nat
    BY <2>3 DEF Frame
  <2> QED
    BY <2>1, <2>4 DEF LogOk
<1>2. ASSUME NEW i \in Instr PROVE SubsOk(i)'
  BY DEF FeedInv, SubsOk, Open
<1>3. ASSUME NEW t \in Threads PROVE FanOk(t)'
  BY DEF FeedInv, FanOk, Open
<1>4. ASSUME NEW c \in Conns PROVE ConnOk(c)'
  BY DEF FeedInv, ConnOk, Open
<1>5. FeedFaithful'
  <2>1. Open' = Open /\ (\A c : Got(c)' = Got(c)) /\ (\A c : Due(c)' = Due(c))
    BY DEF Open, Got, Due, InFlight
  <2> QED
    BY <2>1, FeedFaithfulEach DEF FeedInv
<1> QED
  BY <1>1, <1>2, <1>3, <1>4, <1>5 DEF FeedInv

\* The datagrams after one more was sent, or dropped.
LEMMA SentNet ==
  ASSUME TypeOK, FeedInv, NEW d \in Datagram, log' = log,
         made' \in [Instr -> Nat], \A i \in Instr : made[i] <= made'[i],
         net' = net \/ net' = Append(net, d),
         d # Junk => d[1] \in Remote /\ made[d[1]] < d[2] /\ d[2] <= made'[d[1]]
  PROVE  \A k \in DOMAIN net' : NetOk(k)'
<1>1. PICK n \in Nat : /\ n = Len(net) /\ DOMAIN net = 1 .. n
                       /\ \A k \in 1 .. n : net[k] \in Datagram
  BY DEF TypeOK
<1>2. \A k \in 1 .. n : NetOk(k)
  BY <1>1 DEF FeedInv
<1>3. \A k \in 1 .. n : net[k] # Junk => /\ net[k][1] \in Instr /\ net[k][2] \in Nat
                                          /\ net[k][2] <= made[net[k][1]]
  BY <1>1, <1>2 DEF Datagram, Frame, NetOk
<1>4. \A i \in Instr : made[i] \in Nat /\ made'[i] \in Nat
  BY DEF TypeOK
<1>5. \A k \in 1 .. n : net[k] # Junk => net[k][2] <= made'[net[k][1]]
  BY <1>3, <1>4
<1>6. CASE net' = net
  BY <1>1, <1>2, <1>5, <1>6 DEF NetOk
<1>7. CASE net' = Append(net, d)
  <2>1. /\ DOMAIN net' = 1 .. (n + 1) /\ net'[n + 1] = d
        /\ \A k \in 1 .. n : net'[k] = net[k]
    BY <1>1, <1>7 DEF TypeOK
  <2>2. ASSUME NEW k \in 1 .. n PROVE NetOk(k)'
    <3> SUFFICES ASSUME net[k] # Junk PROVE NetOk(k)'
      BY <2>1 DEF NetOk
    <3>1. NetOk(k) /\ net'[k] = net[k] /\ k \in Nat
      BY <1>1, <1>2, <2>1
    <3>2. \A j \in DOMAIN net' : j < k => j \in DOMAIN net /\ net'[j] = net[j]
      BY <1>1, <2>1
    <3> QED
      BY <1>5, <3>1, <3>2 DEF NetOk
  <2>3. NetOk(n + 1)'
    <3> SUFFICES ASSUME d # Junk PROVE NetOk(n + 1)'
      BY <2>1 DEF NetOk
    <3>1. d[1] \in Instr /\ d[2] \in Nat /\ d[1] \in Remote
      BY DEF Datagram, Frame
    <3>2. ASSUME NEW l \in DOMAIN log[d[1]] PROVE log[d[1]][l][2] < d[2]
      <4>1. log[d[1]][l] \in Frame /\ log[d[1]][l][2] <= made[d[1]]
        BY <3>1 DEF TypeOK, FeedInv, LogOk
      <4>2. log[d[1]][l][2] \in Nat
        BY <4>1 DEF Frame
      <4> QED
        BY <1>4, <3>1, <4>1, <4>2
    <3>3. ASSUME NEW j \in 1 .. n, net[j] # Junk, net[j][1] = d[1]
          PROVE  net[j][2] < d[2]
      BY <1>3, <1>4, <3>1, <3>3
    <3>4. \A j \in DOMAIN net' : j < n + 1 => j \in 1 .. n /\ net'[j] = net[j]
      BY <1>1, <2>1
    <3> QED
      BY <2>1, <3>1, <3>2, <3>3, <3>4 DEF NetOk
  <2> QED
    BY <1>1, <2>1, <2>2, <2>3
<1> QED
  BY <1>6, <1>7

\* A remote frame that is forwarded is newer than those before it.
LEMMA ForwardFeed ==
  ASSUME TypeOK, FeedInv, NEW i \in Instr, NEW oversize \in BOOLEAN, Forward(i, oversize)
  PROVE  FeedInv'
<1> DEFINE d == <<i, made[i] + 1>>
<1>1. made[i] \in Nat /\ d \in Datagram /\ d # Junk /\ d[1] = i /\ d[2] = made[i] + 1
  BY DEF TypeOK, Datagram, Frame, Junk
<1>2. made' = [made EXCEPT ![i] = made[i] + 1] /\ i \in Remote /\ log' = log
  BY DEF Forward
<1> HIDE DEF d
<1>3. /\ made' \in [Instr -> Nat] /\ made'[i] = made[i] + 1
      /\ \A j \in Instr : made[j] <= made'[j]
  BY <1>1, <1>2 DEF TypeOK
<1>4. net' = net \/ net' = Append(net, d)
  BY DEF Forward, Deliver, d
<1>5. made[d[1]] < d[2] /\ d[2] <= made'[d[1]] /\ d[1] \in Remote
  BY <1>1, <1>2, <1>3
<1>6. \A k \in DOMAIN net' : NetOk(k)'
  BY <1>1, <1>2, <1>3, <1>4, <1>5, SentNet
<1> QED
  BY <1>3, <1>6, QuietFeed DEF Forward

\* A datagram that is no frame changes no log.
LEMMA StrayFeed == TypeOK /\ FeedInv /\ Stray => FeedInv'
<1> SUFFICES ASSUME TypeOK, FeedInv, Stray PROVE FeedInv'
  OBVIOUS
<1>1. Junk \in Datagram /\ log' = log /\ (net' = net \/ net' = Append(net, Junk))
  BY DEF Stray, Deliver, Datagram
<1>2. made' \in [Instr -> Nat] /\ \A j \in Instr : made[j] <= made'[j]
  BY DEF Stray, TypeOK
<1>3. \A k \in DOMAIN net' : NetOk(k)'
  BY <1>1, <1>2, SentNet
<1> QED
  BY <1>2, <1>3, QuietFeed DEF Stray

\* Steps that touch no frame and no subscription keep the invariant.
LEMMA IdleFeed ==
  ASSUME TypeOK, FeedInv,
         UNCHANGED <<made, net, subs, fan, queue, pc, watch, held, log, since, seen, full>>
  PROVE  FeedInv'
<1>1. \A k \in DOMAIN net' : NetOk(k)'
  BY DEF FeedInv, NetOk
<1>2. made' \in [Instr -> Nat] /\ \A j \in Instr : made[j] <= made'[j]
  BY DEF TypeOK
<1> QED
  BY <1>1, <1>2, QuietFeed

\* A frame of the web process's own instrument goes to the subscribers of that moment.
LEMMA OwnPublishFeed ==
  ASSUME TypeOK, FeedInv, NEW i \in Instr, Publish(i)
  PROVE  FeedInv'
<1> DEFINE f == <<i, made[i] + 1>>
<1>1. made[i] \in Nat /\ f \in Frame /\ f[1] = i /\ f[2] = made[i] + 1
  BY DEF TypeOK, Frame
<1>2. /\ made' = [made EXCEPT ![i] = made[i] + 1] /\ i \notin Remote
      /\ fan[i].to = <<>> /\ PublishLocal(i, f) /\ net' = net
      /\ UNCHANGED <<subs, queue, pc, watch, held, since, seen, full>>
  BY DEF Publish
<1>3. /\ made' \in [Instr -> Nat] /\ made'[i] = made[i] + 1
      /\ \A j \in Instr : made[j] <= made'[j]
  BY <1>1, <1>2 DEF TypeOK
<1> HIDE DEF f
<1>4. \A k \in DOMAIN log[i] : log[i][k][2] < f[2]
  <2> TAKE k \in DOMAIN log[i]
  <2>1. log[i][k] \in Frame /\ log[i][k][2] <= made[i]
    BY DEF TypeOK, FeedInv, LogOk
  <2>2. log[i][k][2] \in Nat
    BY <2>1 DEF Frame
  <2> QED
    BY <1>1, <2>1, <2>2
<1>5. i \in Threads /\ Publisher(f[1]) = i
  BY <1>1, <1>2, ThreadFacts
<1>6. f[2] <= made'[f[1]]
  BY <1>1, <1>3
<1>7. /\ \A j \in Instr : LogOk(j)' /\ SubsOk(j)'
      /\ \A u \in Threads : FanOk(u)'
      /\ \A c \in Conns : ConnOk(c)'
      /\ FeedFaithful'
  BY <1>1, <1>2, <1>3, <1>4, <1>5, <1>6, PublishFeed
<1>8. ASSUME NEW k \in DOMAIN net' PROVE NetOk(k)'
  <2> SUFFICES ASSUME net[k] # Junk PROVE NetOk(k)'
    BY <1>2 DEF NetOk
  <2>1. NetOk(k) /\ net[k] \in Datagram
    BY <1>2, <1>8 DEF FeedInv, TypeOK
  <2>2. /\ net[k][1] \in Remote /\ net[k][1] \in Instr /\ net[k][2] \in Nat
        /\ net[k][2] <= made[net[k][1]]
    BY <2>1, FeedConstants DEF NetOk, Datagram, Frame
  <2>3. log'[net[k][1]] = log[net[k][1]] /\ made'[net[k][1]] = made[net[k][1]]
    BY <1>1, <1>2, <2>2 DEF PublishLocal, TypeOK
  <2> QED
    BY <1>2, <2>1, <2>3 DEF NetOk
<1> QED
  BY <1>7, <1>8 DEF FeedInv

\* A frame that arrives goes to the subscribers of that moment.
LEMMA IngestFeed == TypeOK /\ FeedInv /\ Ingest => FeedInv'
<1> SUFFICES ASSUME TypeOK, FeedInv, Ingest PROVE FeedInv'
  OBVIOUS
<1> DEFINE n == Len(net)
<1>1. /\ net # <<>> /\ net' = Tail(net) /\ fan[Listener].to = <<>> /\ made' = made
      /\ UNCHANGED <<subs, queue, pc, watch, held, since, seen, full>>
  BY DEF Ingest
<1>2. /\ n \in Nat \ {0} /\ DOMAIN net = 1 .. n /\ \A k \in 1 .. n : net[k] \in Datagram
      /\ DOMAIN net' = 1 .. (n - 1) /\ \A k \in 1 .. (n - 1) : net'[k] = net[k + 1]
      /\ Head(net) = net[1]
  BY <1>1 DEF TypeOK
<1>3. made' \in [Instr -> Nat] /\ \A j \in Instr : made[j] <= made'[j]
  BY <1>1 DEF TypeOK
<1>4. ASSUME NEW k \in 1 .. (n - 1),
             net[k + 1] # Junk => \A l \in DOMAIN log'[net[k + 1][1]] :
                                     log'[net[k + 1][1]][l][2] < net[k + 1][2]
      PROVE  NetOk(k)'
  <2>1. k + 1 \in 1 .. n /\ NetOk(k + 1) /\ net'[k] = net[k + 1]
    BY <1>2 DEF FeedInv
  <2>2. \A j \in DOMAIN net' : j < k => j + 1 \in DOMAIN net /\ j + 1 < k + 1 /\ net'[j] = net[j + 1]
    BY <1>2
  <2>3. \A j \in DOMAIN net' : j < k /\ net'[j] # Junk /\ net'[j][1] = net[k + 1][1]
                                 /\ net[k + 1] # Junk => net'[j][2] < net[k + 1][2]
    BY <2>1, <2>2 DEF NetOk
  <2> QED
    BY <1>1, <1>4, <2>1, <2>3 DEF NetOk
<1>5. CASE Head(net) = Junk
  <2>1. log' = log /\ fan' = fan
    BY <1>5 DEF Ingest
  <2>2. ASSUME NEW k \in 1 .. (n - 1) PROVE NetOk(k)'
    <3>1. k + 1 \in 1 .. n /\ NetOk(k + 1)
      BY <1>2 DEF FeedInv
    <3> QED
      BY <1>4, <2>1, <3>1 DEF NetOk
  <2> QED
    BY <1>1, <1>2, <1>3, <2>1, <2>2, QuietFeed
<1>6. CASE Head(net) # Junk
  <2>1. PICK f \in Frame : f = net[1] /\ PublishLocal(Listener, f)
    BY <1>2, <1>6 DEF Ingest, Datagram
  <2>2. NetOk(1) /\ net[1] # Junk /\ f[1] \in Instr /\ f[2] \in Nat
    BY <1>2, <1>6, <2>1 DEF FeedInv, Frame
  <2>3. /\ f[1] \in Remote /\ f[2] <= made[f[1]]
        /\ \A l \in DOMAIN log[f[1]] : log[f[1]][l][2] < f[2]
    BY <2>1, <2>2 DEF NetOk
  <2>4. Listener \in Threads /\ Publisher(f[1]) = Listener
    BY <2>3, ThreadFacts DEF Publisher
  <2>5. f[2] <= made'[f[1]]
    BY <1>1, <2>3
  <2>6. /\ \A j \in Instr : LogOk(j)' /\ SubsOk(j)'
        /\ \A u \in Threads : FanOk(u)'
        /\ \A c \in Conns : ConnOk(c)'
        /\ FeedFaithful'
    BY <1>1, <1>3, <2>1, <2>3, <2>4, <2>5, PublishFeed
  <2>7. ASSUME NEW k \in 1 .. (n - 1) PROVE NetOk(k)'
    <3>1. k + 1 \in 1 .. n /\ 1 \in DOMAIN net /\ 1 < k + 1
      BY <1>2
    <3>2. NetOk(k + 1)
      BY <1>2, <3>1 DEF FeedInv
    <3> SUFFICES ASSUME net[k + 1] # Junk,
                        NEW l \in DOMAIN log'[net[k + 1][1]]
                 PROVE  log'[net[k + 1][1]][l][2] < net[k + 1][2]
      BY <1>4
    <3>3. PICK j \in Instr : j = net[k + 1][1]
      BY <1>2, <3>1 DEF Datagram, Frame
    <3>4. CASE j # f[1]
      <4>1. log'[j] = log[j]
        BY <2>1, <2>2, <3>4 DEF PublishLocal, TypeOK
      <4> QED
        BY <3>2, <3>3, <4>1 DEF NetOk
    <3>5. CASE j = f[1]
      <4>1. log'[j] = Append(log[j], f) /\ log[j] \in Seq(Frame)
        BY <2>1, <2>2, <3>5 DEF PublishLocal, TypeOK
      <4>2. (l \in DOMAIN log[j] /\ log'[j][l] = log[j][l]) \/ log'[j][l] = f
        BY <3>3, <4>1
      <4>3. f[2] < net[k + 1][2]
        BY <2>1, <2>2, <3>1, <3>2, <3>3, <3>5 DEF NetOk
      <4> QED
        BY <3>2, <3>3, <4>2, <4>3 DEF NetOk
    <3> QED
      BY <3>4, <3>5
  <2> QED
    BY <1>2, <2>6, <2>7 DEF FeedInv
<1> QED
  BY <1>5, <1>6

\* A frame is put into a queue once, unless the queue is full.
LEMMA PutFeed ==
  ASSUME TypeOK, FeedInv, NEW t \in Threads, Put(t)
  PROVE  FeedInv'
<1>1. fan[t].to # <<>> /\ fan[t].to \in Seq(Conns)
  BY NextPut DEF Put, FeedInv
<1>2. PICK c \in Conns, f \in Frame : c = Head(fan[t].to) /\ f = fan[t].frame
  BY <1>1, NextPut DEF FeedInv
<1>3. PICK rest \in Seq(Conns) : rest = Tail(fan[t].to)
  BY <1>1, NextPut DEF FeedInv
<1>4. PICK fits \in BOOLEAN : fits <=> Len(queue[c]) < QueueMax
  OBVIOUS
<1>5. /\ fan' = [fan EXCEPT ![t] = Copies(f, rest)]
      /\ UNCHANGED <<made, net, subs, pc, watch, held, log, since, seen>>
  BY <1>2, <1>3 DEF Put
<1>6. queue' = IF c \in Open /\ fits THEN [queue EXCEPT ![c] = Append(queue[c], f)] ELSE queue
  BY <1>2, <1>4 DEF Put
<1>7. full' = [full EXCEPT ![c] = full[c] \/ (c \in Open /\ ~fits)]
  BY <1>2, <1>4 DEF Put
<1>8. /\ fan'[t].to = rest /\ (rest # <<>> => fan'[t].frame = f)
      /\ \A u \in Threads : u # t => fan'[u] = fan[u]
  BY <1>5, CopiesType DEF TypeOK
<1>9. /\ Distinct(fan[t].to) /\ f[1] \in Instr /\ Publisher(f[1]) = t
      /\ log[f[1]] # <<>> /\ f = log[f[1]][Len(log[f[1]])]
  BY <1>1, <1>2 DEF FeedInv, FanOk, Frame
<1>10. /\ Listed(fan[t].to, c) /\ Distinct(rest) /\ ~Listed(rest, c)
       /\ \A x : Listed(rest, x) => Listed(fan[t].to, x)
       /\ \A x : Listed(fan[t].to, x) => Listed(rest, x) \/ x = c
  BY <1>1, <1>2, <1>3, <1>9, TailList
<1>11. Open' = Open
  BY <1>5 DEF Open
<1>12. /\ \A x \in Conns : x # c => queue'[x] = queue[x] /\ full'[x] = full[x]
       /\ c \notin Open => queue'[c] = queue[c] /\ (full'[c] <=> full[c])
  <2>1. \A x \in Conns : x # c => queue'[x] = queue[x]
    BY <1>6 DEF TypeOK
  <2>2. \A x \in Conns : x # c => full'[x] = full[x]
    BY <1>7 DEF TypeOK
  <2>3. c \notin Open => queue'[c] = queue[c]
    BY <1>6
  <2>4. c \notin Open => (full'[c] <=> full[c])
    BY <1>7 DEF TypeOK
  <2> QED
    BY <2>1, <2>2, <2>3, <2>4
<1>13. ASSUME NEW i \in Instr PROVE LogOk(i)' /\ SubsOk(i)'
  BY <1>5, <1>11 DEF FeedInv, LogOk, SubsOk
<1>14. ASSUME NEW k \in DOMAIN net' PROVE NetOk(k)'
  BY <1>5 DEF FeedInv, NetOk
<1>15. ASSUME NEW u \in Threads PROVE FanOk(u)'
  <2>1. CASE u = t
    <3> SUFFICES ASSUME rest # <<>> PROVE FanOk(t)'
      BY <1>8, <2>1 DEF FanOk
    <3>1. fan'[t].to = rest /\ fan'[t].frame = f
      BY <1>8
    <3>2. \A x \in Conns : Listed(rest, x) =>
             /\ watch[x] = f[1] /\ pc[x] # "new"
             /\ x \in Open => since[x] < Len(log[f[1]])
      BY <1>1, <1>2, <1>10 DEF FeedInv, FanOk
    <3> QED
      BY <1>5, <1>9, <1>10, <1>11, <3>1, <3>2 DEF FanOk
  <2>2. CASE u # t
    BY <1>5, <1>8, <1>11, <2>2 DEF FeedInv, FanOk
  <2> QED
    BY <2>1, <2>2
<1>16. ASSUME NEW x \in Conns PROVE ConnOk(x)'
  <2>1. ConnOk(x)
    BY DEF FeedInv
  <2>2. x = c => pc[x] # "new"
    BY <1>10, InCopy
  <2> QED
    BY <1>5, <1>11, <1>12, <2>1, <2>2 DEF ConnOk
<1>17. ASSUME NEW x \in Open' PROVE Faithful(Got(x)', Due(x)', full'[x])
  <2>1. x \in Open /\ x \in Conns /\ Faithful(Got(x), Due(x), full[x])
    BY <1>11, FeedFaithfulEach DEF FeedInv, Open
  <2>2. CASE x # c
    <3>1. InFlight(x)' <=> InFlight(x)
      BY <1>8, <1>10, <2>2, InFlightListed
    <3>2. Due(x)' = Due(x)
      BY <1>5, <3>1 DEF Due
    <3>3. Got(x)' = Got(x) /\ full'[x] = full[x]
      BY <1>5, <1>12, <2>1, <2>2 DEF Got
    <3> QED
      BY <2>1, <3>2, <3>3
  <2>3. CASE x = c
    <3> DEFINE l == log[f[1]]
               n == Len(l)
    <3>1. watch[c] = f[1] /\ l \in Seq(Frame) /\ n \in Nat /\ since[c] \in Nat
      <4>1. watch[c] = f[1]
        BY <1>2, <1>9, <1>10, InCopy DEF TypeOK
      <4>2. since[c] \in Nat /\ log \in [Instr -> Seq(Frame)]
        BY DEF TypeOK
      <4>3. l \in Seq(Frame)
        BY <1>9, <4>2
      <4> QED
        BY <4>1, <4>2, <4>3
    <3>2. since[c] < n
      BY <1>1, <1>2, <1>10, <2>1, <2>3 DEF FeedInv, FanOk
    <3>3. InFlight(c)
      BY <1>10, InFlightListed
    <3>4. ~InFlight(c)'
      <4>1. \A u \in Threads : Listed(fan[u].to, c) => u = t
        BY <1>9, <3>1, InCopy
      <4>2. \A u \in Threads : ~Listed(fan'[u].to, c)
        BY <1>8, <1>10, <4>1
      <4> QED
        BY <4>2, InFlightListed
    <3>5. PICK d \in Seq(Frame) :
            /\ d = SubSeq(l, since[c] + 1, n - 1)
            /\ \A j \in DOMAIN d : \E k \in 1 .. (n - 1) : d[j] = l[k]
            /\ SubSeq(l, since[c] + 1, n) = Append(d, l[n])
      BY <3>1, <3>2, DueGrows
    <3>6. Due(c) = d
      BY <3>1, <3>3, <3>5 DEF Due
    <3>7. Due(c)' = Append(d, f)
      <4>1. n - 0 = n
        BY <3>1
      <4>2. Due(c)' = SubSeq(log[f[1]], since[c] + 1, Len(log[f[1]]) - 0)
        BY <1>5, <3>1, <3>4 DEF Due
      <4> QED
        BY <1>9, <3>5, <4>1, <4>2
    <3>8. \A j \in DOMAIN d : d[j][2] < f[2]
      <4> TAKE j \in DOMAIN d
      <4>1. PICK k \in 1 .. (n - 1) : d[j] = l[k]
        BY <3>5
      <4>2. k \in DOMAIN l /\ n \in DOMAIN l /\ k < n
        BY <3>1
      <4>3. l[k][2] < l[n][2]
        BY <1>9, <4>2 DEF FeedInv, LogOk
      <4> QED
        BY <1>9, <4>1, <4>3
    <3>9. seen[c] \in Seq(Frame) /\ held[c] \in Seq(Frame) /\ queue[c] \in Seq(Frame)
          /\ full[c] \in BOOLEAN
      BY DEF TypeOK
    <3>10. Got(c) \in Seq(Frame)
      BY <1>2, <3>9, GotSteps DEF Got
    <3>11. CASE fits
      <4>1. queue'[c] = Append(queue[c], f)
        BY <1>6, <2>1, <2>3, <3>11 DEF TypeOK
      <4>2. full'[c] = full[c]
        BY <1>7, <3>9, <3>11 DEF TypeOK
      <4>3. Got(c)' = Append(Got(c), f)
        <5>1. Got(c)' = (seen[c] \o held[c]) \o Append(queue[c], f)
          BY <1>5, <4>1 DEF Got
        <5>2. (seen[c] \o held[c]) \o Append(queue[c], f)
                = Append((seen[c] \o held[c]) \o queue[c], f)
          <6>1. \A a, b, q \in Seq(Frame), g \in Frame :
                  (a \o b) \o Append(q, g) = Append((a \o b) \o q, g)
            BY GotSteps
          <6> QED
            BY <3>9, <6>1, Zenon
        <5> QED
          BY <5>1, <5>2 DEF Got
      <4> QED
        BY <2>1, <2>3, <3>6, <3>7, <3>8, <3>10, <4>2, <4>3, FaithfulPut
    <3>12. CASE ~fits
      <4>1. queue'[c] = queue[c]
        BY <1>6, <3>12
      <4>2. full'[c] = TRUE
        BY <1>7, <2>1, <2>3, <3>9, <3>12 DEF TypeOK
      <4>3. Got(c)' = Got(c)
        BY <1>5, <4>1 DEF Got
      <4> QED
        BY <2>1, <2>3, <3>6, <3>7, <3>10, <4>2, <4>3, FaithfulDropped
    <3> QED
      BY <2>3, <3>11, <3>12
  <2> QED
    BY <2>2, <2>3
<1> QED
  BY <1>13, <1>14, <1>15, <1>16, <1>17, FeedFaithfulEach DEF FeedInv

\* A connection opens: its subscription is not in a copy that is being put.
LEMMA ConnectFeed ==
  ASSUME TypeOK, FeedInv, NEW c \in Conns, Connect(c)
  PROVE  FeedInv'
<1>1. PICK i \in Instr : i = watch[c]
  BY DEF TypeOK
<1>2. /\ pc[c] = "new" /\ pc' = [pc EXCEPT ![c] = "loop"]
      /\ subs' = [subs EXCEPT ![i] = Append(subs[i], c)]
      /\ since' = [since EXCEPT ![c] = Len(log[i])]
      /\ UNCHANGED <<made, net, fan, queue, watch, held, log, seen, full>>
  BY <1>1 DEF Connect, Subscribe
<1>3. /\ pc'[c] = "loop" /\ \A x \in Conns : x # c => pc'[x] = pc[x] /\ since'[x] = since[x]
      /\ since'[c] = Len(log[i])
  BY <1>2 DEF TypeOK
<1>4. c \notin Open /\ c \in Open' /\ \A x \in Conns : x # c => (x \in Open' <=> x \in Open)
  BY <1>2, <1>3 DEF Open
<1>5. /\ subs'[i] = Append(subs[i], c) /\ subs[i] \in Seq(Conns)
      /\ \A j \in Instr : j # i => subs'[j] = subs[j]
  BY <1>2 DEF TypeOK
<1>6. ASSUME NEW t \in Threads PROVE ~Listed(fan[t].to, c)
  BY <1>2, InCopy
<1>7. ASSUME NEW j \in Instr PROVE LogOk(j)' /\ SubsOk(j)'
  <2>1. LogOk(j)'
    BY <1>2 DEF FeedInv, LogOk
  <2>2. SubsOk(j)
    BY DEF FeedInv
  <2>3. CASE j # i
    <3>1. \A x \in Conns : Listed(subs[j], x) <=> x \in Open' /\ watch[x] = j
      BY <1>1, <1>4, <2>2, <2>3 DEF SubsOk
    <3> QED
      BY <1>2, <1>5, <2>1, <2>2, <2>3, <3>1 DEF SubsOk
  <2>4. CASE j = i
    <3>1. ~Listed(subs[i], c) /\ Distinct(subs[i])
      BY <1>4, <2>2, <2>4 DEF SubsOk
    <3>2. /\ Distinct(subs'[i])
          /\ \A x : Listed(subs'[i], x) <=> Listed(subs[i], x) \/ x = c
      BY <1>5, <3>1, AppendList
    <3>3. \A x \in Conns : Listed(subs'[i], x) <=> x \in Open' /\ watch[x] = i
      BY <1>1, <1>4, <2>2, <2>4, <3>2 DEF SubsOk
    <3> QED
      BY <1>2, <2>1, <2>4, <3>2, <3>3 DEF SubsOk
  <2> QED
    BY <2>3, <2>4
<1>8. ASSUME NEW k \in DOMAIN net' PROVE NetOk(k)'
  BY <1>2 DEF FeedInv, NetOk
<1>9. ASSUME NEW t \in Threads PROVE FanOk(t)'
  <2> SUFFICES ASSUME fan[t].to # <<>> PROVE FanOk(t)'
    BY <1>2 DEF FanOk
  <2>1. FanOk(t)
    BY DEF FeedInv
  <2>2. \A x \in Conns : Listed(fan[t].to, x) =>
             /\ watch[x] = fan[t].frame[1] /\ pc'[x] # "new"
             /\ x \in Open' => since'[x] < Len(log[fan[t].frame[1]])
    BY <1>3, <1>4, <1>6, <2>1 DEF FanOk
  <2> QED
    BY <1>2, <2>1, <2>2 DEF FanOk
<1>10. ASSUME NEW x \in Conns PROVE ConnOk(x)'
  <2>1. ConnOk(x) /\ log[i] \in Seq(Frame)
    BY DEF FeedInv, TypeOK
  <2>2. CASE x = c
    <3>1. Len(log[i]) <= Len(log[i])
      BY <2>1
    <3> QED
      BY <1>1, <1>2, <1>3, <2>1, <2>2, <3>1 DEF ConnOk
  <2>3. CASE x # c
    BY <1>2, <1>3, <1>4, <2>1, <2>3 DEF ConnOk
  <2> QED
    BY <2>2, <2>3
<1>11. ASSUME NEW x \in Open' PROVE Faithful(Got(x)', Due(x)', full'[x])
  <2>1. x \in Conns /\ (InFlight(x)' <=> InFlight(x))
    BY <1>2 DEF Open, InFlight
  <2>2. CASE x = c
    <3>1. queue[c] = <<>> /\ held[c] = <<>> /\ seen[c] = <<>>
      BY <1>2 DEF FeedInv, ConnOk
    <3>2. Got(c)' = <<>>
      BY <1>2, <3>1 DEF Got
    <3>3. ~InFlight(c)
      BY <1>6, InFlightListed
    <3>4. Due(c)' = SubSeq(log[i], Len(log[i]) + 1, Len(log[i]) - 0)
      BY <1>1, <1>2, <1>3, <2>1, <2>2, <3>3 DEF Due
    <3>5. Len(log[i]) \in Nat
      BY DEF TypeOK
    <3>6. Due(c)' = <<>>
      BY <3>4, <3>5, SubSeqEmpty
    <3> QED
      BY <2>2, <3>2, <3>6 DEF Faithful
  <2>3. CASE x # c
    <3>1. x \in Open /\ Faithful(Got(x), Due(x), full[x])
      BY <1>4, <2>1, <2>3, FeedFaithfulEach DEF FeedInv
    <3>2. Got(x)' = Got(x) /\ Due(x)' = Due(x) /\ full'[x] = full[x]
      BY <1>2, <1>3, <2>1, <2>3 DEF Got, Due
    <3> QED
      BY <3>1, <3>2
  <2> QED
    BY <2>2, <2>3
<1> QED
  BY <1>7, <1>8, <1>9, <1>10, <1>11, FeedFaithfulEach DEF FeedInv

\* The connection moves a frame on: nothing is lost or repeated on the way.
LEMMA MoveFeed ==
  ASSUME TypeOK, FeedInv, NEW c \in Conns,
         c \in Open, c \in Open', \A x \in Conns : x # c => pc'[x] = pc[x],
         \A x \in Conns : x # c => queue'[x] = queue[x] /\ held'[x] = held[x] /\ seen'[x] = seen[x],
         pc'[c] = "loop" => held'[c] = <<>>,
         Got(c)' = Got(c),
         UNCHANGED <<made, net, subs, fan, watch, log, since, full>>
  PROVE  FeedInv'
<1>1. Open' = Open /\ pc'[c] # "new" /\ pc[c] # "new"
  BY DEF Open
<1>2. ASSUME NEW i \in Instr PROVE LogOk(i)' /\ SubsOk(i)'
  BY <1>1 DEF FeedInv, LogOk, SubsOk
<1>3. ASSUME NEW k \in DOMAIN net' PROVE NetOk(k)'
  BY DEF FeedInv, NetOk
<1>4. ASSUME NEW t \in Threads PROVE FanOk(t)'
  <2> SUFFICES ASSUME fan[t].to # <<>> PROVE FanOk(t)'
    BY DEF FanOk
  <2>1. FanOk(t)
    BY DEF FeedInv
  <2>2. \A x \in Conns : pc[x] # "new" => pc'[x] # "new"
    BY <1>1
  <2> QED
    BY <1>1, <2>1, <2>2 DEF FanOk
<1>5. ASSUME NEW x \in Conns PROVE ConnOk(x)'
  BY <1>1 DEF FeedInv, ConnOk
<1>6. ASSUME NEW x \in Open' PROVE Faithful(Got(x)', Due(x)', full'[x])
  <2>1. x \in Conns /\ Faithful(Got(x), Due(x), full[x])
    BY <1>1, FeedFaithfulEach DEF FeedInv, Open
  <2>2. Due(x)' = Due(x)
    BY DEF Due, InFlight
  <2>3. x # c => Got(x)' = Got(x)
    BY <2>1 DEF Got
  <2> QED
    BY <2>1, <2>2, <2>3
<1> QED
  BY <1>2, <1>3, <1>4, <1>5, <1>6, FeedFaithfulEach DEF FeedInv

\* What is taken from a queue is the oldest frame in it.
LEMMA TakeFeed ==
  ASSUME TypeOK, FeedInv, NEW c \in Conns, Take(c)
  PROVE  FeedInv'
<1>1. /\ pc[c] = "loop" /\ queue[c] # <<>> /\ held[c] = <<>>
      /\ held' = [held EXCEPT ![c] = <<Head(queue[c])>>]
      /\ queue' = [queue EXCEPT ![c] = Tail(queue[c])]
      /\ pc' = [pc EXCEPT ![c] = "send"]
      /\ UNCHANGED <<made, net, subs, fan, watch, log, since, seen, full>>
  BY DEF Take, FeedInv, ConnOk
<1>2. /\ held'[c] = <<Head(queue[c])>> /\ queue'[c] = Tail(queue[c]) /\ pc'[c] = "send"
      /\ \A x \in Conns : x # c => queue'[x] = queue[x] /\ held'[x] = held[x] /\ pc'[x] = pc[x]
  BY <1>1 DEF TypeOK
<1>3. Got(c)' = Got(c)
  <2>1. /\ seen[c] \in Seq(Frame) /\ queue[c] \in Seq(Frame) /\ Head(queue[c]) \in Frame
    BY <1>1 DEF TypeOK
  <2>2. (seen[c] \o <<>>) \o queue[c] = (seen[c] \o <<Head(queue[c])>>) \o Tail(queue[c])
    <3>1. \A x, q \in Seq(Frame), f \in Frame :
            q # <<>> => (x \o <<>>) \o q = (x \o <<Head(q)>>) \o Tail(q)
      BY EmptySeq, GotSteps, Zenon
    <3> QED
      BY <1>1, <2>1, <3>1, Zenon
  <2> QED
    BY <1>1, <1>2, <2>2 DEF Got
<1>4. c \in Open /\ c \in Open'
  BY <1>1, <1>2 DEF Open
<1> QED
  BY <1>1, <1>2, <1>3, <1>4, MoveFeed

\* What is sent to a viewer is the frame that was taken.
LEMMA SendFeed ==
  ASSUME TypeOK, FeedInv, NEW c \in Conns, Send(c)
  PROVE  FeedInv'
<1>1. /\ pc[c] = "send"
      /\ seen' = [seen EXCEPT ![c] = seen[c] \o held[c]]
      /\ held' = [held EXCEPT ![c] = <<>>]
      /\ pc' = [pc EXCEPT ![c] = "loop"]
      /\ UNCHANGED <<made, net, subs, fan, queue, watch, log, since, full>>
  BY DEF Send
<1>2. /\ held'[c] = <<>> /\ seen'[c] = seen[c] \o held[c] /\ pc'[c] = "loop"
      /\ \A x \in Conns : x # c => seen'[x] = seen[x] /\ held'[x] = held[x] /\ pc'[x] = pc[x]
  BY <1>1 DEF TypeOK
<1>3. Got(c)' = Got(c)
  <2>1. /\ seen[c] \in Seq(Frame) /\ held[c] \in Seq(Frame) /\ queue[c] \in Seq(Frame)
        /\ seen[c] \o held[c] \in Seq(Frame)
    BY DEF TypeOK
  <2>2. ((seen[c] \o held[c]) \o <<>>) \o queue[c] = (seen[c] \o held[c]) \o queue[c]
    BY <2>1, ConcatEmptySeq
  <2> QED
    BY <1>1, <1>2, <2>2 DEF Got
<1>4. c \in Open /\ c \in Open'
  BY <1>1, <1>2 DEF Open
<1> QED
  BY <1>1, <1>2, <1>3, <1>4, MoveFeed

\* A connection ends, also while a frame for it is being put.
LEMMA LeaveFeed ==
  ASSUME TypeOK, FeedInv, NEW c \in Conns, Leave(c)
  PROVE  FeedInv'
<1>1. PICK i \in Instr : i = watch[c]
  BY DEF TypeOK
<1>2. /\ c \in Open /\ pc' = [pc EXCEPT ![c] = "off"]
      /\ subs' = [subs EXCEPT ![i] = RemoveFirst(subs[i], c)]
      /\ UNCHANGED <<made, net, fan, watch, log>>
  BY <1>1 DEF Leave, Unsubscribe
<1>3. \A x \in Conns : x # c => /\ queue'[x] = queue[x] /\ held'[x] = held[x]
                                 /\ seen'[x] = seen[x] /\ since'[x] = since[x]
                                 /\ full'[x] = full[x] /\ pc'[x] = pc[x]
  <2>1. \A x \in Conns : x # c => queue'[x] = queue[x] /\ held'[x] = held[x] /\ seen'[x] = seen[x]
    BY DEF Leave, Forget
  <2>2. \A x \in Conns : x # c => since'[x] = since[x] /\ full'[x] = full[x]
    BY DEF Leave, Forget
  <2>3. \A x \in Conns : x # c => pc'[x] = pc[x]
    BY <1>2 DEF TypeOK
  <2> QED
    BY <2>1, <2>2, <2>3
<1>4. /\ pc'[c] = "off" /\ c \notin Open'
      /\ \A x \in Conns : x # c => (x \in Open' <=> x \in Open)
  <2>1. pc'[c] = "off"
    BY <1>2 DEF TypeOK
  <2> QED
    BY <1>3, <2>1 DEF Open
<1>5. /\ subs'[i] = RemoveFirst(subs[i], c) /\ subs[i] \in Seq(Conns)
      /\ \A j \in Instr : j # i => subs'[j] = subs[j]
  BY <1>2 DEF TypeOK
<1>6. ASSUME NEW j \in Instr PROVE LogOk(j)' /\ SubsOk(j)'
  <2>1. LogOk(j)'
    BY <1>2 DEF FeedInv, LogOk
  <2>2. SubsOk(j)
    BY DEF FeedInv
  <2>3. CASE j # i
    <3>1. \A x \in Conns : Listed(subs[j], x) <=> x \in Open' /\ watch[x] = j
      BY <1>1, <1>4, <2>2, <2>3 DEF SubsOk
    <3> QED
      BY <1>2, <1>5, <2>1, <2>2, <2>3, <3>1 DEF SubsOk
  <2>4. CASE j = i
    <3>1. /\ Distinct(subs'[i])
          /\ \A x : Listed(subs'[i], x) <=> Listed(subs[i], x) /\ x # c
      BY <1>5, <2>2, <2>4, RemoveFirstList DEF SubsOk
    <3>2. \A x \in Conns : Listed(subs'[i], x) <=> x \in Open' /\ watch[x] = i
      BY <1>4, <2>2, <2>4, <3>1 DEF SubsOk
    <3> QED
      BY <1>2, <2>1, <2>4, <3>1, <3>2 DEF SubsOk
  <2> QED
    BY <2>3, <2>4
<1>7. ASSUME NEW k \in DOMAIN net' PROVE NetOk(k)'
  BY <1>2 DEF FeedInv, NetOk
<1>8. ASSUME NEW t \in Threads PROVE FanOk(t)'
  <2> SUFFICES ASSUME fan[t].to # <<>> PROVE FanOk(t)'
    BY <1>2 DEF FanOk
  <2>1. FanOk(t)
    BY DEF FeedInv
  <2>2. \A x \in Conns : Listed(fan[t].to, x) =>
             /\ watch[x] = fan[t].frame[1] /\ pc'[x] # "new"
             /\ x \in Open' => since'[x] < Len(log[fan[t].frame[1]])
    BY <1>3, <1>4, <2>1 DEF FanOk
  <2> QED
    BY <1>2, <2>1, <2>2 DEF FanOk
<1>9. ASSUME NEW x \in Conns PROVE ConnOk(x)'
  <2>1. CASE x = c
    BY <1>4, <2>1 DEF ConnOk
  <2>2. CASE x # c
    BY <1>2, <1>3, <1>4, <2>2 DEF FeedInv, ConnOk
  <2> QED
    BY <2>1, <2>2
<1>10. ASSUME NEW x \in Open' PROVE Faithful(Got(x)', Due(x)', full'[x])
  <2>1. x \in Conns /\ x # c
    BY <1>4 DEF Open
  <2>2. x \in Open /\ Faithful(Got(x), Due(x), full[x])
    BY <1>4, <2>1, FeedFaithfulEach DEF FeedInv
  <2>3. Got(x)' = Got(x) /\ Due(x)' = Due(x) /\ full'[x] = full[x]
    BY <1>2, <1>3, <2>1 DEF Got, Due, InFlight
  <2> QED
    BY <2>2, <2>3
<1> QED
  BY <1>6, <1>7, <1>8, <1>9, <1>10, FeedFaithfulEach DEF FeedInv

\* A crash of the web process ends every connection.
LEMMA CrashFeed == TypeOK /\ FeedInv /\ WebCrash => FeedInv'
<1> SUFFICES ASSUME TypeOK, FeedInv, WebCrash PROVE FeedInv'
  OBVIOUS
<1>1. /\ net' = <<>> /\ subs' = [i \in Instr |-> <<>>]
      /\ fan' = [t \in Threads |-> NoFan]
      /\ pc' = [c \in Conns |-> IF c \in Open THEN "off" ELSE pc[c]]
      /\ UNCHANGED <<made, watch, log>>
  BY DEF WebCrash
<1>2. Open' = {}
  BY <1>1 DEF Open
<1>3. ASSUME NEW i \in Instr PROVE LogOk(i)' /\ SubsOk(i)'
  <2>1. LogOk(i)'
    BY <1>1 DEF FeedInv, LogOk
  <2>2. SubsOk(i)'
    BY <1>1, <1>2 DEF SubsOk, Distinct, Listed
  <2> QED
    BY <2>1, <2>2
<1>4. ASSUME NEW t \in Threads PROVE FanOk(t)'
  BY <1>1, NoFanType DEF FanOk
<1>5. ASSUME NEW c \in Conns PROVE ConnOk(c)'
  <2>1. ConnOk(c) /\ c \notin Open'
    BY <1>2 DEF FeedInv
  <2>2. pc'[c] = "loop" => FALSE
    BY <1>2 DEF Open
  <2>3. ASSUME pc'[c] = "new"
        PROVE  queue'[c] = <<>> /\ held'[c] = <<>> /\ seen'[c] = <<>> /\ ~full'[c]
    <3>1. pc[c] = "new" /\ c \notin Open
      BY <1>1, <2>3 DEF Open
    <3>2. queue'[c] = queue[c] /\ held'[c] = held[c] /\ seen'[c] = seen[c]
      BY <3>1 DEF WebCrash, Forget
    <3>3. full'[c] = full[c]
      BY <3>1 DEF WebCrash, Forget
    <3> QED
      BY <2>1, <3>1, <3>2, <3>3 DEF ConnOk
  <2> QED
    BY <2>1, <2>2, <2>3 DEF ConnOk
<1>6. FeedFaithful'
  BY <1>2 DEF FeedFaithful
<1>7. \A k \in DOMAIN net' : NetOk(k)'
  BY <1>1
<1> QED
  BY <1>3, <1>4, <1>5, <1>6, <1>7 DEF FeedInv

\* Every step keeps the invariant.
LEMMA FeedStep == TypeOK /\ FeedInv /\ [Next]_feedVars => FeedInv'
<1> SUFFICES ASSUME TypeOK, FeedInv, [Next]_feedVars PROVE FeedInv'
  OBVIOUS
<1>1. ASSUME NEW c \in Conns, Poll(c) PROVE FeedInv'
  BY <1>1, IdleFeed DEF Poll
<1>2. ASSUME NEW bound \in BOOLEAN, WebStart(bound) PROVE FeedInv'
  BY <1>2, IdleFeed DEF WebStart
<1>3. ASSUME Tick PROVE FeedInv'
  BY <1>3, IdleFeed DEF Tick
<1>4. CASE UNCHANGED feedVars
  BY <1>4, IdleFeed DEF feedVars
<1> QED
  BY <1>1, <1>2, <1>3, <1>4, OwnPublishFeed, ForwardFeed, PutFeed, StrayFeed, IngestFeed,
     ConnectFeed, TakeFeed, SendFeed, LeaveFeed, CrashFeed DEF Next, Watch

\* Nobody is connected.
LEMMA FeedInit == Init => TypeOK /\ FeedInv
<1> SUFFICES ASSUME Init PROVE TypeOK /\ FeedInv
  OBVIOUS
<1>1. TypeOK
  BY NoFanType DEF Init, TypeOK
<1>2. Open = {} /\ \A c \in Conns : pc[c] = "new"
  BY DEF Init, Open
<1>3. FeedInv
  <2>1. \A i \in Instr : LogOk(i) /\ SubsOk(i)
    BY <1>2 DEF Init, LogOk, SubsOk, Listed, Distinct
  <2>2. \A t \in Threads : FanOk(t)
    BY NoFanType DEF Init, FanOk
  <2>3. \A c \in Conns : ConnOk(c)
    BY <1>2 DEF Init, ConnOk
  <2>4. FeedFaithful /\ \A k \in DOMAIN net : NetOk(k)
    BY <1>2 DEF Init, FeedFaithful
  <2> QED
    BY <2>1, <2>2, <2>3, <2>4 DEF FeedInv
<1> QED
  BY <1>1, <1>3

\* The processes, queues and connections have their types.
THEOREM TypeCorrect == Spec => []TypeOK
<1>1. TypeOK /\ FeedInv /\ [Next]_feedVars => (TypeOK /\ FeedInv)'
  BY TypeStep, FeedStep
<1> QED
  BY <1>1, FeedInit, PTL DEF Spec

\* For any number of instruments, viewers and restarts, and any queue size: each
\* viewer gets the frames of its instrument once and in order, and, while its
\* queue has room, all that reached the hub since it subscribed (FrameHub,
\* ws_live and the UDP bridge).
THEOREM FeedFaithfulTheorem == Spec => []FeedFaithful
<1>1. TypeOK /\ FeedInv /\ [Next]_feedVars => (TypeOK /\ FeedInv)'
  BY TypeStep, FeedStep
<1>2. FeedInv => FeedFaithful
  BY DEF FeedInv
<1> QED
  BY <1>1, <1>2, FeedInit, PTL DEF Spec
=============================================================================
