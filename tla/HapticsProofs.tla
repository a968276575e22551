---------------------------- MODULE HapticsProofs ----------------------------
(***************************************************************************)
(* Theorems of LiveHaptics: the blocks of the audio stream are played in   *)
(* time and leave nothing playing, for any period, ages, lateness and      *)
(* number of failures.                                                     *)
(***************************************************************************)
EXTENDS LiveHaptics, SequenceTheorems, FiniteSetTheorems, WellFoundedInduction, TLAPS

----------------------------------------------------------------------------
(* The datagrams of a turn.                                                *)

\* A set of naturals has a least element, by which a first wrong state of a run
\* is found.
LEMMA Least ==
  ASSUME NEW S, S \subseteq Nat, S # {}
  PROVE  Min(S) \in S /\ \A y \in S : Min(S) <= y
<1>1. PICK n \in S : TRUE
  OBVIOUS
<1> DEFINE Low == {x \in S : x <= n}
           Upto(x) == 0 .. x
           Bounds == {Upto(x) : x \in Low}
           Whole == 0 .. n
           Smaller == StrictSubsetOrdering(Whole)
<1>2. IsWellFoundedOn(Smaller, SUBSET Whole)
  <2>1. IsFiniteSet(Whole)
    BY <1>1, FS_Interval
  <2> QED  BY <2>1, FS_FiniteSubsetsOfFinite, FS_StrictSubsetOrderingWellFounded
<1>3. Bounds \subseteq SUBSET Whole /\ Bounds # {}
  <2>1. n \in Low /\ \A x \in Low : Upto(x) \subseteq Whole
    BY <1>1
  <2> QED  BY <2>1
<1>4. \A X, Y \in SUBSET Whole : X \subseteq Y /\ X # Y => <<X, Y>> \in Smaller
  BY DEF StrictSubsetOrdering
<1> HIDE DEF Smaller, Bounds, Whole
<1>5. PICK least \in Bounds : \A X \in Bounds : <<X, least>> \notin Smaller
  BY <1>2, <1>3, WFMin
<1>6. PICK x \in Low : least = Upto(x)
  BY DEF Bounds
<1>7. \A y \in S : x <= y
  <2> SUFFICES ASSUME NEW y \in S, y < x PROVE FALSE
    OBVIOUS
  <2>1. y \in Low
    BY <1>6
  <2>2. Upto(y) \subseteq Upto(x) /\ Upto(y) # Upto(x)
    <3>1. x \in Upto(x) /\ x \notin Upto(y) /\ Upto(y) \subseteq Upto(x)
      BY <1>6, <2>1
    <3> QED  BY <3>1
  <2>3. Upto(y) \in Bounds
    BY <2>1 DEF Bounds
  <2> QED  BY <1>3, <1>4, <1>5, <1>6, <2>2, <2>3
<1> QED  BY <1>6, <1>7 DEF Min

\* The loop of drain runs over every datagram.
After(run, stream, packets, n) ==
  IF n = 0 THEN stream
  ELSE IF packets[n].age > MaxAge THEN run[n - 1]
  ELSE Push(run[n - 1], packets[n].kind)

IsRun(run, stream, packets, m) == run = [n \in 0 .. m |-> After(run, stream, packets, n)]

LEMMA RunGrows ==
  ASSUME NEW stream, NEW packets, NEW m \in Nat, NEW h, IsRun(h, stream, packets, m)
  PROVE  \E g : IsRun(g, stream, packets, m + 1)
<1> DEFINE g == [n \in 0 .. m + 1 |-> IF n = m + 1 THEN After(h, stream, packets, n) ELSE h[n]]
<1>1. \A n \in 0 .. m : g[n] = h[n]
  OBVIOUS
<1>2. \A n \in 0 .. m : h[n] = After(h, stream, packets, n)
  BY DEF IsRun
<1>3. \A n \in 0 .. m + 1 : After(g, stream, packets, n) = After(h, stream, packets, n)
  <2> SUFFICES ASSUME NEW n \in 0 .. m + 1, n # 0
               PROVE  g[n - 1] = h[n - 1]
    BY DEF After
  <2> n - 1 \in 0 .. m
    OBVIOUS
  <2> QED  BY <1>1
<1>4. \A n \in 0 .. m + 1 : g[n] = After(g, stream, packets, n)
  <2> SUFFICES ASSUME NEW n \in 0 .. m + 1 PROVE g[n] = After(g, stream, packets, n)
    OBVIOUS
  <2>1. CASE n = m + 1
    BY <1>3, <2>1
  <2>2. CASE n # m + 1
    <3>1. n \in 0 .. m
      BY <2>2
    <3> QED  BY <1>1, <1>2, <1>3, <3>1
  <2> QED  BY <2>1, <2>2
<1>5. g = [n \in 0 .. m + 1 |-> g[n]]
  OBVIOUS
<1> HIDE DEF g
<1>6. IsRun(g, stream, packets, m + 1)
  BY <1>4, <1>5 DEF IsRun
<1> QED  BY <1>6

LEMMA RunExists ==
  ASSUME NEW stream, NEW packets, NEW m \in Nat
  PROVE  \E g : IsRun(g, stream, packets, m)
<1> DEFINE Missing == {k \in Nat : ~ \E g : IsRun(g, stream, packets, k)}
<1> SUFFICES ASSUME Missing # {} PROVE FALSE
  OBVIOUS
<1>1. Missing \subseteq Nat
  OBVIOUS
<1> HIDE DEF Missing
<1>2. PICK k \in Missing : \A j \in Missing : k <= j
  BY <1>1, Least
<1>3. CASE k = 0
  <2> DEFINE g == [n \in 0 .. 0 |-> stream]
  <2>1. \A n \in 0 .. 0 : After(g, stream, packets, n) = stream
    BY DEF After
  <2>2. [n \in 0 .. 0 |-> After(g, stream, packets, n)] = [n \in 0 .. 0 |-> stream]
    BY <2>1
  <2>3. IsRun(g, stream, packets, 0)
    BY <2>2 DEF IsRun
  <2> QED  BY <1>3, <2>3 DEF Missing
<1>4. CASE k # 0
  <2>1. k - 1 \in Nat /\ k - 1 \notin Missing /\ (k - 1) + 1 = k
    BY <1>1, <1>2, <1>4
  <2>2. PICK h : IsRun(h, stream, packets, k - 1)
    BY <2>1 DEF Missing
  <2>3. \E g : IsRun(g, stream, packets, k)
    BY <2>1, <2>2, RunGrows
  <2> QED  BY <2>3 DEF Missing
<1> QED  BY <1>3, <1>4

LEMMA ReceivedRuns ==
  ASSUME NEW stream, NEW packets, Len(packets) \in Nat
  PROVE  \E run : /\ \A n \in 0 .. Len(packets) : run[n] = After(run, stream, packets, n)
                  /\ Received(stream, packets) = run[Len(packets)]
<1> DEFINE run == CHOOSE after : after =
                    [n \in 0 .. Len(packets) |->
                       IF n = 0 THEN stream
                       ELSE IF packets[n].age > MaxAge THEN after[n - 1]
                       ELSE Push(after[n - 1], packets[n].kind)]
<1>1. \E after : after =
                    [n \in 0 .. Len(packets) |->
                       IF n = 0 THEN stream
                       ELSE IF packets[n].age > MaxAge THEN after[n - 1]
                       ELSE Push(after[n - 1], packets[n].kind)]
  <2>1. PICK g : IsRun(g, stream, packets, Len(packets))
    BY RunExists
  <2>2. g = [n \in 0 .. Len(packets) |->
               IF n = 0 THEN stream
               ELSE IF packets[n].age > MaxAge THEN g[n - 1]
               ELSE Push(g[n - 1], packets[n].kind)]
    BY <2>1 DEF IsRun, After
  <2> QED  BY <2>2, Zenon
<1>2. run = [n \in 0 .. Len(packets) |->
               IF n = 0 THEN stream
               ELSE IF packets[n].age > MaxAge THEN run[n - 1]
               ELSE Push(run[n - 1], packets[n].kind)]
  BY <1>1
<1>3. Received(stream, packets) = run[Len(packets)]
  BY DEF Received
<1> HIDE DEF run
<1>4. \A n \in 0 .. Len(packets) : run[n] = After(run, stream, packets, n)
  BY <1>2 DEF After
<1> QED  BY <1>3, <1>4

----------------------------------------------------------------------------
(* The queue.                                                              *)

Frame == [kind : Kinds, due : Int]

\* The instant of the i-th block of a stream.
Due(deadline, i) == deadline + Period * (i - 1)

\* A stream has one deadline, and a block in each period from it on.
StreamRight(s) ==
  /\ s \in [frames : Seq(Frame), deadline : SUBSET Int]
  /\ Len(s.frames) <= Capacity
  /\ s.deadline = {} => s.frames = <<>>
  /\ \A d, e \in s.deadline : d = e
  /\ \A d \in s.deadline, i \in 1 .. Len(s.frames) : s.frames[i].due = Due(d, i)

LEMMA DueSteps ==
  ASSUME NEW d \in Int, NEW i \in Nat
  PROVE  /\ Due(d, i) \in Int /\ Due(d, 1) = d
         /\ Due(d, i + 1) = Due(d, i) + Period
         /\ Due(d + Period, i) = Due(d, i + 1)
BY HapticsAssumption DEF Due

LEMMA StreamBuilt ==
  ASSUME NEW g \in Seq(Frame), Len(g) <= 3, NEW d \in Int,
         \A i \in 1 .. Len(g) : g[i].due = Due(d, i)
  PROVE  StreamRight([frames |-> g, deadline |-> {d}])
<1> DEFINE s == [frames |-> g, deadline |-> {d}]
<1>1. /\ s \in [frames : Seq(Frame), deadline : SUBSET Int]
      /\ s.frames = g /\ s.deadline = {d}
  OBVIOUS
<1> HIDE DEF s
<1>2. StreamRight(s)
  BY <1>1 DEF StreamRight, Capacity
<1> QED  BY <1>2 DEF s

\* push keeps to it, also when the queue overflows, and ends no stream.
LEMMA PushRight ==
  ASSUME NEW s, StreamRight(s), NEW kind \in Kinds
  PROVE  StreamRight(Push(s, kind)) /\ (Push(s, kind).deadline = {} => s.deadline = {})
<1> DEFINE f == s.frames
           n == Len(s.frames)
<1>1. /\ s = [frames |-> f, deadline |-> s.deadline]
      /\ f \in Seq(Frame) /\ n \in Nat /\ n <= 3 /\ s.deadline \subseteq Int
      /\ Period \in Nat \ {0}
  BY HapticsAssumption DEF StreamRight, Capacity
<1>2. CASE s.deadline = {} /\ kind = "silence"
  BY <1>2 DEF Push
<1>3. CASE s.deadline = {} /\ kind # "silence"
  <2> DEFINE b == [kind |-> kind, due |-> Period]
  <2>1. f = <<>>
    BY <1>3 DEF StreamRight
  <2>2. Push(s, kind) = [frames |-> Append(<<>>, b), deadline |-> {Period}]
    BY <1>3, <2>1 DEF Push, NextDue, Capacity
  <2>3. b \in Frame /\ b.due = Period
    BY <1>1 DEF Frame
  <2> HIDE DEF b
  <2>4. Append(<<>>, b) = <<b>>
    OBVIOUS
  <2>5. /\ <<b>> \in Seq(Frame) /\ Len(<<b>>) = 1 /\ <<b>>[1] = b
    BY <2>3
  <2>6. Due(Period, 1) = Period
    BY <1>1, DueSteps
  <2>7. StreamRight([frames |-> <<b>>, deadline |-> {Period}])
    <3>1. \A i \in 1 .. Len(<<b>>) : <<b>>[i].due = Due(Period, i)
      BY <2>3, <2>5, <2>6
    <3> QED  BY <1>1, <2>5, <3>1, StreamBuilt
  <2> QED  BY <1>3, <2>2, <2>4, <2>7
<1>4. CASE s.deadline # {}
  <2>1. PICK d \in Int : s.deadline = {d}
    BY <1>1, <1>4 DEF StreamRight
  <2>2. \A i \in 1 .. n : f[i].due = Due(d, i) /\ f[i] \in Frame
    BY <1>1, <2>1 DEF StreamRight
  <2> DEFINE b == [kind |-> kind, due |-> Due(d, n + 1)]
  <2>3. Due(d, n + 1) \in Int
    <3>1. n + 1 \in Nat
      BY <1>1
    <3> HIDE DEF n
    <3> QED  BY ONLY <3>1, d \in Int, DueSteps
  <2>4. b \in Frame /\ b.due = Due(d, n + 1)
    BY <2>3 DEF Frame
  <2>5. (CHOOSE x \in s.deadline : TRUE) = d
    BY <2>1
  <2>6. NextDue(f, d) = Due(d, n + 1)
    <3>1. CASE f = <<>>
      <4>1. n = 0
        BY <3>1
      <4> QED  BY <3>1, <4>1, DueSteps DEF NextDue
    <3>2. CASE f # <<>>
      <4>1. n \in 1 .. n
        BY <1>1, <3>2
      <4> QED
        <5>1. NextDue(f, d) = f[n].due + Period
          BY <3>2 DEF NextDue, Last
        <5>2. f[n].due = Due(d, n) /\ n \in Nat
          BY <1>1, <2>2, <4>1
        <5> HIDE DEF f, n
        <5> QED  BY <5>1, <5>2, DueSteps
    <3> QED  BY <3>1, <3>2
  <2> HIDE DEF b
  <2>7. CASE n # 3
    <3> DEFINE g == Append(f, b)
    <3>1. Push(s, kind) = [frames |-> g, deadline |-> {d}]
      BY <1>4, <2>1, <2>5, <2>6, <2>7 DEF Push, b, Capacity
    <3>2. g \in Seq(Frame) /\ Len(g) = n + 1
          /\ \A i \in 1 .. n + 1 : g[i] = IF i = n + 1 THEN b ELSE f[i]
      BY <1>1, <2>4
    <3> HIDE DEF g
    <3>3. \A i \in 1 .. n + 1 : g[i].due = Due(d, i)
      BY <1>1, <2>2, <2>4, <3>2
    <3>4. StreamRight([frames |-> g, deadline |-> {d}])
      <4>1. Len(g) <= 3 /\ \A i \in 1 .. Len(g) : g[i].due = Due(d, i)
        <5>1. Len(g) = n + 1 /\ n \in Nat /\ n <= 3
          BY <1>1, <3>2
        <5> HIDE DEF n
        <5> QED  BY ONLY <5>1, <2>7, <3>3
      <4> QED  BY ONLY d \in Int, <3>2, <4>1, StreamBuilt
    <3> QED  BY <1>4, <3>1, <3>4
  <2>8. CASE n = 3
    <3> DEFINE g == Append(Tail(f), b)
    <3>1. Push(s, kind) = [frames |-> g, deadline |-> {d + Period}]
      BY <1>4, <2>1, <2>5, <2>6, <2>8 DEF Push, b, Capacity
    <3>2. Tail(f) \in Seq(Frame) /\ Len(Tail(f)) = 2
          /\ \A i \in 1 .. 2 : Tail(f)[i] = f[i + 1]
      BY <1>1, <2>8
    <3>3. g \in Seq(Frame) /\ Len(g) = 3
          /\ \A i \in 1 .. 3 : g[i] = IF i = 3 THEN b ELSE f[i + 1]
      BY <2>4, <3>2
    <3> HIDE DEF g
    <3>4. \A i \in 1 .. 3 : g[i].due = Due(d, i + 1)
      BY <2>2, <2>4, <2>8, <3>3
    <3>5. \A i \in 1 .. 3 : g[i].due = Due(d + Period, i)
      <4> SUFFICES ASSUME NEW i \in 1 .. 3 PROVE g[i].due = Due(d + Period, i)
        OBVIOUS
      <4>1. i \in Nat
        OBVIOUS
      <4>2. Due(d + Period, i) = Due(d, i + 1)
        BY <4>1, DueSteps
      <4> QED  BY <3>4, <4>2
    <3>6. d + Period \in Int
      BY <1>1
    <3>7. StreamRight([frames |-> g, deadline |-> {d + Period}])
      <4>1. Len(g) <= 3 /\ \A i \in 1 .. Len(g) : g[i].due = Due(d + Period, i)
        BY <3>3, <3>5
      <4> QED  BY ONLY <3>3, <3>6, <4>1, StreamBuilt
    <3> QED  BY <1>4, <3>1, <3>7
  <2> QED  BY <2>7, <2>8
<1> QED  BY <1>2, <1>3, <1>4

Datagram == [kind : Kinds, age : 0 .. MaxAge + 1]

\* What drain hands on keeps to it too.
LEMMA ReceivedRight ==
  ASSUME NEW s, StreamRight(s), NEW packets \in Seq(Datagram)
  PROVE  /\ StreamRight(Received(s, packets))
         /\ Received(s, packets).deadline = {} => s.deadline = {}
<1>1. Len(packets) \in Nat /\ \A n \in 1 .. Len(packets) : packets[n].kind \in Kinds
  <2>1. Len(packets) \in Nat /\ \A n \in 1 .. Len(packets) : packets[n] \in Datagram
    OBVIOUS
  <2>2. \A p \in Datagram : p.kind \in Kinds
    BY DEF Datagram
  <2> QED  BY <2>1, <2>2
<1>2. PICK run : /\ \A n \in 0 .. Len(packets) : run[n] = After(run, s, packets, n)
                 /\ Received(s, packets) = run[Len(packets)]
  BY <1>1, ReceivedRuns
<1> DEFINE Right(l) == StreamRight(l) /\ (l.deadline = {} => s.deadline = {})
           Wrong == {n \in 0 .. Len(packets) : ~Right(run[n])}
<1>3. Wrong = {}
  <2> SUFFICES ASSUME Wrong # {} PROVE FALSE
    OBVIOUS
  <2>1. PICK k \in Wrong : \A j \in Wrong : k <= j
    <3>1. Wrong \subseteq Nat
      OBVIOUS
    <3> HIDE DEF Wrong
    <3> QED  BY <3>1, Least
  <2>2. k \in 0 .. Len(packets) /\ ~Right(run[k]) /\ run[k] = After(run, s, packets, k)
    BY <1>2, <2>1
  <2>3. CASE k = 0
    BY <2>2, <2>3 DEF After
  <2>4. CASE k # 0
    <3>1. k - 1 \in 0 .. Len(packets) /\ k \in 1 .. Len(packets) /\ k - 1 < k
      BY <1>1, <2>2, <2>4
    <3>2. Right(run[k - 1])
      BY <2>1, <2>2, <3>1
    <3>3. StreamRight(Push(run[k - 1], packets[k].kind))
          /\ (Push(run[k - 1], packets[k].kind).deadline = {} => run[k - 1].deadline = {})
      BY <1>1, <3>1, <3>2, PushRight
    <3> QED  BY <2>2, <2>4, <3>2, <3>3 DEF After
  <2> QED  BY <2>3, <2>4
<1>4. Len(packets) \in 0 .. Len(packets)
  BY <1>1
<1> QED  BY <1>2, <1>3, <1>4

LEMMA Division ==
  ASSUME NEW a \in Nat, NEW p \in Nat \ {0}
  PROVE  /\ a \div p \in Nat
         /\ p * (a \div p) <= a /\ a < p * ((a \div p) + 1)
OBVIOUS

LEMMA Monotone ==
  ASSUME NEW p \in Nat, NEW a \in Int, NEW b \in Int, a <= b
  PROVE  p * a \in Int /\ p * b \in Int /\ p * a <= p * b
OBVIOUS

\* What take_due_frame finds of a stream whose deadline d has come.
TakesRightly(s, take) ==
  /\ StreamRight(take.live)
  /\ take.block \subseteq Frame
  /\ \A b \in take.block : -Period < b.due /\ b.due <= 0
  /\ take.live.deadline = {} => \A b \in take.block : b.kind = "silence"
  /\ \A i \in 1 .. Len(s.frames) :
       (s.frames[i].due > 0 /\ s.frames[i].kind # "silence")
         => \E j \in 1 .. Len(take.live.frames) : s.frames[i] = take.live.frames[j]

LEMMA NoStreamRight == StreamRight(NoStream)
<1>1. <<>> \in Seq(Frame) /\ Len(<<>>) = 0
  OBVIOUS
<1>2. NoStream \in [frames : Seq(Frame), deadline : SUBSET Int]
      /\ NoStream.frames = <<>> /\ NoStream.deadline = {}
  BY <1>1 DEF NoStream
<1> QED  BY <1>1, <1>2 DEF StreamRight, Capacity

LEMMA TakeRight ==
  ASSUME NEW s, StreamRight(s), NEW d \in s.deadline, d <= 0
  PROVE  TakesRightly(s, TakeDue(s, d))
<1> DEFINE f == s.frames
           n == Len(s.frames)
           k == (-d) \div Period
           rest == SubSeq(f, k + 1, n)
           take == TakeDue(s, d)
<1>1. /\ f \in Seq(Frame) /\ n \in Nat /\ n = Len(f) /\ n <= 3 /\ d \in Int
      /\ Period \in Nat \ {0}
  BY HapticsAssumption DEF StreamRight, Capacity
<1>2. \A i \in 1 .. n : f[i].due = Due(d, i) /\ f[i] \in Frame
  BY <1>1 DEF StreamRight
<1>3. k \in Nat /\ Period * k <= -d /\ -d < Period * (k + 1)
  <2>1. -d \in Nat
    BY <1>1
  <2> QED  BY <1>1, <2>1, Division
<1>4. /\ k + 1 <= n => rest \in Seq(Frame) /\ Len(rest) = n - k
                       /\ \A j \in 1 .. n - k : rest[j] = f[k + j]
      /\ k + 1 > n => rest = <<>>
  <2> HIDE DEF k, f, n
  <2> QED  BY ONLY <1>1, <1>3, SubSeqProperties DEF rest
<1>5. take = IF rest = <<>> THEN [block |-> {}, live |-> NoStream]
             ELSE [block |-> {Head(rest)},
                   live |-> IF AllSilent(rest) THEN NoStream
                            ELSE [frames |-> Tail(rest),
                                  deadline |-> {d + Period * (k + 1)}]]
  BY DEF TakeDue
<1>6. \A i \in 1 .. n : i <= k + 1 => f[i].due <= 0
  <2> HIDE DEF f, n, k
  <2> SUFFICES ASSUME NEW i \in 1 .. n, i <= k + 1 PROVE f[i].due <= 0
    OBVIOUS
  <2>1. f[i].due = d + Period * (i - 1)
    BY <1>2 DEF Due
  <2>2. Period * (i - 1) \in Int /\ Period * k \in Int /\ Period * (i - 1) <= Period * k
    <3>1. i - 1 \in Int /\ k \in Int /\ i - 1 <= k /\ Period \in Nat
      BY <1>1, <1>3
    <3> QED  BY <3>1, Monotone
  <2> QED  BY <1>1, <1>3, <2>1, <2>2
<1> HIDE DEF take, rest, f, n, k
<1>7. CASE k + 1 > n
  <2>1. take = [block |-> {}, live |-> NoStream]
    BY <1>4, <1>5, <1>7
  <2>2. take.block = {} /\ take.live = NoStream
    BY <2>1
  <2>3. \A i \in 1 .. n : f[i].due <= 0 /\ f[i].due \in Int
    <3>1. \A i \in 1 .. n : i <= k + 1
      BY <1>1, <1>3, <1>7
    <3> QED  BY <1>2, <1>6, <3>1 DEF Frame
  <2>4. \A i \in 1 .. n : ~(f[i].due > 0)
    BY <2>3
  <2> QED  BY <2>2, <2>4, NoStreamRight DEF TakesRightly, take, f, n
<1>8. CASE k + 1 <= n
  <2>1. /\ rest \in Seq(Frame) /\ Len(rest) = n - k /\ rest # <<>>
        /\ \A j \in 1 .. n - k : rest[j] = f[k + j]
    BY <1>1, <1>3, <1>4, <1>8
  <2>2. Head(rest) = f[k + 1] /\ Head(rest) \in Frame
    <3>1. Head(rest) = rest[1] /\ 1 \in 1 .. n - k
      BY <1>1, <1>3, <1>8, <2>1
    <3> QED  BY <2>1, <3>1
  <2>3. -Period < Head(rest).due /\ Head(rest).due <= 0
    <3>1. k + 1 \in 1 .. n
      BY <1>1, <1>3, <1>8
    <3>2. f[k + 1].due = d + Period * k
      <4>1. (k + 1) - 1 = k
        BY <1>3
      <4> QED  BY <1>2, <3>1, <4>1 DEF Due
    <3>3. Period * (k + 1) = Period * k + Period /\ Period * k \in Int
      BY <1>1, <1>3
    <3> QED  BY <1>1, <1>3, <2>2, <3>2, <3>3
  <2>4. CASE AllSilent(rest)
    <3>1. take = [block |-> {Head(rest)}, live |-> NoStream]
      BY <1>5, <2>1, <2>4
    <3>2. take.block = {Head(rest)} /\ take.live = NoStream
      BY <3>1
    <3>3. Head(rest).kind = "silence"
      <4>1. 1 \in DOMAIN rest /\ Head(rest) = rest[1]
        BY <1>1, <1>3, <1>8, <2>1
      <4> QED  BY <2>4, <4>1 DEF AllSilent
    <3>4. \A i \in 1 .. n : ~(f[i].due > 0 /\ f[i].kind # "silence")
      <4> SUFFICES ASSUME NEW i \in 1 .. n, f[i].due > 0 PROVE f[i].kind = "silence"
        OBVIOUS
      <4>1. f[i].due \in Int
        BY <1>2 DEF Frame
      <4>2. ~(i <= k + 1)
        BY <1>6, <4>1
      <4>3. i - k \in 1 .. n - k /\ k + (i - k) = i /\ i - k \in DOMAIN rest
        BY <1>1, <1>3, <2>1, <4>2
      <4> QED  BY <2>1, <2>4, <4>3 DEF AllSilent
    <3> QED  BY <2>2, <2>3, <3>2, <3>3, <3>4, NoStreamRight DEF TakesRightly, take, f, n
  <2>5. CASE ~AllSilent(rest)
    <3> DEFINE e == d + Period * (k + 1)
               tail == Tail(rest)
    <3>1. take = [block |-> {Head(rest)}, live |-> [frames |-> tail, deadline |-> {e}]]
      BY <1>5, <2>1, <2>5
    <3>2. take.block = {Head(rest)} /\ take.live = [frames |-> tail, deadline |-> {e}]
          /\ take.live.frames = tail /\ take.live.deadline = {e}
      BY <3>1
    <3>3. tail \in Seq(Frame) /\ Len(tail) = n - k - 1
          /\ \A j \in 1 .. n - k - 1 : tail[j] = rest[j + 1]
      BY <1>1, <1>3, <2>1
    <3>4. \A j \in 1 .. n - k - 1 : tail[j] = f[k + 1 + j]
      <4> SUFFICES ASSUME NEW j \in 1 .. n - k - 1 PROVE tail[j] = f[k + 1 + j]
        OBVIOUS
      <4>1. j + 1 \in 1 .. n - k /\ k + (j + 1) = k + 1 + j
        BY <1>1, <1>3
      <4> QED  BY <2>1, <3>3, <4>1
    <3> HIDE DEF tail
    <3>5. e \in Int
      BY <1>1, <1>3
    <3>6. \A j \in 1 .. n - k - 1 : tail[j].due = Due(e, j)
      <4> SUFFICES ASSUME NEW j \in 1 .. n - k - 1 PROVE tail[j].due = Due(e, j)
        OBVIOUS
      <4>1. k + 1 + j \in 1 .. n
        BY <1>1, <1>3
      <4>2. tail[j].due = d + Period * ((k + 1 + j) - 1)
        <5>1. tail[j] = f[k + 1 + j] /\ f[k + 1 + j].due = Due(d, k + 1 + j)
          BY <1>2, <3>4, <4>1
        <5>2. Due(d, k + 1 + j) = d + Period * ((k + 1 + j) - 1)
          BY DEF Due
        <5> QED  BY <5>1, <5>2
      <4>3. Period * ((k + 1 + j) - 1) = Period * (k + 1) + Period * (j - 1)
            /\ Period * (k + 1) \in Int /\ Period * (j - 1) \in Int
        BY <1>1, <1>3
      <4> QED  BY <1>1, <4>2, <4>3 DEF Due
    <3> HIDE DEF e
    <3>7. StreamRight([frames |-> tail, deadline |-> {e}])
      <4>1. Len(tail) <= 3 /\ \A j \in 1 .. Len(tail) : tail[j].due = Due(e, j)
        <5>1. Len(tail) <= 3
          BY <1>1, <1>3, <3>3
        <5> QED  BY ONLY <3>3, <3>6, <5>1
      <4> QED  BY ONLY <3>3, <3>5, <4>1, StreamBuilt
    <3>8. \A i \in 1 .. n : f[i].due > 0 => \E j \in 1 .. Len(tail) : f[i] = tail[j]
      <4> SUFFICES ASSUME NEW i \in 1 .. n, f[i].due > 0
                   PROVE  \E j \in 1 .. Len(tail) : f[i] = tail[j]
        OBVIOUS
      <4>1. f[i].due \in Int
        BY <1>2 DEF Frame
      <4>2. ~(i <= k + 1)
        BY <1>6, <4>1
      <4>3. i - k - 1 \in 1 .. n - k - 1 /\ k + 1 + (i - k - 1) = i
        BY <1>1, <1>3, <4>2
      <4> QED  BY <3>3, <3>4, <4>3
    <3>9. take.live.deadline # {}
      BY <3>2
    <3> QED  BY <2>2, <2>3, <3>2, <3>7, <3>8, <3>9 DEF TakesRightly, take, f, n
  <2> QED  BY <2>4, <2>5
<1> QED  BY <1>1, <1>3, <1>7, <1>8 DEF take

----------------------------------------------------------------------------
(* Writes to the controller.                                               *)

Devs == [speaker : BOOLEAN, playing : BOOLEAN, failed : BOOLEAN, gone : BOOLEAN]

LEMMA ModeWritten ==
  ASSUME NEW d \in Devs, NEW on \in BOOLEAN, NEW o \in Outcomes, NEW e, e = WriteMode(d, on, o)
  PROVE  /\ e \in Devs /\ (e.playing <=> d.playing)
         /\ o = "ok" => (e.speaker <=> on) /\ (e.failed <=> d.failed) /\ (e.gone <=> d.gone)
         /\ o # "ok" => (e.speaker <=> d.speaker) /\ e.failed /\ (e.gone <=> d.gone \/ o = "gone")
BY DEF Devs, WriteMode, Lost

LEMMA BlockWritten ==
  ASSUME NEW d \in Devs, NEW kind, NEW o \in Outcomes, NEW e, e = WriteBlock(d, kind, o)
  PROVE  /\ e \in Devs /\ (e.speaker <=> d.speaker)
         /\ o = "ok" => /\ (e.playing <=> kind # "silence") /\ (e.gone <=> d.gone)
                        /\ (e.failed <=> d.failed /\ ~(d.speaker <=> kind = "audio"))
         /\ o # "ok" => (e.playing <=> d.playing) /\ e.failed /\ (e.gone <=> d.gone \/ o = "gone")
BY DEF Devs, WriteBlock, Lost

LEMMA Muted ==
  ASSUME NEW d \in Devs, NEW active \in BOOLEAN, NEW o \in Outcomes,
         NEW e, e = StopSpeaker(d, active, o)
  PROVE  /\ e \in Devs /\ (e.playing <=> d.playing) /\ (d.gone => e.gone) /\ (d.failed => e.failed)
         /\ ~active => e = d
         /\ (active /\ ~d.gone /\ o = "ok") => ~e.speaker /\ (e.failed <=> d.failed)
         /\ (active /\ ~d.gone /\ o # "ok") => e.failed
<1>1. CASE active /\ ~d.gone
  <2>1. e = WriteMode(d, FALSE, o)
    BY <1>1 DEF StopSpeaker
  <2>2. \E off \in BOOLEAN : ~off /\ e = WriteMode(d, off, o)
    BY <2>1
  <2> QED  BY <1>1, <2>2, ModeWritten
<1>2. CASE ~(active /\ ~d.gone)
  BY <1>2 DEF StopSpeaker
<1> QED  BY <1>1, <1>2

\* How many of the writes of a step failed.
LEMMA Failures ==
  ASSUME NEW a \in Outcomes, NEW b \in Outcomes, NEW c \in Outcomes
  PROVE  /\ Failing(<<a, b, c>>) \in Nat
         /\ Failing(<<a, b, c>>) = 0 => a = "ok" /\ b = "ok" /\ c = "ok"
         /\ (Failing(<<a, b, c>>) <= 1 /\ (a # "ok" \/ b # "ok")) => c = "ok"
<1> DEFINE t == <<a, b, c>>
           F == {i \in DOMAIN t : t[i] # "ok"}
<1>1. DOMAIN t = 1 .. 3 /\ t[1] = a /\ t[2] = b /\ t[3] = c
  OBVIOUS
<1>2. IsFiniteSet(F) /\ Cardinality(F) \in Nat
  <2>1. IsFiniteSet(1 .. 3) /\ F \subseteq 1 .. 3
    <3>1. IsFiniteSet(1 .. 3)
      <4>1. 1 \in Int /\ 3 \in Int
        OBVIOUS
      <4> QED  BY ONLY <4>1, FS_Interval
    <3> QED  BY <1>1, <3>1
  <2> HIDE DEF F
  <2>2. IsFiniteSet(F)
    BY <2>1, FS_Subset
  <2> QED  BY <2>2, FS_CardinalityType
<1>3. \A i, j \in 1 .. 3 : (i # j /\ t[i] # "ok" /\ t[j] # "ok") => Cardinality(F) >= 2
  <2> SUFFICES ASSUME NEW i \in 1 .. 3, NEW j \in 1 .. 3, i # j, t[i] # "ok", t[j] # "ok"
               PROVE  Cardinality(F) >= 2
    OBVIOUS
  <2>1. {i, j} \subseteq F
    BY <1>1
  <2>2. IsFiniteSet({i}) /\ Cardinality({i}) = 1
    BY FS_Singleton
  <2>3. Cardinality({i} \cup {j}) = 2
    <3>1. j \notin {i}
      OBVIOUS
    <3>2. Cardinality({i} \cup {j}) = Cardinality({i}) + 1
      BY ONLY <2>2, <3>1, FS_AddElement
    <3> QED  BY <2>2, <3>2
  <2>4. {i} \cup {j} \subseteq F
    BY <2>1
  <2> HIDE DEF F
  <2>5. Cardinality({i} \cup {j}) <= Cardinality(F)
    BY <1>2, <2>4, FS_Subset
  <2> QED  BY <1>2, <2>3, <2>5
<1>4. \A i \in 1 .. 3 : t[i] # "ok" => Cardinality(F) # 0
  <2> SUFFICES ASSUME NEW i \in 1 .. 3, t[i] # "ok" PROVE Cardinality(F) # 0
    OBVIOUS
  <2>1. F # {}
    BY <1>1
  <2> HIDE DEF F
  <2> QED  BY <1>2, <2>1, FS_EmptySet
<1>5. Failing(<<a, b, c>>) = Cardinality(F)
  BY DEF Failing
<1> HIDE DEF F, t
<1>6. Cardinality(F) = 0 => a = "ok" /\ b = "ok" /\ c = "ok"
  BY <1>1, <1>4
<1>7. (Cardinality(F) <= 1 /\ (a # "ok" \/ b # "ok")) => c = "ok"
  <2> SUFFICES ASSUME c # "ok", a # "ok" \/ b # "ok", Cardinality(F) <= 1 PROVE FALSE
    OBVIOUS
  <2>1. 1 \in 1 .. 3 /\ 2 \in 1 .. 3 /\ 3 \in 1 .. 3
    OBVIOUS
  <2>2. Cardinality(F) >= 2
    BY <1>1, <1>3, <2>1
  <2> QED  BY <1>2, <2>2
<1> QED  BY <1>2, <1>5, <1>6, <1>7

LEMMA FailuresOfTwo ==
  ASSUME NEW a \in Outcomes, NEW b \in Outcomes
  PROVE  Failing(<<a, b>>) \in Nat
<1> DEFINE t == <<a, b>>
           F == {i \in DOMAIN t : t[i] # "ok"}
<1>1. IsFiniteSet(1 .. 2) /\ F \subseteq 1 .. 2
  <2>1. IsFiniteSet(1 .. 2)
    <3>1. 1 \in Int /\ 2 \in Int
      OBVIOUS
    <3> QED  BY ONLY <3>1, FS_Interval
  <2> QED  BY <2>1
<1>2. Failing(<<a, b>>) = Cardinality(F)
  BY DEF Failing
<1> HIDE DEF F
<1>3. IsFiniteSet(F)
  BY <1>1, FS_Subset
<1> QED  BY <1>2, <1>3, FS_CardinalityType

\* send_live_audio and, when it fails, stop_speaker.  The last two conjuncts:
\* the speaker is known to be as it is believed to be when the writes work,
\* and is so, when at most one of the writes fails.
LEMMA SentRight ==
  ASSUME dev \in Devs, speaker_active \in BOOLEAN, ~dev.gone,
         NEW kind \in Kinds, NEW mode \in Outcomes, NEW block \in Outcomes, NEW mute \in Outcomes,
         (kind = "audio") = speaker_active => mode = "ok",
         mode # "ok" => block = "ok",
         NEW sent, sent = SendLiveAudio(kind, mode, block),
         NEW e, e = IF sent.ok THEN sent.dev ELSE StopSpeaker(sent.dev, sent.active, mute),
         NEW active, active = (sent.ok /\ sent.active)
  PROVE  /\ e \in Devs /\ active \in BOOLEAN /\ (sent.ok <=> mode = "ok" /\ block = "ok")
         /\ sent.ok => (active <=> kind = "audio") /\ (e.playing <=> kind # "silence")
         /\ ~sent.ok => ~active /\ e.failed
         /\ ((~dev.failed => (dev.speaker <=> speaker_active)) /\ ~e.failed)
              => (e.speaker <=> active)
         /\ ((dev.speaker <=> speaker_active) /\ ~e.gone /\ (sent.ok \/ mute = "ok"))
              => (e.speaker <=> active)
<1> DEFINE speaker == kind = "audio"
           switched == IF speaker # speaker_active THEN WriteMode(dev, speaker, mode) ELSE dev
<1>1. speaker \in BOOLEAN
  OBVIOUS
<1>2. CASE mode # "ok"
  <2>1. speaker # speaker_active /\ block = "ok" /\ switched = WriteMode(dev, speaker, mode)
    BY <1>2
  <2>2. sent = [dev |-> switched, active |-> speaker_active, ok |-> FALSE]
    BY <1>2, <2>1 DEF SendLiveAudio
  <2>3. sent.dev = switched /\ sent.active = speaker_active /\ ~sent.ok
    BY <2>2
  <2>4. /\ switched \in Devs /\ switched.failed /\ (switched.speaker <=> dev.speaker)
    <3> HIDE DEF speaker, switched
    <3> QED  BY <1>1, <1>2, <2>1, ModeWritten
  <2>5. e = StopSpeaker(switched, speaker_active, mute) /\ ~active
    BY <2>3
  <2> HIDE DEF switched, speaker
  <2>6. /\ e \in Devs /\ e.failed /\ (switched.gone => e.gone)
        /\ ~speaker_active => e = switched
        /\ (speaker_active /\ ~switched.gone /\ mute = "ok") => ~e.speaker
    BY <2>4, <2>5, Muted
  <2> QED  BY <1>2, <2>3, <2>4, <2>5, <2>6
<1>3. CASE mode = "ok"
  <2>1. sent = [dev |-> WriteBlock(switched, kind, block), active |-> speaker,
                ok |-> block = "ok"]
    BY <1>3 DEF SendLiveAudio
  <2>2. sent.dev = WriteBlock(switched, kind, block) /\ sent.active = speaker
        /\ (sent.ok <=> block = "ok")
    <3> DEFINE works == block = "ok"
               taken == WriteBlock(switched, kind, block)
    <3>1. works \in BOOLEAN /\ sent = [dev |-> taken, active |-> speaker, ok |-> works]
      BY <2>1
    <3> HIDE DEF works, taken, speaker
    <3>2. sent.dev = taken /\ sent.active = speaker /\ sent.ok = works
      BY <3>1
    <3> QED  BY <3>2 DEF works, taken
  <2>3. /\ switched \in Devs /\ (switched.failed <=> dev.failed) /\ ~switched.gone
        /\ (speaker # speaker_active) => (switched.speaker <=> speaker)
        /\ speaker = speaker_active => (switched.speaker <=> dev.speaker)
    <3>1. CASE speaker # speaker_active
      <4>1. switched = WriteMode(dev, speaker, mode)
        BY <3>1
      <4> HIDE DEF switched, speaker
      <4> QED  BY <1>1, <1>3, <3>1, <4>1, ModeWritten
    <3>2. CASE speaker = speaker_active
      BY <3>2
    <3> QED  BY <3>1, <3>2
  <2> DEFINE w == WriteBlock(switched, kind, block)
  <2> HIDE DEF switched
  <2>4. /\ w \in Devs /\ (w.speaker <=> switched.speaker)
        /\ block = "ok" => /\ (w.playing <=> kind # "silence")
                           /\ (w.failed <=> switched.failed /\ ~(switched.speaker <=> speaker))
        /\ block # "ok" => w.failed
    BY <2>3, BlockWritten
  <2> HIDE DEF w
  <2>5. CASE block = "ok"
    <3>1. sent.ok /\ e = w /\ (active <=> speaker)
      BY <2>2, <2>5 DEF w
    <3>2. e \in Devs /\ active \in BOOLEAN /\ (e.playing <=> kind # "silence")
      BY <2>4, <2>5, <3>1
    <3>3. ((~dev.failed => (dev.speaker <=> speaker_active)) /\ ~e.failed)
            => (e.speaker <=> active)
      <4> HIDE DEF speaker
      <4> QED  BY <1>1, <2>3, <2>4, <2>5, <3>1
    <3>4. (dev.speaker <=> speaker_active) => (e.speaker <=> active)
      <4> HIDE DEF speaker
      <4> QED  BY <1>1, <2>3, <2>4, <2>5, <3>1
    <3> QED  BY <1>3, <2>5, <3>1, <3>2, <3>3, <3>4
  <2>6. CASE block # "ok"
    <3>1. ~sent.ok /\ e = StopSpeaker(w, speaker, mute) /\ ~active
      BY <2>2, <2>6 DEF w
    <3>2. /\ e \in Devs /\ e.failed /\ (w.gone => e.gone)
          /\ ~speaker => e = w
          /\ (speaker /\ ~w.gone /\ mute = "ok") => ~e.speaker
      <4> HIDE DEF speaker
      <4> QED  BY <1>1, <2>4, <2>6, <3>1, Muted
    <3>3. ((dev.speaker <=> speaker_active) /\ ~e.gone /\ mute = "ok") => ~e.speaker
      <4> HIDE DEF speaker
      <4> QED  BY <1>1, <2>3, <2>4, <3>2
    <3> QED  BY <2>6, <3>1, <3>2, <3>3
  <2> QED  BY <2>5, <2>6
<1> QED  BY <1>2, <1>3

----------------------------------------------------------------------------
(* The invariant.                                                          *)

LiveTyped ==
  /\ capture \in {"on", "off"} /\ beat \in 0 .. Period
  /\ inbox \in Seq(Datagram) /\ Len(inbox) <= MaxInbox
  /\ timer \subseteq Nat /\ turn \subseteq {"pcm", "timer"}
  /\ dev \in Devs /\ speaker_active \in BOOLEAN /\ exit \in BOOLEAN
  /\ faults \in Nat /\ faults <= MaxFaults

\* Without a stream the speaker is believed to be off and nothing plays.
IdleInv ==
  live.deadline = {} => /\ ~speaker_active
                        /\ (~dev.gone /\ ~dev.failed) => ~dev.playing

\* The speaker is as it is believed to be as long as the writes work, and until
\* a second of them fails.
SpeakerInv ==
  /\ (~dev.gone /\ ~dev.failed) => (dev.speaker <=> speaker_active)
  /\ (~dev.gone /\ ~exit /\ faults <= 1) => (dev.speaker <=> speaker_active)

LiveInv ==
  /\ LiveTyped
  /\ StreamRight(live)
  /\ IdleInv
  /\ SpeakerInv
  /\ PlayedOnTime

LEMMA LiveStarts == HapticsInit => LiveInv
<1> SUFFICES ASSUME HapticsInit PROVE LiveInv
  OBVIOUS
<1>1. LiveTyped
  <2>1. <<>> \in Seq(Datagram) /\ Len(<<>>) = 0
    OBVIOUS
  <2>2. MaxInbox \in Nat /\ MaxFaults \in Nat /\ Period \in Nat
    BY HapticsAssumption
  <2>3. inbox \in Seq(Datagram) /\ Len(inbox) <= MaxInbox
    BY <2>1, <2>2 DEF HapticsInit
  <2>4. dev \in Devs
    BY DEF HapticsInit, Devs
  <2>5. capture \in {"on", "off"} /\ beat \in 0 .. Period /\ faults \in Nat /\ faults <= MaxFaults
    BY <2>2 DEF HapticsInit
  <2>6. /\ timer \subseteq Nat /\ turn \subseteq {"pcm", "timer"}
        /\ speaker_active \in BOOLEAN /\ exit \in BOOLEAN
    BY DEF HapticsInit
  <2> QED  BY <2>3, <2>4, <2>5, <2>6 DEF LiveTyped
<1>2. StreamRight(live)
  BY NoStreamRight DEF HapticsInit
<1>3. IdleInv /\ SpeakerInv
  BY DEF HapticsInit, IdleInv, SpeakerInv
<1>4. PlayedOnTime
  BY DEF HapticsInit, PlayedOnTime
<1> QED  BY <1>1, <1>2, <1>3, <1>4 DEF LiveInv

\* A tick moves every instant of a stream alike.
LEMMA StreamAges ==
  ASSUME NEW s, StreamRight(s),
         NEW t, t = [frames |-> [i \in DOMAIN s.frames |-> [s.frames[i] EXCEPT !.due = @ - 1]],
                     deadline |-> Earlier(s.deadline)]
  PROVE  StreamRight(t) /\ (t.deadline = {} => s.deadline = {})
<1> DEFINE f == s.frames
           g == [i \in DOMAIN f |-> [f[i] EXCEPT !.due = @ - 1]]
           n == Len(s.frames)
<1>1. /\ f \in Seq(Frame) /\ n \in Nat /\ n = Len(f) /\ n <= 3 /\ s.deadline \subseteq Int
      /\ Period \in Nat \ {0} /\ DOMAIN f = 1 .. n
  BY HapticsAssumption DEF StreamRight, Capacity
<1>2. t.frames = g /\ t.deadline = Earlier(s.deadline)
  OBVIOUS
<1>3. g \in Seq(Frame) /\ Len(g) = n /\ \A i \in 1 .. n : g[i].due = f[i].due - 1
  <2>1. \A b \in Frame : /\ [b EXCEPT !.due = @ - 1] \in Frame
                         /\ [b EXCEPT !.due = @ - 1].due = b.due - 1
    BY DEF Frame
  <2>2. \A i \in 1 .. n : f[i] \in Frame
    BY <1>1
  <2>3. g = [i \in 1 .. n |-> [f[i] EXCEPT !.due = @ - 1]]
    BY <1>1
  <2> HIDE DEF f, n
  <2>4. \A i \in 1 .. n : g[i] \in Frame /\ g[i].due = f[i].due - 1
    BY <2>1, <2>2, <2>3
  <2>5. DOMAIN g = 1 .. n /\ g = [i \in 1 .. n |-> g[i]]
    BY <2>3
  <2> HIDE DEF g
  <2> QED  BY ONLY <1>1, <2>4, <2>5
<1> HIDE DEF g
<1>4. CASE s.deadline = {}
  <2>1. Earlier(s.deadline) = {}
    BY <1>4 DEF Earlier
  <2>2. g = <<>> /\ n = 0
    <3>1. f = <<>>
      BY <1>4 DEF StreamRight
    <3>2. n = 0
      BY <3>1
    <3> HIDE DEF n
    <3> QED  BY ONLY <1>3, <3>2
  <2>3. t = [frames |-> <<>>, deadline |-> {}]
    BY <1>2, <2>1, <2>2 DEF g
  <2>4. t = NoStream
    BY <2>3 DEF NoStream
  <2> QED  BY <1>4, <2>4, NoStreamRight
<1>5. CASE s.deadline # {}
  <2>1. PICK d \in Int : s.deadline = {d}
    BY <1>1, <1>5 DEF StreamRight
  <2>2. Earlier(s.deadline) = {d - 1}
    BY <2>1 DEF Earlier
  <2>3. \A i \in 1 .. n : g[i].due = Due(d - 1, i)
    <3> SUFFICES ASSUME NEW i \in 1 .. n PROVE g[i].due = Due(d - 1, i)
      OBVIOUS
    <3>1. f[i].due = d + Period * (i - 1)
      BY <1>1, <2>1 DEF StreamRight, Due
    <3>2. Period * (i - 1) \in Int
      BY <1>1
    <3> QED  BY <1>3, <3>1, <3>2 DEF Due
  <2>4. StreamRight([frames |-> g, deadline |-> {d - 1}])
    <3>1. d - 1 \in Int /\ Len(g) <= 3 /\ 1 .. Len(g) = 1 .. n
      BY <1>1, <1>3
    <3> QED  BY ONLY <1>3, <2>3, <3>1, StreamBuilt
  <2>5. t = [frames |-> g, deadline |-> {d - 1}]
    BY <2>2 DEF g
  <2>6. t.deadline # {}
    BY <1>2, <2>2
  <2> HIDE DEF f, g, n
  <2> QED  BY ONLY <2>4, <2>5, <2>6
<1> HIDE DEF f, n
<1> QED  BY ONLY <1>4, <1>5

LEMMA AgedInbox ==
  ASSUME NEW packets \in Seq(Datagram)
  PROVE  Age(packets, 1) \in Seq(Datagram) /\ Len(Age(packets, 1)) = Len(packets)
<1> DEFINE older(p) == [p EXCEPT !.age = IF @ + 1 > MaxAge THEN MaxAge + 1 ELSE @ + 1]
<1>1. \A p \in Datagram : older(p) \in Datagram
  <2> SUFFICES ASSUME NEW p \in Datagram PROVE older(p) \in Datagram
    OBVIOUS
  <2>1. MaxAge \in Nat /\ p.age \in 0 .. MaxAge + 1
    BY HapticsAssumption DEF Datagram
  <2>2. PICK a \in 0 .. MaxAge + 1 :
          a = IF p.age + 1 > MaxAge THEN MaxAge + 1 ELSE p.age + 1
    BY <2>1
  <2>3. older(p) = [p EXCEPT !.age = a]
    BY <2>2
  <2> HIDE DEF older
  <2> QED  BY <2>3 DEF Datagram
<1>2. DOMAIN packets = 1 .. Len(packets) /\ Len(packets) \in Nat
      /\ \A i \in 1 .. Len(packets) : packets[i] \in Datagram
  OBVIOUS
<1>3. Age(packets, 1) = [i \in 1 .. Len(packets) |-> older(packets[i])]
  BY <1>2 DEF Age
<1> HIDE DEF older
<1> QED  BY <1>1, <1>2, <1>3

LEMMA PassKeeps == ASSUME LiveInv, Pass PROVE LiveInv'
<1>1. LiveTyped'
  <2>1. inbox' \in Seq(Datagram) /\ Len(inbox') <= MaxInbox
    BY AgedInbox DEF LiveInv, LiveTyped, Pass
  <2>2. timer' \subseteq Nat
    BY DEF LiveInv, LiveTyped, Pass
  <2>3. beat' \in 0 .. Period
    BY HapticsAssumption DEF LiveInv, LiveTyped, Pass
  <2> QED  BY <2>1, <2>2, <2>3 DEF LiveInv, LiveTyped, Pass, device
<1>2. StreamRight(live') /\ (live'.deadline = {} => live.deadline = {})
  BY StreamAges DEF LiveInv, Pass
<1>3. IdleInv' /\ SpeakerInv'
  BY <1>2 DEF LiveInv, Pass, device, IdleInv, SpeakerInv
<1>4. PlayedOnTime'
  BY DEF Pass, PlayedOnTime
<1> QED  BY <1>1, <1>2, <1>3, <1>4 DEF LiveInv

LEMMA Deposited ==
  ASSUME LiveInv, NEW kind \in Kinds, Deposit(kind)
  PROVE  inbox' \in Seq(Datagram) /\ Len(inbox') <= MaxInbox
<1> DEFINE p == [kind |-> kind, age |-> 0]
<1>1. p \in Datagram
  BY HapticsAssumption DEF Datagram
<1>2. inbox \in Seq(Datagram) /\ Len(inbox) <= MaxInbox /\ MaxInbox \in Nat
  BY HapticsAssumption DEF LiveInv, LiveTyped
<1>3. inbox' = IF Len(inbox) < MaxInbox THEN Append(inbox, p) ELSE inbox
  BY DEF Deposit
<1> HIDE DEF p
<1> QED  BY ONLY <1>1, <1>2, <1>3

\* The steps of the audio bridge, and those of the loop that leave the stream.
LEMMA QuietSteps ==
  ASSUME LiveInv, played' = {}, UNCHANGED <<live, device, exit>>,
         capture' \in {"on", "off"}, beat' \in 0 .. Period,
         inbox' \in Seq(Datagram), Len(inbox') <= MaxInbox,
         timer' \subseteq Nat, turn' \subseteq {"pcm", "timer"}
  PROVE  LiveInv'
<1>1. LiveTyped'
  BY DEF LiveInv, LiveTyped, device
<1>2. StreamRight(live')
  BY DEF LiveInv
<1>3. IdleInv' /\ SpeakerInv'
  BY DEF LiveInv, device, IdleInv, SpeakerInv
<1>4. PlayedOnTime'
  BY DEF PlayedOnTime
<1> QED  BY <1>1, <1>2, <1>3, <1>4 DEF LiveInv

LEMMA SourceKeeps ==
  ASSUME LiveInv,
         (\E kind \in Blocks : Produce(kind)) \/ StartCapture \/ PauseCapture \/ EndCapture
  PROVE  LiveInv'
<1>1. /\ capture \in {"on", "off"} /\ beat \in 0 .. Period /\ Period \in 0 .. Period
      /\ inbox \in Seq(Datagram) /\ Len(inbox) <= MaxInbox
      /\ timer \subseteq Nat /\ turn \subseteq {"pcm", "timer"}
  BY HapticsAssumption DEF LiveInv, LiveTyped
<1>2. CASE \E kind \in Blocks : Produce(kind)
  <2>1. PICK kind \in Blocks : Produce(kind)
    BY <1>2
  <2>2. kind \in Kinds
    BY HapticsAssumption
  <2>3. inbox' \in Seq(Datagram) /\ Len(inbox') <= MaxInbox
    BY <2>1, <2>2, Deposited DEF Produce
  <2> QED  BY <1>1, <2>1, <2>3, QuietSteps DEF Produce
<1>3. CASE StartCapture
  BY <1>1, <1>3, QuietSteps DEF StartCapture
<1>4. CASE PauseCapture
  BY <1>1, <1>4, QuietSteps DEF PauseCapture
<1>5. CASE EndCapture
  <2>1. "silence" \in Kinds
    BY DEF Kinds
  <2>2. inbox' \in Seq(Datagram) /\ Len(inbox') <= MaxInbox
    BY <1>5, <2>1, Deposited DEF EndCapture
  <2> QED  BY <1>1, <1>5, <2>2, QuietSteps DEF EndCapture
<1> QED  BY <1>2, <1>3, <1>4, <1>5

LEMMA ArmTyped ==
  ASSUME StreamRight(live'), Arm
  PROVE  timer' \subseteq Nat /\ turn' \subseteq {"pcm", "timer"}
<1>1. live'.deadline \subseteq Int
  BY DEF StreamRight
<1> QED  BY <1>1 DEF Arm

LEMMA LoopKeeps ==
  ASSUME LiveInv, TimerExpires \/ OtherDeadline \/ EndTurn
  PROVE  LiveInv'
<1>1. /\ capture \in {"on", "off"} /\ beat \in 0 .. Period
      /\ inbox \in Seq(Datagram) /\ Len(inbox) <= MaxInbox
      /\ timer \subseteq Nat /\ turn \subseteq {"pcm", "timer"}
  BY DEF LiveInv, LiveTyped
<1>2. CASE TimerExpires
  BY <1>1, <1>2, QuietSteps DEF TimerExpires, Serve, source
<1>3. CASE OtherDeadline
  BY <1>1, <1>3, QuietSteps DEF OtherDeadline, Serve, source
<1>4. CASE EndTurn
  <2>1. StreamRight(live')
    BY <1>4 DEF EndTurn, LiveInv
  <2>2. timer' \subseteq Nat /\ turn' \subseteq {"pcm", "timer"}
    BY <1>4, <2>1, ArmTyped DEF EndTurn
  <2> QED  BY <1>1, <1>4, <2>2, QuietSteps DEF EndTurn, source
<1> QED  BY <1>2, <1>3, <1>4

LEMMA DrainKeeps == ASSUME LiveInv, Drain PROVE LiveInv'
<1>1. StreamRight(live') /\ (live'.deadline = {} => live.deadline = {})
  BY ReceivedRight DEF LiveInv, LiveTyped, Drain
<1>2. LiveTyped'
  <2>1. inbox' \in Seq(Datagram) /\ Len(inbox') <= MaxInbox
    <3>1. <<>> \in Seq(Datagram) /\ Len(<<>>) = 0
      OBVIOUS
    <3> QED  BY <3>1, HapticsAssumption DEF Drain
  <2> QED  BY <2>1 DEF LiveInv, LiveTyped, Drain, Serve, source, device
<1>3. IdleInv' /\ SpeakerInv'
  BY <1>1 DEF LiveInv, Drain, device, IdleInv, SpeakerInv
<1>4. PlayedOnTime'
  BY DEF Drain, PlayedOnTime
<1> QED  BY <1>1, <1>2, <1>3, <1>4 DEF LiveInv

\* What a tick does, in terms of what it takes and what becomes of the writes.
TickDone(take, deadline, kind, mode, block, mute, sent) ==
  /\ deadline \in live.deadline
  /\ {mode, block, mute} \subseteq Outcomes
  /\ take = TakeDue(live, deadline)
  /\ kind = IF take.block = {} THEN "silence" ELSE (CHOOSE b \in take.block : TRUE).kind
  /\ sent = SendLiveAudio(kind, mode, block)
  /\ (kind = "audio") = speaker_active => mode = "ok"
  /\ mode # "ok" => block = "ok"
  /\ sent.ok => mute = "ok"
  /\ dev' = IF sent.ok THEN sent.dev ELSE StopSpeaker(sent.dev, sent.active, mute)
  /\ speaker_active' = (sent.ok /\ sent.active)
  /\ live' = IF sent.ok THEN take.live ELSE NoStream
  /\ played' = take.block
  /\ faults' = faults + Failing(<<mode, block, mute>>)

LEMMA TickIsDone ==
  ASSUME Tick
  PROVE  \E take, deadline, kind, mode, block, mute, sent :
           TickDone(take, deadline, kind, mode, block, mute, sent)
<1>1. PICK deadline \in live.deadline, mode \in Outcomes, block \in Outcomes, mute \in Outcomes :
        LET take == TakeDue(live, deadline)
            kind == IF take.block = {} THEN "silence" ELSE (CHOOSE b \in take.block : TRUE).kind
            sent == SendLiveAudio(kind, mode, block)
        IN /\ (kind = "audio") = speaker_active => mode = "ok"
           /\ mode # "ok" => block = "ok"
           /\ sent.ok => mute = "ok"
           /\ dev' = IF sent.ok THEN sent.dev ELSE StopSpeaker(sent.dev, sent.active, mute)
           /\ speaker_active' = (sent.ok /\ sent.active)
           /\ live' = IF sent.ok THEN take.live ELSE NoStream
           /\ played' = take.block
           /\ faults' = faults + Failing(<<mode, block, mute>>)
  BY DEF Tick
<1> DEFINE take == TakeDue(live, deadline)
           kind == IF take.block = {} THEN "silence" ELSE (CHOOSE b \in take.block : TRUE).kind
           sent == SendLiveAudio(kind, mode, block)
<1>2. TickDone(take, deadline, kind, mode, block, mute, sent)
  BY <1>1 DEF TickDone
<1> QED  BY <1>2

\* What a tick leaves of the stream, of the speaker and of the controller.
TickRight(sent) ==
  /\ StreamRight(live') /\ dev' \in Devs /\ speaker_active' \in BOOLEAN
  /\ faults' \in Nat /\ faults <= faults' /\ PlayedOnTime'
  /\ sent => \A i \in 1 .. Len(live.frames) :
               (live.frames[i].due > 0 /\ live.frames[i].kind # "silence")
                  => \E j \in 1 .. Len(live'.frames) : live.frames[i] = live'.frames[j]
  /\ faults' = faults => sent
  /\ (sent /\ live'.deadline = {}) => ~speaker_active' /\ ~dev'.playing
  /\ ~sent => ~speaker_active' /\ dev'.failed
  /\ ~dev'.failed => (dev'.speaker <=> speaker_active')
  /\ (~dev'.gone /\ faults' <= 1) => (dev'.speaker <=> speaker_active')

LEMMA TickGoesRight == ASSUME LiveInv, Tick PROVE \E sent \in BOOLEAN : TickRight(sent)
<1>1. PICK take, deadline, kind, mode, block, mute, sent :
        TickDone(take, deadline, kind, mode, block, mute, sent)
  BY TickIsDone
<1>2. deadline <= 0
  <2>1. PICK d \in live.deadline : d <= 0
    BY DEF Tick, HapticsDue
  <2> QED  BY <1>1, <2>1 DEF TickDone, LiveInv, StreamRight
<1>3. TakesRightly(live, take)
  BY <1>1, <1>2, TakeRight DEF TickDone, LiveInv
<1>4. /\ mode \in Outcomes /\ block \in Outcomes /\ mute \in Outcomes
      /\ dev \in Devs /\ speaker_active \in BOOLEAN /\ ~dev.gone /\ ~exit
      /\ faults \in Nat
  BY <1>1 DEF TickDone, LiveInv, LiveTyped, Tick, Running
<1>5. kind \in Kinds /\ (kind # "silence" => \E b \in take.block : b.kind = kind)
  <2>1. kind = IF take.block = {} THEN "silence" ELSE (CHOOSE b \in take.block : TRUE).kind
    BY <1>1 DEF TickDone
  <2>2. CASE take.block = {}
    BY <2>1, <2>2 DEF Kinds
  <2>3. CASE take.block # {}
    <3>1. PICK b \in take.block : b = CHOOSE x \in take.block : TRUE
      BY <2>3
    <3>2. b \in Frame
      BY <1>3 DEF TakesRightly
    <3> QED  BY <2>1, <2>3, <3>1, <3>2 DEF Frame
  <2> QED  BY <2>2, <2>3
<1> DEFINE fails == Failing(<<mode, block, mute>>)
<1>6. /\ fails \in Nat
      /\ fails = 0 => mode = "ok" /\ block = "ok" /\ mute = "ok"
      /\ (fails <= 1 /\ (mode # "ok" \/ block # "ok")) => mute = "ok"
  BY <1>4, Failures
<1>7. faults' = faults + fails
  BY <1>1 DEF TickDone
<1> HIDE DEF fails
<1>8. faults' \in Nat /\ faults <= faults' /\ (faults' = faults => fails = 0)
      /\ (faults' <= 1 => fails <= 1 /\ faults <= 1)
  BY <1>4, <1>6, <1>7
<1>9. /\ dev' \in Devs /\ speaker_active' \in BOOLEAN /\ (sent.ok <=> mode = "ok" /\ block = "ok")
      /\ sent.ok => (speaker_active' <=> kind = "audio") /\ (dev'.playing <=> kind # "silence")
      /\ ~sent.ok => ~speaker_active' /\ dev'.failed
      /\ ((~dev.failed => (dev.speaker <=> speaker_active)) /\ ~dev'.failed)
           => (dev'.speaker <=> speaker_active')
      /\ ((dev.speaker <=> speaker_active) /\ ~dev'.gone /\ (sent.ok \/ mute = "ok"))
           => (dev'.speaker <=> speaker_active')
  <2>1. /\ (kind = "audio") = speaker_active => mode = "ok"
        /\ mode # "ok" => block = "ok"
        /\ sent = SendLiveAudio(kind, mode, block)
        /\ dev' = IF sent.ok THEN sent.dev ELSE StopSpeaker(sent.dev, sent.active, mute)
        /\ speaker_active' = (sent.ok /\ sent.active)
    BY <1>1 DEF TickDone
  <2> QED  BY ONLY <1>4, <1>5, <2>1, SentRight
<1>10. StreamRight(live') /\ PlayedOnTime'
  <2>1. live' = (IF sent.ok THEN take.live ELSE NoStream) /\ played' = take.block
    BY <1>1 DEF TickDone
  <2> QED  BY <1>3, <2>1, NoStreamRight DEF TakesRightly, PlayedOnTime
<1>11. sent.ok => live' = take.live
  BY <1>1 DEF TickDone
<1>12. (sent.ok /\ live'.deadline = {}) => ~speaker_active' /\ ~dev'.playing
  <2> SUFFICES ASSUME sent.ok, live'.deadline = {} PROVE ~speaker_active' /\ ~dev'.playing
    OBVIOUS
  <2>1. kind = "silence"
    BY <1>3, <1>5, <1>11 DEF TakesRightly
  <2> QED  BY <1>9, <2>1
<1>13. sent.ok => \A i \in 1 .. Len(live.frames) :
                (live.frames[i].due > 0 /\ live.frames[i].kind # "silence")
                  => \E j \in 1 .. Len(live'.frames) : live.frames[i] = live'.frames[j]
  BY <1>3, <1>11 DEF TakesRightly
<1>14. /\ ~dev'.failed => (dev'.speaker <=> speaker_active')
       /\ (~dev'.gone /\ faults' <= 1) => (dev'.speaker <=> speaker_active')
  <2>1. /\ ~dev.failed => (dev.speaker <=> speaker_active)
        /\ faults <= 1 => (dev.speaker <=> speaker_active)
    BY <1>4 DEF LiveInv, SpeakerInv
  <2>2. faults' <= 1 => faults <= 1 /\ (sent.ok \/ mute = "ok")
    BY <1>6, <1>8, <1>9
  <2> QED  BY <1>9, <2>1, <2>2
<1>15. PICK s \in BOOLEAN : s <=> sent.ok
  OBVIOUS
<1>16. faults' = faults => sent.ok
  BY <1>6, <1>8, <1>9
<1>17. TickRight(s)
  BY <1>8, <1>9, <1>10, <1>12, <1>13, <1>14, <1>15, <1>16 DEF TickRight
<1> QED  BY <1>17

LEMMA TickKeeps == ASSUME LiveInv, Tick PROVE LiveInv'
<1>1. PICK sent \in BOOLEAN : TickRight(sent)
  BY TickGoesRight
<1>2. LiveTyped'
  <2>1. timer' \subseteq Nat /\ turn' \subseteq {"pcm", "timer"}
    BY <1>1, ArmTyped DEF Tick, TickRight
  <2>2. faults' <= MaxFaults /\ UNCHANGED <<capture, beat, inbox, exit>>
    BY DEF Tick, source
  <2> QED  BY <1>1, <2>1, <2>2 DEF LiveInv, LiveTyped, TickRight
<1>3. IdleInv' /\ SpeakerInv'
  BY <1>1 DEF TickRight, IdleInv, SpeakerInv
<1> QED  BY <1>1, <1>2, <1>3 DEF LiveInv, TickRight

LEMMA VanishKeeps == ASSUME LiveInv, ControllerVanishes PROVE LiveInv'
<1>1. dev' \in Devs /\ dev'.gone
  BY DEF ControllerVanishes, LiveInv, LiveTyped, Devs
<1>2. LiveTyped'
  BY <1>1 DEF ControllerVanishes, LiveInv, LiveTyped, source
<1>3. StreamRight(live')
  BY DEF ControllerVanishes, LiveInv
<1>4. IdleInv' /\ SpeakerInv'
  BY <1>1 DEF ControllerVanishes, LiveInv, IdleInv, SpeakerInv
<1>5. PlayedOnTime'
  BY DEF ControllerVanishes, PlayedOnTime
<1> QED  BY <1>2, <1>3, <1>4, <1>5 DEF LiveInv

\* Nothing remains to hold of a session that has ended but this.
LEMMA LeaveEnds ==
  ASSUME LiveInv, Leave, dev' \in Devs,
         (~dev'.gone /\ ~dev'.failed) => ~dev'.playing /\ ~dev'.speaker
  PROVE  LiveInv'
<1>1. /\ live' = NoStream /\ speaker_active' = FALSE /\ exit' = TRUE /\ inbox' = <<>>
      /\ played' = {} /\ faults' <= MaxFaults /\ UNCHANGED <<capture, beat, timer, turn>>
  BY DEF Leave, source
<1>2. faults' \in Nat
  <2>1. PICK mute \in Outcomes, silence \in Outcomes :
          faults' = faults + Failing(<<mute, silence>>)
    BY DEF Leave
  <2>2. Failing(<<mute, silence>>) \in Nat
    BY FailuresOfTwo
  <2> QED  BY <2>1, <2>2 DEF LiveInv, LiveTyped
<1>3. inbox' \in Seq(Datagram) /\ Len(inbox') <= MaxInbox
  <2>1. <<>> \in Seq(Datagram) /\ Len(<<>>) = 0
    OBVIOUS
  <2> QED  BY <1>1, <2>1, HapticsAssumption
<1>4. LiveTyped'
  BY <1>1, <1>2, <1>3 DEF LiveInv, LiveTyped
<1>5. StreamRight(live')
  BY <1>1, NoStreamRight
<1>6. IdleInv' /\ SpeakerInv'
  BY <1>1 DEF IdleInv, SpeakerInv
<1>7. PlayedOnTime'
  BY <1>1 DEF PlayedOnTime
<1> QED  BY <1>4, <1>5, <1>6, <1>7 DEF LiveInv

LEMMA LeaveKeeps == ASSUME LiveInv, Leave PROVE LiveInv'
<1>1. PICK mute \in Outcomes, silence \in Outcomes :
        /\ dev' = IF live.deadline # {} /\ ~StopSpeaker(dev, speaker_active, mute).gone
                  THEN WriteBlock(StopSpeaker(dev, speaker_active, mute), "silence", silence)
                  ELSE StopSpeaker(dev, speaker_active, mute)
        /\ faults' = faults + Failing(<<mute, silence>>)
  BY DEF Leave
<1> DEFINE muted == StopSpeaker(dev, speaker_active, mute)
<1>2. dev \in Devs /\ speaker_active \in BOOLEAN /\ faults \in Nat
  BY DEF LiveInv, LiveTyped
<1>3. /\ muted \in Devs /\ (muted.playing <=> dev.playing) /\ (dev.gone => muted.gone)
      /\ dev.failed => muted.failed
      /\ ~speaker_active => muted = dev
      /\ (speaker_active /\ ~dev.gone /\ mute = "ok") => ~muted.speaker
      /\ (speaker_active /\ ~dev.gone /\ mute # "ok") => muted.failed
  BY <1>2, Muted
<1>4. dev' = IF live.deadline # {} /\ ~muted.gone THEN WriteBlock(muted, "silence", silence)
             ELSE muted
  BY <1>1
<1> HIDE DEF muted
<1>5. CASE live.deadline # {} /\ ~muted.gone
  <2>1. /\ dev' \in Devs /\ (dev'.speaker <=> muted.speaker)
        /\ silence = "ok" => ~dev'.playing /\ (dev'.failed <=> muted.failed /\ muted.speaker)
        /\ silence # "ok" => dev'.failed
    BY <1>3, <1>4, <1>5, BlockWritten
  <2> QED
    <3>1. dev' \in Devs /\ ((~dev'.gone /\ ~dev'.failed) => ~dev'.playing /\ ~dev'.speaker)
      BY <1>2, <1>3, <1>5, <2>1 DEF LiveInv, SpeakerInv
    <3> QED  BY <3>1, LeaveEnds
<1>6. CASE ~(live.deadline # {} /\ ~muted.gone)
  <2>1. dev' = muted
    BY <1>4, <1>6
  <2>2. (~dev'.gone /\ ~dev'.failed) => ~dev'.playing /\ ~dev'.speaker
    BY <1>2, <1>3, <1>6, <2>1 DEF LiveInv, IdleInv, SpeakerInv
  <2> QED  BY <1>3, <2>1, <2>2, LeaveEnds
<1> QED  BY <1>5, <1>6

LEMMA LiveSteps == LiveInv /\ [HapticsNext]_hapticsVars => LiveInv'
<1> SUFFICES ASSUME LiveInv, [HapticsNext]_hapticsVars PROVE LiveInv'
  OBVIOUS
<1>1. CASE UNCHANGED hapticsVars
  BY <1>1 DEF hapticsVars, source, device, LiveInv, LiveTyped, StreamRight, IdleInv,
              SpeakerInv, PlayedOnTime
<1>2. CASE Clock \/ StartCapture \/ PauseCapture \/ EndCapture
  BY <1>2, PassKeeps, SourceKeeps DEF Clock
<1>3. CASE Drain
  BY <1>3, DrainKeeps
<1>4. CASE TimerExpires \/ OtherDeadline \/ EndTurn
  BY <1>4, LoopKeeps
<1>5. CASE Tick
  BY <1>5, TickKeeps
<1>6. CASE ControllerVanishes
  BY <1>6, VanishKeeps
<1>7. CASE Leave
  BY <1>7, LeaveKeeps
<1> QED  BY <1>1, <1>2, <1>3, <1>4, <1>5, <1>6, <1>7 DEF HapticsNext

----------------------------------------------------------------------------
(* The theorems.                                                           *)

LEMMA LiveInvariant == HapticsSpec => []LiveInv
<1>1. LiveInv /\ [HapticsNext]_hapticsVars => LiveInv'
  BY LiveSteps
<1> QED  BY LiveStarts, <1>1, PTL DEF HapticsSpec

LEMMA TypeFollows == ASSUME LiveInv PROVE LiveTypeOK
<1>1. \A i \in DOMAIN inbox : inbox[i] \in [kind : Kinds, age : 0 .. MaxAge + 1]
  <2>1. inbox \in Seq(Datagram)
    BY DEF LiveInv, LiveTyped
  <2>2. \A i \in DOMAIN inbox : inbox[i] \in Datagram
    BY <2>1
  <2> QED  BY <2>2 DEF Datagram
<1>2. \A i \in DOMAIN live.frames : live.frames[i] \in [kind : Kinds, due : Int]
  <2>1. live.frames \in Seq(Frame)
    BY DEF LiveInv, StreamRight
  <2>2. \A i \in DOMAIN live.frames : live.frames[i] \in Frame
    BY <2>1
  <2> QED  BY <2>2 DEF Frame
<1>3. Cardinality(live.deadline) <= 1
  <2>1. CASE live.deadline = {}
    <3>1. Cardinality(live.deadline) = 0
      BY ONLY <2>1, FS_EmptySet
    <3> QED  BY <3>1
  <2>2. CASE live.deadline # {}
    <3>0. PICK d \in live.deadline : TRUE
      BY <2>2
    <3>1. live.deadline = {d}
      BY <3>0 DEF LiveInv, StreamRight
    <3>2. Cardinality(live.deadline) = 1
      BY ONLY <3>1, FS_Singleton
    <3> QED  BY <3>2
  <2> QED  BY <2>1, <2>2
<1>4. faults \in 0 .. MaxFaults
  BY HapticsAssumption DEF LiveInv, LiveTyped
<1>5. Len(live.frames) <= Capacity
  BY DEF LiveInv, StreamRight
<1> QED  BY <1>1, <1>2, <1>3, <1>4, <1>5 DEF LiveInv, LiveTyped, LiveTypeOK, Devs

LEMMA HeadFollows == ASSUME LiveInv PROVE DeadlineBelongsToHead
<1> DEFINE f == live.frames
           n == Len(live.frames)
<1> SUFFICES ASSUME live.frames # <<>>
             PROVE  /\ live.deadline = {Head(f).due}
                    /\ \A i \in 2 .. n : f[i].due = f[i - 1].due + Period
  BY DEF DeadlineBelongsToHead
<1>1. f \in Seq(Frame) /\ n \in Nat /\ 1 \in 1 .. n /\ Head(f) = f[1]
  BY DEF LiveInv, StreamRight
<1>2. PICK d \in Int : live.deadline = {d}
  BY DEF LiveInv, StreamRight
<1>3. \A i \in 1 .. n : f[i].due = Due(d, i)
  BY <1>2 DEF LiveInv, StreamRight
<1> HIDE DEF f, n
<1>4. Head(f).due = d
  BY <1>1, <1>3, DueSteps
<1>5. \A i \in 2 .. n : f[i].due = f[i - 1].due + Period
  <2> SUFFICES ASSUME NEW i \in 2 .. n PROVE f[i].due = f[i - 1].due + Period
    OBVIOUS
  <2>1. i \in 1 .. n /\ i - 1 \in 1 .. n /\ i - 1 \in Nat /\ (i - 1) + 1 = i
    BY <1>1
  <2>2. Due(d, i) = Due(d, i - 1) + Period
    BY <2>1, DueSteps
  <2> QED  BY <1>3, <2>1, <2>2
<1> QED  BY <1>2, <1>4, <1>5

LEMMA SilenceFollows == ASSUME LiveInv PROVE QuietWhenIdle /\ OneFailureStillMutes
<1>1. QuietWhenIdle
  BY DEF LiveInv, IdleInv, SpeakerInv, QuietWhenIdle
<1>2. OneFailureStillMutes
  BY DEF LiveInv, IdleInv, SpeakerInv, OneFailureStillMutes
<1> QED  BY <1>1, <1>2

LEMMA FutureFollows ==
  ASSUME LiveInv, [HapticsNext]_hapticsVars, "timer" \in turn, turn' = {}, faults' = faults,
         NEW i \in DOMAIN live.frames, live.frames[i].due > 0, live.frames[i].kind # "silence"
  PROVE  live.frames[i] \in ToSet(live'.frames)
<1>1. live.frames \in Seq(Frame) /\ i \in 1 .. Len(live.frames)
  BY DEF LiveInv, StreamRight
<1>2. CASE EndTurn
  BY <1>2 DEF EndTurn, ToSet
<1>3. CASE Tick
  <2>1. PICK sent \in BOOLEAN : TickRight(sent)
    BY <1>3, TickGoesRight
  <2>2. PICK j \in 1 .. Len(live'.frames) : live.frames[i] = live'.frames[j]
    BY <1>1, <2>1 DEF TickRight
  <2>3. DOMAIN live'.frames = 1 .. Len(live'.frames)
    BY <2>1 DEF TickRight, StreamRight
  <2> QED  BY <2>2, <2>3 DEF ToSet
<1>4. CASE ~EndTurn /\ ~Tick
  <2>1. turn' # {}
    BY <1>4 DEF HapticsNext, hapticsVars, Clock, Pass, Produce, StartCapture, PauseCapture,
                EndCapture, Drain, TimerExpires, OtherDeadline, ControllerVanishes, Leave, Serve
  <2> QED  BY <2>1
<1> QED  BY <1>2, <1>3, <1>4

\* The queue is bounded, it has one deadline, and every variable its type.
THEOREM LiveTypeCorrect == HapticsSpec => []LiveTypeOK
<1>1. LiveInv => LiveTypeOK
  BY TypeFollows
<1> QED  BY LiveInvariant, <1>1, PTL

\* The deadline is that of the head and the blocks follow one another a period
\* apart, whatever was dropped or skipped.
THEOREM DeadlineCorrect == HapticsSpec => []DeadlineBelongsToHead
<1>1. LiveInv => DeadlineBelongsToHead
  BY HeadFollows
<1> QED  BY LiveInvariant, <1>1, PTL

\* A block is played in its own period, however late the timer.
THEOREM PlayedInTime == HapticsSpec => []PlayedOnTime
<1>1. LiveInv => PlayedOnTime
  BY DEF LiveInv
<1> QED  BY LiveInvariant, <1>1, PTL

\* What plays or has its speaker on has a stream, or a write failed.
THEOREM QuietCorrect == HapticsSpec => []QuietWhenIdle
<1>1. LiveInv => QuietWhenIdle
  BY SilenceFollows
<1> QED  BY LiveInvariant, <1>1, PTL

\* The speaker is muted even if the write that should have switched it, or
\* the block it was switched for, failed.
THEOREM MuteCorrect == HapticsSpec => []OneFailureStillMutes
<1>1. LiveInv => OneFailureStillMutes
  BY SilenceFollows
<1> QED  BY LiveInvariant, <1>1, PTL

\* A tick drops nothing that is not due.
THEOREM FutureKept == HapticsSpec => FutureBlocksSurvive
<1>1. LiveInv /\ [HapticsNext]_hapticsVars =>
        [("timer" \in turn /\ turn' = {} /\ faults' = faults) =>
           \A i \in DOMAIN live.frames :
             (live.frames[i].due > 0 /\ live.frames[i].kind # "silence")
               => live.frames[i] \in ToSet(live'.frames)]_hapticsVars
  BY FutureFollows
<1> QED  BY LiveInvariant, <1>1, PTL DEF HapticsSpec, FutureBlocksSurvive
==============================================================================
