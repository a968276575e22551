--------------------------- MODULE ReportPathProofs ---------------------------
(***************************************************************************)
(* Theorems of ReportPath, for every mapping, source frame, interval of    *)
(* the repeat and bound.                                                   *)
(*                                                                         *)
(* The first half is about the runtimes: a turbo or macro that is advanced *)
(* at any late instant stands where its start says it should, and neither  *)
(* changes before its deadline.  The second half is about the loop.        *)
(***************************************************************************)
EXTENDS ReportPath, FiniteSetTheorems, WellFoundedInduction, TLAPS

----------------------------------------------------------------------------
(* Arithmetic and extremes.                                                *)

LEMMA TimesMono ==
  ASSUME NEW r \in Nat, NEW a \in Nat, NEW b \in Nat, a <= b
  PROVE  r * a \in Nat /\ r * b \in Nat /\ r * a <= r * b
<1>1. PICK c \in Nat : b = a + c
  <2>1. b - a \in Nat /\ b = a + (b - a)
    OBVIOUS
  <2> QED  BY <2>1
<1>2. r * b = r * a + r * c /\ r * c \in Nat /\ r * a \in Nat
  BY <1>1
<1> QED  BY <1>2

\* Division with remainder.
LEMMA Quotient ==
  ASSUME NEW r \in Nat \ {0}, NEW x \in Nat
  PROVE  /\ (x \div r) \in Nat /\ (x % r) \in 0 .. r - 1
         /\ x = r * (x \div r) + (x % r)
OBVIOUS

LEMMA QuotientUnique ==
  ASSUME NEW r \in Nat \ {0}, NEW x \in Nat, NEW q \in Nat,
         r * q <= x, x < r * q + r
  PROVE  x \div r = q
<1> DEFINE d == x \div r
           m == x % r
<1>1. d \in Nat /\ m \in 0 .. r - 1 /\ x = r * d + m
  BY Quotient
<1> HIDE DEF d, m
<1>2. CASE d < q
  <2>1. r * (d + 1) <= r * q
    BY <1>1, <1>2, TimesMono
  <2>2. r * (d + 1) = r * d + r
    BY <1>1
  <2>3. r * d \in Nat /\ r * q \in Nat
    BY <1>1, TimesMono
  <2> QED  BY <1>1, <2>1, <2>2, <2>3
<1>3. CASE q < d
  <2>1. r * (q + 1) <= r * d
    BY <1>1, <1>3, TimesMono
  <2>2. r * (q + 1) = r * q + r
    OBVIOUS
  <2>3. r * d \in Nat /\ r * q \in Nat
    BY <1>1, TimesMono
  <2> QED  BY <1>1, <2>1, <2>2, <2>3
<1> QED  BY <1>1, <1>2, <1>3 DEF d

\* A product is below an instant exactly if its factor is below the quotient.
LEMMA BelowQuotient ==
  ASSUME NEW r \in Nat \ {0}, NEW x \in Nat, NEW a \in Nat
  PROVE  r * a <= x <=> a <= x \div r
<1> DEFINE d == x \div r
           m == x % r
<1>1. d \in Nat /\ m \in 0 .. r - 1 /\ x = r * d + m
  BY Quotient
<1> HIDE DEF d, m
<1>2. ASSUME a <= d PROVE r * a <= x
  <2>1. r * a <= r * d /\ r * a \in Nat /\ r * d \in Nat
    BY <1>1, <1>2, TimesMono
  <2> QED  BY <1>1, <2>1
<1>3. ASSUME d < a PROVE ~(r * a <= x)
  <2>1. r * (d + 1) <= r * a /\ r * a \in Nat
    BY <1>1, <1>3, TimesMono
  <2>2. r * (d + 1) = r * d + r /\ r * d \in Nat
    BY <1>1
  <2> QED  BY <1>1, <2>1, <2>2
<1> QED  BY <1>1, <1>2, <1>3 DEF d

\* Sets of instants have a first one.
LEMMA Least ==
  ASSUME NEW S, S \subseteq Nat, S # {}
  PROVE  Min(S) \in S /\ \A y \in S : Min(S) <= y
<1>1. PICK n \in S : TRUE
  OBVIOUS
<1> DEFINE Low == {x \in S : x <= n}
           Upto(x) == 0 .. x
           Bounds == {Upto(x) : x \in Low}
           Whole == 0 .. n
           Smaller == StrictSubsetOrdering(Whole)
<1>2. IsWellFoundedOn(Smaller, SUBSET Whole)
  <2>1. IsFiniteSet(Whole)
    BY <1>1, FS_Interval
  <2> QED  BY <2>1, FS_FiniteSubsetsOfFinite, FS_StrictSubsetOrderingWellFounded
<1>3. Bounds \subseteq SUBSET Whole /\ Bounds # {}
  <2>1. n \in Low /\ \A x \in Low : Upto(x) \subseteq Whole
    BY <1>1
  <2> QED  BY <2>1
<1>4. \A X, Y \in SUBSET Whole : X \subseteq Y /\ X # Y => <<X, Y>> \in Smaller
  BY DEF StrictSubsetOrdering
<1> HIDE DEF Smaller, Bounds, Whole
<1>5. PICK least \in Bounds : \A X \in Bounds : <<X, least>> \notin Smaller
  BY <1>2, <1>3, WFMin
<1>6. PICK x \in Low : least = Upto(x)
  BY DEF Bounds
<1>7. \A y \in S : x <= y
  <2> SUFFICES ASSUME NEW y \in S, y < x PROVE FALSE
    OBVIOUS
  <2>1. y \in Low
    BY <1>6
  <2>2. Upto(y) \subseteq Upto(x) /\ Upto(y) # Upto(x)
    <3>1. x \in Upto(x) /\ x \notin Upto(y) /\ Upto(y) \subseteq Upto(x)
      BY <1>6, <2>1
    <3> QED  BY <3>1
  <2>3. Upto(y) \in Bounds
    BY <2>1 DEF Bounds
  <2> QED  BY <1>3, <1>4, <1>5, <1>6, <2>2, <2>3
<1> QED  BY <1>6, <1>7 DEF Min

\* Finite sets of numbers have a last one.
LEMMA Greatest ==
  ASSUME NEW S, S \subseteq Nat, S # {}, IsFiniteSet(S)
  PROVE  Max(S) \in S /\ \A y \in S : Max(S) >= y
<1> DEFINE From(x) == {y \in S : y >= x}
           Bounds == {From(x) : x \in S}
           Smaller == StrictSubsetOrdering(S)
<1>1. IsWellFoundedOn(Smaller, SUBSET S)
  BY FS_FiniteSubsetsOfFinite, FS_StrictSubsetOrderingWellFounded
<1>2. Bounds \subseteq SUBSET S /\ Bounds # {}
  OBVIOUS
<1>3. \A X, Y \in SUBSET S : X \subseteq Y /\ X # Y => <<X, Y>> \in Smaller
  BY DEF StrictSubsetOrdering
<1> HIDE DEF Smaller, Bounds
<1>4. PICK least \in Bounds : \A X \in Bounds : <<X, least>> \notin Smaller
  BY <1>1, <1>2, WFMin
<1>5. PICK x \in S : least = From(x)
  BY DEF Bounds
<1>6. \A y \in S : x >= y
  <2> SUFFICES ASSUME NEW y \in S, x < y PROVE FALSE
    OBVIOUS
  <2>0. x < y
    OBVIOUS
  <2>1. From(y) \subseteq From(x) /\ x \in From(x) /\ x \notin From(y)
    <3>1. x \in Nat /\ y \in Nat /\ \A z \in S : z \in Nat
      OBVIOUS
    <3>2. /\ \A z \in S : z >= y => z >= x
          /\ x >= x /\ ~(x >= y)
      BY <2>0, <3>1
    <3> QED  BY <3>2
  <2>2. From(y) \in Bounds
    BY DEF Bounds
  <2> QED  BY <1>2, <1>3, <1>4, <1>5, <2>1, <2>2
<1> QED  BY <1>5, <1>6 DEF Max

----------------------------------------------------------------------------
(* Turbo.                                                                  *)

\* A runtime at an instant: while it toggles, its phase is given by the
\* number of intervals from the end of the delay to the last toggle.
TurboRight(cfg, t, at) ==
  /\ t \in [active : BOOLEAN, toggling : BOOLEAN, phase : BOOLEAN, press : Nat, toggle : Nat]
  /\ t.active =>
       /\ cfg.interval > 0 /\ t.press <= at
       /\ ~t.toggling => t.phase
       /\ t.toggling =>
            \E n \in Nat : /\ t.toggle = t.press + Ms(cfg.delay) + Ms(cfg.interval) * n
                           /\ t.toggle <= at
                           /\ t.phase <=> n % 2 = 0

LEMMA MsNat ==
  ASSUME NEW n \in Nat
  PROVE  Ms(n) \in Nat /\ (n > 0 => Ms(n) \in Nat \ {0})
<1>1. Ms(n) = n * TicksPerMs /\ TicksPerMs \in Nat \ {0}
  BY TicksAssumption DEF Ms
<1>2. n * TicksPerMs \in Nat /\ (n > 0 => n * TicksPerMs # 0)
  BY <1>1
<1> QED  BY <1>1, <1>2

LEMMA TurboTimes ==
  ASSUME NEW cfg, {cfg.interval, cfg.delay} \subseteq Nat, NEW t, NEW at \in Nat,
         TurboRight(cfg, t, at), t.active
  PROVE  /\ Ms(cfg.delay) \in Nat /\ Ms(cfg.interval) \in Nat \ {0}
         /\ t.press \in Nat /\ t.toggle \in Nat /\ t.press <= at
BY MsNat DEF TurboRight

\* Before its deadline a turbo shows what it stands for.
LEMMA TurboShows ==
  ASSUME NEW cfg, {cfg.interval, cfg.delay} \subseteq Nat, NEW t, NEW at \in Nat,
         TurboRight(cfg, t, at), t.active,
         \A d \in TurboDeadline(cfg, t) : at < d
  PROVE  TurboOn(cfg, t.press, at) <=> t.phase
<1> DEFINE I == Ms(cfg.interval)
           D == Ms(cfg.delay)
           F == t.press + D
<1>1. /\ D \in Nat /\ I \in Nat \ {0} /\ t.press \in Nat /\ t.toggle \in Nat /\ F \in Nat
      /\ t.press <= at /\ t.toggling \in BOOLEAN /\ t.phase \in BOOLEAN
  BY TurboTimes DEF TurboRight
<1>2. TurboOn(cfg, t.press, at) <=> at < F \/ ((at - F) \div I) % 2 = 0
  BY DEF TurboOn
<1>3. CASE ~t.toggling
  <2>1. at < F /\ t.phase
    BY <1>3 DEF TurboDeadline, TurboRight
  <2> QED  BY <1>2, <2>1
<1>4. CASE t.toggling
  <2>1. PICK n \in Nat : /\ t.toggle = F + I * n /\ t.toggle <= at
                         /\ t.phase <=> n % 2 = 0
    BY <1>4 DEF TurboRight
  <2>2. at < t.toggle + I
    BY <1>4 DEF TurboDeadline
  <2> HIDE DEF I, D, F
  <2>3. /\ I * n \in Nat /\ at - F \in Nat /\ ~(at < F)
        /\ I * n <= at - F /\ at - F < I * n + I
    BY <1>1, <2>1, <2>2
  <2>4. (at - F) \div I = n
    BY <1>1, <2>3, QuotientUnique
  <2> QED  BY <1>2, <2>1, <2>3, <2>4
<1> QED  BY <1>3, <1>4

\* A late wake-up brings a turbo to the present: it stands for the same, and
\* its next deadline is in the future.
LEMMA TurboAdvances ==
  ASSUME NEW cfg, {cfg.interval, cfg.delay} \subseteq Nat, NEW t, NEW at \in Nat,
         TurboRight(cfg, t, at), t.active
  PROVE  /\ TurboRight(cfg, TurboAdvance(cfg, t, at), at)
         /\ TurboAdvance(cfg, t, at).active /\ TurboAdvance(cfg, t, at).press = t.press
         /\ \A d \in TurboDeadline(cfg, TurboAdvance(cfg, t, at)) : at < d
<1> DEFINE I == Ms(cfg.interval)
           D == Ms(cfg.delay)
           F == t.press + D
           from == IF t.toggling THEN t.toggle ELSE F
           x == at - from
           k == x \div I
           u == TurboAdvance(cfg, t, at)
<1>1. /\ D \in Nat /\ I \in Nat \ {0} /\ t.press \in Nat /\ t.toggle \in Nat /\ F \in Nat
      /\ t.press <= at /\ t.toggling \in BOOLEAN /\ t.phase \in BOOLEAN /\ cfg.interval > 0
      /\ from \in Nat
      /\ t \in [active : BOOLEAN, toggling : BOOLEAN, phase : BOOLEAN, press : Nat, toggle : Nat]
  BY TurboTimes DEF TurboRight
<1>2. u = IF at < from THEN t
          ELSE [t EXCEPT !.toggling = TRUE, !.phase = IF k % 2 = 1 THEN ~@ ELSE @,
                         !.toggle = at - (x % I)]
  BY DEF TurboAdvance
<1>3. CASE at < from
  <2>1. u = t /\ ~t.toggling
    BY <1>1, <1>2, <1>3 DEF TurboRight
  <2>2. \A d \in TurboDeadline(cfg, t) : d = F
    BY <2>1 DEF TurboDeadline
  <2> QED  BY <1>3, <2>1, <2>2
<1>4. CASE ~(at < from)
  <2>1. PICK n \in Nat : from = F + I * n /\ (t.phase <=> n % 2 = 0)
    <3>1. CASE t.toggling
      BY <3>1 DEF TurboRight
    <3>2. CASE ~t.toggling
      <4>1. from = F + I * 0 /\ (t.phase <=> 0 % 2 = 0)
        <5>1. I * 0 = 0 /\ 0 % 2 = 0 /\ F + 0 = F
          BY <1>1
        <5>2. t.phase
          BY <3>2 DEF TurboRight
        <5> QED  BY <3>2, <5>1, <5>2
      <4> QED  BY <4>1
    <3> QED  BY <3>1, <3>2
  <2>2. /\ u.active /\ u.toggling /\ u.press = t.press /\ u.toggle = at - (x % I)
        /\ u.phase = IF k % 2 = 1 THEN ~t.phase ELSE t.phase
    BY <1>1, <1>2, <1>4
  <2> HIDE DEF I, D, F, from, u
  <2>3. x \in Nat /\ k \in Nat /\ (x % I) \in 0 .. I - 1 /\ x = I * k + (x % I)
    <3>1. x \in Nat
      BY <1>1, <1>4
    <3> QED  BY ONLY <1>1, <3>1, Quotient
  <2> HIDE DEF k
  <2>4. /\ u.toggle = from + I * k /\ u.toggle \in Nat /\ u.toggle <= at /\ at < u.toggle + I
        /\ I * k \in Nat
    BY <1>1, <1>4, <2>2, <2>3
  <2>5. I * n + I * k = I * (n + k) /\ I * n \in Nat /\ n + k \in Nat
    BY <1>1, <2>1, <2>3
  <2>6. u.toggle = F + I * (n + k)
    BY <1>1, <2>1, <2>4, <2>5
  <2>7. u.phase <=> (n + k) % 2 = 0
    <3>1. /\ k % 2 = 1 => ((n + k) % 2 = 0 <=> n % 2 # 0)
          /\ k % 2 # 1 => ((n + k) % 2 = 0 <=> n % 2 = 0)
      BY <2>3
    <3> QED  BY <2>1, <2>2, <3>1
  <2>8. u \in [active : BOOLEAN, toggling : BOOLEAN, phase : BOOLEAN, press : Nat, toggle : Nat]
    <3>1. (IF k % 2 = 1 THEN ~t.phase ELSE t.phase) \in BOOLEAN
      BY <1>1
    <3>2. u = [t EXCEPT !.toggling = TRUE, !.phase = u.phase, !.toggle = u.toggle]
      BY <1>1, <1>2, <1>4, <2>2
    <3> QED  BY <1>1, <2>2, <2>4, <3>1, <3>2
  <2>9. TurboRight(cfg, u, at)
    BY <1>1, <2>2, <2>4, <2>5, <2>6, <2>7, <2>8 DEF TurboRight, I, D, F
  <2>10. \A d \in TurboDeadline(cfg, u) : at < d
    BY <2>2, <2>4 DEF TurboDeadline, I
  <2> QED  BY <2>2, <2>9, <2>10 DEF u
<1> QED  BY <1>3, <1>4

----------------------------------------------------------------------------
(* Macros.                                                                 *)

LEMMA CycleBounds ==
  ASSUME NEW rule, MacroCanRun(rule)
  PROVE  /\ CycleMs(rule) \in Nat \ {0}
         /\ \A s \in rule.steps : s.press \in Nat /\ s.release \in Nat
                                  /\ s.press < s.release /\ s.release <= CycleMs(rule)
         /\ \E s \in rule.steps : s.release = CycleMs(rule)
<1> DEFINE Releases == {s.release : s \in rule.steps}
<1>1. IsFiniteSet(Releases)
  <2> DEFINE release == [s \in rule.steps |-> s.release]
  <2>1. Releases = {release[s] : s \in rule.steps}
    OBVIOUS
  <2>2. release \in [rule.steps -> Releases]
    OBVIOUS
  <2>3. release \in Surjection(rule.steps, Releases)
    BY <2>2 DEF Surjection
  <2> QED  BY <2>3, FS_Surjection DEF MacroCanRun
<1>2. Releases # {} /\ Releases \subseteq Nat
  BY DEF MacroCanRun
<1>3. Max(Releases) \in Releases /\ \A r \in Releases : Max(Releases) >= r
  BY <1>1, <1>2, Greatest
<1>4. CycleMs(rule) = Max(Releases)
  BY DEF CycleMs
<1>5. CycleMs(rule) \in Nat
  BY <1>2, <1>3, <1>4
<1>6. PICK t \in rule.steps : t.release = CycleMs(rule)
  BY <1>3, <1>4
<1>7. ASSUME NEW s \in rule.steps
      PROVE  /\ s.press \in Nat /\ s.release \in Nat
             /\ s.press < s.release /\ s.release <= CycleMs(rule)
  BY <1>3, <1>4, <1>5 DEF MacroCanRun
<1>8. CycleMs(rule) # 0
  BY <1>6, <1>7
<1> QED  BY <1>5, <1>6, <1>7, <1>8

\* Whole milliseconds that have passed.
LEMMA Elapsed ==
  ASSUME NEW start \in Nat, NEW at \in Nat, start <= at
  PROVE  /\ (at - start) \div TicksPerMs \in 0 .. at
         /\ \A a \in Nat : start + Ms(a) <= at <=> a <= (at - start) \div TicksPerMs
<1> DEFINE x == at - start
<1>1. x \in Nat /\ TicksPerMs \in Nat \ {0} /\ x <= at
  BY TicksAssumption
<1>2. \A a \in Nat : Ms(a) = TicksPerMs * a
  BY <1>1 DEF Ms
<1>3. ASSUME NEW a \in Nat PROVE start + Ms(a) <= at <=> a <= x \div TicksPerMs
  <2>1. TicksPerMs * a <= x <=> a <= x \div TicksPerMs
    BY <1>1, BelowQuotient
  <2>2. Ms(a) \in Nat
    BY MsNat
  <2> QED  BY <1>2, <2>1, <2>2
<1>4. (x \div TicksPerMs) \in Nat /\ x \div TicksPerMs <= x
  <2> DEFINE q == x \div TicksPerMs
             m == x % TicksPerMs
  <2>1. q \in Nat /\ m \in 0 .. TicksPerMs - 1 /\ x = TicksPerMs * q + m
    BY <1>1, Quotient
  <2> HIDE DEF q, m
  <2>2. TicksPerMs * q = q * TicksPerMs /\ q * 1 <= q * TicksPerMs /\ q * TicksPerMs \in Nat
    BY <1>1, <2>1, TimesMono
  <2>3. q <= x
    BY <1>1, <2>1, <2>2
  <2> QED  BY <2>1, <2>3 DEF q
<1> QED  BY <1>1, <1>3, <1>4

LEMMA MsSum ==
  ASSUME NEW a \in Nat, NEW b \in Nat
  PROVE  Ms(a + b) = Ms(a) + Ms(b) /\ Ms(a) \in Nat /\ Ms(b) \in Nat
BY MsNat, TicksAssumption DEF Ms

\* A step is down in a round of its macro.
Rounds(rule) == IF rule.mode = "single" THEN {0} ELSE Nat
DownIn(rule, s, start, k, at) ==
  /\ start + Ms(k * CycleMs(rule) + s.press) <= at
  /\ at < start + Ms(k * CycleMs(rule) + s.release)

LEMMA RoundTimes ==
  ASSUME NEW rule, MacroCanRun(rule), NEW s \in rule.steps, NEW k \in Nat
  PROVE  /\ k * CycleMs(rule) + s.press \in Nat /\ k * CycleMs(rule) + s.release \in Nat
         /\ k * CycleMs(rule) \in Nat /\ k <= k * CycleMs(rule)
         /\ Ms(k * CycleMs(rule)) + Ms(s.press) = Ms(k * CycleMs(rule) + s.press)
         /\ Ms(k * CycleMs(rule)) + Ms(s.release) = Ms(k * CycleMs(rule) + s.release)
         /\ Ms(k * CycleMs(rule)) \in Nat /\ Ms(s.press) \in Nat /\ Ms(s.release) \in Nat
<1> DEFINE C == CycleMs(rule)
<1>1. C \in Nat \ {0} /\ s.press \in Nat /\ s.release \in Nat
  BY CycleBounds
<1> HIDE DEF C
<1>2. k * C \in Nat /\ k * 1 <= k * C
  BY <1>1, TimesMono
<1>3. /\ Ms(k * C + s.press) = Ms(k * C) + Ms(s.press)
      /\ Ms(k * C + s.release) = Ms(k * C) + Ms(s.release)
      /\ Ms(k * C) \in Nat /\ Ms(s.press) \in Nat /\ Ms(s.release) \in Nat
  BY <1>1, <1>2, MsSum
<1>4. k * C + s.press \in Nat /\ k * C + s.release \in Nat /\ k <= k * C
  BY <1>1, <1>2
<1> QED  BY <1>2, <1>3, <1>4 DEF C

LEMMA DownInARound ==
  ASSUME NEW rule, MacroCanRun(rule), NEW s \in rule.steps,
         NEW start \in Nat, NEW at \in Nat, start <= at
  PROVE  StepDown(rule, s, start, at) <=> \E k \in Rounds(rule) : DownIn(rule, s, start, k, at)
<1>1. \A k \in Nat : DownIn(rule, s, start, k, at) <=>
         /\ (start + Ms(k * CycleMs(rule))) + Ms(s.press) <= at
         /\ at < (start + Ms(k * CycleMs(rule))) + Ms(s.release)
  BY RoundTimes DEF DownIn
<1>2. CASE rule.mode = "single"
  <2>1. Ms(0 * CycleMs(rule)) = 0
    BY CycleBounds, TicksAssumption DEF Ms
  <2>2. DownIn(rule, s, start, 0, at) <=>
          start + Ms(s.press) <= at /\ at < start + Ms(s.release)
    BY <1>1, <2>1
  <2> QED  BY <1>2, <2>2 DEF StepDown, Rounds
<1>3. CASE rule.mode # "single"
  <2>1. ASSUME NEW k \in Nat, DownIn(rule, s, start, k, at) PROVE k \in 0 .. at
    <3>1. k * CycleMs(rule) + s.press <= (at - start) \div TicksPerMs
      BY <2>1, RoundTimes, Elapsed DEF DownIn
    <3>2. (at - start) \div TicksPerMs \in 0 .. at
      BY Elapsed
    <3>3. s.press \in Nat /\ k * CycleMs(rule) \in Nat /\ k <= k * CycleMs(rule)
      BY RoundTimes, CycleBounds
    <3> QED  BY <3>1, <3>2, <3>3
  <2>2. StepDown(rule, s, start, at) <=> \E k \in 0 .. at : DownIn(rule, s, start, k, at)
    BY <1>1, <1>3 DEF StepDown
  <2>3. Rounds(rule) = Nat /\ 0 .. at \subseteq Nat
    BY <1>3 DEF Rounds
  <2> QED  BY <2>1, <2>2, <2>3
<1> QED  BY <1>2, <1>3

\* The round and the position in it at an instant.
Round(rule, m, at) == IF rule.mode = "hold" THEN ElapsedMs(m, at) \div CycleMs(rule) ELSE 0

LEMMA WhereItStands ==
  ASSUME NEW rule, MacroCanRun(rule), NEW m, m.start \in Nat, NEW at \in Nat, m.start <= at
  PROVE  /\ Round(rule, m, at) \in Rounds(rule) /\ Position(rule, m, at) \in Nat
         /\ Round(rule, m, at) \in Nat /\ ElapsedMs(m, at) \in Nat
         /\ ElapsedMs(m, at) = Round(rule, m, at) * CycleMs(rule) + Position(rule, m, at)
         /\ rule.mode = "hold" => Position(rule, m, at) < CycleMs(rule)
<1> DEFINE C == CycleMs(rule)
           E == ElapsedMs(m, at)
<1>1. C \in Nat \ {0}
  BY CycleBounds
<1>2. E \in Nat
  <2>1. E \in 0 .. at
    BY Elapsed DEF ElapsedMs
  <2> QED  BY ONLY <2>1
<1> HIDE DEF C, E
<1>3. (E \div C) \in Nat /\ (E % C) \in 0 .. C - 1 /\ E = C * (E \div C) + (E % C)
  BY <1>1, <1>2, Quotient
<1>4. C * (E \div C) = (E \div C) * C
  BY <1>1, <1>3
<1>5. CASE rule.mode = "hold"
  BY <1>1, <1>2, <1>3, <1>4, <1>5 DEF Round, Position, Rounds, C, E
<1>6. CASE rule.mode = "single"
  <2>1. 0 * C = 0
    BY <1>1
  <2> QED  BY <1>2, <1>6, <2>1 DEF Round, Position, Rounds, C, E
<1> QED  BY <1>5, <1>6 DEF MacroCanRun

\* Rounds do not overlap.
LEMMA InItsRound ==
  ASSUME NEW rule, MacroCanRun(rule), NEW m, m.start \in Nat, NEW at \in Nat, m.start <= at,
         NEW s \in rule.steps, NEW k \in Rounds(rule)
  PROVE  LET C == CycleMs(rule)
             q == Round(rule, m, at)
         IN /\ k < q => k * C + s.press <= q * C /\ k * C + s.release <= q * C
            /\ q < k => q * C + C + s.press <= k * C + s.press /\ q * C + C <= k * C
<1> DEFINE C == CycleMs(rule)
           q == Round(rule, m, at)
<1>1. /\ C \in Nat \ {0} /\ q \in Nat /\ k \in Nat
      /\ s.press \in Nat /\ s.release \in Nat /\ s.press <= C /\ s.release <= C
  BY CycleBounds, WhereItStands DEF Rounds
<1> HIDE DEF C, q
<1>2. /\ k < q => C * (k + 1) <= C * q
      /\ q < k => C * (q + 1) <= C * k
  BY <1>1, TimesMono
<1>3. /\ C * (k + 1) = k * C + C /\ C * (q + 1) = q * C + C
      /\ C * q = q * C /\ C * k = k * C
      /\ k * C \in Nat /\ q * C \in Nat
  BY <1>1
<1>4. /\ k < q => k * C + s.press <= q * C /\ k * C + s.release <= q * C
      /\ q < k => q * C + C + s.press <= k * C + s.press /\ q * C + C <= k * C
  BY <1>1, <1>2, <1>3
<1> QED  BY <1>4 DEF C, q

\* The code's position tells which steps are down.
LEMMA StepIsDown ==
  ASSUME NEW rule, MacroCanRun(rule), NEW m, m.start \in Nat, NEW at \in Nat, m.start <= at,
         NEW s \in rule.steps
  PROVE  StepDown(rule, s, m.start, at) <=>
           s.press <= Position(rule, m, at) /\ Position(rule, m, at) < s.release
<1> DEFINE C == CycleMs(rule)
           q == Round(rule, m, at)
           p == Position(rule, m, at)
           E == ElapsedMs(m, at)
<1>1. /\ C \in Nat \ {0} /\ s.press \in Nat /\ s.release \in Nat
      /\ s.press < s.release /\ s.release <= C
  BY CycleBounds
<1>2. /\ q \in Rounds(rule) /\ q \in Nat /\ p \in Nat /\ E \in Nat
      /\ E = q * C + p /\ q * C \in Nat
  BY <1>1, WhereItStands
<1>3. \A k \in Rounds(rule) : /\ k \in Nat /\ k * C + s.press \in Nat /\ k * C + s.release \in Nat
                              /\ k * C \in Nat
  BY RoundTimes DEF Rounds
<1>4. \A k \in Rounds(rule) :
        DownIn(rule, s, m.start, k, at) <=> k * C + s.press <= E /\ E < k * C + s.release
  <2> SUFFICES ASSUME NEW k \in Rounds(rule)
               PROVE  DownIn(rule, s, m.start, k, at) <=>
                        k * C + s.press <= E /\ E < k * C + s.release
    OBVIOUS
  <2> DEFINE a == k * C + s.press
             b == k * C + s.release
  <2>1. a \in Nat /\ b \in Nat
    BY <1>3
  <2>2. DownIn(rule, s, m.start, k, at) <=> m.start + Ms(a) <= at /\ at < m.start + Ms(b)
    BY DEF DownIn
  <2>3. Ms(b) \in Nat
    BY <2>1, MsNat
  <2> HIDE DEF a, b
  <2>4. (m.start + Ms(a) <= at <=> a <= E) /\ (m.start + Ms(b) <= at <=> b <= E)
    BY <2>1, Elapsed DEF ElapsedMs
  <2>5. at < m.start + Ms(b) <=> E < b
    BY <1>2, <2>1, <2>3, <2>4
  <2> QED  BY <2>2, <2>4, <2>5 DEF a, b
<1>5. \A k \in Rounds(rule) :
        /\ k < q => k * C + s.release <= q * C
        /\ q < k => q * C + C <= k * C
  BY InItsRound
<1>6. p < C \/ rule.mode # "hold"
  BY WhereItStands
<1>7. ASSUME NEW k \in Rounds(rule), k * C + s.press <= E, E < k * C + s.release
      PROVE  k = q
  <2>1. ~(k < q)
    BY <1>1, <1>2, <1>3, <1>5, <1>7
  <2>2. ~(q < k)
    <3>1. CASE rule.mode = "hold"
      BY <1>1, <1>2, <1>3, <1>5, <1>6, <1>7, <3>1
    <3>2. CASE rule.mode = "single"
      BY <1>2, <3>2 DEF Rounds
    <3> QED  BY <3>1, <3>2 DEF MacroCanRun
  <2> QED  BY <1>2, <1>3, <2>1, <2>2
<1>8. q * C + s.press <= E /\ E < q * C + s.release <=> s.press <= p /\ p < s.release
  <2> HIDE DEF q, C, p, E
  <2> QED  BY <1>1, <1>2
<1>9. StepDown(rule, s, m.start, at) <=> \E k \in Rounds(rule) : DownIn(rule, s, m.start, k, at)
  BY DownInARound
<1> HIDE DEF q, C, p, E
<1>10. (\E k \in Rounds(rule) : DownIn(rule, s, m.start, k, at)) <=>
         (q * C + s.press <= E /\ E < q * C + s.release)
  BY <1>2, <1>4, <1>7
<1> QED  BY <1>8, <1>9, <1>10 DEF p

\* The instants at which a step of a macro is pressed or released.
IsChange(rule, start, e) ==
  \E s \in rule.steps, k \in Rounds(rule) :
    \/ e = start + Ms(k * CycleMs(rule) + s.press)
    \/ e = start + Ms(k * CycleMs(rule) + s.release)

\* A runtime at an instant: its deadline comes before, or with, the next change.
MacroRight(rule, m, at) ==
  /\ m \in [active : BOOLEAN, start : Nat, next : SUBSET Nat]
  /\ m.active =>
       /\ m.start <= at
       /\ \A e \in Nat : IsChange(rule, m.start, e) /\ at < e => \E d \in m.next : d <= e

\* Until its deadline a macro shows the same steps.
LEMMA MacroHolds ==
  ASSUME NEW rule, MacroCanRun(rule), NEW m, NEW at \in Nat,
         MacroRight(rule, m, at), m.active, \A d \in m.next : at + 1 < d
  PROVE  /\ MacroRight(rule, m, at + 1)
         /\ \A s \in rule.steps :
              StepDown(rule, s, m.start, at + 1) <=> StepDown(rule, s, m.start, at)
<1>1. /\ m \in [active : BOOLEAN, start : Nat, next : SUBSET Nat]
      /\ m.start \in Nat /\ m.start <= at
      /\ \A e \in Nat : IsChange(rule, m.start, e) /\ at < e => \E d \in m.next : d <= e
      /\ \A d \in m.next : d \in Nat /\ at + 1 < d
  BY DEF MacroRight
<1>2. ~IsChange(rule, m.start, at + 1)
  BY <1>1
<1>3. MacroRight(rule, m, at + 1)
  BY <1>1 DEF MacroRight
<1>4. ASSUME NEW s \in rule.steps
      PROVE  StepDown(rule, s, m.start, at + 1) <=> StepDown(rule, s, m.start, at)
  <2>1. ASSUME NEW k \in Rounds(rule)
        PROVE  DownIn(rule, s, m.start, k, at + 1) <=> DownIn(rule, s, m.start, k, at)
    <3> DEFINE a == Ms(k * CycleMs(rule) + s.press)
               b == Ms(k * CycleMs(rule) + s.release)
    <3>1. k \in Nat
      BY DEF Rounds
    <3>2. a \in Nat /\ b \in Nat
      BY <3>1, RoundTimes
    <3>3. m.start + a # at + 1 /\ m.start + b # at + 1
      BY <1>2 DEF IsChange
    <3> HIDE DEF a, b
    <3>4. /\ m.start + a <= at + 1 <=> m.start + a <= at
          /\ at + 1 < m.start + b <=> at < m.start + b
      BY <1>1, <3>2, <3>3
    <3> QED  BY <3>4 DEF DownIn, a, b
  <2>2. at + 1 \in Nat /\ m.start <= at + 1
    BY <1>1
  <2>3. /\ StepDown(rule, s, m.start, at) <=>
             \E k \in Rounds(rule) : DownIn(rule, s, m.start, k, at)
        /\ StepDown(rule, s, m.start, at + 1) <=>
             \E k \in Rounds(rule) : DownIn(rule, s, m.start, k, at + 1)
    BY <1>1, <2>2, DownInARound
  <2> QED  BY <2>1, <2>3
<1> QED  BY <1>3, <1>4

\* The change of a step the code looks for is in the future, and no change
\* that is in the future comes before it.
LEMMA NextChange ==
  ASSUME NEW rule, MacroCanRun(rule), NEW m, m.start \in Nat, NEW at \in Nat, m.start <= at,
         NEW s \in rule.steps
  PROVE  LET q == Round(rule, m, at) * CycleMs(rule)
             p == Position(rule, m, at)
         IN /\ \A c \in StepChange(rule, s, p) : c \in Nat /\ c > p
            /\ \A k \in Rounds(rule), x \in {s.press, s.release} :
                 k * CycleMs(rule) + x > q + p =>
                   \E c \in StepChange(rule, s, p) : q + c <= k * CycleMs(rule) + x
<1> DEFINE C == CycleMs(rule)
           n == Round(rule, m, at)
           p == Position(rule, m, at)
<1>1. /\ C \in Nat \ {0} /\ s.press \in Nat /\ s.release \in Nat
      /\ s.press < s.release /\ s.release <= C
  BY CycleBounds
<1>2. n \in Nat /\ p \in Nat /\ n * C \in Nat
  BY <1>1, WhereItStands
<1>3. p < C \/ rule.mode # "hold"
  BY WhereItStands
<1>4. StepChange(rule, s, p) = IF p < s.press THEN {s.press}
        ELSE IF p < s.release THEN {s.release}
        ELSE IF rule.mode = "hold" THEN {C + s.press} ELSE {}
  BY DEF StepChange
<1>5. \A c \in StepChange(rule, s, p) : c \in Nat /\ c > p
  <2> HIDE DEF C, p
  <2> QED  BY <1>1, <1>2, <1>3, <1>4
<1>6. ASSUME NEW k \in Rounds(rule), NEW x \in {s.press, s.release}, k * C + x > n * C + p
      PROVE  \E c \in StepChange(rule, s, p) : n * C + c <= k * C + x
  <2>1. /\ k < n => k * C + s.press <= n * C /\ k * C + s.release <= n * C
        /\ n < k => n * C + C + s.press <= k * C + s.press /\ n * C + C <= k * C
    BY InItsRound
  <2>2. k \in Nat /\ k * C \in Nat /\ x \in Nat
    BY <1>1, RoundTimes DEF Rounds
  <2>3. (rule.mode = "hold" \/ k = n) /\ rule.mode \in {"hold", "single"}
    BY DEF Rounds, Round, MacroCanRun
  <2> HIDE DEF C, n, p
  <2>4. ~(k < n)
    BY <1>1, <1>2, <1>6, <2>1, <2>2
  <2>5. CASE k = n
    <3>1. x > p
      BY <1>2, <1>6, <2>2, <2>5
    <3>2. p < s.release
      BY <1>1, <1>2, <3>1
    <3>3. PICK c \in StepChange(rule, s, p) : c = IF p < s.press THEN s.press ELSE s.release
      BY <1>4, <3>2
    <3>4. c <= x
      BY <1>1, <1>2, <3>1, <3>3
    <3> QED  BY <1>1, <1>2, <2>2, <2>5, <3>3, <3>4
  <2>6. CASE n < k
    <3>0. rule.mode = "hold"
      BY <1>2, <2>2, <2>3, <2>6
    <3>1. PICK c \in StepChange(rule, s, p) : c \in {s.press, s.release, C + s.press}
      BY <1>4, <3>0
    <3>2. c \in Nat /\ c <= C + s.press
      BY <1>1, <3>1
    <3>3. n * C + c <= k * C + s.press
      BY <1>1, <1>2, <2>1, <2>2, <2>6, <3>2
    <3>4. s.press <= x
      BY <1>1
    <3> QED  BY <1>1, <1>2, <2>2, <3>2, <3>3, <3>4
  <2> QED  BY <1>2, <2>2, <2>4, <2>5, <2>6
<1> QED  BY <1>5, <1>6

\* The earliest of some instants is one of them, and before the others.
LEMMA EarliestIsFirst ==
  ASSUME NEW D, D \subseteq Nat
  PROVE  Earliest(D) \subseteq D /\ \A d \in D : \E f \in Earliest(D) : f <= d
<1>1. CASE D = {}
  BY <1>1 DEF Earliest
<1>2. CASE D # {}
  <2>1. Min(D) \in D /\ \A d \in D : Min(D) <= d
    BY <1>2, Least
  <2>2. Earliest(D) = {Min(D)}
    BY <1>2 DEF Earliest
  <2> QED  BY <2>1, <2>2
<1> QED  BY <1>1, <1>2

\* A late wake-up brings a macro to the present; when the last step of a
\* single one is over, none is down.
LEMMA MacroAdvances ==
  ASSUME NEW rule, MacroCanRun(rule), NEW m, NEW at \in Nat,
         m \in [active : BOOLEAN, start : Nat, next : SUBSET Nat], m.active, m.start <= at
  PROVE  LET u == MacroAdvance(rule, m, at)
         IN /\ Completed(rule, m, at) =>
                 u = MacroIdle /\ \A s \in rule.steps : ~StepDown(rule, s, m.start, at)
            /\ ~Completed(rule, m, at) =>
                 /\ u.active /\ u.start = m.start /\ MacroRight(rule, u, at)
                 /\ \A d \in u.next : at < d
<1> DEFINE C == CycleMs(rule)
           n == Round(rule, m, at)
           p == Position(rule, m, at)
           E == ElapsedMs(m, at)
           u == MacroAdvance(rule, m, at)
           changes == UNION {StepChange(rule, s, p) : s \in rule.steps}
           origin == m.start + Ms(E - p)
           D == {d \in {origin + Ms(c) : c \in changes} : d > at}
<1>1. m.start \in Nat /\ C \in Nat \ {0}
  BY CycleBounds
<1>2. n \in Nat /\ p \in Nat /\ E \in Nat /\ E = n * C + p /\ n * C \in Nat
  BY <1>1, WhereItStands
<1>3. CASE Completed(rule, m, at)
  <2>1. rule.mode = "single" /\ \A s \in rule.steps : E >= s.release
    BY <1>3 DEF Completed
  <2>2. p = E
    BY <2>1 DEF Position
  <2>3. ASSUME NEW s \in rule.steps PROVE ~StepDown(rule, s, m.start, at)
    <3>1. s.release \in Nat /\ ~(p < s.release)
      BY <1>2, <2>1, <2>2, CycleBounds
    <3> QED  BY <1>1, <3>1, StepIsDown
  <2> QED  BY <1>3, <2>3 DEF MacroAdvance
<1>4. CASE ~Completed(rule, m, at)
  <2>1. u = [m EXCEPT !.next = Earliest(D)]
    BY <1>4 DEF MacroAdvance
  <2>2. u.active /\ u.start = m.start /\ u.next = Earliest(D)
    BY <2>1
  <2>3. E - p = n * C /\ origin \in Nat /\ origin = m.start + Ms(n * C)
    <3> HIDE DEF C, n, p, E
    <3>1. E - p = n * C
      BY <1>2
    <3>2. Ms(n * C) \in Nat
      BY <1>2, MsNat
    <3> QED  BY <1>1, <3>1, <3>2
  <2>4. \A c \in changes : c \in Nat /\ c > p
    <3> SUFFICES ASSUME NEW s \in rule.steps, NEW c \in StepChange(rule, s, p)
                 PROVE  c \in Nat /\ c > p
      OBVIOUS
    <3> QED  BY <1>1, NextChange
  <2>5. D \subseteq Nat /\ \A d \in D : at < d
    <3> HIDE DEF changes, origin
    <3>1. \A c \in changes : origin + Ms(c) \in Nat
      BY <2>3, <2>4, MsNat
    <3> QED  BY <3>1
  <2>6. /\ Earliest(D) \subseteq D
        /\ \A d \in D : \E f \in Earliest(D) : f <= d
    <3> HIDE DEF D
    <3> QED  BY <2>5, EarliestIsFirst
  <2>7. ASSUME NEW e \in Nat, IsChange(rule, m.start, e), at < e
        PROVE  \E d \in u.next : d <= e
    <3>0. PICK s \in rule.steps, k \in Rounds(rule) :
            \E x \in {s.press, s.release} : e = m.start + Ms(k * C + x)
      BY <2>7 DEF IsChange
    <3>1. PICK x \in {s.press, s.release} : e = m.start + Ms(k * C + x)
      BY <3>0
    <3>2. k * C + x \in Nat
      BY <3>1, RoundTimes DEF Rounds
    <3>3. k * C + x > n * C + p
      <4>1. m.start + Ms(k * C + x) <= at <=> k * C + x <= E
        BY <1>1, <3>2, Elapsed DEF ElapsedMs
      <4>2. ~(k * C + x <= E)
        BY <2>7, <3>1, <4>1
      <4> HIDE DEF C, n, p, E
      <4> QED  BY <1>2, <3>2, <4>2
    <3>4. PICK c \in StepChange(rule, s, p) : n * C + c <= k * C + x
      BY <1>1, <3>3, NextChange
    <3>5. c \in changes /\ c \in Nat /\ c > p
      BY <2>4, <3>4
    <3>6. origin + Ms(c) > at
      <4>1. n * C + c \in Nat /\ ~(n * C + c <= E)
        <5> HIDE DEF C, n, p, E, changes
        <5> QED  BY <1>2, <3>5
      <4>2. ~(m.start + Ms(n * C + c) <= at)
        BY <1>1, <4>1, Elapsed DEF ElapsedMs
      <4>3. Ms(n * C + c) = Ms(n * C) + Ms(c) /\ Ms(n * C) \in Nat /\ Ms(c) \in Nat
        BY <1>2, <3>5, MsSum
      <4> HIDE DEF C, n, p, E, changes, origin
      <4> QED  BY <1>1, <2>3, <4>2, <4>3
    <3>7. origin + Ms(c) <= e
      <4>1. Ms(n * C + c) = Ms(n * C) + Ms(c) /\ Ms(n * C) \in Nat /\ Ms(c) \in Nat
        BY <1>2, <3>5, MsSum
      <4>2. Ms(n * C + c) <= Ms(k * C + x)
        <5> DEFINE a == n * C + c
                   b == k * C + x
        <5>1. a \in Nat /\ b \in Nat /\ a <= b
          BY <1>2, <3>2, <3>4, <3>5
        <5> HIDE DEF a, b
        <5>2. TicksPerMs * a <= TicksPerMs * b
          BY <5>1, TimesMono, TicksAssumption
        <5>3. TicksPerMs * a = a * TicksPerMs /\ TicksPerMs * b = b * TicksPerMs
          BY <5>1, TicksAssumption
        <5>4. Ms(a) <= Ms(b)
          BY <5>2, <5>3 DEF Ms
        <5> QED  BY <5>4 DEF a, b
      <4>3. Ms(k * C + x) \in Nat
        BY <3>2, MsNat
      <4> HIDE DEF C, n, p, E, changes, origin
      <4> QED  BY <1>1, <2>3, <3>1, <4>1, <4>2, <4>3
    <3>8. origin + Ms(c) \in D
      <4> HIDE DEF changes, origin
      <4> QED  BY <3>5, <3>6
    <3>9. PICK f \in Earliest(D) : f <= origin + Ms(c)
      BY <2>6, <3>8
    <3>10. f \in Nat /\ origin + Ms(c) \in Nat
      BY <2>5, <2>6, <3>8, <3>9
    <3> HIDE DEF origin, D
    <3> QED  BY <2>2, <3>7, <3>9, <3>10
  <2>8. Earliest(D) \in SUBSET Nat /\ \A d \in Earliest(D) : at < d
    BY <2>5, <2>6
  <2> HIDE DEF u, D
  <2>9. MacroRight(rule, u, at)
    BY <1>1, <2>1, <2>2, <2>7, <2>8 DEF MacroRight
  <2> QED  BY <1>4, <2>2, <2>8, <2>9 DEF u
<1> QED  BY <1>3, <1>4

----------------------------------------------------------------------------
(* The transform.                                                          *)

RuntimesRight(mapping, turbos, macs, at) ==
  /\ DOMAIN turbos = DOMAIN mapping.turbo /\ DOMAIN macs = DOMAIN mapping.macros
  /\ \A b \in DOMAIN turbos : TurboRight(mapping.turbo[b], turbos[b], at)
  /\ \A i \in DOMAIN macs : MacroRight(mapping.macros[i], macs[i], at)

\* What the transform may take a frame for.
FrameRight(mapping, frame) ==
  /\ frame.half \subseteq {"touchpad_left", "touchpad_right"}
  /\ \A t \in Triggers :
       t \in DOMAIN mapping.turbo /\ t \notin frame.buttons => frame.analog[t] = 0

\* One turbo in a transform.
LEMMA TurboStepRight ==
  ASSUME NEW cfg, {cfg.interval, cfg.delay} \subseteq Nat, NEW t, NEW at \in Nat,
         TurboRight(cfg, t, at), NEW pressed \in BOOLEAN, NEW observe \in BOOLEAN,
         pressed => cfg.interval > 0
  PROVE  LET u == TurboStep(cfg, t, pressed, at, observe)
         IN /\ TurboRight(cfg, u, at)
            /\ u.active => (TurboOn(cfg, u.press, at) <=> u.phase)
            /\ t.active /\ ~u.active => ~pressed
            /\ ~observe => \A d \in TurboDeadline(cfg, u) : at < d
<1> DEFINE u == TurboStep(cfg, t, pressed, at, observe)
<1>1. CASE observe /\ pressed /\ ~t.active
  <2>1. u = TurboPressed(at)
    BY <1>1 DEF TurboStep
  <2>2. /\ u = [active |-> TRUE, toggling |-> FALSE, phase |-> TRUE, press |-> at, toggle |-> 0]
        /\ cfg.interval > 0
    BY <1>1, <2>1 DEF TurboPressed
  <2>3. TurboRight(cfg, u, at)
    BY <2>2 DEF TurboRight
  <2>4. TurboOn(cfg, at, at)
    <3> DEFINE I == Ms(cfg.interval)
               D == Ms(cfg.delay)
    <3>1. I \in Nat \ {0} /\ D \in Nat
      BY <2>2, MsNat
    <3>2. TurboOn(cfg, at, at) <=> at < at + D \/ ((at - (at + D)) \div I) % 2 = 0
      BY DEF TurboOn
    <3> HIDE DEF I, D
    <3>3. CASE D = 0
      <4>1. at - (at + D) = 0
        BY <3>3
      <4>2. 0 \div I = 0
        BY <3>1, QuotientUnique
      <4>3. 0 % 2 = 0
        OBVIOUS
      <4> QED  BY <3>2, <4>1, <4>2, <4>3
    <3>4. CASE D # 0
      BY <3>1, <3>2, <3>4
    <3> QED  BY <3>3, <3>4
  <2> HIDE DEF u
  <2>5. u.active /\ u.phase /\ u.press = at
    BY ONLY <2>2
  <2>7. observe
    BY <1>1
  <2>6. /\ u.active => (TurboOn(cfg, u.press, at) <=> u.phase)
        /\ t.active /\ ~u.active => ~pressed
        /\ ~observe => \A d \in TurboDeadline(cfg, u) : at < d
    BY <2>4, <2>5, <2>7
  <2> QED  BY <2>3, <2>6 DEF u
<1>2. CASE observe /\ ~pressed
  <2>1. u = TurboIdle
    BY <1>2 DEF TurboStep
  <2>2. u = [active |-> FALSE, toggling |-> FALSE, phase |-> FALSE, press |-> 0, toggle |-> 0]
    BY <2>1 DEF TurboIdle
  <2> HIDE DEF u
  <2>3. TurboRight(cfg, u, at) /\ ~u.active
    BY <2>2 DEF TurboRight
  <2>4. TurboDeadline(cfg, u) = {} /\ ~pressed
    BY <1>2, <2>3 DEF TurboDeadline
  <2>5. /\ u.active => (TurboOn(cfg, u.press, at) <=> u.phase)
        /\ t.active /\ ~u.active => ~pressed
        /\ ~observe => \A d \in TurboDeadline(cfg, u) : at < d
    BY <2>3, <2>4
  <2> QED  BY <2>3, <2>5 DEF u
<1>3. CASE t.active /\ ~(observe /\ ~pressed)
  <2>1. u = TurboAdvance(cfg, t, at)
    BY <1>3 DEF TurboStep
  <2> HIDE DEF u
  <2>2. /\ TurboRight(cfg, u, at) /\ u.active
        /\ \A d \in TurboDeadline(cfg, u) : at < d
    BY <1>3, <2>1, TurboAdvances
  <2>3. TurboOn(cfg, u.press, at) <=> u.phase
    BY <2>2, TurboShows
  <2> QED  BY <2>2, <2>3 DEF u
<1>4. CASE ~t.active /\ ~(observe /\ pressed) /\ ~(observe /\ ~pressed)
  <2>1. u = t
    BY <1>4 DEF TurboStep
  <2>2. TurboDeadline(cfg, t) = {}
    BY <1>4 DEF TurboDeadline
  <2> HIDE DEF u
  <2> QED  BY <1>4, <2>1, <2>2 DEF u
<1> QED  BY <1>1, <1>2, <1>3, <1>4

\* A macro in a transform, before it is advanced.
MacroBegun(m, at) ==
  /\ m \in [active : BOOLEAN, start : Nat, next : SUBSET Nat]
  /\ m.active => m.start <= at

LEMMA MacroBeforeRight ==
  ASSUME NEW mapping, CanRun(mapping), NEW turbos, NEW macs, NEW at \in Nat,
         RuntimesRight(mapping, turbos, macs, at), NEW i \in DOMAIN macs,
         NEW l1, NEW combos, NEW observe
  PROVE  MacroBegun(MacroBefore(mapping, macs, i, l1, combos, at, observe), at)
<1> DEFINE rule == mapping.macros[i]
           m == macs[i]
           begun == MacroActivate(rule, m, at)
<1>1. MacroCanRun(rule) /\ MacroBegun(m, at)
  BY DEF CanRun, RuntimesRight, MacroRight, MacroBegun
<1>2. MacroBegun(MacroIdle, at)
  BY DEF MacroIdle, MacroBegun
<1>3. MacroBegun(begun, at)
  <2>1. CASE m.active
    BY <1>1, <2>1 DEF MacroActivate
  <2>2. CASE ~m.active
    <3> DEFINE P == {at + Ms(s.press) : s \in rule.steps}
    <3>1. P \subseteq Nat
      BY <1>1, CycleBounds, MsNat
    <3>2. Earliest(P) \in SUBSET Nat
      BY <3>1, EarliestIsFirst
    <3>3. begun = [active |-> TRUE, start |-> at, next |-> Earliest(P)]
      BY <2>2 DEF MacroActivate
    <3> HIDE DEF P, begun
    <3> QED  BY <3>2, <3>3 DEF MacroBegun
  <2> QED  BY <2>1, <2>2
<1>4. MacroBefore(mapping, macs, i, l1, combos, at, observe) \in {m, begun, MacroIdle}
  BY DEF MacroBefore, PhysicalMacro, ComboMacro
<1> QED  BY <1>1, <1>2, <1>3, <1>4

\* The advance of a running macro: it goes on, or shows nothing any more.
LEMMA MacroStepRight ==
  ASSUME NEW rule, MacroCanRun(rule), NEW m, NEW at \in Nat, MacroBegun(m, at)
  PROVE  LET u == IF m.active THEN MacroAdvance(rule, m, at) ELSE m
         IN /\ MacroRight(rule, u, at)
            /\ \A d \in MacroDeadline(u) : at < d
            /\ (IF m.active THEN PressedSteps(rule, m, at) ELSE {})
                 = IF u.active THEN {s \in rule.steps : StepDown(rule, s, u.start, at)}
                   ELSE {}
<1> DEFINE u == IF m.active THEN MacroAdvance(rule, m, at) ELSE m
<1>1. CASE ~m.active
  BY <1>1 DEF MacroBegun, MacroRight, MacroDeadline
<1>2. CASE m.active
  <2>1. /\ u = MacroAdvance(rule, m, at)
        /\ m \in [active : BOOLEAN, start : Nat, next : SUBSET Nat]
        /\ m.start \in Nat /\ m.start <= at
    BY <1>2 DEF MacroBegun
  <2>2. PressedSteps(rule, m, at) = {s \in rule.steps : StepDown(rule, s, m.start, at)}
    <3>1. \A s \in rule.steps : StepDown(rule, s, m.start, at) <=>
             s.press <= Position(rule, m, at) /\ Position(rule, m, at) < s.release
      BY <2>1, StepIsDown
    <3> QED  BY <3>1 DEF PressedSteps
  <2> HIDE DEF u
  <2>3. /\ Completed(rule, m, at) =>
             u = MacroIdle /\ \A s \in rule.steps : ~StepDown(rule, s, m.start, at)
        /\ ~Completed(rule, m, at) =>
             /\ u.active /\ u.start = m.start /\ MacroRight(rule, u, at)
             /\ \A d \in u.next : at < d
    BY <1>2, <2>1, MacroAdvances
  <2>4. CASE Completed(rule, m, at)
    <3>1. u = MacroIdle /\ PressedSteps(rule, m, at) = {}
      BY <2>2, <2>3, <2>4
    <3>2. ~u.active /\ MacroRight(rule, u, at) /\ MacroDeadline(u) = {}
      BY <3>1 DEF MacroIdle, MacroRight, MacroDeadline
    <3> QED  BY <1>2, <3>1, <3>2 DEF u
  <2>5. CASE ~Completed(rule, m, at)
    <3>1. MacroDeadline(u) = u.next
      BY <2>3, <2>5 DEF MacroDeadline
    <3> QED  BY <1>2, <2>2, <2>3, <2>5, <3>1 DEF u
  <2> QED  BY <2>4, <2>5
<1> QED  BY <1>1, <1>2

Deadlines(mapping, turbos, macs) == TurboDeadlines(mapping, turbos) \cup MacroDeadlines(macs)

\* Taking a turbo that ends out of the input changes nothing in it.
LEMMA EndedIsSilent ==
  ASSUME NEW mapping, NEW frame, FrameRight(mapping, frame), NEW owned, NEW pressed, NEW on,
         pressed \subseteq owned, owned \subseteq DOMAIN mapping.turbo,
         \A b \in owned \ pressed : b \notin Snapshot(mapping, frame).buttons
  PROVE  AfterTurbo(Snapshot(mapping, frame), owned, on)
           = AfterTurbo(Snapshot(mapping, frame), pressed, on)
<1> DEFINE physical == Snapshot(mapping, frame)
<1>1. physical.analog = frame.analog
  BY DEF Snapshot
<1>2. ASSUME NEW t \in Triggers, t \in owned \ pressed PROVE physical.analog[t] = 0
  <2>1. t \notin physical.buttons /\ t # "touchpad"
    BY <1>2 DEF Triggers
  <2>2. t \notin frame.buttons
    BY <2>1 DEF Snapshot
  <2> QED  BY <1>1, <1>2, <2>2 DEF FrameRight
<1>3. \A b \in owned \ pressed : b \notin physical.buttons
  OBVIOUS
<1> HIDE DEF physical
<1>4. physical.buttons \ owned = physical.buttons \ pressed
  BY <1>3
<1>5. [t \in Triggers |-> IF t \in owned THEN 0 ELSE physical.analog[t]]
        = [t \in Triggers |-> IF t \in pressed THEN 0 ELSE physical.analog[t]]
  BY <1>2
<1>6. Suppress(physical, owned) = Suppress(physical, pressed)
  BY <1>4, <1>5 DEF Suppress
<1> QED  BY <1>6 DEF AfterTurbo, physical

\* An instant is a deadline of the runtimes if it is one of a turbo or a macro.
LEMMA InDeadlines ==
  ASSUME NEW mapping, NEW turbos, NEW macs
  PROVE  \A d : d \in Deadlines(mapping, turbos, macs) <=>
                  \/ \E b \in DOMAIN turbos : d \in TurboDeadline(mapping.turbo[b], turbos[b])
                  \/ \E i \in DOMAIN macs : d \in MacroDeadline(macs[i])
<1>1. \A d : d \in TurboDeadlines(mapping, turbos) <=>
              \E b \in DOMAIN turbos : d \in TurboDeadline(mapping.turbo[b], turbos[b])
  BY DEF TurboDeadlines
<1>2. \A d : d \in MacroDeadlines(macs) <=> \E i \in DOMAIN macs : d \in MacroDeadline(macs[i])
  BY DEF MacroDeadlines
<1> QED  BY <1>1, <1>2 DEF Deadlines

\* The incremental transform shows what its runtimes mean, and a timer leaves
\* no deadline behind.
LEMMA TransformMeans ==
  ASSUME NEW mapping, CanRun(mapping), NEW frame, FrameRight(mapping, frame),
         NEW turbos, NEW macs, NEW at \in Nat, RuntimesRight(mapping, turbos, macs, at),
         NEW observe \in BOOLEAN
  PROVE  LET r == Transform(mapping, turbos, macs, frame, at, observe)
         IN /\ RuntimesRight(mapping, r.turbo, r.macros, at)
            /\ r.output = Meaning(mapping, r.turbo, r.macros, frame, at)
            /\ ~observe => \A d \in Deadlines(mapping, r.turbo, r.macros) : at < d
<1> DEFINE r == Transform(mapping, turbos, macs, frame, at, observe)
           physical == Snapshot(mapping, frame)
           turboNow == TurboAfter(mapping, turbos, physical, at, observe)
           owned == {b \in DOMAIN turbos : turbos[b].active \/ turboNow[b].active}
           on == {b \in DOMAIN turbos : turboNow[b].active /\ turboNow[b].phase}
           played == AfterTurbo(physical, owned, on)
           combos == Triggered(mapping, played)
           l1 == L1(mapping, played)
           before == [i \in DOMAIN macs |->
                        MacroBefore(mapping, macs, i, l1, combos, at, observe)]
           running == {i \in DOMAIN macs : before[i].active}
           macrosNow == [i \in DOMAIN macs |->
                           IF i \in running THEN MacroAdvance(mapping.macros[i], before[i], at)
                           ELSE before[i]]
           steps == UNION {PressedSteps(mapping.macros[i], before[i], at) : i \in running}
<1>1. /\ r.turbo = turboNow /\ r.macros = macrosNow
      /\ r.output = Reduce(mapping, l1, combos, steps)
  BY DEF Transform
<1>2. ASSUME NEW b \in DOMAIN turbos
      PROVE  /\ TurboRight(mapping.turbo[b], turboNow[b], at)
             /\ turboNow[b].active =>
                  (TurboOn(mapping.turbo[b], turboNow[b].press, at) <=> turboNow[b].phase)
             /\ turbos[b].active /\ ~turboNow[b].active => b \notin physical.buttons
             /\ ~observe => \A d \in TurboDeadline(mapping.turbo[b], turboNow[b]) : at < d
  <2>1. /\ b \in DOMAIN mapping.turbo /\ DOMAIN turbos = DOMAIN mapping.turbo
        /\ {mapping.turbo[b].interval, mapping.turbo[b].delay} \subseteq Nat
        /\ TurboRight(mapping.turbo[b], turbos[b], at)
        /\ mapping.turbo[b].interval > 0 \/ (mapping.split /\ b = "touchpad")
    BY DEF RuntimesRight, CanRun
  <2>2. mapping.split => "touchpad" \notin physical.buttons
    BY DEF Snapshot, FrameRight
  <2>3. b \in physical.buttons => mapping.turbo[b].interval > 0
    BY <2>1, <2>2
  <2>4. turboNow[b] = TurboStep(mapping.turbo[b], turbos[b], b \in physical.buttons, at, observe)
    BY <2>1 DEF TurboAfter
  <2>5. (b \in physical.buttons) \in BOOLEAN
    OBVIOUS
  <2> DEFINE u == turboNow[b]
             cfg == mapping.turbo[b]
             pressed == b \in physical.buttons
  <2>6. u = TurboStep(cfg, turbos[b], pressed, at, observe)
    BY <2>4
  <2> HIDE DEF turboNow, physical, u, cfg, pressed
  <2>7. /\ TurboRight(cfg, u, at)
        /\ u.active => (TurboOn(cfg, u.press, at) <=> u.phase)
        /\ turbos[b].active /\ ~u.active => ~pressed
        /\ ~observe => \A d \in TurboDeadline(cfg, u) : at < d
    <3>1. /\ {cfg.interval, cfg.delay} \subseteq Nat /\ TurboRight(cfg, turbos[b], at)
          /\ pressed \in BOOLEAN /\ (pressed => cfg.interval > 0)
      BY <2>1, <2>3, <2>5 DEF cfg, pressed
    <3> QED  BY <2>6, <3>1, TurboStepRight
  <2> QED  BY <2>7 DEF u, cfg, pressed
<1>3. DOMAIN turboNow = DOMAIN mapping.turbo /\ DOMAIN turbos = DOMAIN mapping.turbo
  BY DEF TurboAfter, RuntimesRight
<1> DEFINE pressed == {b \in DOMAIN turboNow : turboNow[b].active}
           meant == {b \in pressed : TurboOn(mapping.turbo[b], turboNow[b].press, at)}
<1>4. meant = on
  <2> HIDE DEF turboNow, physical
  <2> QED  BY <1>2, <1>3
<1>5. AfterTurbo(physical, pressed, meant) = played
  <2>1. /\ pressed \subseteq owned /\ owned \subseteq DOMAIN mapping.turbo
        /\ \A b \in owned \ pressed : b \notin physical.buttons
    <3> HIDE DEF turboNow, physical
    <3> QED  BY <1>2, <1>3
  <2> HIDE DEF turboNow, owned, on, meant, pressed
  <2> QED  BY <1>4, <2>1, EndedIsSilent
<1>6. ASSUME NEW i \in DOMAIN macs
      PROVE  /\ MacroRight(mapping.macros[i], macrosNow[i], at)
             /\ \A d \in MacroDeadline(macrosNow[i]) : at < d
             /\ (IF before[i].active THEN PressedSteps(mapping.macros[i], before[i], at) ELSE {})
                  = IF macrosNow[i].active
                    THEN {s \in mapping.macros[i].steps :
                            StepDown(mapping.macros[i], s, macrosNow[i].start, at)}
                    ELSE {}
  <2>1. MacroCanRun(mapping.macros[i])
    BY DEF CanRun, RuntimesRight
  <2>2. MacroBegun(before[i], at)
    <3> HIDE DEF l1, combos
    <3> QED  BY MacroBeforeRight
  <2>3. macrosNow[i] = IF before[i].active THEN MacroAdvance(mapping.macros[i], before[i], at)
                       ELSE before[i]
    BY DEF running
  <2> HIDE DEF before, macrosNow
  <2> QED  BY <2>1, <2>2, <2>3, MacroStepRight
<1>7. DOMAIN macrosNow = DOMAIN mapping.macros /\ DOMAIN macs = DOMAIN mapping.macros
  BY DEF RuntimesRight
<1> DEFINE shows == UNION {LET rule == mapping.macros[i] IN
                             {s \in rule.steps : StepDown(rule, s, macrosNow[i].start, at)}
                           : i \in {j \in DOMAIN macrosNow : macrosNow[j].active}}
<1>8. shows = steps
  <2>1. \A s : s \in shows <=>
          \E i \in DOMAIN macs : macrosNow[i].active /\ s \in mapping.macros[i].steps
                                 /\ StepDown(mapping.macros[i], s, macrosNow[i].start, at)
    <3> HIDE DEF macrosNow
    <3> QED  BY <1>7
  <2>2. \A s : s \in steps <=>
          \E i \in DOMAIN macs : before[i].active
                                 /\ s \in PressedSteps(mapping.macros[i], before[i], at)
    <3> HIDE DEF before
    <3> QED  OBVIOUS
  <2> HIDE DEF macrosNow, before, shows, steps
  <2>3. \A s : s \in shows <=> s \in steps
    BY <1>6, <2>1, <2>2
  <2> QED  BY <2>3
<1>9. r.output = Meaning(mapping, turboNow, macrosNow, frame, at)
  <2>1. Meaning(mapping, turboNow, macrosNow, frame, at) =
          Reduce(mapping, L1(mapping, AfterTurbo(physical, pressed, meant)),
                 Triggered(mapping, AfterTurbo(physical, pressed, meant)), shows)
    BY DEF Meaning
  <2> HIDE DEF turboNow, macrosNow, physical, pressed, meant, shows, steps, r
  <2> QED  BY <1>1, <1>5, <1>8, <2>1 DEF l1, combos
<1>10. RuntimesRight(mapping, turboNow, macrosNow, at)
  <2> HIDE DEF turboNow, macrosNow, physical
  <2> QED  BY <1>2, <1>3, <1>6, <1>7 DEF RuntimesRight
<1>11. ~observe => \A d \in Deadlines(mapping, turboNow, macrosNow) : at < d
  <2> HIDE DEF turboNow, macrosNow, physical
  <2> SUFFICES ASSUME ~observe, NEW d \in Deadlines(mapping, turboNow, macrosNow)
               PROVE  at < d
    OBVIOUS
  <2>1. CASE \E b \in DOMAIN turboNow : d \in TurboDeadline(mapping.turbo[b], turboNow[b])
    BY <1>2, <1>3, <2>1
  <2>2. CASE \E i \in DOMAIN macrosNow : d \in MacroDeadline(macrosNow[i])
    BY <1>6, <1>7, <2>2
  <2> QED  BY <2>1, <2>2, InDeadlines
<1> HIDE DEF turboNow, macrosNow, r
<1> QED  BY <1>1, <1>9, <1>10, <1>11 DEF r

\* What the deadlines are for.
LEMMA DeadlinesAreInstants ==
  ASSUME NEW mapping, CanRun(mapping), NEW turbos, NEW macs, NEW at \in Nat,
         RuntimesRight(mapping, turbos, macs, at)
  PROVE  /\ Deadlines(mapping, turbos, macs) \subseteq Nat
         /\ RuntimeDeadline(mapping, turbos, macs) \subseteq Deadlines(mapping, turbos, macs)
         /\ \A d \in Deadlines(mapping, turbos, macs) :
              \E f \in RuntimeDeadline(mapping, turbos, macs) : f <= d
<1> DEFINE D == Deadlines(mapping, turbos, macs)
<1>1. ASSUME NEW b \in DOMAIN turbos, NEW d \in TurboDeadline(mapping.turbo[b], turbos[b])
      PROVE  d \in Nat
  <2>1. /\ {mapping.turbo[b].interval, mapping.turbo[b].delay} \subseteq Nat
        /\ TurboRight(mapping.turbo[b], turbos[b], at)
    BY DEF RuntimesRight, CanRun
  <2>2. turbos[b].active
    BY <1>1 DEF TurboDeadline
  <2>3. /\ Ms(mapping.turbo[b].delay) \in Nat /\ Ms(mapping.turbo[b].interval) \in Nat
        /\ turbos[b].press \in Nat /\ turbos[b].toggle \in Nat
    BY <2>1, <2>2, TurboTimes
  <2> QED  BY <1>1, <2>3 DEF TurboDeadline
<1>2. ASSUME NEW i \in DOMAIN macs, NEW d \in MacroDeadline(macs[i]) PROVE d \in Nat
  BY <1>2 DEF RuntimesRight, MacroRight, MacroDeadline
<1>3. D \subseteq Nat
  <2> SUFFICES ASSUME NEW d \in D PROVE d \in Nat
    OBVIOUS
  <2> HIDE DEF D
  <2>1. \/ \E b \in DOMAIN turbos : d \in TurboDeadline(mapping.turbo[b], turbos[b])
        \/ \E i \in DOMAIN macs : d \in MacroDeadline(macs[i])
    BY InDeadlines DEF D
  <2> QED  BY <1>1, <1>2, <2>1
<1>4. RuntimeDeadline(mapping, turbos, macs) = Earliest(D)
  BY DEF RuntimeDeadline, Deadlines
<1> HIDE DEF D
<1> QED  BY <1>3, <1>4, EarliestIsFirst DEF D

\* Until a deadline passes, the runtimes stay right and mean the same.
LEMMA MeaningHolds ==
  ASSUME NEW mapping, CanRun(mapping), NEW frame,
         NEW turbos, NEW macs, NEW at \in Nat, RuntimesRight(mapping, turbos, macs, at),
         \A d \in Deadlines(mapping, turbos, macs) : at + 1 < d
  PROVE  Meaning(mapping, turbos, macs, frame, at + 1)
           = Meaning(mapping, turbos, macs, frame, at)
<1> DEFINE pressed == {b \in DOMAIN turbos : turbos[b].active}
           on(n) == {b \in pressed : TurboOn(mapping.turbo[b], turbos[b].press, n)}
           active == {j \in DOMAIN macs : macs[j].active}
           steps(n) == UNION {LET rule == mapping.macros[i] IN
                                {s \in rule.steps : StepDown(rule, s, macs[i].start, n)}
                              : i \in active}
<1>1. ASSUME NEW b \in pressed
      PROVE  TurboOn(mapping.turbo[b], turbos[b].press, at + 1)
               <=> TurboOn(mapping.turbo[b], turbos[b].press, at)
  <2> DEFINE cfg == mapping.turbo[b]
             t == turbos[b]
  <2>1. {cfg.interval, cfg.delay} \subseteq Nat /\ TurboRight(cfg, t, at) /\ t.active
    BY DEF RuntimesRight, CanRun
  <2>2. \A d \in TurboDeadline(cfg, t) : d \in Nat /\ at + 1 < d
    <3>1. \A d \in TurboDeadline(cfg, t) : d \in Deadlines(mapping, turbos, macs)
      BY InDeadlines
    <3> HIDE DEF cfg, t
    <3> QED  BY <3>1, DeadlinesAreInstants
  <2> HIDE DEF cfg, t
  <2>3. /\ at + 1 \in Nat /\ at <= at + 1
        /\ \A d \in TurboDeadline(cfg, t) : at < d
    BY <2>2
  <2>4. TurboRight(cfg, t, at + 1)
    <3>1. t.press \in Nat /\ t.toggle \in Nat /\ t.press <= at + 1
      BY <2>1, <2>3, TurboTimes
    <3>2. t.toggle <= at => t.toggle <= at + 1
      BY <3>1
    <3> QED  BY <2>1, <2>3, <3>1, <3>2 DEF TurboRight
  <2>5. TurboOn(cfg, t.press, at) <=> t.phase
    BY <2>1, <2>3, TurboShows
  <2>6. TurboOn(cfg, t.press, at + 1) <=> t.phase
    BY <2>1, <2>2, <2>3, <2>4, TurboShows
  <2> QED  BY <2>5, <2>6 DEF cfg, t
<1>2. on(at + 1) = on(at)
  BY <1>1
<1>3. ASSUME NEW i \in active, NEW s \in mapping.macros[i].steps
      PROVE  StepDown(mapping.macros[i], s, macs[i].start, at + 1)
               <=> StepDown(mapping.macros[i], s, macs[i].start, at)
  <2>1. /\ MacroCanRun(mapping.macros[i]) /\ MacroRight(mapping.macros[i], macs[i], at)
        /\ macs[i].active
    BY DEF RuntimesRight, CanRun
  <2>2. \A d \in macs[i].next : at + 1 < d
    <3>1. MacroDeadline(macs[i]) = macs[i].next
      BY <2>1 DEF MacroDeadline
    <3> QED  BY <3>1, InDeadlines
  <2> QED  BY <2>1, <2>2, MacroHolds
<1>4. steps(at + 1) = steps(at)
  <2>1. \A i \in active :
          {s \in mapping.macros[i].steps : StepDown(mapping.macros[i], s, macs[i].start, at + 1)}
          = {s \in mapping.macros[i].steps : StepDown(mapping.macros[i], s, macs[i].start, at)}
    BY <1>3
  <2> QED  BY <2>1
<1>5. \A n : Meaning(mapping, turbos, macs, frame, n) =
         Reduce(mapping, L1(mapping, AfterTurbo(Snapshot(mapping, frame), pressed, on(n))),
                Triggered(mapping, AfterTurbo(Snapshot(mapping, frame), pressed, on(n))),
                steps(n))
  BY DEF Meaning
<1> HIDE DEF pressed, on, steps
<1> QED  BY <1>2, <1>4, <1>5

\* Time alone does not make the runtimes wrong.
LEMMA RightLater ==
  ASSUME NEW mapping, CanRun(mapping), NEW turbos, NEW macs, NEW at \in Nat,
         RuntimesRight(mapping, turbos, macs, at)
  PROVE  RuntimesRight(mapping, turbos, macs, at + 1)
<1>1. ASSUME NEW b \in DOMAIN turbos PROVE TurboRight(mapping.turbo[b], turbos[b], at + 1)
  <2> DEFINE cfg == mapping.turbo[b]
             t == turbos[b]
  <2>1. {cfg.interval, cfg.delay} \subseteq Nat /\ TurboRight(cfg, t, at)
    BY DEF RuntimesRight, CanRun
  <2> HIDE DEF cfg, t
  <2>2. t.press \in Nat /\ t.toggle \in Nat
    BY <2>1 DEF TurboRight
  <2>3. (t.press <= at => t.press <= at + 1) /\ (t.toggle <= at => t.toggle <= at + 1)
    BY <2>2
  <2>4. TurboRight(cfg, t, at + 1)
    BY <2>1, <2>3 DEF TurboRight
  <2> QED  BY <2>4 DEF cfg, t
<1>2. ASSUME NEW i \in DOMAIN macs PROVE MacroRight(mapping.macros[i], macs[i], at + 1)
  <2> DEFINE m == macs[i]
             rule == mapping.macros[i]
  <2>1. MacroRight(rule, m, at)
    BY DEF RuntimesRight
  <2> HIDE DEF m, rule
  <2>2. m.start \in Nat /\ (m.start <= at => m.start <= at + 1)
    BY <2>1 DEF MacroRight
  <2>3. \A e \in Nat : at + 1 < e => at < e
    OBVIOUS
  <2>4. MacroRight(rule, m, at + 1)
    BY <2>1, <2>2, <2>3 DEF MacroRight
  <2> QED  BY <2>4 DEF m, rule
<1> QED  BY <1>1, <1>2 DEF RuntimesRight

----------------------------------------------------------------------------
(* Timing that cannot fail.                                               *)

\* Without a cached frame the runtimes are those from_mapping made; with one,
\* a repeat has a report.
CacheInv ==
  /\ last_frame = NoFrame =>
       turbo = FreshTurbo(Mapping) /\ macros = FreshMacros(Mapping)
  /\ Repeating /\ last_frame # NoFrame => last_report # {}

TimingInv == CacheInv /\ TimingIsNeverFatal

\* Fresh runtimes have no deadline.
LEMMA FreshIsNeverDue ==
  ASSUME NEW mapping
  PROVE  RuntimeDeadline(mapping, FreshTurbo(mapping), FreshMacros(mapping)) = {}
<1> DEFINE turbos == FreshTurbo(mapping)
           macs == FreshMacros(mapping)
<1>1. \A b \in DOMAIN turbos : TurboDeadline(mapping.turbo[b], turbos[b]) = {}
  BY DEF FreshTurbo, TurboIdle, TurboDeadline
<1>2. \A i \in DOMAIN macs : MacroDeadline(macs[i]) = {}
  BY DEF FreshMacros, MacroIdle, MacroDeadline
<1>3. TurboDeadlines(mapping, turbos) = {} /\ MacroDeadlines(macs) = {}
  BY <1>1, <1>2 DEF TurboDeadlines, MacroDeadlines
<1> QED  BY <1>3 DEF RuntimeDeadline, Earliest

\* With the cache in order a tick that has a runtime to serve can serve it.
LEMMA DueCanAdvance ==
  ASSUME CacheInv, RuntimesDue
  PROVE  CanAdvance
<1>1. last_frame # NoFrame
  BY FreshIsNeverDue DEF CacheInv, RuntimesDue
<1> QED  BY <1>1 DEF CacheInv, CanAdvance

\* Every step keeps the cache in order and does not fail.
LEMMA TimingInvStep ==
  ASSUME TimingInv, [ReportNext]_reportVars
  PROVE  TimingInv'
<1> USE DEF TimingInv
<1>1. ASSUME NEW f \in Frames, SourceReport(f) PROVE TimingInv'
  <2>1. last_frame' # NoFrame
    BY <1>1, ReportAssumption DEF SourceReport
  <2>2. Repeating => last_report' # {}
    BY <1>1 DEF SourceReport, StoreSource
  <2> QED  BY <1>1, <2>1, <2>2 DEF SourceReport, CacheInv, TimingIsNeverFatal, Repeating
<1>2. ASSUME NEW c \in DOMAIN Mappings, ApplyConfig(c) PROVE TimingInv'
  BY <1>2 DEF ApplyConfig, CacheInv, TimingIsNeverFatal, Mapping
<1>3. CASE TimerExpires
  BY <1>3 DEF TimerExpires, CacheInv, TimingIsNeverFatal, mapped, repeat, Mapping, Repeating
<1>4. CASE EndTurn
  BY <1>4 DEF EndTurn, CacheInv, TimingIsNeverFatal, mapped, repeat, Mapping, Repeating
<1>5. CASE Tick
  <2>1. CanAdvance /\ AdvanceRuntimes
    BY <1>5, DueCanAdvance DEF Tick
  <2>2. last_frame' # NoFrame /\ exit' = exit
    BY <2>1 DEF CanAdvance, AdvanceRuntimes
  <2>3. Repeating => last_report' # {}
    BY <2>1 DEF AdvanceRuntimes
  <2> QED  BY <2>2, <2>3 DEF CacheInv, TimingIsNeverFatal, Repeating
<1>6. CASE RepeatTick
  BY <1>6 DEF RepeatTick, CacheInv, TimingIsNeverFatal, mapped, Mapping, Repeating
<1>7. CASE Stop
  BY <1>7 DEF Stop, CacheInv, TimingIsNeverFatal, Mapping
<1>8. CASE Pass
  BY <1>8 DEF Pass, CacheInv, TimingIsNeverFatal, mapped, repeat, Mapping, Repeating
<1>9. CASE UNCHANGED reportVars
  BY <1>9 DEF reportVars, CacheInv, TimingIsNeverFatal, mapped, repeat, Mapping, Repeating
<1> QED
  BY <1>1, <1>2, <1>3, <1>4, <1>5, <1>6, <1>7, <1>8, <1>9 DEF ReportNext

\* No order of reports, timers and switches makes a runtime due without the
\* frame and report handle_timing_tick needs: its fatal error is dead code.
THEOREM TimingNeverFails == ReportSpec => []TimingIsNeverFatal
<1>1. ReportInit => TimingInv
  BY DEF ReportInit, TimingInv, CacheInv, TimingIsNeverFatal
<1>2. TimingInv /\ [ReportNext]_reportVars => TimingInv'
  BY TimingInvStep
<1> QED  BY <1>1, <1>2, PTL DEF ReportSpec, TimingInv

----------------------------------------------------------------------------
\* An update leaves the keyboard different from what it should be in the keys
\* whose write failed and in no others, whatever was held before.
LEMMA SyncMissesFailuresOnly ==
  ASSUME NEW desired, Sync(desired)
  PROVE  SymDiff(held_keys', desired) = missed'
BY DEF Sync, SymDiff

\* Every update is brought in line with the output of its own step.
LEMMA KeyboardStep ==
  ASSUME KeyboardFollows, [ReportNext]_reportVars
  PROVE  KeyboardFollows'
<1>1. ASSUME NEW frame, NEW observe, Encode(frame, observe) PROVE KeyboardFollows'
  BY <1>1, SyncMissesFailuresOnly DEF Encode, KeyboardFollows
<1>2. ASSUME NEW f \in Frames, SourceReport(f) PROVE KeyboardFollows'
  BY <1>1, <1>2 DEF SourceReport
<1>3. ASSUME NEW c \in DOMAIN Mappings, ApplyConfig(c) PROVE KeyboardFollows'
  BY <1>3, SyncMissesFailuresOnly DEF ApplyConfig, NoOutput, KeyboardFollows
<1>4. CASE TimerExpires
  BY <1>4 DEF TimerExpires, KeyboardFollows, mapped, keyboard
<1>5. CASE EndTurn
  BY <1>5 DEF EndTurn, KeyboardFollows, mapped, keyboard
<1>6. CASE Tick
  <2>1. CASE CanAdvance
    BY <1>1, <1>6, <2>1 DEF Tick, AdvanceRuntimes
  <2>2. CASE ~CanAdvance
    BY <1>6, <2>2 DEF Tick, KeyboardFollows
  <2> QED  BY <2>1, <2>2
<1>7. CASE RepeatTick
  BY <1>7 DEF RepeatTick, KeyboardFollows, mapped, keyboard
<1>8. CASE Stop
  BY <1>8 DEF Stop, KeyboardFollows
<1>9. CASE Pass
  BY <1>9 DEF Pass, KeyboardFollows, mapped, keyboard
<1>10. CASE UNCHANGED reportVars
  BY <1>10 DEF reportVars, KeyboardFollows, mapped, keyboard
<1> QED
  BY <1>2, <1>3, <1>4, <1>5, <1>6, <1>7, <1>8, <1>9, <1>10 DEF ReportNext

\* Keys held by KeyboardDevice are those of the last output, but for the
\* writes that failed in the last update: no key is left down by an older one.
THEOREM KeyboardCorrect == ReportSpec => []KeyboardFollows
<1>1. ReportInit => KeyboardFollows
  BY DEF ReportInit, KeyboardFollows, NoOutput, SymDiff
<1>2. KeyboardFollows /\ [ReportNext]_reportVars => KeyboardFollows'
  BY KeyboardStep
<1> QED  BY <1>1, <1>2, PTL DEF ReportSpec

----------------------------------------------------------------------------
(* The grid of the repeat.                                                 *)

\* There is one deadline exactly while there is a report to repeat.
GridInv ==
  /\ now \in Nat
  /\ next_tick \subseteq Nat
  /\ \A d, e \in next_tick : d = e
  /\ next_tick = {} <=> last_report = {}
  /\ ~Repeating => next_tick = {}

\* Rounding up to the next multiple, arithmetically.
LEMMA MultipleOf ==
  ASSUME NEW r \in Nat \ {0}, NEW q \in Nat
  PROVE  (r * q) % r = 0
OBVIOUS

LEMMA RoundUp ==
  ASSUME NEW r \in Nat \ {0}, NEW x \in Nat
  PROVE  /\ (x % r) \in 0 .. r - 1
         /\ (x + r - (x % r)) % r = 0
<1>1. /\ (x \div r) \in Nat
      /\ x = r * (x \div r) + (x % r)
      /\ (x % r) \in 0 .. r - 1
  OBVIOUS
<1>2. x + r - (x % r) = r * ((x \div r) + 1)
  BY <1>1
<1>3. (x \div r) + 1 \in Nat
  BY <1>1
<1>4. (r * ((x \div r) + 1)) % r = 0
  BY <1>3, MultipleOf
<1> QED  BY <1>1, <1>2, <1>4

\* first_future_deadline is the first instant of the grid after now.
LEMMA NextOnGrid ==
  ASSUME GridInv, Repeating, NEW d \in next_tick, d <= now
  PROVE  /\ FirstFutureDeadline(d) \in Nat
         /\ now < FirstFutureDeadline(d)
         /\ FirstFutureDeadline(d) <= now + RepeatTicks
         /\ (FirstFutureDeadline(d) - d) % RepeatTicks = 0
<1> DEFINE x == now - d
           late == x % RepeatTicks
<1>1. RepeatTicks \in Nat \ {0} /\ now \in Nat /\ d \in Nat /\ x \in Nat
  BY ReportAssumption DEF GridInv, Repeating
<1>2. late \in 0 .. RepeatTicks - 1 /\ (x + RepeatTicks - late) % RepeatTicks = 0
  BY <1>1, RoundUp
<1>3. FirstFutureDeadline(d) = now + RepeatTicks - late
  BY DEF FirstFutureDeadline
<1>4. FirstFutureDeadline(d) - d = x + RepeatTicks - late
  BY <1>1, <1>2, <1>3
<1> QED  BY <1>1, <1>2, <1>3, <1>4

\* What a step may do to the grid, and when a repeat may be sent.
OnGrid ==
  /\ Repeating /\ sent' => next_tick' # next_tick
  /\ \A d \in next_tick, e \in next_tick' :
       d # e => d <= now /\ now < e /\ e <= now + RepeatTicks /\ (e - d) % RepeatTicks = 0

\* A step that sends no repeat and leaves the deadline alone stays on it.
LEMMA DeadlineKept ==
  ASSUME GridInv, next_tick' = next_tick, Repeating => ~sent'
  PROVE  OnGrid
BY DEF GridInv, OnGrid

\* Sending the repeat moves the deadline to the next slot.
LEMMA DeadlineMoved ==
  ASSUME GridInv, RepeatDue, SendRepeat
  PROVE  /\ OnGrid
         /\ next_tick' # {} /\ next_tick' \subseteq Nat
         /\ \A d, e \in next_tick' : d = e
<1>1. PICK due \in next_tick : due <= now
  BY DEF RepeatDue
<1>2. Repeating /\ next_tick = {due} /\ due \in Nat /\ now \in Nat
  BY <1>1 DEF GridInv
<1>3. next_tick' = {FirstFutureDeadline(due)}
  BY <1>2 DEF SendRepeat
<1>4. /\ FirstFutureDeadline(due) \in Nat
      /\ now < FirstFutureDeadline(due)
      /\ FirstFutureDeadline(due) <= now + RepeatTicks
      /\ (FirstFutureDeadline(due) - due) % RepeatTicks = 0
  BY <1>1, <1>2, NextOnGrid
<1>5. next_tick' # next_tick
  BY <1>1, <1>2, <1>3, <1>4
<1> QED  BY <1>1, <1>2, <1>3, <1>4, <1>5 DEF OnGrid

\* Every step keeps to the grid.
LEMMA GridStep ==
  ASSUME GridInv, [ReportNext]_reportVars
  PROVE  GridInv' /\ [OnGrid]_reportVars
<1>1. ASSUME NEW f \in Frames, SourceReport(f) PROVE GridInv' /\ OnGrid
  <2>1. CASE Repeating
    <3>1. /\ next_tick' = IF next_tick = {} THEN {now} ELSE next_tick
          /\ last_report' # {} /\ ~sent' /\ now' = now
      BY <1>1, <2>1 DEF SourceReport, StoreSource, SendNothing, GridInv
    <3>2. CASE next_tick = {}
      BY <2>1, <3>1, <3>2 DEF GridInv, OnGrid, Repeating
    <3>3. CASE next_tick # {}
      BY <2>1, <3>1, <3>3, DeadlineKept DEF GridInv, Repeating
    <3> QED  BY <3>2, <3>3
  <2>2. CASE ~Repeating
    <3>1. UNCHANGED <<now, next_tick, last_report>>
      BY <1>1, <2>2 DEF SourceReport, repeat
    <3> QED  BY <2>2, <3>1, DeadlineKept DEF GridInv, Repeating
  <2> QED  BY <2>1, <2>2
<1>2. ASSUME NEW c \in DOMAIN Mappings, ApplyConfig(c) PROVE GridInv' /\ OnGrid
  BY <1>2 DEF ApplyConfig, SendNothing, GridInv, OnGrid, Repeating
<1>3. ASSUME SendNothing, UNCHANGED <<now, next_tick, last_report>>
      PROVE  GridInv' /\ OnGrid
  BY <1>3, DeadlineKept DEF SendNothing, GridInv, Repeating
<1>4. CASE TimerExpires
  BY <1>3, <1>4 DEF TimerExpires, repeat
<1>5. CASE EndTurn
  BY <1>3, <1>5 DEF EndTurn, repeat
<1>6. CASE Tick
  <2>1. now' = now
    BY <1>6 DEF Tick
  <2>2. CASE ~CanAdvance
    BY <1>3, <1>6, <2>2 DEF Tick, repeat
  <2>3. CASE CanAdvance /\ ~Repeating
    <3>1. UNCHANGED <<next_tick, last_report>>
      BY <1>6, <2>3 DEF Tick, AdvanceRuntimes, repeat
    <3> QED  BY <2>1, <2>3, <3>1, DeadlineKept DEF GridInv, Repeating
  <2>4. CASE CanAdvance /\ Repeating /\ RepeatDue
    <3>1. SendRepeat /\ last_report' # {}
      BY <1>6, <2>4 DEF Tick, AdvanceRuntimes
    <3> QED  BY <2>1, <2>4, <3>1, DeadlineMoved DEF GridInv, Repeating
  <2>5. CASE CanAdvance /\ Repeating /\ ~RepeatDue
    <3>1. SendNothing /\ next_tick' = next_tick /\ last_report' # {}
      BY <1>6, <2>5 DEF Tick, AdvanceRuntimes
    <3>2. last_report # {}
      BY <2>5 DEF CanAdvance
    <3> QED  BY <2>1, <2>5, <3>1, <3>2, DeadlineKept DEF SendNothing, GridInv, Repeating
  <2> QED  BY <2>2, <2>3, <2>4, <2>5
<1>7. CASE RepeatTick
  <2>1. RepeatDue /\ SendRepeat /\ last_report' = last_report /\ now' = now
    BY <1>7 DEF RepeatTick
  <2>2. next_tick # {}
    BY <2>1 DEF RepeatDue
  <2> QED  BY <2>1, <2>2, DeadlineMoved DEF GridInv, Repeating
<1>8. CASE Stop
  BY <1>8 DEF Stop, SendNothing, GridInv, OnGrid, Repeating
<1>9. CASE Pass
  <2>1. now' \in Nat /\ SendNothing /\ UNCHANGED <<next_tick, last_report>>
    BY <1>9 DEF Pass, GridInv, repeat
  <2> QED  BY <2>1, DeadlineKept DEF SendNothing, GridInv, Repeating
<1>10. CASE UNCHANGED reportVars
  BY <1>10 DEF reportVars, repeat, GridInv, Repeating
<1> QED
  BY <1>1, <1>2, <1>4, <1>5, <1>6, <1>7, <1>8, <1>9, <1>10 DEF ReportNext

\* Irregular source reports, late wake-ups and switches neither move the grid
\* of the repeat nor add a report to it.
THEOREM CadenceKept == ReportSpec => RepeatKeepsItsCadence
<1>1. ReportInit => GridInv
  BY DEF ReportInit, GridInv
<1>2. GridInv /\ [ReportNext]_reportVars => GridInv' /\ [OnGrid]_reportVars
  BY GridStep
<1>3. [OnGrid]_reportVars =>
        [/\ Repeating /\ sent' => next_tick' # next_tick
         /\ \A d \in next_tick, e \in next_tick' :
              d # e => d <= now /\ now < e /\ e <= now + RepeatTicks /\ (e - d) % RepeatTicks = 0
        ]_reportVars
  BY DEF OnGrid
<1> QED  BY <1>1, <1>2, <1>3, PTL DEF ReportSpec, RepeatKeepsItsCadence

----------------------------------------------------------------------------
(* The event loop.                                                         *)

\* Frames are what the transform takes them for.
LEMMA FramesAreRight ==
  ASSUME NEW c \in DOMAIN Mappings, NEW f \in Frames
  PROVE  FrameRight(Mappings[c], f)
BY FrameAssumption DEF FrameRight

\* The runtimes a mapping starts with are right at any instant.
LEMMA FreshIsRight ==
  ASSUME NEW mapping, NEW at \in Nat
  PROVE  RuntimesRight(mapping, FreshTurbo(mapping), FreshMacros(mapping), at)
<1> DEFINE turbos == FreshTurbo(mapping)
           macs == FreshMacros(mapping)
<1>1. DOMAIN turbos = DOMAIN mapping.turbo /\ DOMAIN macs = DOMAIN mapping.macros
  BY DEF FreshTurbo, FreshMacros
<1>2. \A b \in DOMAIN turbos : turbos[b] = TurboIdle
  BY DEF FreshTurbo
<1>3. \A i \in DOMAIN macs : macs[i] = MacroIdle
  BY DEF FreshMacros
<1>4. \A cfg : TurboRight(cfg, TurboIdle, at)
  BY DEF TurboIdle, TurboRight
<1>5. \A rule : MacroRight(rule, MacroIdle, at)
  BY DEF MacroIdle, MacroRight
<1> HIDE DEF turbos, macs
<1>6. RuntimesRight(mapping, turbos, macs, at)
  BY <1>1, <1>2, <1>3, <1>4, <1>5 DEF RuntimesRight
<1> QED  BY <1>6 DEF turbos, macs

\* The clock, and the runtimes at it.
RuntimeInv ==
  /\ now \in Nat /\ switches \in Nat
  /\ config \in DOMAIN Mappings
  /\ last_frame \in Frames \cup {NoFrame}
  /\ RuntimesRight(Mapping, turbo, macros, now)

\* What a step does to the mapping, its runtimes and its output is one of four
\* things: it transforms a frame, starts the runtimes afresh, leaves them alone
\* or lets time pass.
Transforms(frame, observe) ==
  /\ Encode(frame, observe)
  /\ last_frame' = frame
  /\ UNCHANGED <<now, config, switches, exit>>

StartsAfresh ==
  /\ config' \in DOMAIN Mappings
  /\ turbo' = FreshTurbo(Mapping)' /\ macros' = FreshMacros(Mapping)'
  /\ last_frame' = NoFrame
  /\ now' = now
  /\ \/ exit' = "stopped" /\ switches' = switches
     \/ exit' = exit /\ switches' = switches + 1

LeavesAlone == UNCHANGED <<now, mapped, switches, exit>>

Ages == UNCHANGED <<mapped, switches, exit>> /\ now' = now + 1

LEMMA FourKinds ==
  ASSUME TimingInv, RuntimeInv, [ReportNext]_reportVars
  PROVE  \/ \E f \in Frames, o \in BOOLEAN : Transforms(f, o)
         \/ StartsAfresh \/ LeavesAlone \/ Ages
<1>1. ASSUME NEW f \in Frames, SourceReport(f) PROVE Transforms(f, TRUE)
  BY <1>1 DEF SourceReport, Transforms
<1>2. ASSUME NEW c \in DOMAIN Mappings, ApplyConfig(c) PROVE StartsAfresh
  BY <1>2 DEF ApplyConfig, StartsAfresh, Mapping
<1>3. CASE TimerExpires
  BY <1>3 DEF TimerExpires, LeavesAlone
<1>4. CASE EndTurn
  BY <1>4 DEF EndTurn, LeavesAlone
<1>5. CASE Tick
  <2>1. CanAdvance /\ AdvanceRuntimes
    BY <1>5, DueCanAdvance DEF Tick, TimingInv
  <2>2. last_frame \in Frames
    BY <2>1 DEF RuntimeInv, CanAdvance
  <2>3. Transforms(last_frame, FALSE)
    BY <1>5, <2>1 DEF Tick, AdvanceRuntimes, Transforms
  <2> QED  BY <2>2, <2>3
<1>6. CASE RepeatTick
  BY <1>6 DEF RepeatTick, LeavesAlone
<1>7. CASE Stop
  BY <1>7 DEF Stop, StartsAfresh, Mapping, RuntimeInv
<1>8. CASE Pass
  BY <1>8 DEF Pass, Ages
<1>9. CASE UNCHANGED reportVars
  BY <1>9 DEF reportVars, LeavesAlone
<1> QED
  BY <1>1, <1>2, <1>3, <1>4, <1>5, <1>6, <1>7, <1>8, <1>9 DEF ReportNext

\* A transform leaves the runtimes right and the output current; a timer's
\* leaves no deadline behind.
LEMMA TransformsRight ==
  ASSUME RuntimeInv, NEW f \in Frames, NEW o \in BOOLEAN, Transforms(f, o)
  PROVE  /\ RuntimeInv'
         /\ last_output' = Meaning(Mapping', turbo', macros', f, now)
         /\ ~o => \A d \in Deadlines(Mapping', turbo', macros') : now < d
<1> DEFINE r == Transform(Mapping, turbo, macros, f, now, o)
<1>1. /\ turbo' = r.turbo /\ macros' = r.macros /\ last_output' = r.output
      /\ Mapping' = Mapping /\ now' = now /\ config' = config /\ switches' = switches
      /\ last_frame' = f
  BY DEF Transforms, Encode, Mapping
<1>2. CanRun(Mapping) /\ FrameRight(Mapping, f) /\ now \in Nat
      /\ RuntimesRight(Mapping, turbo, macros, now)
  BY MappingAssumption, FramesAreRight DEF RuntimeInv, Mapping
<1>3. /\ RuntimesRight(Mapping, r.turbo, r.macros, now)
      /\ r.output = Meaning(Mapping, r.turbo, r.macros, f, now)
      /\ ~o => \A d \in Deadlines(Mapping, r.turbo, r.macros) : now < d
  BY <1>2, TransformMeans
<1> HIDE DEF r
<1>4. RuntimesRight(Mapping', turbo', macros', now')
  BY <1>1, <1>3
<1> QED  BY <1>1, <1>3, <1>4 DEF RuntimeInv

\* The four kinds keep the runtimes right.
LEMMA RuntimeStep ==
  ASSUME TimingInv, RuntimeInv, [ReportNext]_reportVars
  PROVE  RuntimeInv'
<1>1. CanRun(Mapping)
  BY MappingAssumption DEF RuntimeInv, Mapping
<1>2. ASSUME NEW f \in Frames, NEW o \in BOOLEAN, Transforms(f, o) PROVE RuntimeInv'
  BY <1>2, TransformsRight
<1>3. CASE StartsAfresh
  <2>1. now' = now /\ now \in Nat /\ switches' \in Nat
    BY <1>3 DEF StartsAfresh, RuntimeInv
  <2>2. RuntimesRight(Mapping', FreshTurbo(Mapping'), FreshMacros(Mapping'), now)
    BY <2>1, FreshIsRight
  <2> QED  BY <1>3, <2>1, <2>2 DEF StartsAfresh, RuntimeInv
<1>4. CASE LeavesAlone
  BY <1>4 DEF LeavesAlone, RuntimeInv, mapped, Mapping
<1>5. CASE Ages
  <2>1. RuntimesRight(Mapping, turbo, macros, now + 1)
    BY <1>1, RightLater DEF RuntimeInv
  <2> QED  BY <1>5, <2>1 DEF Ages, RuntimeInv, mapped, Mapping
<1> QED  BY <1>2, <1>3, <1>4, <1>5, FourKinds

----------------------------------------------------------------------------
\* As long as no runtime is due, no deadline has passed.
LEMMA NotDue ==
  ASSUME NEW mapping, CanRun(mapping), NEW turbos, NEW macs, NEW at \in Nat,
         RuntimesRight(mapping, turbos, macs, at)
  PROVE  (\A f \in RuntimeDeadline(mapping, turbos, macs) : ~(f <= at))
           <=> \A d \in Deadlines(mapping, turbos, macs) : at < d
<1> DEFINE D == Deadlines(mapping, turbos, macs)
           F == RuntimeDeadline(mapping, turbos, macs)
<1>1. D \subseteq Nat /\ F \subseteq D /\ \A d \in D : \E f \in F : f <= d
  BY DeadlinesAreInstants
<1> HIDE DEF D, F
<1>2. \A f \in F, d \in D : f \in Nat /\ d \in Nat
  BY <1>1
<1>3. (\A f \in F : ~(f <= at)) <=> \A d \in D : at < d
  BY <1>1, <1>2
<1> QED  BY <1>3 DEF D, F

LEMMA MappingRuns ==
  ASSUME RuntimeInv
  PROVE  CanRun(Mapping)
BY MappingAssumption DEF RuntimeInv, Mapping

\* Every step keeps the output current.
LEMMA OutputStep ==
  ASSUME TimingInv, RuntimeInv, OutputIsCurrent, [ReportNext]_reportVars
  PROVE  OutputIsCurrent'
<1>1. ASSUME NEW f \in Frames, NEW o \in BOOLEAN, Transforms(f, o) PROVE OutputIsCurrent'
  <2>1. last_output' = Meaning(Mapping', turbo', macros', f, now)
    BY <1>1, TransformsRight
  <2> QED  BY <1>1, <2>1 DEF Transforms, OutputIsCurrent
<1>2. CASE StartsAfresh
  BY <1>2 DEF StartsAfresh, OutputIsCurrent
<1>3. CASE LeavesAlone
  BY <1>3 DEF LeavesAlone, OutputIsCurrent, mapped, Mapping, RuntimesDue
<1>4. CASE Ages
  <2> SUFFICES ASSUME exit' = "no", last_frame' # NoFrame, ~RuntimesDue'
               PROVE  last_output' = Meaning(Mapping', turbo', macros', last_frame', now')
    BY DEF OutputIsCurrent
  <2>1. /\ UNCHANGED <<config, last_frame, last_output, turbo, macros, exit>>
        /\ Mapping' = Mapping /\ now' = now + 1 /\ now \in Nat
    BY <1>4 DEF Ages, mapped, Mapping, RuntimeInv
  <2>2. RuntimeInv'
    BY RuntimeStep
  <2>3. \A d \in Deadlines(Mapping', turbo', macros') : now' < d
    <3>1. CanRun(Mapping') /\ now' \in Nat /\ RuntimesRight(Mapping', turbo', macros', now')
      BY <2>1, <2>2, MappingRuns DEF RuntimeInv
    <3>2. \A f \in RuntimeDeadline(Mapping', turbo', macros') : ~(f <= now')
      BY DEF RuntimesDue
    <3> QED  BY <3>1, <3>2, NotDue
  <2>4. \A d \in Deadlines(Mapping, turbo, macros) : now + 1 < d
    BY <2>1, <2>3
  <2>5. \A d \in Deadlines(Mapping, turbo, macros) : now < d
    <3>1. Deadlines(Mapping, turbo, macros) \subseteq Nat
      BY MappingRuns, DeadlinesAreInstants DEF RuntimeInv
    <3>2. \A d \in Nat : now + 1 < d => now < d
      BY <2>1
    <3> QED  BY <2>4, <3>1, <3>2
  <2>6. last_output = Meaning(Mapping, turbo, macros, last_frame, now)
    <3>1. ~RuntimesDue
      BY <2>5, NotDue, MappingRuns DEF RuntimeInv, RuntimesDue
    <3> QED  BY <2>1, <3>1 DEF OutputIsCurrent
  <2>7. Meaning(Mapping, turbo, macros, last_frame, now + 1)
          = Meaning(Mapping, turbo, macros, last_frame, now)
    BY <2>4, MappingRuns, MeaningHolds DEF RuntimeInv
  <2> QED  BY <2>1, <2>6, <2>7
<1> QED  BY <1>1, <1>2, <1>3, <1>4, FourKinds

\* The report to repeat is the one the last transform produced.
ReportInv ==
  Repeating /\ last_report # {} => last_frame # NoFrame /\ last_report = {last_output.state}

LEMMA ReportStep ==
  ASSUME TimingInv, GridInv, ReportInv, [ReportNext]_reportVars
  PROVE  ReportInv'
<1>1. ASSUME NEW f \in Frames, SourceReport(f) PROVE ReportInv'
  BY <1>1, ReportAssumption DEF SourceReport, StoreSource, ReportInv, Repeating
<1>2. ASSUME NEW c \in DOMAIN Mappings, ApplyConfig(c) PROVE ReportInv'
  BY <1>2 DEF ApplyConfig, ReportInv
<1>3. ASSUME UNCHANGED <<last_frame, last_output, last_report>> PROVE ReportInv'
  BY <1>3 DEF ReportInv, Repeating
<1>4. CASE TimerExpires
  BY <1>3, <1>4 DEF TimerExpires, mapped, repeat
<1>5. CASE EndTurn
  BY <1>3, <1>5 DEF EndTurn, mapped, repeat
<1>6. CASE Tick
  <2>1. CanAdvance /\ AdvanceRuntimes
    BY <1>6, DueCanAdvance DEF Tick, TimingInv
  <2> QED  BY <2>1 DEF CanAdvance, AdvanceRuntimes, ReportInv, Repeating
<1>7. CASE RepeatTick
  BY <1>3, <1>7 DEF RepeatTick, mapped
<1>8. CASE Stop
  BY <1>8 DEF Stop, ReportInv
<1>9. CASE Pass
  BY <1>3, <1>9 DEF Pass, mapped, repeat
<1>10. CASE UNCHANGED reportVars
  BY <1>3, <1>10 DEF reportVars, mapped, repeat
<1> QED
  BY <1>1, <1>2, <1>4, <1>5, <1>6, <1>7, <1>8, <1>9, <1>10 DEF ReportNext

\* A report is of the last transform, and sent when nothing is due any more.
LEMMA SentStep ==
  ASSUME TimingInv, RuntimeInv, GridInv, ReportInv, OutputIsCurrent, EveryReportIsCurrent,
         [ReportNext]_reportVars
  PROVE  EveryReportIsCurrent'
<1>1. ASSUME ~sent' PROVE EveryReportIsCurrent'
  BY <1>1 DEF EveryReportIsCurrent
<1>2. ASSUME NEW f \in Frames, NEW o \in BOOLEAN, Transforms(f, o), Send(last_output'.state)
      PROVE  EveryReportIsCurrent'
  <2>1. last_output' = Meaning(Mapping', turbo', macros', f, now)
    BY <1>2, TransformsRight
  <2>2. shown' = last_output'.state /\ last_frame' = f /\ now' = now
    BY <1>2 DEF Transforms, Send
  <2>3. shown' = Meaning(Mapping', turbo', macros', last_frame', now').state
    BY <2>1, <2>2
  <2> QED  BY <2>3 DEF EveryReportIsCurrent
<1>3. ASSUME NEW f \in Frames, SourceReport(f) PROVE EveryReportIsCurrent'
  <2>1. Transforms(f, TRUE)
    BY <1>3 DEF SourceReport, Transforms
  <2>2. SendNothing \/ Send(last_output'.state)
    BY <1>3 DEF SourceReport
  <2> QED  BY <1>1, <1>2, <2>1, <2>2 DEF SendNothing
<1>4. ASSUME NEW c \in DOMAIN Mappings, ApplyConfig(c) PROVE EveryReportIsCurrent'
  BY <1>1, <1>4 DEF ApplyConfig, SendNothing
<1>5. CASE TimerExpires \/ EndTurn \/ Stop \/ Pass
  BY <1>1, <1>5 DEF TimerExpires, EndTurn, Stop, Pass, SendNothing
<1>6. CASE Tick
  <2>1. CanAdvance /\ AdvanceRuntimes
    BY <1>6, DueCanAdvance DEF Tick, TimingInv
  <2>2. last_frame \in Frames /\ Transforms(last_frame, FALSE)
    BY <1>6, <2>1 DEF Tick, CanAdvance, AdvanceRuntimes, Transforms, RuntimeInv
  <2>3. SendNothing \/ Send(last_output'.state)
    BY <2>1 DEF AdvanceRuntimes, SendRepeat
  <2> QED  BY <1>1, <1>2, <2>2, <2>3 DEF SendNothing
<1>7. CASE RepeatTick
  <2>1. ~RuntimesDue /\ exit = "no" /\ RepeatDue /\ SendRepeat
        /\ UNCHANGED <<now, config, last_frame, last_output, turbo, macros, last_report>>
    BY <1>7 DEF RepeatTick, mapped
  <2>2. Repeating /\ last_report # {}
    BY <2>1 DEF RepeatDue, GridInv
  <2>3. last_frame # NoFrame /\ last_report = {last_output.state}
    BY <2>2 DEF ReportInv
  <2>4. last_output = Meaning(Mapping, turbo, macros, last_frame, now)
    BY <2>1, <2>3 DEF OutputIsCurrent
  <2>5. shown' = last_output.state
    BY <2>1, <2>2, <2>3 DEF SendRepeat, Send
  <2> QED  BY <2>1, <2>4, <2>5 DEF EveryReportIsCurrent, Mapping
<1>8. CASE UNCHANGED reportVars
  BY <1>8 DEF reportVars, EveryReportIsCurrent, mapped, virtual, Mapping
<1> QED
  BY <1>3, <1>4, <1>5, <1>6, <1>7, <1>8 DEF ReportNext

----------------------------------------------------------------------------
(* The timer.                                                              *)

\* What a turn that served the timer leaves.
Progress == turn = "expired" /\ turn' = "idle" =>
              \A d \in RuntimeDeadline(Mapping, turbo, macros)' \cup next_tick' : d > now

LEMMA ProgressStep ==
  ASSUME TimingInv, RuntimeInv, GridInv, ReportInv, [ReportNext]_reportVars
  PROVE  [Progress]_reportVars
<1> SUFFICES ASSUME turn = "expired", turn' = "idle",
                    NEW d \in RuntimeDeadline(Mapping, turbo, macros)' \cup next_tick'
             PROVE  d > now
  BY DEF Progress
<1>1. now \in Nat /\ next_tick \subseteq Nat
  BY DEF GridInv
<1>2. Deadlines(Mapping, turbo, macros) \subseteq Nat
      /\ RuntimeDeadline(Mapping, turbo, macros) \subseteq Deadlines(Mapping, turbo, macros)
  BY MappingRuns, DeadlinesAreInstants DEF RuntimeInv
<1>3. ~RuntimesDue => \A e \in RuntimeDeadline(Mapping, turbo, macros) : e > now
  BY <1>1, <1>2 DEF RuntimesDue
<1>4. ~RepeatDue => \A e \in next_tick : e > now
  BY <1>1 DEF RepeatDue
<1>5. ASSUME RepeatDue, SendRepeat PROVE \A e \in next_tick' : e > now
  <2>1. PICK due \in next_tick : due <= now
    BY <1>5 DEF RepeatDue
  <2>2. Repeating /\ next_tick = {due}
    BY <2>1 DEF GridInv
  <2>3. next_tick' = {FirstFutureDeadline(due)}
    BY <1>5, <2>2 DEF SendRepeat
  <2>4. FirstFutureDeadline(due) \in Nat /\ now < FirstFutureDeadline(due)
    BY <2>1, <2>2, NextOnGrid
  <2> QED  BY <1>1, <2>3, <2>4
<1>6. CASE EndTurn
  <2>1. ~RuntimesDue /\ ~RepeatDue /\ UNCHANGED <<config, turbo, macros, next_tick>>
    BY <1>6 DEF EndTurn, NothingDue, mapped, repeat
  <2>2. RuntimeDeadline(Mapping, turbo, macros)' = RuntimeDeadline(Mapping, turbo, macros)
    BY <2>1 DEF Mapping
  <2> QED  BY <1>3, <1>4, <2>1, <2>2
<1>7. CASE Tick
  <2>1. CanAdvance /\ AdvanceRuntimes /\ config' = config /\ now' = now
    BY <1>7, DueCanAdvance DEF Tick, TimingInv
  <2>2. last_frame \in Frames /\ Transforms(last_frame, FALSE)
    BY <1>7, <2>1 DEF Tick, CanAdvance, AdvanceRuntimes, Transforms, RuntimeInv
  <2>3. RuntimeInv' /\ \A e \in Deadlines(Mapping', turbo', macros') : now < e
    BY <2>2, TransformsRight
  <2>4. RuntimeDeadline(Mapping', turbo', macros') \subseteq Deadlines(Mapping', turbo', macros')
        /\ Deadlines(Mapping', turbo', macros') \subseteq Nat
    <3>1. CanRun(Mapping') /\ now' \in Nat /\ RuntimesRight(Mapping', turbo', macros', now')
      BY <2>1, <2>3, MappingRuns DEF RuntimeInv, Mapping
    <3> QED  BY <3>1, DeadlinesAreInstants
  <2>5. CASE Repeating /\ RepeatDue
    <3>1. SendRepeat
      BY <2>1, <2>5 DEF AdvanceRuntimes
    <3> QED  BY <1>1, <1>5, <2>3, <2>4, <2>5, <3>1
  <2>6. CASE ~Repeating \/ ~RepeatDue
    <3>1. next_tick' = next_tick
      BY <2>1, <2>6 DEF AdvanceRuntimes, repeat
    <3>2. ~RepeatDue
      BY <2>6 DEF RepeatDue, GridInv
    <3> QED  BY <1>1, <1>4, <2>3, <2>4, <3>1, <3>2
  <2> QED  BY <2>5, <2>6
<1>8. CASE RepeatTick
  <2>1. ~RuntimesDue /\ RepeatDue /\ SendRepeat /\ UNCHANGED <<config, turbo, macros>>
    BY <1>8 DEF RepeatTick, mapped
  <2>2. RuntimeDeadline(Mapping, turbo, macros)' = RuntimeDeadline(Mapping, turbo, macros)
    BY <2>1 DEF Mapping
  <2> QED  BY <1>3, <1>5, <2>1, <2>2
<1>9. ~ \E f \in Frames : SourceReport(f)
  BY DEF SourceReport
<1>10. ~ \E c \in DOMAIN Mappings : ApplyConfig(c)
  BY DEF ApplyConfig
<1>11. ~TimerExpires /\ ~Stop /\ ~Pass /\ ~ UNCHANGED reportVars
  BY DEF TimerExpires, Stop, Pass, reportVars
<1> QED  BY <1>6, <1>7, <1>8, <1>9, <1>10, <1>11 DEF ReportNext

\* Arming the timer covers every deadline there is.
LEMMA ArmCovers ==
  ASSUME NEW at \in Nat, NEW D, D \subseteq Nat,
         NEW set, set = {IF d > at THEN d ELSE at : d \in Earliest(D)}
  PROVE  set \subseteq Nat /\ \A d \in D : \E t \in set : t <= d \/ t <= at
<1>1. Earliest(D) \subseteq D /\ \A d \in D : \E f \in Earliest(D) : f <= d
  BY EarliestIsFirst
<1>2. set \subseteq Nat
  BY <1>1
<1>3. ASSUME NEW d \in D PROVE \E t \in set : t <= d \/ t <= at
  <2>1. PICK f \in Earliest(D) : f <= d
    BY <1>1
  <2>2. (IF f > at THEN f ELSE at) \in set
    BY <2>1
  <2>3. (IF f > at THEN f ELSE at) <= d \/ (IF f > at THEN f ELSE at) <= at
    BY <2>1
  <2> QED  BY <2>2, <2>3
<1> QED  BY <1>2, <1>3

\* Between turns the timer is set for whatever comes first.
TimerInv == timer \subseteq Nat /\ NoDeadlineIsForgotten

LEMMA TimerStep ==
  ASSUME TimingInv, RuntimeInv, GridInv, TimerInv, [ReportNext]_reportVars
  PROVE  TimerInv'
<1>1. RuntimeInv' /\ GridInv'
  BY RuntimeStep, GridStep
<1>2. RuntimeDeadline(Mapping', turbo', macros') \subseteq Nat
  <2>1. CanRun(Mapping') /\ now' \in Nat /\ RuntimesRight(Mapping', turbo', macros', now')
    BY <1>1, MappingAssumption DEF RuntimeInv, Mapping
  <2> QED  BY <2>1, DeadlinesAreInstants
<1>3. ASSUME Arm, now' = now PROVE TimerInv'
  <2> DEFINE D == RuntimeDeadline(Mapping, turbo, macros)' \cup next_tick'
  <2>1. D \subseteq Nat /\ now \in Nat
    BY <1>1, <1>2 DEF GridInv, RuntimeInv
  <2>2. timer' = {IF d > now THEN d ELSE now : d \in Earliest(D)}
    BY <1>3 DEF Arm
  <2> HIDE DEF D
  <2>3. timer' \subseteq Nat /\ \A d \in D : \E t \in timer' : t <= d \/ t <= now
    BY <2>1, <2>2, ArmCovers
  <2> QED  BY <1>3, <2>3 DEF D, TimerInv, NoDeadlineIsForgotten
<1>4. ASSUME timer' \subseteq timer, turn' # "idle" PROVE TimerInv'
  BY <1>4 DEF TimerInv, NoDeadlineIsForgotten
<1>5. ASSUME NEW f \in Frames, SourceReport(f) PROVE TimerInv'
  BY <1>4, <1>5 DEF SourceReport
<1>6. ASSUME NEW c \in DOMAIN Mappings, ApplyConfig(c) PROVE TimerInv'
  BY <1>4, <1>6 DEF ApplyConfig
<1>7. CASE TimerExpires
  BY <1>4, <1>7 DEF TimerExpires
<1>8. CASE EndTurn \/ Tick \/ RepeatTick
  BY <1>3, <1>8 DEF EndTurn, Tick, RepeatTick
<1>9. CASE Stop
  BY <1>4, <1>9 DEF Stop
<1>10. CASE Pass
  <2>1. /\ UNCHANGED <<config, turbo, macros, next_tick, timer, turn, exit>>
        /\ now' = now + 1 /\ now \in Nat
    BY <1>10 DEF Pass, mapped, repeat, RuntimeInv
  <2>2. RuntimeDeadline(Mapping, turbo, macros)' = RuntimeDeadline(Mapping, turbo, macros)
    BY <2>1 DEF Mapping
  <2>3. \A t \in timer : t <= now => t <= now'
    BY <2>1 DEF TimerInv
  <2> QED  BY <2>1, <2>2, <2>3 DEF TimerInv, NoDeadlineIsForgotten
<1>11. CASE UNCHANGED reportVars
  BY <1>11 DEF reportVars, mapped, repeat, Mapping, TimerInv, NoDeadlineIsForgotten
<1> QED
  BY <1>5, <1>6, <1>7, <1>8, <1>9, <1>10, <1>11 DEF ReportNext

----------------------------------------------------------------------------
(* Macros and triggers in a step.                                          *)

\* The macros after a transform, one by one.
Advanced(rule, m, at) == IF m.active THEN MacroAdvance(rule, m, at) ELSE m

LEMMA MacrosAfter ==
  ASSUME NEW mapping, NEW turbos, NEW macs, NEW frame, NEW at, NEW observe,
         NEW i \in DOMAIN Transform(mapping, turbos, macs, frame, at, observe).macros
  PROVE  /\ i \in DOMAIN macs
         /\ \E l1, combos :
              Transform(mapping, turbos, macs, frame, at, observe).macros[i]
                = Advanced(mapping.macros[i],
                           MacroBefore(mapping, macs, i, l1, combos, at, observe), at)
<1> DEFINE physical == Snapshot(mapping, frame)
           turboNow == TurboAfter(mapping, turbos, physical, at, observe)
           owned == {b \in DOMAIN turbos : turbos[b].active \/ turboNow[b].active}
           on == {b \in DOMAIN turbos : turboNow[b].active /\ turboNow[b].phase}
           played == AfterTurbo(physical, owned, on)
           combos == Triggered(mapping, played)
           l1 == L1(mapping, played)
           before == [j \in DOMAIN macs |->
                        MacroBefore(mapping, macs, j, l1, combos, at, observe)]
           running == {j \in DOMAIN macs : before[j].active}
           macrosNow == [j \in DOMAIN macs |->
                           IF j \in running THEN MacroAdvance(mapping.macros[j], before[j], at)
                           ELSE before[j]]
<1>1. Transform(mapping, turbos, macs, frame, at, observe).macros = macrosNow
  BY DEF Transform
<1>2. i \in DOMAIN macs
  BY <1>1
<1>3. before[i] = MacroBefore(mapping, macs, i, l1, combos, at, observe)
  BY <1>2
<1>4. macrosNow[i] = Advanced(mapping.macros[i], before[i], at)
  BY <1>2 DEF Advanced
<1> HIDE DEF l1, combos, before, macrosNow
<1> QED  BY <1>1, <1>2, <1>3, <1>4

\* An advance goes on from where the macro started, or ends it.
LEMMA AdvanceKeepsStart ==
  ASSUME NEW rule, NEW m, NEW at \in Nat,
         m \in [active : BOOLEAN, start : Nat, next : SUBSET Nat],
         MacroAdvance(rule, m, at).active
  PROVE  MacroAdvance(rule, m, at).start = m.start
<1> DEFINE u == MacroAdvance(rule, m, at)
<1>1. CASE Completed(rule, m, at)
  BY <1>1 DEF MacroAdvance, MacroIdle
<1>2. CASE ~Completed(rule, m, at)
  <2>1. \E next : u = [m EXCEPT !.next = next]
    BY <1>2 DEF MacroAdvance
  <2> HIDE DEF u
  <2>2. u.start = m.start
    BY <2>1
  <2> QED  BY <2>2 DEF u
<1> QED  BY <1>1, <1>2

\* A timer only lets macros go on or ends them.
LEMMA TimerMacros ==
  ASSUME RuntimeInv, NEW frame, NEW observe \in BOOLEAN, ~observe, Encode(frame, observe),
         NEW i \in DOMAIN macros', macros'[i].active
  PROVE  macros[i].active /\ macros'[i].start = macros[i].start
<1>1. macros' = Transform(Mapping, turbo, macros, frame, now, observe).macros
  BY DEF Encode
<1>2. i \in DOMAIN macros
  BY <1>1, MacrosAfter
<1>3. PICK l1, combos :
        macros'[i] = Advanced(Mapping.macros[i],
                              MacroBefore(Mapping, macros, i, l1, combos, now, observe), now)
  BY <1>1, MacrosAfter
<1> DEFINE b == MacroBefore(Mapping, macros, i, l1, combos, now, observe)
<1>4. b \in {macros[i], MacroIdle}
  BY DEF MacroBefore, PhysicalMacro, ComboMacro
<1>5. macros'[i] = IF b.active THEN MacroAdvance(Mapping.macros[i], b, now) ELSE b
  BY <1>3 DEF Advanced
<1> HIDE DEF b
<1>6. b = macros[i] /\ b.active
  BY <1>4, <1>5 DEF MacroIdle
<1>7. macros[i] \in [active : BOOLEAN, start : Nat, next : SUBSET Nat] /\ now \in Nat
  BY <1>2 DEF RuntimeInv, RuntimesRight, MacroRight
<1> QED  BY <1>5, <1>6, <1>7, AdvanceKeepsStart

NothingStarted ==
  turn = "expired" /\ turn' = "idle" =>
    \A i \in DOMAIN macros' : macros'[i].active =>
      macros[i].active /\ macros'[i].start = macros[i].start

LEMMA StartStep ==
  ASSUME TimingInv, RuntimeInv, [ReportNext]_reportVars
  PROVE  [NothingStarted]_reportVars
<1> SUFFICES ASSUME turn = "expired", turn' = "idle",
                    NEW i \in DOMAIN macros', macros'[i].active
             PROVE  macros[i].active /\ macros'[i].start = macros[i].start
  BY DEF NothingStarted
<1>1. CASE EndTurn \/ RepeatTick
  BY <1>1 DEF EndTurn, RepeatTick, mapped
<1>2. CASE Tick
  <2>1. CanAdvance /\ AdvanceRuntimes
    BY <1>2, DueCanAdvance DEF Tick, TimingInv
  <2>2. \E o \in BOOLEAN : ~o /\ Encode(last_frame, o)
    BY <2>1 DEF AdvanceRuntimes
  <2> QED  BY <2>2, TimerMacros
<1>3. ~ \E f \in Frames : SourceReport(f)
  BY DEF SourceReport
<1>4. ~ \E c \in DOMAIN Mappings : ApplyConfig(c)
  BY DEF ApplyConfig
<1>5. ~TimerExpires /\ ~Stop /\ ~Pass /\ ~ UNCHANGED reportVars
  BY DEF TimerExpires, Stop, Pass, reportVars
<1> QED  BY <1>1, <1>2, <1>3, <1>4, <1>5 DEF ReportNext

\* A single macro ends in a step that finds its whole cycle over.
EndsWhenOver ==
  \A i \in DOMAIN macros :
    (/\ Mapping.macros[i].mode = "single" /\ macros[i].active
     /\ switches' = switches /\ exit' = "no"
     /\ ~macros'[i].active)
      => now >= macros[i].start + Ms(CycleMs(Mapping.macros[i]))

LEMMA EndStep ==
  ASSUME TimingInv, RuntimeInv, [ReportNext]_reportVars
  PROVE  EndsWhenOver
<1> SUFFICES ASSUME NEW i \in DOMAIN macros,
                    Mapping.macros[i].mode = "single", macros[i].active,
                    switches' = switches, exit' = "no", ~macros'[i].active
             PROVE  now >= macros[i].start + Ms(CycleMs(Mapping.macros[i]))
  BY DEF EndsWhenOver
<1> DEFINE m == macros[i]
           rule == Mapping.macros[i]
<1>1. /\ m \in [active : BOOLEAN, start : Nat, next : SUBSET Nat]
      /\ m.start \in Nat /\ m.start <= now /\ now \in Nat /\ MacroCanRun(rule)
  BY MappingRuns DEF RuntimeInv, RuntimesRight, MacroRight, CanRun
<1>2. ASSUME NEW f \in Frames, NEW o \in BOOLEAN, Transforms(f, o)
      PROVE  now >= m.start + Ms(CycleMs(rule))
  <2>1. macros' = Transform(Mapping, turbo, macros, f, now, o).macros
    BY <1>2 DEF Transforms, Encode
  <2>2. i \in DOMAIN macros'
    BY <1>2, TransformsRight DEF RuntimeInv, RuntimesRight, Transforms, Mapping
  <2>3. PICK l1, combos :
          macros'[i] = Advanced(Mapping.macros[i],
                                MacroBefore(Mapping, macros, i, l1, combos, now, o), now)
    BY <2>1, <2>2, MacrosAfter
  <2>4. MacroBefore(Mapping, macros, i, l1, combos, now, o) = m
    BY DEF MacroBefore, PhysicalMacro, ComboMacro, MacroActivate
  <2>5. macros'[i] = MacroAdvance(rule, m, now)
    BY <2>3, <2>4 DEF Advanced
  <2> HIDE DEF m, rule
  <2>6. Completed(rule, m, now)
    BY <1>1, <2>5, MacroAdvances DEF m
  <2>7. PICK s \in rule.steps : s.release = CycleMs(rule)
    BY <1>1, CycleBounds
  <2>8. CycleMs(rule) \in Nat /\ CycleMs(rule) <= (now - m.start) \div TicksPerMs
        /\ (now - m.start) \div TicksPerMs \in Nat
    <3>1. CycleMs(rule) \in Nat
      BY <1>1, CycleBounds
    <3>3. (now - m.start) \div TicksPerMs \in 0 .. now
      BY <1>1, Elapsed
    <3>2. (now - m.start) \div TicksPerMs >= CycleMs(rule)
      BY <2>6, <2>7 DEF Completed, ElapsedMs
    <3> QED  BY <1>1, <3>1, <3>2, <3>3
  <2>9. m.start + Ms(CycleMs(rule)) <= now
    BY <1>1, <2>8, Elapsed
  <2>10. Ms(CycleMs(rule)) \in Nat
    BY <2>8, MsNat
  <2> QED  BY <1>1, <2>9, <2>10
<1>3. ~StartsAfresh
  BY DEF StartsAfresh, RuntimeInv
<1>4. ~LeavesAlone /\ ~Ages
  BY DEF LeavesAlone, Ages, mapped
<1> QED  BY <1>2, <1>3, <1>4, FourKinds

\* A trigger that is not pressed pulls at nothing.
Silent(state, t) == t \notin state.buttons => state.analog[t] = 0

LEMMA SuppressSilences ==
  ASSUME NEW state, NEW buttons, NEW t \in Triggers, Silent(state, t)
  PROVE  Silent(Suppress(state, buttons), t)
<1>1. /\ Suppress(state, buttons).buttons = state.buttons \ buttons
      /\ Suppress(state, buttons).analog[t] = IF t \in buttons THEN 0 ELSE state.analog[t]
  BY DEF Suppress
<1> QED  BY <1>1 DEF Silent

\* Nor does reducing add a pull to it.
LEMMA ReduceSilent ==
  ASSUME NEW mapping, NEW l1, NEW combos, NEW steps, NEW t \in Triggers, Silent(l1, t)
  PROVE  Silent(Reduce(mapping, l1, combos, steps).state, t)
<1> DEFINE cleared == {b \in DOMAIN mapping.rules : b \in l1.buttons}
           targets == {mapping.rules[b] : b \in cleared} \cup {c.output : c \in combos}
                        \cup {s.action : s \in steps}
           asked(kind) == {g.to : g \in {h \in targets : h.kind = kind}}
           handed == {l1.analog[b] : b \in {d \in cleared \cap Triggers :
                                              mapping.rules[d] = [kind |-> "button", to |-> t]}}
           base == IF t \in cleared THEN 0 ELSE l1.analog[t]
           full == IF t \in asked("trigger") THEN {FullPull} ELSE {}
           out == Reduce(mapping, l1, combos, steps).state
<1>1. /\ out.buttons = (l1.buttons \ cleared) \cup asked("button") \cup asked("trigger")
      /\ out.analog[t] = Max({base} \cup handed \cup full)
  BY DEF Reduce
<1>2. SUFFICES ASSUME t \notin out.buttons PROVE out.analog[t] = 0
  BY DEF Silent
<1>3. t \notin asked("button") /\ t \notin asked("trigger") /\ (t \in l1.buttons => t \in cleared)
  <2> HIDE DEF asked, cleared, out
  <2> QED  BY <1>1, <1>2
<1>4. handed = {}
  <2> SUFFICES ASSUME NEW d \in cleared, mapping.rules[d] = [kind |-> "button", to |-> t]
               PROVE  FALSE
    OBVIOUS
  <2>1. mapping.rules[d] \in targets
    OBVIOUS
  <2>2. mapping.rules[d].kind = "button" /\ mapping.rules[d].to = t
    OBVIOUS
  <2> HIDE DEF targets
  <2>3. t \in asked("button")
    BY <2>1, <2>2
  <2> QED  BY <1>3, <2>3
<1>5. base = 0 /\ full = {}
  <2> HIDE DEF asked, cleared, out
  <2> QED  BY <1>3 DEF Silent
<1>6. Max({0}) = 0
  <2>1. IsFiniteSet({0})
    BY ONLY FS_Singleton
  <2>2. {0} \subseteq Nat /\ {0} # {}
    OBVIOUS
  <2>3. Max({0}) \in {0}
    BY ONLY <2>1, <2>2, Greatest
  <2> QED  BY <2>3
<1> HIDE DEF out, base, handed, full
<1>7. {base} \cup handed \cup full = {0}
  BY <1>4, <1>5
<1> QED  BY <1>1, <1>6, <1>7

\* A pressed trigger that is not in the output leaves no analog value in it.
LEMMA TriggerSilent ==
  ASSUME NEW mapping, NEW turbos, NEW macs, NEW frame, NEW at, NEW observe,
         NEW t \in Triggers, t \in frame.buttons
  PROVE  Silent(Transform(mapping, turbos, macs, frame, at, observe).output.state, t)
<1> DEFINE physical == Snapshot(mapping, frame)
           turboNow == TurboAfter(mapping, turbos, physical, at, observe)
           owned == {b \in DOMAIN turbos : turbos[b].active \/ turboNow[b].active}
           on == {b \in DOMAIN turbos : turboNow[b].active /\ turboNow[b].phase}
           played == AfterTurbo(physical, owned, on)
           combos == Triggered(mapping, played)
           l1 == L1(mapping, played)
<1>1. Silent(physical, t)
  BY DEF Snapshot, Silent, Triggers
<1>2. Silent(played, t)
  <2>1. Silent(Suppress(physical, owned), t)
    BY <1>1, SuppressSilences
  <2> HIDE DEF physical, owned, on
  <2>2. /\ played.analog[t] = Suppress(physical, owned).analog[t]
        /\ played.buttons = Suppress(physical, owned).buttons \cup on
    BY DEF AfterTurbo, Suppress
  <2> QED  BY <2>1, <2>2 DEF Silent
<1>3. Silent(l1, t)
  <2> HIDE DEF played
  <2> QED  BY <1>2, SuppressSilences DEF L1, AfterCombos
<1>4. \E steps : Transform(mapping, turbos, macs, frame, at, observe).output
                   = Reduce(mapping, l1, combos, steps)
  BY DEF Transform
<1> HIDE DEF l1, combos
<1>5. PICK steps : Transform(mapping, turbos, macs, frame, at, observe).output
                     = Reduce(mapping, l1, combos, steps)
  BY <1>4
<1> QED  BY <1>3, <1>5, ReduceSilent

LEMMA TriggerStep ==
  ASSUME TimingInv, RuntimeInv, TriggerLeavesNoAnalog, [ReportNext]_reportVars
  PROVE  TriggerLeavesNoAnalog'
<1>1. ASSUME NEW f \in Frames, NEW o \in BOOLEAN, Transforms(f, o)
      PROVE  TriggerLeavesNoAnalog'
  <2>1. last_output' = Transform(Mapping, turbo, macros, f, now, o).output /\ last_frame' = f
    BY <1>1 DEF Transforms, Encode
  <2>2. \A t \in Triggers \cap f.buttons :
          t \notin last_output'.state.buttons => last_output'.state.analog[t] = 0
    BY <2>1, TriggerSilent DEF Silent
  <2> QED  BY <2>1, <2>2 DEF TriggerLeavesNoAnalog
<1>2. CASE StartsAfresh
  BY <1>2 DEF StartsAfresh, TriggerLeavesNoAnalog
<1>3. CASE LeavesAlone \/ Ages
  BY <1>3 DEF LeavesAlone, Ages, TriggerLeavesNoAnalog, mapped
<1> QED  BY <1>1, <1>2, <1>3, FourKinds

----------------------------------------------------------------------------
(* The theorems that rest on the runtimes.                                 *)

\* Together, these are inductive.
PathInv ==
  /\ TimingInv /\ RuntimeInv /\ GridInv /\ ReportInv
  /\ OutputIsCurrent /\ EveryReportIsCurrent /\ TimerInv /\ TriggerLeavesNoAnalog

LEMMA PathInit == ReportInit => PathInv
<1> SUFFICES ASSUME ReportInit PROVE PathInv
  OBVIOUS
<1>1. TimingInv /\ GridInv
  BY DEF ReportInit, TimingInv, CacheInv, TimingIsNeverFatal, GridInv
<1>2. RuntimeInv
  BY FreshIsRight DEF ReportInit, RuntimeInv
<1>3. ReportInv /\ OutputIsCurrent /\ EveryReportIsCurrent /\ TriggerLeavesNoAnalog
  BY DEF ReportInit, ReportInv, OutputIsCurrent, EveryReportIsCurrent, TriggerLeavesNoAnalog
<1>4. TimerInv
  BY FreshIsNeverDue DEF ReportInit, TimerInv, NoDeadlineIsForgotten
<1> QED  BY <1>1, <1>2, <1>3, <1>4 DEF PathInv

LEMMA PathStep == PathInv /\ [ReportNext]_reportVars => PathInv'
BY TimingInvStep, RuntimeStep, GridStep, ReportStep, OutputStep, SentStep, TimerStep, TriggerStep
DEF PathInv

\* Types, and the clock's bound.
LEMMA TypeStep ==
  ASSUME PathInv, ReportTypeOK, [ReportNext]_reportVars
  PROVE  ReportTypeOK'
<1>1. PathInv'
  BY PathStep
<1>2. /\ config' \in DOMAIN Mappings /\ last_frame' \in Frames \cup {NoFrame}
      /\ DOMAIN turbo' = DOMAIN Mapping'.turbo /\ DOMAIN macros' = DOMAIN Mapping'.macros
      /\ next_tick' \subseteq Nat /\ timer' \subseteq Nat
  BY <1>1 DEF PathInv, RuntimeInv, RuntimesRight, GridInv, TimerInv
<1>3. now' \in 0 .. MaxNow
  <2>1. now \in Nat /\ now <= MaxNow /\ MaxNow \in Nat
    BY ReportAssumption DEF ReportTypeOK
  <2>2. now' = now \/ (now < MaxNow /\ now' = now + 1)
    BY DEF ReportNext, SourceReport, ApplyConfig, TimerExpires, EndTurn, Tick, RepeatTick, Stop,
           Pass, reportVars
  <2> QED  BY <2>1, <2>2
<1>4. turn' \in {"idle", "busy", "expired"}
  BY DEF ReportTypeOK, ReportNext, SourceReport, ApplyConfig, TimerExpires, EndTurn, Tick,
         RepeatTick, Stop, Pass, Arm, reportVars
<1>5. exit' \in {"no", "stopped", "fatal"}
  BY DEF ReportTypeOK, ReportNext, SourceReport, ApplyConfig, TimerExpires, EndTurn, Tick,
         AdvanceRuntimes, RepeatTick, Stop, Pass, reportVars
<1> QED  BY <1>2, <1>3, <1>4, <1>5 DEF ReportTypeOK

\* The state of the loop has its types, deadlines are instants, and runtimes
\* are those of the mapping in force.
THEOREM ReportTypes == ReportSpec => []ReportTypeOK
<1>1. ReportInit => PathInv /\ ReportTypeOK
  <2> SUFFICES ASSUME ReportInit PROVE ReportTypeOK
    BY PathInit
  <2>1. now \in 0 .. MaxNow
    BY ReportAssumption DEF ReportInit
  <2> QED  BY <2>1 DEF ReportInit, ReportTypeOK, FreshTurbo, FreshMacros
<1>2. PathInv /\ ReportTypeOK /\ [ReportNext]_reportVars => PathInv' /\ ReportTypeOK'
  BY PathStep, TypeStep
<1> QED  BY <1>1, <1>2, PTL DEF ReportSpec

\* Deadlines miss nothing: however late wake-ups come and whatever happens in
\* between, while no runtime is due the last output of transform_inner is what
\* the mapping means at that instant.
THEOREM OutputCorrect == ReportSpec => []OutputIsCurrent
<1>1. PathInv => OutputIsCurrent
  BY DEF PathInv
<1> QED  BY <1>1, PathInit, PathStep, PTL DEF ReportSpec

\* No report that is sent, at once or by the repeat, is out of date.
THEOREM ReportsCorrect == ReportSpec => []EveryReportIsCurrent
<1>1. PathInv => EveryReportIsCurrent
  BY DEF PathInv
<1> QED  BY <1>1, PathInit, PathStep, PTL DEF ReportSpec

\* arm_timing_timer leaves no deadline of a runtime or of the repeat uncovered.
THEOREM TimerCorrect == ReportSpec => []NoDeadlineIsForgotten
<1>1. PathInv => NoDeadlineIsForgotten
  BY DEF PathInv, TimerInv
<1> QED  BY <1>1, PathInit, PathStep, PTL DEF ReportSpec

\* handle_timing_tick serves all that is due: the loop cannot spin.
THEOREM TicksProgress == ReportSpec => TickMakesProgress
<1>1. PathInv /\ [ReportNext]_reportVars => [Progress]_reportVars
  BY ProgressStep DEF PathInv
<1>2. [Progress]_reportVars =>
        [turn = "expired" /\ turn' = "idle" =>
           \A d \in RuntimeDeadline(Mapping, turbo, macros)' \cup next_tick' : d > now]_reportVars
  BY DEF Progress
<1> QED  BY <1>1, <1>2, PathInit, PathStep, PTL DEF ReportSpec, TickMakesProgress

\* Deadlines cannot start a macro, whatever the frame that is cached.
THEOREM TimersOnlyContinue == ReportSpec => TimersStartNothing
<1>1. PathInv /\ [ReportNext]_reportVars => [NothingStarted]_reportVars
  BY StartStep DEF PathInv
<1>2. [NothingStarted]_reportVars =>
        [turn = "expired" /\ turn' = "idle" =>
           \A i \in DOMAIN macros' : macros'[i].active =>
             macros[i].active /\ macros'[i].start = macros[i].start]_reportVars
  BY DEF NothingStarted
<1> QED  BY <1>1, <1>2, PathInit, PathStep, PTL DEF ReportSpec, TimersStartNothing

\* Nothing but the end of its cycle, a switch or the end of the proxy ends a
\* single macro.
THEOREM SinglesComplete == ReportSpec => SingleRunsToItsEnd
<1>1. PathInv /\ [ReportNext]_reportVars => [EndsWhenOver]_reportVars
  BY EndStep DEF PathInv
<1>2. [EndsWhenOver]_reportVars =>
        [\A i \in DOMAIN macros :
           (/\ Mapping.macros[i].mode = "single" /\ macros[i].active
            /\ switches' = switches /\ exit' = "no"
            /\ ~macros'[i].active)
             => now >= macros[i].start + Ms(CycleMs(Mapping.macros[i]))]_reportVars
  BY DEF EndsWhenOver
<1> QED  BY <1>1, <1>2, PathInit, PathStep, PTL DEF ReportSpec, SingleRunsToItsEnd

\* Whatever takes the press of a trigger takes its pull too.
THEOREM TriggersSilenced == ReportSpec => []TriggerLeavesNoAnalog
<1>1. PathInv => TriggerLeavesNoAnalog
  BY DEF PathInv
<1> QED  BY <1>1, PathInit, PathStep, PTL DEF ReportSpec
===============================================================================
