----------------------------- MODULE HostProofs -----------------------------
(***************************************************************************)
(* What the host of the virtual device may rely on: of the input reports   *)
(* it is sent, for every report, mode, mapping and width of a number; of   *)
(* its own requests and output reports, for every source, target, feature  *)
(* report and bound.                                                       *)
(***************************************************************************)
EXTENDS HostReports, UhidTraffic, SequenceTheorems, TLAPS

----------------------------------------------------------------------------
(* Counters that wrap around.                                              *)

LEMMA DivMod ==
  ASSUME NEW n \in Nat \ {0}, NEW a \in Nat
  PROVE  a = n * (a \div n) + (a % n) /\ a % n \in 0 .. (n - 1) /\ a \div n \in Nat
OBVIOUS

LEMMA ModIs ==
  ASSUME NEW n \in Nat \ {0}, NEW q \in Nat, NEW r \in 0 .. (n - 1)
  PROVE  ((n * q) + r) % n = r
OBVIOUS

\* Part of a sum may be reduced before.
LEMMA ModOfSum ==
  ASSUME NEW n \in Nat \ {0}, NEW a \in Nat, NEW b \in Nat
  PROVE  (b + (a % n)) % n = (b + a) % n
<1>1. PICK q \in Nat, r \in 0 .. (n - 1) : a = (n * q) + r /\ a % n = r
  BY DivMod
<1>2. PICK p \in Nat, s \in 0 .. (n - 1) : b + r = (n * p) + s
  <2>1. b + r \in Nat
    BY <1>1
  <2> QED  BY <2>1, DivMod
<1>3. b + a = (n * (q + p)) + s
  BY <1>1, <1>2
<1>4. ((n * (q + p)) + s) % n = s /\ ((n * p) + s) % n = s
  BY ModIs
<1> QED  BY <1>1, <1>2, <1>3, <1>4

\* A number may be reduced twice if the one width divides the other.
LEMMA ModOfMod ==
  ASSUME NEW n \in Nat \ {0}, NEW m \in Nat \ {0}, m % n = 0, NEW a \in Nat
  PROVE  (a % m) % n = a % n
<1>1. PICK k \in Nat : m = n * k
  <2>1. m = n * (m \div n) + (m % n) /\ m \div n \in Nat
    BY DivMod
  <2> QED  BY <2>1
<1>2. PICK q \in Nat, r \in Nat : a = (m * q) + r /\ a % m = r
  <2>1. a = m * (a \div m) + (a % m) /\ a % m \in 0 .. (m - 1) /\ a \div m \in Nat
    BY DivMod
  <2>2. a % m \in Nat
    BY <2>1
  <2> QED  BY <2>1, <2>2
<1>3. PICK p \in Nat, s \in 0 .. (n - 1) : r = (n * p) + s
  <2>1. r = n * (r \div n) + (r % n) /\ r % n \in 0 .. (n - 1) /\ r \div n \in Nat
    BY <1>2, DivMod
  <2> QED  BY <2>1
<1>4. a = (n * ((k * q) + p)) + s
  <2>1. (n * k) * q = n * (k * q) /\ k * q \in Nat
    BY <1>1, <1>2
  <2>2. n * ((k * q) + p) = n * (k * q) + n * p
    BY <1>3, <2>1
  <2> QED  BY <1>1, <1>2, <1>3, <2>1, <2>2
<1>5. (k * q) + p \in Nat
  BY <1>1, <1>2, <1>3
<1>6. ((n * ((k * q) + p)) + s) % n = s /\ ((n * p) + s) % n = s
  BY <1>3, <1>5, ModIs
<1> QED  BY <1>2, <1>3, <1>4, <1>6

LEMMA ModNat == ASSUME NEW n \in Nat \ {0}, NEW a \in Nat
                PROVE  a % n \in Nat /\ a % n < n /\ (a % n) % n = a % n
<1>1. a % n \in 0 .. (n - 1)
  BY DivMod
<1>2. ((n * 0) + (a % n)) % n = a % n
  BY <1>1, ModIs
<1>3. (n * 0) + (a % n) = a % n
  BY <1>1
<1> QED  BY <1>1, <1>2, <1>3

\* Equal numbers stay equal.
LEMMA ModNext ==
  ASSUME NEW n \in Nat \ {0}, NEW a \in Nat, NEW b \in Nat, a % n = b % n, NEW c \in Nat
  PROVE  (c + a) % n = (c + b) % n
<1>1. (c + (a % n)) % n = (c + a) % n /\ (c + (b % n)) % n = (c + b) % n
  BY ModOfSum
<1> QED  BY <1>1

\* The clock t of a frame's clock b and k repeats of d each.
Added(n, t, d) == (t + d) % n
Clocks(n, d, t, b, k) == t % n = (b + (k * d)) % n

\* The clock of repeats: k of them are k intervals, also where k wraps around.
LEMMA ClockAdvances ==
  ASSUME NEW n \in Nat \ {0}, NEW d \in Nat, NEW t \in Nat, NEW b \in Nat,
         NEW k \in Nat, k < n, Clocks(n, d, t, b, k)
  PROVE  Clocks(n, d, Added(n, t, d), b, Added(n, k, 1))
<1> SUFFICES ((t + d) % n) % n = (b + (((k + 1) % n) * d)) % n
  BY DEF Clocks, Added
<1> t % n = (b + (k * d)) % n
  BY DEF Clocks
<1>1. k * d \in Nat /\ t + d \in Nat
  OBVIOUS
<1>2. ((t + d) % n) % n = (t + d) % n
  BY <1>1, ModNat, Zenon
<1>3. (d + t) % n = (d + (b + (k * d))) % n
  <2>1. b + (k * d) \in Nat
    BY <1>1
  <2> QED  BY <2>1, ModNext, Zenon
<1>4. d + t = t + d /\ d + (b + (k * d)) = b + ((k + 1) * d) /\ (k + 1) * d \in Nat
  BY <1>1
<1>5. CASE k + 1 < n
  <2>1. (k + 1) % n = k + 1
    <3>1. k + 1 \in 0 .. (n - 1) /\ (n * 0) + (k + 1) = k + 1
      BY <1>5
    <3>2. ((n * 0) + (k + 1)) % n = k + 1
      BY <3>1, ModIs
    <3> QED  BY <3>1, <3>2
  <2> QED  BY <1>2, <1>3, <1>4, <2>1
<1>6. CASE k + 1 = n
  <2>1. n % n = 0 /\ (n * d) % n = 0
    <3>1. ((n * 1) + 0) % n = 0 /\ ((n * d) + 0) % n = 0
      <4>1. 0 \in 0 .. (n - 1)
        OBVIOUS
      <4> QED  BY <4>1, ModIs
    <3>2. (n * 1) + 0 = n /\ n * d \in Nat /\ (n * d) + 0 = n * d
      OBVIOUS
    <3> QED  BY <3>1, <3>2
  <2>2. (b + ((n * d) % n)) % n = (b + (n * d)) % n
    <3>1. n * d \in Nat
      OBVIOUS
    <3> QED  BY <3>1, ModOfSum
  <2>3. (b + (0 * d)) % n = (b + 0) % n
    OBVIOUS
  <2> QED  BY <1>2, <1>3, <1>4, <1>6, <2>1, <2>2, <2>3
<1>7. k + 1 < n \/ k + 1 = n
  OBVIOUS
<1> QED  BY <1>5, <1>6, <1>7

----------------------------------------------------------------------------
(* The hat.                                                                *)

LEMMA Hats ==
  /\ HatButtons(0) = {"up"} /\ HatButtons(1) = {"up", "right"}
  /\ HatButtons(2) = {"right"} /\ HatButtons(3) = {"down", "right"}
  /\ HatButtons(4) = {"down"} /\ HatButtons(5) = {"down", "left"}
  /\ HatButtons(6) = {"left"} /\ HatButtons(7) = {"up", "left"}
  /\ HatButtons(8) = {}
BY DEF HatButtons, HatDirections

Opposed(buttons) == {"up", "down"} \subseteq buttons \/ {"left", "right"} \subseteq buttons

\* The hat shows the directions unless they are opposite.
LEMMA HatShows ==
  ASSUME NEW buttons
  PROVE  HatButtons(DpadValue(buttons)) = IF Opposed(buttons) THEN {} ELSE buttons \cap Dpad
<1> DEFINE dpad == buttons \cap Dpad
           Shown(h) == HatButtons(h) = dpad
<1>1. 0 .. 7 = {0, 1, 2, 3, 4, 5, 6, 7}
  OBVIOUS
<1>2. ASSUME Opposed(buttons) \/ dpad = {}
      PROVE  \A h \in 0 .. 7 : ~Shown(h)
  <2>1. CASE dpad = {}
    BY <1>1, <2>1, Hats
  <2>2. CASE Opposed(buttons)
    <3>1. {"up", "down"} \subseteq dpad \/ {"left", "right"} \subseteq dpad
      BY <2>2 DEF Opposed, Dpad
    <3> HIDE DEF dpad
    <3> QED  BY <1>1, <3>1, Hats
  <2> QED  BY <1>2, <2>1, <2>2
<1>3. ASSUME ~Opposed(buttons), dpad # {}
      PROVE  \E h \in 0 .. 7 : Shown(h)
  <2>1. dpad \subseteq {"up", "down", "left", "right"}
    BY DEF Dpad
  <2>2. ~({"up", "down"} \subseteq dpad) /\ ~({"left", "right"} \subseteq dpad)
    BY <1>3 DEF Opposed
  <2> HIDE DEF dpad
  <2>3. CASE "up" \in dpad
    <3>1. dpad = {"up"} \/ dpad = {"up", "right"} \/ dpad = {"up", "left"}
      BY <2>1, <2>2, <2>3
    <3> QED  BY <1>1, <3>1, Hats
  <2>4. CASE "down" \in dpad
    <3>1. dpad = {"down"} \/ dpad = {"down", "right"} \/ dpad = {"down", "left"}
      BY <2>1, <2>2, <2>4
    <3> QED  BY <1>1, <3>1, Hats
  <2>5. CASE "up" \notin dpad /\ "down" \notin dpad
    <3>1. dpad = {"left"} \/ dpad = {"right"}
      BY <1>3, <2>1, <2>2, <2>5
    <3> QED  BY <1>1, <3>1, Hats
  <2> QED  BY <2>3, <2>4, <2>5
<1>4. CASE Opposed(buttons) \/ dpad = {}
  <2>1. DpadValue(buttons) = 8
    BY <1>2, <1>4 DEF DpadValue
  <2> QED  BY <1>4, <2>1, Hats
<1>5. CASE ~Opposed(buttons) /\ dpad # {}
  <2>1. Shown(DpadValue(buttons))
    BY <1>3, <1>5 DEF DpadValue
  <2> QED  BY <1>5, <2>1
<1> QED  BY <1>4, <1>5

LEMMA HatTyped == ASSUME NEW buttons PROVE DpadValue(buttons) \in 0 .. 8
<1>1. CASE \E h \in 0 .. 7 : HatButtons(h) = buttons \cap Dpad
  BY <1>1 DEF DpadValue
<1>2. CASE ~\E h \in 0 .. 7 : HatButtons(h) = buttons \cap Dpad
  <2>1. DpadValue(buttons) = 8
    BY <1>2 DEF DpadValue
  <2> QED  BY <2>1
<1> QED  BY <1>1, <1>2

----------------------------------------------------------------------------
(* The touchpad.                                                           *)

Points == [1 .. 4 -> Byte]
Nibble == 0 .. 15
Lines == 0 .. 4095

LEMMA Nibbles ==
  ASSUME NEW b \in Nat
  PROVE  Low(b) \in Nibble /\ High(b) \in Nat /\ b = 16 * High(b) + Low(b)
BY DEF Low, High, Nibble

LEMMA NibblesOf ==
  ASSUME NEW l \in Nibble, NEW h \in Nat
  PROVE  Low(l + 16 * h) = l /\ High(l + 16 * h) = h
BY DEF Low, High, Nibble

Packed(a, n, b) == (a * n) + b

LEMMA PackedIs ==
  ASSUME NEW a \in Byte, NEW b \in Nibble
  PROVE  Packed(a, 16, b) \in Lines /\ Packed(b, 256, a) \in Nat
BY DEF Packed, Byte, Nibble, Lines

\* The line of a DualShock 4 touchpad for one of a DualSense.
Rescaled(y) == (y * 942) \div 1080

LEMMA RescaledIs ==
  ASSUME NEW y \in Lines
  PROVE  Rescaled(y) \in Lines
BY DEF Rescaled, Lines

LEMMA Coordinates ==
  ASSUME NEW p \in Points
  PROVE  ContactY(p) \in Lines /\ ContactX(p) \in Nat
<1>1. p[2] \in Byte /\ p[3] \in Byte /\ p[4] \in Byte
  BY DEF Points
<1>2. High(p[3]) \in Nibble /\ Low(p[3]) \in Nibble
  BY <1>1 DEF High, Low, Byte, Nibble
<1>3. Packed(p[4], 16, High(p[3])) \in Lines /\ Packed(Low(p[3]), 256, p[2]) \in Nat
  BY <1>1, <1>2, PackedIs
<1> QED  BY <1>3 DEF ContactX, ContactY, Packed

\* A contact keeps its place on the smaller touchpad.
LEMMA PointWritten ==
  ASSUME NEW p \in Points, NEW w, w = WritePoint(p)
  PROVE  /\ Active(w) <=> Active(p)
         /\ Active(p) => /\ ContactId(w) = ContactId(p) /\ ContactX(w) = ContactX(p)
                         /\ ContactY(w) = Rescaled(ContactY(p))
<1>1. CASE ~Active(p)
  <2>1. w = <<128, 0, 0, 0>>
    BY <1>1 DEF WritePoint, Untouched
  <2>2. w[1] = 128
    BY <2>1
  <2> QED  BY <1>1, <2>2 DEF Active
<1>2. CASE Active(p)
  <2> DEFINE y == Rescaled(ContactY(p))
             l == Low(p[3])
  <2>1. y \in Lines
    BY Coordinates, RescaledIs
  <2>2. w = <<p[1], p[2], l + 16 * Low(y), (y \div 16) % 256>>
    BY <1>2 DEF WritePoint, Rescaled
  <2> HIDE DEF y
  <2>3. l \in Nibble /\ Low(y) \in Nibble /\ High(y) \in Nat /\ y = 16 * High(y) + Low(y)
    <3>1. p[3] \in Nat /\ y \in Nat
      BY <2>1 DEF Points, Byte, Lines
    <3> QED  BY <3>1, Nibbles
  <2>4. (y \div 16) % 256 = High(y)
    BY <2>1 DEF High, Lines
  <2> HIDE DEF l
  <2>5. w[1] = p[1] /\ w[2] = p[2] /\ w[3] = l + 16 * Low(y) /\ w[4] = High(y)
    BY <2>2, <2>4
  <2>6. Low(w[3]) = l /\ High(w[3]) = Low(y)
    <3>1. Low(y) \in Nat
      BY <2>3 DEF Nibble
    <3> QED  BY <2>3, <2>5, <3>1, NibblesOf
  <2>7. ContactX(w) = ContactX(p)
    BY <2>5, <2>6 DEF ContactX, l
  <2>8. ContactY(w) = y
    BY <2>3, <2>5, <2>6 DEF ContactY, Nibble
  <2> QED  BY <1>2, <2>5, <2>7, <2>8 DEF Active, ContactId, y
<1> QED  BY <1>1, <1>2

TouchOf(p, lines) ==
  [id |-> ContactId(p), x |-> ContactX(p), y |-> (ContactY(p) * lines) \div 1080]

LEMMA TouchesAre ==
  ASSUME NEW points, NEW lines, NEW t
  PROVE  t \in Touches(points, lines) <=>
           \E i \in 1 .. 2 : Active(points[i]) /\ t = TouchOf(points[i], lines)
<1>1. \A i : LET c == ParseTouchpadContact(points[i])
             IN [id |-> c.id, x |-> c.x, y |-> (c.y * lines) \div 1080]
                  = TouchOf(points[i], lines)
  BY DEF ParseTouchpadContact, TouchOf
<1> DEFINE In == {i \in 1 .. 2 : Active(points[i])}
           Parsed == {ParseTouchpadContact(points[i]) : i \in In}
           At(c) == [id |-> c.id, x |-> c.x, y |-> (c.y * lines) \div 1080]
<1>2. Touches(points, lines) = {At(c) : c \in Parsed}
  BY DEF Touches
<1>3. t \in Touches(points, lines) <=> \E c \in Parsed : t = At(c)
  BY <1>2
<1>4. (\E c \in Parsed : t = At(c)) <=> \E i \in In : t = At(ParseTouchpadContact(points[i]))
  <2> HIDE DEF At, In
  <2> QED  OBVIOUS
<1>5. \A i : At(ParseTouchpadContact(points[i])) = TouchOf(points[i], lines)
  BY <1>1
<1> HIDE DEF At
<1> QED  BY <1>3, <1>4, <1>5

LEMMA TouchesWritten ==
  ASSUME NEW points \in [1 .. 2 -> Points],
         NEW written, written = [i \in 1 .. 2 |-> WritePoint(points[i])]
  PROVE  Touches(written, 1080) = Touches(points, 942)
<1>1. \A i \in 1 .. 2 : /\ Active(written[i]) <=> Active(points[i])
                        /\ Active(points[i]) => TouchOf(written[i], 1080) = TouchOf(points[i], 942)
  <2> SUFFICES ASSUME NEW i \in 1 .. 2
               PROVE  /\ Active(written[i]) <=> Active(points[i])
                      /\ Active(points[i]) => TouchOf(written[i], 1080) = TouchOf(points[i], 942)
    OBVIOUS
  <2>1. points[i] \in Points /\ written[i] = WritePoint(points[i])
    OBVIOUS
  <2>2. Active(written[i]) <=> Active(points[i])
    BY <2>1, PointWritten
  <2>3. ASSUME Active(points[i]) PROVE TouchOf(written[i], 1080) = TouchOf(points[i], 942)
    <3> DEFINE y == Rescaled(ContactY(points[i]))
    <3>1. /\ ContactId(written[i]) = ContactId(points[i])
          /\ ContactX(written[i]) = ContactX(points[i]) /\ ContactY(written[i]) = y
      BY <2>1, <2>3, PointWritten
    <3>2. y \in Nat
      <4>1. y \in Lines
        BY <2>1, Coordinates, RescaledIs
      <4> HIDE DEF y
      <4> QED  BY <4>1 DEF Lines
    <3> HIDE DEF y
    <3>3. (y * 1080) \div 1080 = y
      BY <3>2
    <3> QED  BY <3>1, <3>3 DEF TouchOf, y, Rescaled
  <2> QED  BY <2>2, <2>3
<1>2. \A t : t \in Touches(written, 1080) <=> t \in Touches(points, 942)
  BY <1>1, TouchesAre
<1> QED  BY <1>2

----------------------------------------------------------------------------
(* Reports.                                                                *)

Form(target, r) ==
  IF target = "ds4"
  THEN r \in [kind : {"ds4"}, axes : {r.axes}, hat : {r.hat}, bits : {r.bits}, seq : {r.seq},
              time : {r.time}, touchSeq : {r.touchSeq}, motion : {r.motion},
              contacts : {r.contacts}, touches : {r.touches}]
  ELSE r \in [kind : {"ds5"}, axes : {r.axes}, hat : {r.hat}, bits : {r.bits}, seq : {r.seq},
              low : {r.low}, motion : {r.motion}, time : {r.time}, contacts : {r.contacts}]

\* A report shows a frame.
Shows(target, r, of) ==
  /\ Form(target, r) /\ r.hat \in 0 .. 8 /\ r.bits \subseteq Ds5Bits
  /\ r.bits \cup HatButtons(r.hat) = Visible(target, of.state.buttons)
  /\ r.axes = of.state.axes /\ r.motion = of.backing.motion
  /\ Touches(r.contacts, 1080)
       = Touches(of.backing.contacts, IF target = "ds4" THEN 942 ELSE 1080)

Size(target) == IF target = "ds4" THEN Ds4SeqSize ELSE SeqSize

LEMMA SizeDivides ==
  ASSUME NEW target
  PROVE  Size(target) \in Nat \ {0} /\ SeqSize \in Nat \ {0} /\ SeqSize % Size(target) = 0
<1>1. SeqSize % SeqSize = 0
  <2>1. ((SeqSize * 1) + 0) % SeqSize = 0
    BY ModIs, CodecAssumption
  <2>2. (SeqSize * 1) + 0 = SeqSize
    BY CodecAssumption
  <2> QED  BY <2>1, <2>2
<1> QED  BY <1>1, CodecAssumption DEF Size

LEMMA EncodeShows ==
  ASSUME NEW target, NEW of, of.backing \in Reports, NEW n \in Nat,
         NEW r, r = EncodeInput(target, of, n)
  PROVE  /\ Shows(target, r, of) /\ r.seq \in Nat
         /\ target = "ds4" => r.seq = n % Ds4SeqSize /\ r.time = n
         /\ target # "ds4" => r.seq = n /\ r.time = of.backing.time
<1> DEFINE hat == DpadValue(of.state.buttons)
<1>1. HatButtons(hat) = IF Opposed(of.state.buttons) THEN {} ELSE of.state.buttons \cap Dpad
  BY HatShows
<1>5. hat \in 0 .. 8
  BY HatTyped
<1> HIDE DEF hat
<1>2. of.backing.contacts \in [1 .. 2 -> Points]
  BY HostAssumption DEF Points
<1>3. CASE target = "ds4"
  <2> DEFINE points == [i \in 1 .. 2 |-> WritePoint(of.backing.contacts[i])]
             bits == of.state.buttons \cap Ds4Bits
             number == n % Ds4SeqSize
             touches == IF \E i \in 1 .. 2 : Active(points[i]) THEN 1 ELSE 0
  <2>1. Touches(points, 1080) = Touches(of.backing.contacts, 942)
    BY <1>2, TouchesWritten
  <2>2. r = [kind |-> "ds4", axes |-> of.state.axes, hat |-> hat, bits |-> bits,
             seq |-> number, time |-> n, touchSeq |-> number,
             motion |-> of.backing.motion, contacts |-> points, touches |-> touches]
    BY <1>3 DEF EncodeInput, Ds4Encode, hat
  <2>3. bits \cup HatButtons(hat) = Visible(target, of.state.buttons) /\ bits \subseteq Ds5Bits
    BY <1>1, <1>3 DEF Visible, Opposed, Ds5Bits
  <2>4. number \in Nat
    BY ModNat, CodecAssumption
  <2> HIDE DEF points, bits, number, touches
  <2>5. Form(target, r)
    BY <1>3, <2>2 DEF Form
  <2>6. /\ r.axes = of.state.axes /\ r.hat = hat /\ r.bits = bits /\ r.seq = number
        /\ r.time = n /\ r.motion = of.backing.motion /\ r.contacts = points
    BY <2>2
  <2> QED  BY <1>3, <1>5, <2>1, <2>3, <2>4, <2>5, <2>6 DEF Shows, number
<1>4. CASE target # "ds4"
  <2> DEFINE bits == of.state.buttons \cap Ds5Bits
  <2>1. r = [kind |-> "ds5", axes |-> of.state.axes, hat |-> hat, bits |-> bits,
             seq |-> n, low |-> of.backing.low, motion |-> of.backing.motion,
             time |-> of.backing.time, contacts |-> of.backing.contacts]
    BY <1>4 DEF EncodeInput, Ds5Encode, hat
  <2>2. bits \cup HatButtons(hat) = Visible(target, of.state.buttons) /\ bits \subseteq Ds5Bits
    BY <1>1, <1>4 DEF Visible, Opposed
  <2> HIDE DEF bits
  <2>3. Form(target, r)
    BY <1>4, <2>1 DEF Form
  <2>4. /\ r.axes = of.state.axes /\ r.hat = hat /\ r.bits = bits /\ r.seq = n
        /\ r.time = of.backing.time /\ r.motion = of.backing.motion
        /\ r.contacts = of.backing.contacts
    BY <2>1
  <2> QED  BY <1>4, <1>5, <2>2, <2>3, <2>4 DEF Shows
<1> QED  BY <1>3, <1>4

\* A new number or clock leaves what a report shows.
Ds5Stamped(r, n, t) == [r EXCEPT !.seq = n, !.time = t]
Ds4Stamped(r, n, t, c) == [r EXCEPT !.seq = n, !.time = t, !.touchSeq = c]

LEMMA Ds5Kept ==
  ASSUME NEW target, target # "ds4", NEW r, NEW of, Shows(target, r, of), NEW n, NEW t
  PROVE  /\ Shows(target, Ds5Stamped(r, n, t), of)
         /\ Ds5Stamped(r, n, t).seq = n /\ Ds5Stamped(r, n, t).time = t
<1> DEFINE e == Ds5Stamped(r, n, t)
<1>1. r \in [kind : {"ds5"}, axes : {r.axes}, hat : {r.hat}, bits : {r.bits}, seq : {r.seq},
             low : {r.low}, motion : {r.motion}, time : {r.time}, contacts : {r.contacts}]
  BY DEF Shows, Form
<1>2. e \in [kind : {"ds5"}, axes : {r.axes}, hat : {r.hat}, bits : {r.bits}, seq : {n},
             low : {r.low}, motion : {r.motion}, time : {t}, contacts : {r.contacts}]
  BY ONLY <1>1 DEF e, Ds5Stamped
<1> HIDE DEF e
<1>3. /\ e.axes = r.axes /\ e.hat = r.hat /\ e.bits = r.bits /\ e.motion = r.motion
      /\ e.contacts = r.contacts /\ e.seq = n /\ e.time = t /\ e.low = r.low
  BY ONLY <1>2
<1>4. Form(target, e)
  BY <1>2, <1>3 DEF Form
<1>5. Shows(target, e, of)
  BY <1>3, <1>4 DEF Shows
<1> QED  BY <1>3, <1>5 DEF e

LEMMA Ds4Kept ==
  ASSUME NEW target, target = "ds4", NEW r, NEW of, Shows(target, r, of),
         NEW n, NEW t, NEW d
  PROVE  /\ Shows(target, Ds4Stamped(r, n, t, d), of)
         /\ Ds4Stamped(r, n, t, d).seq = n /\ Ds4Stamped(r, n, t, d).time = t
<1> DEFINE e == Ds4Stamped(r, n, t, d)
<1>1. r \in [kind : {"ds4"}, axes : {r.axes}, hat : {r.hat}, bits : {r.bits}, seq : {r.seq},
             time : {r.time}, touchSeq : {r.touchSeq}, motion : {r.motion},
             contacts : {r.contacts}, touches : {r.touches}]
  BY DEF Shows, Form
<1>2. e \in [kind : {"ds4"}, axes : {r.axes}, hat : {r.hat}, bits : {r.bits}, seq : {n},
             time : {t}, touchSeq : {d}, motion : {r.motion},
             contacts : {r.contacts}, touches : {r.touches}]
  BY ONLY <1>1 DEF e, Ds4Stamped
<1> HIDE DEF e
<1>3. /\ e.axes = r.axes /\ e.hat = r.hat /\ e.bits = r.bits /\ e.motion = r.motion
      /\ e.contacts = r.contacts /\ e.seq = n /\ e.time = t /\ e.touchSeq = d
      /\ e.touches = r.touches
  BY ONLY <1>2
<1>4. Form(target, e)
  BY <1>2, <1>3 DEF Form
<1>5. Shows(target, e, of)
  BY <1>3, <1>4 DEF Shows
<1> QED  BY <1>3, <1>5 DEF e

\* What a runtime's report keeps and what it changes.
LEMMA PreserveShows ==
  ASSUME NEW previous, NEW updated, NEW of, Shows(session.target, updated, of),
         NEW e, e = Preserve(previous, updated)
  PROVE  /\ Shows(session.target, e, of)
         /\ session.target # "ds4" =>
              e.time = IF session.repeat = "seq_ts" THEN previous.time ELSE updated.time
<1>1. CASE session.target = "ds4"
  <2>1. updated.kind = "ds4"
    BY <1>1 DEF Shows, Form
  <2>2. e = Ds4Stamped(updated, previous.seq, previous.time, previous.touchSeq)
    BY <2>1 DEF Preserve, Ds4Stamped
  <2> QED  BY <1>1, <2>2, Ds4Kept
<1>2. CASE session.target # "ds4"
  <2> DEFINE t == IF session.repeat = "seq_ts" THEN previous.time ELSE updated.time
  <2>1. updated.kind = "ds5"
    BY <1>2 DEF Shows, Form
  <2>2. e = Ds5Stamped(updated, previous.seq, t)
    <3>1. updated.kind # "ds4"
      BY <2>1
    <3> QED  BY <3>1 DEF Preserve, Ds5Stamped
  <2>3. Shows(session.target, e, of) /\ e.time = t
    <3> HIDE DEF t
    <3> QED  BY <1>2, <2>2, Ds5Kept
  <2> QED  BY <1>2, <2>3
<1> QED  BY <1>1, <1>2

LEMMA AdvanceShows ==
  ASSUME NEW r, NEW of, Shows(session.target, r, of), NEW number,
         NEW e, e = Advance(r, number)
  PROVE  /\ Shows(session.target, e, of) /\ e.seq = number
         /\ session.target = "ds4" => e.time = number
         /\ session.target # "ds4" =>
              e.time = IF session.repeat = "seq_ts"
                       THEN (r.time + TimeDelta) % TimeSize ELSE r.time
<1>1. CASE session.target = "ds4"
  <2>1. r.kind = "ds4"
    BY <1>1 DEF Shows, Form
  <2>2. e = Ds4Stamped(r, number, number, number)
    BY <2>1 DEF Advance, Ds4Stamped
  <2> QED  BY <1>1, <2>2, Ds4Kept
<1>2. CASE session.target # "ds4"
  <2> DEFINE t == IF session.repeat = "seq_ts" THEN (r.time + TimeDelta) % TimeSize ELSE r.time
  <2>1. r.kind = "ds5"
    BY <1>2 DEF Shows, Form
  <2>2. e = Ds5Stamped(r, number, t)
    <3>1. r.kind # "ds4"
      BY <2>1
    <3> QED  BY <3>1 DEF Advance, Ds5Stamped
  <2>3. Shows(session.target, e, of) /\ e.seq = number /\ e.time = t
    <3> HIDE DEF t
    <3> QED  BY <1>2, <2>2, Ds5Kept
  <2> QED  BY <1>2, <2>3
<1> QED  BY <1>1, <1>2

Framed(f) ==
  /\ f = [state |-> [buttons |-> f.state.buttons, axes |-> f.state.axes], backing |-> f.backing]
  /\ f.backing \in Reports

LEMMA ButtonsChange ==
  ASSUME NEW f, Framed(f), NEW b, NEW g, g = WithButtons(f, b)
  PROVE  Framed(g) /\ g.backing = f.backing
<1>1. f = [state |-> [buttons |-> f.state.buttons, axes |-> f.state.axes],
           backing |-> f.backing]
  BY DEF Framed
<1>2. g = [state |-> [buttons |-> b, axes |-> f.state.axes], backing |-> f.backing]
  BY <1>1 DEF WithButtons
<1>3. g.backing = f.backing /\ g.state.buttons = b /\ g.state.axes = f.state.axes
  BY ONLY <1>2
<1> QED  BY <1>2, <1>3 DEF Framed

LEMMA DecodeFrames ==
  ASSUME NEW raw, raw.report \in Reports, NEW f, f = DecodeInput(raw)
  PROVE  Framed(f) /\ f.backing = raw.report
<1>1. PICK b, a : f = [state |-> [buttons |-> b, axes |-> a], backing |-> raw.report]
  BY DEF DecodeInput, ParseInput
<1>2. f.backing = raw.report /\ f.state.buttons = b /\ f.state.axes = a
  BY ONLY <1>1
<1> QED  BY <1>1, <1>2 DEF Framed

----------------------------------------------------------------------------
(* The invariant.                                                          *)

Sessions ==
  {s \in [source : Sources, target : Targets, repeat : RepeatModes] :
     s.target = "ds4" => s.repeat # "seq_ts"}

\* Outside a session nothing is kept.
SessionInv ==
  /\ session = Nothing \/ session \in Sessions
  /\ session = Nothing => frame = Nothing /\ cached = Nothing /\ sent = Nothing

CursorInv ==
  /\ seq \in Nat /\ reads \in Nat /\ repeats \in Nat /\ repeats < TimeSize
  /\ frame # Nothing => Framed(frame)

\* What repeats have added to the clock.
Shift(k) == IF session.repeat = "seq_ts" THEN k * TimeDelta ELSE 0

\* The report that is repeated shows the newest frame, through the mapping as
\* it was when a runtime last changed it, and has the clock of its repeats.
CachedRight ==
  /\ Framed(frame) /\ Framed(meaning) /\ meaning.backing = frame.backing
  /\ Shows(session.target, cached, meaning)
  /\ session.target # "ds4" =>
       /\ cached.time \in Nat
       /\ cached.time % TimeSize = (frame.backing.time + Shift(repeats)) % TimeSize

CachedInv ==
  (session # Nothing /\ (frame # Nothing \/ cached # Nothing)) =>
    /\ cached # Nothing => Repeating
    /\ Repeating => CachedRight

\* The report last sent, its number and its clock.
SentRight ==
  /\ Framed(sent.of) /\ Shows(session.target, sent.report, sent.of)
  /\ sent.report.seq \in Nat /\ sent.seq \in Nat /\ sent.repeats \in Nat
  /\ sent.report.seq = sent.seq % Size(session.target)
  /\ seq % Size(session.target) = (sent.report.seq + reads) % Size(session.target)
  /\ IF session.target = "ds4"
     THEN sent.report.time % Ds4SeqSize = sent.report.seq
     ELSE sent.report.time % TimeSize = (sent.of.backing.time + Shift(sent.repeats)) % TimeSize

SentInv == sent # Nothing => SentRight

HostInv == SessionInv /\ CursorInv /\ CachedInv /\ SentInv

LEMMA HostStarts == HostInit => HostInv
<1> SUFFICES ASSUME HostInit PROVE HostInv
  OBVIOUS
<1> QED  BY HostAssumption DEF HostInit, HostInv, SessionInv, CursorInv, CachedInv, SentInv

LEMMA TimeOfFrame ==
  ASSUME NEW f, Framed(f)
  PROVE  f.backing \in Reports /\ f.backing.time \in Nat
BY HostAssumption DEF Framed

LEMMA NextNumber ==
  ASSUME HostInv
  PROVE  Next1(seq) \in Nat /\ Next1(seq) % SeqSize = Next1(seq)
<1>1. seq + 1 \in Nat /\ SeqSize \in Nat \ {0}
  BY CodecAssumption DEF HostInv, CursorInv
<1>2. PICK n \in Nat : n = seq + 1
  BY <1>1
<1>3. n % SeqSize \in Nat /\ (n % SeqSize) % SeqSize = n % SeqSize
  BY <1>1, ModNat
<1> QED  BY <1>2, <1>3 DEF Next1

\* A report that is sent is right if it has the next number, shows what it is
\* to show, and has the right clock.
LEMMA SendRight ==
  ASSUME HostInv, session # Nothing, session' = session, NEW report, NEW of, Send(report, of),
         Framed(of), Shows(session.target, report, of), repeats' \in Nat,
         report.seq = Next1(seq) % Size(session.target), seq' \in Nat,
         seq' % Size(session.target) = report.seq,
         IF session.target = "ds4"
         THEN report.time % Ds4SeqSize = report.seq
         ELSE report.time % TimeSize = (of.backing.time + Shift(repeats')) % TimeSize
  PROVE  SentRight'
<1> DEFINE n == Size(session.target)
           number == IF sent = Nothing THEN report.seq
                     ELSE (sent.report.seq + reads + 1) % SeqSize
<1>1. /\ sent' = [report |-> report, of |-> of, repeats |-> repeats', seq |-> number]
      /\ reads' = 0
  BY DEF Send
<1>2. n \in Nat \ {0} /\ SeqSize \in Nat \ {0} /\ SeqSize % n = 0
  BY SizeDivides
<1>3. Next1(seq) \in Nat
  BY NextNumber
<1>4. report.seq \in Nat /\ report.seq % n = report.seq
  <2> HIDE DEF n
  <2>1. PICK m \in Nat : m = Next1(seq)
    BY <1>3
  <2>2. m % n \in Nat /\ (m % n) % n = m % n
    BY <1>2, ModNat
  <2>3. report.seq = m % n
    BY <2>1 DEF n
  <2> QED  BY <2>2, <2>3
<1>5. number \in Nat /\ report.seq = number % n
  <2>1. CASE sent = Nothing
    BY <1>4, <2>1
  <2>2. CASE sent # Nothing
    <3>1. /\ seq \in Nat /\ reads \in Nat /\ sent.report.seq \in Nat
          /\ seq % n = (sent.report.seq + reads) % n
      BY <2>2 DEF HostInv, CursorInv, SentInv, SentRight
    <3>2. PICK a \in Nat, b \in Nat, c \in Nat :
            /\ a = sent.report.seq + reads /\ b = a + 1 /\ c = seq + 1
            /\ b = sent.report.seq + reads + 1 /\ b = 1 + a /\ c = 1 + seq
      BY <3>1
    <3> HIDE DEF n
    <3>3. (1 + seq) % n = (1 + a) % n
      <4>1. PICK q \in Nat, k \in Nat \ {0} : q = seq /\ k = n
        BY <1>2, <3>1
      <4>2. q % k = a % k /\ 1 \in Nat
        BY <3>1, <3>2, <4>1
      <4>3. (1 + q) % k = (1 + a) % k
        BY ONLY q \in Nat, k \in Nat \ {0}, a \in Nat, <4>2, ModNext
      <4> QED  BY <4>1, <4>3
    <3>4. (b % SeqSize) % n = b % n /\ (c % SeqSize) % n = c % n /\ b % SeqSize \in Nat
      BY ONLY <1>2, <3>2, ModOfMod, ModNat
    <3>5. number = b % SeqSize /\ Next1(seq) = c % SeqSize
      BY <2>2, <3>2 DEF Next1
    <3>6. report.seq = Next1(seq) % n
      BY DEF n
    <3> HIDE DEF number
    <3> QED  BY <3>2, <3>3, <3>4, <3>5, <3>6
  <2> QED  BY <2>1, <2>2
<1> HIDE DEF number, n
<1>6. sent'.report = report /\ sent'.of = of /\ sent'.repeats = repeats' /\ sent'.seq = number
  BY <1>1
<1>7. seq' % n = (report.seq + reads') % n
  <2>1. report.seq + reads' = report.seq
    BY <1>1, <1>4
  <2>2. seq' % n = report.seq
    BY DEF n
  <2> QED  BY <1>4, <2>1, <2>2
<1>8. SentRight' =
        /\ Framed(sent'.of) /\ Shows(session.target, sent'.report, sent'.of)
        /\ sent'.report.seq \in Nat /\ sent'.seq \in Nat /\ sent'.repeats \in Nat
        /\ sent'.report.seq = sent'.seq % n
        /\ seq' % n = (sent'.report.seq + reads') % n
        /\ IF session.target = "ds4"
           THEN sent'.report.time % Ds4SeqSize = sent'.report.seq
           ELSE sent'.report.time % TimeSize
                  = (sent'.of.backing.time
                       + (IF session.repeat = "seq_ts" THEN sent'.repeats * TimeDelta ELSE 0))
                      % TimeSize
  BY DEF SentRight, n, Shift
<1> QED  BY <1>4, <1>5, <1>6, <1>7, <1>8 DEF Shift

\* A report that is read and not sent is counted.
LEMMA ReadCounts ==
  ASSUME HostInv, session' = session, sent' = sent, seq' = Next1(seq),
         reads' = (reads + 1) % SeqSize
  PROVE  SentInv' /\ seq' \in Nat /\ reads' \in Nat
<1>1. seq' \in Nat
  BY NextNumber
<1>2. reads + 1 \in Nat
  BY DEF HostInv, CursorInv
<1>3. SeqSize \in Nat \ {0}
  BY CodecAssumption
<1>4. (reads + 1) % SeqSize \in Nat
  BY <1>2, <1>3, ModNat
<1>5. ASSUME sent # Nothing PROVE SentRight'
  <2> DEFINE n == Size(session.target)
  <2>1. n \in Nat \ {0} /\ SeqSize % n = 0
    BY SizeDivides
  <2>2. /\ seq \in Nat /\ reads \in Nat /\ sent.report.seq \in Nat
        /\ seq % n = (sent.report.seq + reads) % n
    BY <1>5 DEF HostInv, CursorInv, SentInv, SentRight
  <2>3. ((seq + 1) % SeqSize) % n = (sent.report.seq + ((reads + 1) % SeqSize)) % n
    <3> HIDE DEF n
    <3>1. PICK a \in Nat, b \in Nat, d \in Nat : a = seq /\ b = sent.report.seq /\ d = reads
      BY <2>2
    <3>2. PICK k \in Nat \ {0}, m \in Nat \ {0} : k = n /\ m = SeqSize
      BY <1>3, <2>1
    <3>3. a % k = (b + d) % k /\ m % k = 0
      BY <2>1, <2>2, <3>1, <3>2
    <3>4. PICK p \in Nat, f \in Nat, g \in Nat :
            /\ p = b + d /\ f = d + 1 /\ g = a + 1
            /\ g = 1 + a /\ 1 + p = b + f
      OBVIOUS
    <3>5. (g % m) % k = g % k /\ (f % m) % k = f % k
      BY ONLY <3>3, <3>4, k \in Nat \ {0}, m \in Nat \ {0}, ModOfMod
    <3>6. (1 + a) % k = (1 + p) % k
      <4>1. a % k = p % k
        BY <3>3, <3>4
      <4>2. PICK u \in Nat : u = 1
        OBVIOUS
      <4>3. (u + a) % k = (u + p) % k
        BY ONLY <4>1, k \in Nat \ {0}, u \in Nat, a \in Nat, p \in Nat, ModNext
      <4> QED  BY ONLY <4>2, <4>3
    <3>7. PICK h \in Nat : h = f % m
      BY ONLY <3>4, m \in Nat \ {0}, ModNat
    <3>8. (b + h) % k = (b + f) % k
      <4>1. h % k = f % k
        BY <3>5, <3>7
      <4> QED  BY ONLY <4>1, k \in Nat \ {0}, b \in Nat, h \in Nat, f \in Nat, ModNext
    <3> QED  BY <3>1, <3>2, <3>4, <3>5, <3>6, <3>7, <3>8
  <2>4. seq' % n = (sent.report.seq + reads') % n
    BY <2>3 DEF Next1
  <2> QED  BY <1>5, <2>4 DEF HostInv, SentInv, SentRight, Shift
<1> QED  BY <1>1, <1>2, <1>4, <1>5 DEF SentInv

----------------------------------------------------------------------------
(* The steps.                                                              *)

\* The report that is repeated, after a step within a session.
LEMMA CachedNext ==
  ASSUME session' = session, Framed(frame'), Framed(meaning'),
         meaning'.backing = frame'.backing, Shows(session.target, cached', meaning'),
         session.target # "ds4" =>
           /\ cached'.time \in Nat
           /\ cached'.time % TimeSize = (frame'.backing.time + Shift(repeats')) % TimeSize
  PROVE  CachedRight'
BY DEF CachedRight, Shift

\* A report that is encoded to be sent.
LEMMA EncodedSent ==
  ASSUME HostInv, session # Nothing, session' = session, seq' = Next1(seq),
         NEW of, Framed(of), Shift(repeats') = 0, repeats' \in Nat,
         NEW report, report = EncodeInput(session.target, of, Next1(seq)), Send(report, of)
  PROVE  SentRight'
<1>1. of.backing \in Reports /\ of.backing.time \in Nat
  BY TimeOfFrame
<1>2. Next1(seq) \in Nat /\ Next1(seq) % SeqSize = Next1(seq)
  BY NextNumber
<1>3. /\ Shows(session.target, report, of)
      /\ session.target = "ds4" =>
           report.seq = Next1(seq) % Ds4SeqSize /\ report.time = Next1(seq)
      /\ session.target # "ds4" => report.seq = Next1(seq) /\ report.time = of.backing.time
  BY <1>1, <1>2, EncodeShows
<1>4. report.seq = Next1(seq) % Size(session.target) /\ seq' % Size(session.target) = report.seq
  BY <1>2, <1>3 DEF Size
<1>5. IF session.target = "ds4"
      THEN report.time % Ds4SeqSize = report.seq
      ELSE report.time % TimeSize = (of.backing.time + Shift(repeats')) % TimeSize
  <2>1. of.backing.time + Shift(repeats') = of.backing.time
    BY <1>1
  <2> QED  BY <1>3, <2>1
<1>6. seq' \in Nat
  BY <1>2
<1> QED  BY <1>3, <1>4, <1>5, <1>6, SendRight

LEMMA StartSessionStep ==
  ASSUME HostInv, NEW s \in Sources, NEW t \in Targets, StartSession(s, t)
  PROVE  HostInv'
<1>1. /\ session = Nothing /\ frame = Nothing /\ cached = Nothing /\ sent = Nothing
      /\ UNCHANGED <<seq, frame, cached, sent, reads, repeats>>
  BY DEF StartSession, HostInv, SessionInv
<1>2. PICK mode \in RepeatModes, ds4 \in BOOLEAN :
        session' = [source |-> s, target |-> t, repeat |-> RepeatMode(s, t, mode, ds4)]
  BY DEF StartSession
<1>3. RepeatMode(s, t, mode, ds4) \in RepeatModes
  BY DEF RepeatMode, RepeatModes
<1>4. t = "ds4" => RepeatMode(s, t, mode, ds4) # "seq_ts"
  BY DEF RepeatMode
<1>5. session' \in Sessions
  <2> DEFINE r == RepeatMode(s, t, mode, ds4)
  <2>1. r \in RepeatModes /\ (t = "ds4" => r # "seq_ts")
    BY <1>3, <1>4
  <2>2. session' = [source |-> s, target |-> t, repeat |-> r]
    BY <1>2
  <2> HIDE DEF r
  <2> QED  BY <2>1, <2>2 DEF Sessions
<1>6. SessionInv'
  BY <1>1, <1>5 DEF SessionInv
<1>7. CursorInv'
  BY <1>1 DEF HostInv, CursorInv
<1>8. CachedInv' /\ SentInv'
  BY <1>1 DEF CachedInv, SentInv
<1> QED  BY <1>6, <1>7, <1>8 DEF HostInv

LEMMA ApplyConfigStep == ASSUME HostInv, ApplyConfig PROVE HostInv'
<1>1. /\ session # Nothing /\ session' = session /\ seq' = seq /\ sent' = sent /\ reads' = reads
      /\ frame' = Nothing /\ cached' = Nothing /\ repeats' = 0
  BY DEF ApplyConfig, Forgotten
<1>2. SessionInv' /\ CachedInv'
  BY <1>1 DEF HostInv, SessionInv, CachedInv
<1>3. CursorInv'
  BY <1>1, HostAssumption DEF HostInv, CursorInv
<1>4. SentInv'
  BY <1>1 DEF HostInv, SentInv, SentRight, Shift
<1> QED  BY <1>2, <1>3, <1>4 DEF HostInv

LEMMA EndSessionStep == ASSUME HostInv, EndSession PROVE HostInv'
BY HostAssumption
   DEF EndSession, Forgotten, HostInv, SessionInv, CursorInv, CachedInv, SentInv

\* What is repeated stays right where a step leaves it alone.
LEMMA CachedStays ==
  ASSUME HostInv, UNCHANGED <<session, frame, cached, meaning, repeats>>
  PROVE  CachedInv'
<1>1. CachedInv
  BY DEF HostInv
<1> QED  BY <1>1 DEF CachedInv, CachedRight, Shift, Repeating

LEMMA ReadInvalidStep == ASSUME HostInv, NEW raw, ReadInvalid(raw) PROVE HostInv'
<1>1. /\ session # Nothing /\ seq' = Next1(seq) /\ reads' = (reads + 1) % SeqSize
      /\ UNCHANGED <<session, frame, cached, sent, meaning, repeats>>
  BY DEF ReadInvalid
<1>2. SentInv' /\ seq' \in Nat /\ reads' \in Nat
  BY <1>1, ReadCounts
<1>3. CachedInv'
  BY <1>1, CachedStays
<1>4. SessionInv' /\ CursorInv'
  BY <1>1, <1>2 DEF HostInv, SessionInv, CursorInv
<1> QED  BY <1>2, <1>3, <1>4 DEF HostInv

LEMMA ReadFrameStep ==
  ASSUME HostInv, NEW raw \in Raws, NEW b, ReadFrame(raw, b)
  PROVE  HostInv'
<1>1. PICK f, g, out :
        /\ f = DecodeInput(raw) /\ g = WithButtons(f, b)
        /\ out = EncodeInput(session.target, g, Next1(seq))
  OBVIOUS
<1>2. /\ session # Nothing /\ session' = session /\ seq' = Next1(seq)
      /\ frame' = f /\ repeats' = 0
      /\ IF Repeating
         THEN cached' = out /\ meaning' = g /\ reads' = (reads + 1) % SeqSize /\ sent' = sent
         ELSE Send(out, g) /\ cached' = cached /\ meaning' = meaning
  BY <1>1 DEF ReadFrame
<1>3. Framed(f) /\ Framed(g) /\ g.backing = f.backing
  <2>1. raw.report \in Reports
    BY DEF Raws
  <2>2. Framed(f)
    BY <1>1, <2>1, DecodeFrames
  <2> QED  BY <1>1, <2>2, ButtonsChange
<1>4. Shift(repeats') = 0 /\ repeats' \in Nat
  BY <1>2, HostAssumption DEF Shift
<1>5. seq' \in Nat /\ Next1(seq) \in Nat
  BY <1>2, NextNumber
<1>6. SessionInv'
  BY <1>2 DEF HostInv, SessionInv
<1>7. CASE Repeating
  <2>1. SentInv' /\ reads' \in Nat
    BY <1>2, <1>7, ReadCounts
  <2>2. g.backing \in Reports /\ g.backing.time \in Nat
    BY <1>3, TimeOfFrame
  <2>3. /\ Shows(session.target, out, g)
        /\ session.target # "ds4" => out.time = g.backing.time
    BY <1>1, <1>5, <2>2, EncodeShows
  <2>4. CachedRight'
    <3>1. g.backing.time + Shift(repeats') = g.backing.time
      BY <1>4, <2>2
    <3> QED  BY <1>2, <1>3, <1>7, <2>2, <2>3, <3>1, CachedNext
  <2>5. CachedInv'
    BY <1>2, <1>7, <2>4 DEF CachedInv, Repeating
  <2>6. CursorInv'
    BY <1>2, <1>3, <1>5, <2>1, HostAssumption DEF CursorInv
  <2> QED  BY <1>6, <2>1, <2>5, <2>6 DEF HostInv
<1>8. CASE ~Repeating
  <2>1. SentRight'
    BY <1>1, <1>2, <1>3, <1>4, <1>8, EncodedSent
  <2>2. CachedInv'
    BY <1>2, <1>8 DEF HostInv, CachedInv, Repeating
  <2>3. CursorInv'
    BY <1>2, <1>3, <1>5, <1>8, HostAssumption DEF CursorInv, Send
  <2> QED  BY <1>6, <2>1, <2>2, <2>3 DEF HostInv, SentInv
<1> QED  BY <1>7, <1>8

LEMMA RuntimeDueStep == ASSUME HostInv, NEW b, RuntimeDue(b) PROVE HostInv'
<1>1. PICK g, out :
        g = WithButtons(frame, b) /\ out = EncodeInput(session.target, g, Next1(seq))
  OBVIOUS
<1>2. /\ session # Nothing /\ frame # Nothing /\ ~Repeating /\ seq' = Next1(seq)
      /\ UNCHANGED <<session, frame, cached, meaning, repeats>> /\ Send(out, g)
  BY <1>1 DEF RuntimeDue
<1>3. Framed(g)
  BY <1>1, <1>2, ButtonsChange DEF HostInv, CursorInv
<1>4. Shift(repeats') = 0 /\ repeats' \in Nat
  BY <1>2 DEF Shift, Repeating, HostInv, CursorInv
<1>5. SentRight'
  BY <1>1, <1>2, <1>3, <1>4, EncodedSent
<1>6. CachedInv'
  BY <1>2, CachedStays
<1>7. seq' \in Nat /\ reads' = 0
  BY <1>2, NextNumber DEF Send
<1>8. SessionInv' /\ CursorInv'
  BY <1>2, <1>7 DEF HostInv, SessionInv, CursorInv
<1> QED  BY <1>5, <1>6, <1>8 DEF HostInv, SentInv

LEMMA StoreRuntimeStep == ASSUME HostInv, NEW b, StoreRuntime(b) PROVE HostInv'
<1>1. PICK g, out : g = WithButtons(frame, b) /\ out = EncodeInput(session.target, g, seq)
  OBVIOUS
<1>2. /\ session # Nothing /\ frame # Nothing /\ Repeating
      /\ cached' = Preserve(cached, out) /\ meaning' = g
      /\ UNCHANGED <<session, seq, frame, sent, reads, repeats>>
  BY <1>1 DEF StoreRuntime
<1>3. CachedRight /\ seq \in Nat
  BY <1>2 DEF HostInv, CachedInv, CursorInv
<1>4. Framed(frame) /\ Framed(g) /\ g.backing = frame.backing
  BY <1>1, <1>3, ButtonsChange DEF CachedRight
<1>5. g.backing \in Reports /\ g.backing.time \in Nat
  BY <1>4, TimeOfFrame
<1>6. Shows(session.target, out, g) /\ (session.target # "ds4" => out.time = g.backing.time)
  BY <1>1, <1>3, <1>5, EncodeShows
<1>7. /\ Shows(session.target, cached', g)
      /\ session.target # "ds4" =>
           cached'.time = IF session.repeat = "seq_ts" THEN cached.time ELSE out.time
  BY <1>2, <1>6, PreserveShows
<1>8. session.target # "ds4" =>
        /\ cached'.time \in Nat
        /\ cached'.time % TimeSize = (frame'.backing.time + Shift(repeats')) % TimeSize
  <2>1. CASE session.repeat = "seq_ts"
    BY <1>2, <1>3, <1>7, <2>1 DEF CachedRight
  <2>2. CASE session.repeat # "seq_ts"
    <3>1. Shift(repeats') = 0
      BY <2>2 DEF Shift
    <3>2. frame'.backing.time + Shift(repeats') = frame'.backing.time
      BY <1>2, <1>4, <1>5, <3>1
    <3> QED  BY <1>2, <1>4, <1>5, <1>6, <1>7, <2>2, <3>2
  <2> QED  BY <2>1, <2>2
<1>9. CachedRight'
  BY <1>2, <1>4, <1>7, <1>8, CachedNext
<1>10. CachedInv'
  BY <1>2, <1>9 DEF CachedInv, Repeating
<1>11. SessionInv' /\ CursorInv' /\ SentInv'
  BY <1>2 DEF HostInv, SessionInv, CursorInv, SentInv, SentRight, Shift
<1> QED  BY <1>10, <1>11 DEF HostInv

LEMMA RepeatDueStep == ASSUME HostInv, RepeatDue PROVE HostInv'
<1>1. PICK number : number = RepeatSeq(session.target)
  OBVIOUS
<1>2. /\ cached # Nothing /\ seq' = number /\ cached' = Advance(cached, number)
      /\ repeats' = (repeats + 1) % TimeSize /\ Send(cached', meaning)
      /\ UNCHANGED <<session, frame, meaning>>
  BY <1>1 DEF RepeatDue
<1>3. session # Nothing /\ Repeating /\ CachedRight /\ session \in Sessions
  BY <1>2 DEF HostInv, SessionInv, CachedInv
<1>4. Next1(seq) \in Nat /\ Next1(seq) % SeqSize = Next1(seq)
  BY NextNumber
<1>5. number = Next1(seq) % Size(session.target)
  BY <1>1, <1>4 DEF RepeatSeq, Size
<1>6. number \in Nat /\ number % Size(session.target) = number
  <2>1. PICK m \in Nat, k \in Nat \ {0} : m = Next1(seq) /\ k = Size(session.target)
    BY <1>4, SizeDivides
  <2>2. m % k \in Nat /\ (m % k) % k = m % k
    BY ModNat
  <2> QED  BY <1>5, <2>1, <2>2
<1>7. /\ Shows(session.target, cached', meaning) /\ cached'.seq = number
      /\ session.target = "ds4" => cached'.time = number
      /\ session.target # "ds4" =>
           cached'.time = IF session.repeat = "seq_ts"
                          THEN (cached.time + TimeDelta) % TimeSize ELSE cached.time
  BY <1>2, <1>3, AdvanceShows DEF CachedRight
<1>8. repeats' \in Nat /\ repeats' < TimeSize
  <2>1. repeats + 1 \in Nat /\ TimeSize \in Nat \ {0}
    BY HostAssumption DEF HostInv, CursorInv
  <2>2. PICK m \in Nat : m = repeats + 1
    BY <2>1
  <2>3. m % TimeSize \in Nat /\ m % TimeSize < TimeSize
    BY <2>1, ModNat
  <2> QED  BY <1>2, <2>2, <2>3
<1>9. meaning.backing = frame.backing /\ frame.backing.time \in Nat
  BY <1>3, TimeOfFrame DEF CachedRight
<1>10. session.target # "ds4" =>
         /\ cached'.time \in Nat
         /\ cached'.time % TimeSize = (frame.backing.time + Shift(repeats')) % TimeSize
  <2> SUFFICES ASSUME session.target # "ds4"
               PROVE  /\ cached'.time \in Nat
                      /\ cached'.time % TimeSize
                           = (frame.backing.time + Shift(repeats')) % TimeSize
    OBVIOUS
  <2>1. CASE session.repeat = "seq_ts"
    <3>1. /\ cached.time \in Nat
          /\ cached.time % TimeSize = (frame.backing.time + (repeats * TimeDelta)) % TimeSize
      BY <1>3, <2>1 DEF CachedRight, Shift
    <3>2. PICK t0 \in Nat, b0 \in Nat, d0 \in Nat, n0 \in Nat \ {0}, k0 \in Nat :
            /\ t0 = cached.time /\ b0 = frame.backing.time
            /\ d0 = TimeDelta /\ n0 = TimeSize /\ k0 = repeats
      BY <1>9, <3>1, HostAssumption DEF HostInv, CursorInv
    <3>3. k0 < n0 /\ Clocks(n0, d0, t0, b0, k0)
      BY <3>1, <3>2 DEF HostInv, CursorInv, Clocks
    <3>4. Clocks(n0, d0, Added(n0, t0, d0), b0, Added(n0, k0, 1))
      BY ONLY <3>3, t0 \in Nat, b0 \in Nat, d0 \in Nat, n0 \in Nat \ {0}, k0 \in Nat,
              ClockAdvances
    <3>5. Added(n0, t0, d0) \in Nat
      <4>1. PICK m \in Nat : m = t0 + d0
        OBVIOUS
      <4>2. m % n0 \in Nat
        BY ModNat
      <4> QED  BY <4>1, <4>2 DEF Added
    <3>6. cached'.time = Added(n0, t0, d0) /\ Shift(repeats') = Added(n0, k0, 1) * d0
      BY <1>2, <1>7, <2>1, <3>2 DEF Shift, Added
    <3> QED  BY <3>2, <3>4, <3>5, <3>6 DEF Clocks
  <2>2. CASE session.repeat # "seq_ts"
    BY <1>3, <1>7, <2>2 DEF CachedRight, Shift
  <2> QED  BY <2>1, <2>2
<1>11. SentRight'
  <2>1. IF session.target = "ds4"
        THEN cached'.time % Ds4SeqSize = cached'.seq
        ELSE cached'.time % TimeSize = (meaning.backing.time + Shift(repeats')) % TimeSize
    BY <1>6, <1>7, <1>9, <1>10 DEF Size
  <2>2. PICK report : report = cached'
    OBVIOUS
  <2> QED  BY <1>2, <1>3, <1>5, <1>6, <1>7, <1>8, <2>1, <2>2, SendRight DEF CachedRight
<1>12. CachedInv'
  <2>1. CachedRight'
    BY <1>2, <1>3, <1>7, <1>9, <1>10, CachedNext DEF CachedRight
  <2> QED  BY <1>2, <1>3, <2>1 DEF CachedInv, Repeating
<1>13. SessionInv' /\ CursorInv'
  BY <1>2, <1>3, <1>6, <1>8 DEF HostInv, SessionInv, CursorInv, Send
<1> QED  BY <1>11, <1>12, <1>13 DEF HostInv, SentInv

LEMMA HostSteps == HostInv /\ [HostNext]_hostVars => HostInv'
<1> SUFFICES ASSUME HostInv, [HostNext]_hostVars PROVE HostInv'
  OBVIOUS
<1>1. ASSUME NEW s \in Sources, NEW t \in Targets, StartSession(s, t) PROVE HostInv'
  BY <1>1, StartSessionStep
<1>2. CASE ApplyConfig
  BY <1>2, ApplyConfigStep
<1>3. CASE EndSession
  BY <1>3, EndSessionStep
<1>4. ASSUME NEW raw \in Raws, ReadInvalid(raw) PROVE HostInv'
  BY <1>4, ReadInvalidStep
<1>5. ASSUME NEW raw \in Raws, NEW b \in Mapped, ReadFrame(raw, b) PROVE HostInv'
  BY <1>5, ReadFrameStep
<1>6. ASSUME NEW b \in Mapped, RuntimeDue(b) PROVE HostInv'
  BY <1>6, RuntimeDueStep
<1>7. ASSUME NEW b \in Mapped, StoreRuntime(b) PROVE HostInv'
  BY <1>7, StoreRuntimeStep
<1>8. CASE RepeatDue
  BY <1>8, RepeatDueStep
<1>9. CASE UNCHANGED hostVars
  BY <1>9 DEF hostVars, HostInv, SessionInv, CursorInv, CachedInv, CachedRight, Repeating,
              SentInv, SentRight, Shift
<1> QED  BY <1>1, <1>2, <1>3, <1>4, <1>5, <1>6, <1>7, <1>8, <1>9 DEF HostNext

LEMMA HostInvariant == HostSpec => []HostInv
<1>1. HostInit => HostInv
  BY HostStarts
<1>2. HostInv /\ [HostNext]_hostVars => HostInv'
  BY HostSteps
<1> QED  BY <1>1, <1>2, PTL DEF HostSpec

----------------------------------------------------------------------------
(* Types.                                                                  *)

CursorTypes == seq \in 0 .. (SeqSize - 1) /\ reads \in 0 .. (SeqSize - 1)

LEMMA Wraps1 ==
  ASSUME NEW n \in Nat PROVE (n + 1) % SeqSize \in 0 .. (SeqSize - 1)
<1>1. PICK m \in Nat : m = n + 1
  OBVIOUS
<1>2. m % SeqSize \in 0 .. (SeqSize - 1)
  BY CodecAssumption, DivMod
<1> QED  BY <1>1, <1>2

\* What fits the narrow field fits the wide one.
LEMMA NarrowFits ==
  ASSUME NEW target, NEW n \in Nat PROVE n % Size(target) \in 0 .. (SeqSize - 1)
<1>1. PICK k \in Nat \ {0}, m \in Nat \ {0} : k = Size(target) /\ m = SeqSize
  BY SizeDivides
<1>2. m % k = 0
  BY <1>1, SizeDivides
<1>3. k <= m
  <2>1. m = (k * (m \div k)) + (m % k) /\ m \div k \in Nat
    BY DivMod
  <2>2. PICK q \in Nat : q = m \div k
    BY <2>1
  <2>3. m = k * q
    BY <1>2, <2>1, <2>2
  <2>4. q # 0
    BY <2>3
  <2> QED  BY <2>3, <2>4
<1>4. n % k \in 0 .. (k - 1)
  BY DivMod
<1> QED  BY <1>1, <1>3, <1>4

LEMMA CursorStep ==
  ASSUME HostInv, CursorTypes, [HostNext]_hostVars
  PROVE  CursorTypes'
<1>1. 0 \in 0 .. (SeqSize - 1) /\ seq \in Nat /\ reads \in Nat
  BY CodecAssumption DEF CursorTypes
<1>2. Next1(seq) \in 0 .. (SeqSize - 1) /\ (reads + 1) % SeqSize \in 0 .. (SeqSize - 1)
  BY <1>1, Wraps1 DEF Next1
<1>3. RepeatSeq(session.target) \in 0 .. (SeqSize - 1)
  <2>1. PICK n \in Nat : n = Next1(seq)
    BY <1>2
  <2>2. n % Ds4SeqSize \in 0 .. (SeqSize - 1)
    BY <2>1, NarrowFits DEF Size
  <2> QED  BY <1>2, <2>1, <2>2 DEF RepeatSeq
<1>4. seq' \in {seq, 0, Next1(seq), RepeatSeq(session.target)}
      /\ reads' \in {reads, 0, (reads + 1) % SeqSize}
  <2>1. ASSUME NEW s \in Sources, NEW t \in Targets, StartSession(s, t)
        PROVE  seq' = seq /\ reads' = reads
    BY <2>1 DEF StartSession
  <2>2. CASE ApplyConfig \/ EndSession
    BY <2>2 DEF ApplyConfig, EndSession
  <2>3. ASSUME NEW raw \in Raws, ReadInvalid(raw)
        PROVE  seq' = Next1(seq) /\ reads' = (reads + 1) % SeqSize
    BY <2>3 DEF ReadInvalid
  <2>4. ASSUME NEW raw \in Raws, NEW b \in Mapped, ReadFrame(raw, b)
        PROVE  seq' = Next1(seq) /\ reads' \in {0, (reads + 1) % SeqSize}
    BY <2>4 DEF ReadFrame, Send
  <2>5. ASSUME NEW b \in Mapped, RuntimeDue(b) PROVE seq' = Next1(seq) /\ reads' = 0
    BY <2>5 DEF RuntimeDue, Send
  <2>6. ASSUME NEW b \in Mapped, StoreRuntime(b) PROVE seq' = seq /\ reads' = reads
    BY <2>6 DEF StoreRuntime
  <2>7. CASE RepeatDue
    BY <2>7 DEF RepeatDue, Send
  <2>8. CASE UNCHANGED hostVars
    BY <2>8 DEF hostVars
  <2> QED  BY <2>1, <2>2, <2>3, <2>4, <2>5, <2>6, <2>7, <2>8 DEF HostNext
<1> QED  BY <1>1, <1>2, <1>3, <1>4 DEF CursorTypes

LEMMA TypesOfHost == HostInv /\ CursorTypes => HostTypeOK
<1> SUFFICES ASSUME HostInv, CursorTypes PROVE HostTypeOK
  OBVIOUS
<1>1. session = Nothing \/ session \in [source : Sources, target : Targets, repeat : RepeatModes]
  BY DEF HostInv, SessionInv, Sessions
<1>2. frame = Nothing \/ frame.backing \in Reports
  BY DEF HostInv, CursorInv, Framed
<1>3. ASSUME cached # Nothing PROVE CachedRight /\ Repeating
  BY <1>3 DEF HostInv, SessionInv, CachedInv
<1>4. \A r \in {cached} \ {Nothing} : r.hat \in 0 .. 8 /\ r.bits \subseteq Ds5Bits
  BY <1>3 DEF CachedRight, Shows
<1>5. ASSUME cached # Nothing PROVE frame # Nothing
  <2>1. PICK a, b : frame = [state |-> a, backing |-> b]
    BY <1>3, <1>5 DEF CachedRight, Framed
  <2>2. "state" \in DOMAIN frame /\ "state" \notin DOMAIN Nothing
    BY <2>1 DEF Nothing
  <2> QED  BY <2>2
<1>6. ASSUME sent # Nothing PROVE sent.report.seq \in 0 .. (SeqSize - 1)
  <2>1. sent.seq \in Nat /\ sent.report.seq = sent.seq % Size(session.target)
    BY <1>6 DEF HostInv, SentInv, SentRight
  <2>2. PICK n \in Nat : n = sent.seq
    BY <2>1
  <2>3. n % Size(session.target) \in 0 .. (SeqSize - 1)
    BY NarrowFits
  <2> QED  BY <2>1, <2>2, <2>3
<1>7. repeats \in 0 .. (TimeSize - 1)
  BY HostAssumption DEF HostInv, CursorInv
<1> QED  BY <1>1, <1>2, <1>3, <1>4, <1>5, <1>6, <1>7 DEF CursorTypes, Repeating, HostTypeOK

\* Every variable of the input reports keeps its type; the numbers fit their
\* fields, whichever target narrowed them (proxy/mod.rs, proxy/repeat.rs).
THEOREM HostTypes == HostSpec => []HostTypeOK
<1>1. HostInit => HostInv /\ CursorTypes
  <2>1. HostInit => CursorTypes
    BY CodecAssumption DEF HostInit, CursorTypes
  <2> QED  BY <2>1, HostStarts
<1>2. HostInv /\ CursorTypes /\ [HostNext]_hostVars => (HostInv /\ CursorTypes)'
  BY HostSteps, CursorStep
<1> QED  BY <1>1, <1>2, TypesOfHost, PTL DEF HostSpec

----------------------------------------------------------------------------
(* What the host sees.                                                     *)

LEMMA HostInvSees == HostInv => HostSeesTheController
<1> SUFFICES ASSUME HostInv, sent # Nothing PROVE HostSeesTheController
  BY DEF HostSeesTheController
<1> DEFINE size == IF session.target = "ds4" THEN Ds4SeqSize ELSE SeqSize
           wide == IF session.target = "ds4" THEN size ELSE TimeSize
<1>1. SentRight /\ session \in Sessions
  BY DEF HostInv, SentInv, SessionInv
<1>2. size = Size(session.target)
  BY DEF Size
<1>3. /\ sent.report.bits \cup HatButtons(sent.report.hat)
           = Visible(session.target, sent.of.state.buttons)
      /\ sent.report.axes = sent.of.state.axes /\ sent.report.motion = sent.of.backing.motion
      /\ Touches(sent.report.contacts, 1080)
           = Touches(sent.of.backing.contacts, IF session.target = "ds4" THEN 942 ELSE 1080)
      /\ sent.report.seq = sent.seq % size
  BY <1>1, <1>2 DEF SentRight, Shows
<1>4. sent.of.backing.time \in Nat /\ sent.repeats \in Nat
  BY <1>1, TimeOfFrame DEF SentRight
<1>5. sent.report.time % wide = ExpectedTime % wide
  <2>1. CASE session.target = "ds4"
    <3>1. ExpectedTime = sent.seq
      <4>1. session.repeat # "seq_ts"
        BY <1>1, <2>1 DEF Sessions
      <4> QED  BY <2>1, <4>1 DEF ExpectedTime
    <3>2. sent.report.time % Ds4SeqSize = sent.seq % Ds4SeqSize
      BY <1>1, <2>1 DEF SentRight, Size
    <3> QED  BY <2>1, <3>1, <3>2
  <2>2. CASE session.target # "ds4" /\ session.repeat = "seq_ts"
    <3>1. sent.repeats * TimeDelta \in Nat
      BY <1>4, HostAssumption
    <3>2. PICK sum \in Nat : sum = sent.of.backing.time + (sent.repeats * TimeDelta)
      BY <1>4, <3>1
    <3>3. ExpectedTime = sum % TimeSize
      BY <2>2, <3>2 DEF ExpectedTime
    <3>4. sent.report.time % TimeSize = sum % TimeSize
      BY <1>1, <2>2, <3>2 DEF SentRight, Shift
    <3>5. (sum % TimeSize) % TimeSize = sum % TimeSize
      BY HostAssumption, ModNat
    <3> QED  BY <2>2, <3>3, <3>4, <3>5
  <2>3. CASE session.target # "ds4" /\ session.repeat # "seq_ts"
    <3>1. ExpectedTime = sent.of.backing.time
      BY <2>3 DEF ExpectedTime
    <3>2. sent.report.time % TimeSize = (sent.of.backing.time + 0) % TimeSize
      BY <1>1, <2>3 DEF SentRight, Shift
    <3>3. sent.of.backing.time + 0 = sent.of.backing.time
      BY <1>4
    <3> QED  BY <2>3, <3>1, <3>2, <3>3
  <2> QED  BY <2>1, <2>2, <2>3
<1>6. HostSeesTheController
        = (sent # Nothing =>
             /\ sent.report.bits \cup HatButtons(sent.report.hat)
                  = Visible(session.target, sent.of.state.buttons)
             /\ sent.report.axes = sent.of.state.axes
             /\ sent.report.motion = sent.of.backing.motion
             /\ Touches(sent.report.contacts, 1080)
                  = Touches(sent.of.backing.contacts,
                            IF session.target = "ds4" THEN 942 ELSE 1080)
             /\ sent.report.seq = sent.seq % size
             /\ sent.report.time % wide = ExpectedTime % wide)
  BY DEF HostSeesTheController
<1> HIDE DEF size, wide
<1> QED  BY <1>3, <1>5, <1>6

\* The report last sent shows the newest frame through the mapping, has the
\* next number and the clock of its repeats: for all reports, repeat modes and
\* mappings, however often numbers and clock wrap around, and wherever reads,
\* runtimes and repeats come in between.
THEOREM HostSeesCorrect == HostSpec => []HostSeesTheController
<1>1. HostSpec => []HostInv
  BY HostInvariant
<1>2. HostInv => HostSeesTheController
  BY HostInvSees
<1> QED  BY <1>1, <1>2, PTL

----------------------------------------------------------------------------
(* Requests.                                                               *)

UhidEvents ==
  HostEvents \cup {[type |-> "start"]}
  \cup [type : Kinds, id : Nat, rnum : ReportIds, rtype : 0 .. 1]

\* The request is in the queue.
Matches(event, request) == event.type = request.kind /\ event.id = request.id
Queued(queue, request) == \E i \in 1 .. Len(queue) : Matches(queue[i], request)

RequestsInv ==
  /\ events \in Seq(UhidEvents)
  /\ asks \in Nat
  /\ link = Nowhere => ask = Nowhere
  /\ ask # Nowhere => ask.kind \in Kinds
  /\ Running /\ ask # Nowhere => Queued(events, ask)

\* A request stays in the queue when an event arrives and when another one is
\* taken.
LEMMA AppendKeeps ==
  ASSUME NEW S, NEW q \in Seq(S), NEW e \in S, NEW r
  PROVE  /\ Append(q, e) \in Seq(S)
         /\ Queued(q, r) \/ Matches(e, r) => Queued(Append(q, e), r)
<1>1. /\ Append(q, e) \in Seq(S) /\ Len(q) \in Nat
      /\ Len(Append(q, e)) = Len(q) + 1
      /\ \A i \in 1 .. Len(q) : Append(q, e)[i] = q[i]
      /\ Append(q, e)[Len(q) + 1] = e
  BY AppendProperties, LenProperties
<1>2. ASSUME Queued(q, r) PROVE Queued(Append(q, e), r)
  <2>1. PICK i \in 1 .. Len(q) : Matches(q[i], r)
    BY <1>2 DEF Queued
  <2>2. i \in 1 .. Len(Append(q, e)) /\ Append(q, e)[i] = q[i]
    BY <1>1, <2>1
  <2> QED  BY <2>1, <2>2 DEF Queued
<1>3. ASSUME Matches(e, r) PROVE Queued(Append(q, e), r)
  <2>1. Len(q) + 1 \in 1 .. Len(Append(q, e))
    BY <1>1
  <2> QED  BY <1>1, <1>3, <2>1 DEF Queued
<1> QED  BY <1>1, <1>2, <1>3

LEMMA TailKeeps ==
  ASSUME NEW S, NEW q \in Seq(S), q # <<>>, NEW r
  PROVE  /\ Tail(q) \in Seq(S) /\ Head(q) \in S
         /\ Queued(q, r) /\ ~Matches(Head(q), r) => Queued(Tail(q), r)
<1>1. /\ Head(q) \in S /\ Tail(q) \in Seq(S) /\ Head(q) = q[1]
      /\ Len(Tail(q)) = Len(q) - 1 /\ Len(q) \in Nat \ {0}
      /\ \A i \in 1 .. Len(Tail(q)) : Tail(q)[i] = q[i + 1]
  BY HeadTailProperties, LenProperties, EmptySeq
<1>2. ASSUME Queued(q, r), ~Matches(Head(q), r) PROVE Queued(Tail(q), r)
  <2>1. PICK i \in 1 .. Len(q) : Matches(q[i], r)
    BY <1>2 DEF Queued
  <2>2. i # 1
    BY <1>1, <1>2, <2>1
  <2>3. i - 1 \in 1 .. Len(Tail(q)) /\ Tail(q)[i - 1] = q[i]
    BY <1>1, <2>2
  <2> QED  BY <2>1, <2>3 DEF Queued
<1> QED  BY <1>1, <1>2

\* Taking an event that is no request, or replying to the one that is taken.
LEMMA ConsumeKeeps ==
  ASSUME RequestsInv, events # <<>>, Consume, UNCHANGED link,
         \/ UNCHANGED requestVars /\ (ask # Nowhere => ~Matches(Head(events), ask))
         \/ \E err, origin : Reply(Head(events).type, Head(events).id, err, origin)
  PROVE  RequestsInv'
<1>1. /\ Tail(events) \in Seq(UhidEvents)
      /\ Queued(events, ask) /\ ~Matches(Head(events), ask) => Queued(Tail(events), ask)
  BY TailKeeps DEF RequestsInv
<1>2. /\ asks' = asks
      /\ ask' = Nowhere \/ (ask' = ask /\ ~Matches(Head(events), ask))
      /\ ask = Nowhere => ask' = Nowhere
  <2>1. CASE UNCHANGED requestVars /\ (ask # Nowhere => ~Matches(Head(events), ask))
    BY <2>1 DEF requestVars
  <2>2. ASSUME NEW err, NEW origin, Reply(Head(events).type, Head(events).id, err, origin)
        PROVE  /\ asks' = asks
               /\ ask' = Nowhere \/ (ask' = ask /\ ~Matches(Head(events), ask))
               /\ ask = Nowhere => ask' = Nowhere
    <3>1. CASE ask # Nowhere /\ Matches(Head(events), ask)
      BY <2>2, <3>1 DEF Reply, Matches
    <3>2. CASE ~(ask # Nowhere /\ Matches(Head(events), ask))
      BY <2>2, <3>2 DEF Reply, Matches, requestVars
    <3> QED  BY <3>1, <3>2
  <2> QED  BY <2>1, <2>2
<1>3. Running' => Running
  BY DEF Consume, Running
<1>4. events' = Tail(events)
  BY DEF Consume
<1> QED  BY <1>1, <1>2, <1>3, <1>4 DEF RequestsInv

\* The end of the session.
LEMMA EndKeeps ==
  ASSUME RequestsInv, UNCHANGED link, events' = <<>>, over' # "no", asks' = asks,
         ask' = Nowhere \/ ask' = ask
  PROVE  RequestsInv'
BY EmptySeq DEF RequestsInv, Running

\* Every step preserves the invariant.
LEMMA RequestsStep ==
  ASSUME RequestsInv, [UhidNext]_uhidVars
  PROVE  RequestsInv'
<1>1. ASSUME NEW s \in Sources, NEW t \in Targets, CreateDevice(s, t)
      PROVE  RequestsInv'
  <2>1. <<[type |-> "start"]>> \in Seq(UhidEvents)
    BY DEF UhidEvents
  <2> QED  BY <1>1, <2>1 DEF CreateDevice, RequestsInv, requestVars
<1>2. ASSUME NEW e \in HostEvents, HostSends(e) PROVE RequestsInv'
  <2>1. e \in UhidEvents
    BY DEF UhidEvents
  <2> QED  BY <1>2, <2>1, AppendKeeps DEF HostSends, Queue, RequestsInv, requestVars, Running
<1>3. ASSUME NEW k \in Kinds, NEW r \in ReportIds, Request(k, r) PROVE RequestsInv'
  <2>1. PICK rtype \in 0 .. 1 :
          events' = Append(events, [type |-> k, id |-> asks', rnum |-> r, rtype |-> rtype])
    BY <1>3 DEF Request, Queue
  <2> DEFINE event == [type |-> k, id |-> asks', rnum |-> r, rtype |-> rtype]
  <2>2. /\ asks' \in Nat /\ link' = link /\ link # Nowhere
        /\ ask' = [kind |-> k, id |-> asks', rnum |-> r]
    BY <1>3 DEF Request, RequestsInv, Running
  <2>3. event \in UhidEvents /\ Matches(event, ask')
    BY <2>2 DEF UhidEvents, Matches
  <2>4. events' \in Seq(UhidEvents) /\ Queued(events', ask')
    BY <2>1, <2>3, AppendKeeps DEF RequestsInv
  <2> QED  BY <2>2, <2>4 DEF RequestsInv
<1>4. CASE GiveUp
  BY <1>4 DEF GiveUp, RequestsInv
<1>5. CASE Unplug \/ WakeUp \/ Drained
  BY <1>5 DEF Unplug, WakeUp, Drained, RequestsInv, requestVars, Running
<1>6. CASE PlayBlock
  <2>1. CASE End("gone")
    BY <1>6, <2>1, EndKeeps DEF PlayBlock, End
  <2>2. CASE UNCHANGED <<over, handling, events, requestVars>>
    BY <1>6, <2>2 DEF PlayBlock, RequestsInv, requestVars, Running
  <2> QED  BY <1>6, <2>1, <2>2 DEF PlayBlock
<1>7. CASE Notice
  <2>1. ask # Nowhere => ~Matches(Head(events), ask)
    BY <1>7 DEF Notice, Reads, Matches, Kinds, RequestsInv
  <2> QED  BY <1>7, <2>1, ConsumeKeeps DEF Notice, Reads
<1>8. CASE StoppedByKernel \/ Garbled
  BY <1>8, EndKeeps DEF StoppedByKernel, Garbled, End
<1>9. CASE DropOutput
  <2>1. ask # Nowhere => ~Matches(Head(events), ask)
    BY <1>9 DEF DropOutput, Reads, Matches, Kinds, RequestsInv
  <2> QED  BY <1>9, <2>1, ConsumeKeeps DEF DropOutput, Reads
<1>10. CASE ForwardOutput
  <2>1. ask # Nowhere => ~Matches(Head(events), ask)
    BY <1>10 DEF ForwardOutput, Reads, Matches, Kinds, RequestsInv
  <2>2. CASE End("gone")
    BY <1>10, <2>2, EndKeeps DEF ForwardOutput, End
  <2>3. CASE Consume /\ UNCHANGED requestVars
    BY <1>10, <2>1, <2>3, ConsumeKeeps DEF ForwardOutput, Reads
  <2> QED  BY <1>10, <2>2, <2>3 DEF ForwardOutput
<1>11. CASE GetReport
  BY <1>11, ConsumeKeeps DEF GetReport, Reads
<1>12. CASE DropSetReport
  BY <1>12, ConsumeKeeps DEF DropSetReport, Reads
<1>13. CASE ForwardSetReport
  <2>1. PICK outcome \in Outcomes :
          /\ Reply("set", Head(events).id, IF outcome = "written" THEN 0 ELSE 1, "none")
          /\ IF outcome = "gone"
             THEN over' = "gone" /\ handling' = FALSE /\ events' = <<>>
             ELSE Consume
    BY <1>13 DEF ForwardSetReport
  <2>2. CASE outcome = "gone"
    BY <1>13, <2>1, <2>2, EndKeeps DEF ForwardSetReport, Reply, requestVars
  <2>3. CASE Consume
    BY <1>13, <2>1, <2>3, ConsumeKeeps DEF ForwardSetReport, Reads
  <2> QED  BY <2>1, <2>2, <2>3
<1>14. CASE UNCHANGED uhidVars
  BY <1>14 DEF uhidVars, requestVars, RequestsInv, Running
<1> QED  BY <1>1, <1>2, <1>3, <1>4, <1>5, <1>6, <1>7, <1>8, <1>9, <1>10, <1>11, <1>12,
            <1>13, <1>14 DEF UhidNext

----------------------------------------------------------------------------
(* Types.                                                                  *)

Asks == [kind : Kinds, id : 1 .. MaxRequests, rnum : ReportIds]
Answers == [err : 0 .. 1, origin : Origins]

RequestTypes ==
  /\ ask = Nowhere \/ ask \in Asks
  /\ asks \in 0 .. MaxRequests
  /\ answer = Nowhere \/ answer \in Answers
CacheTypes == DOMAIN cache \subseteq ReportIds /\ \A r \in DOMAIN cache : cache[r] \in Origins
SessionTypes ==
  /\ link = Nowhere \/ link \in [source : Sources, target : Targets]
  /\ attached \in BOOLEAN /\ handling \in BOOLEAN /\ over \in {"no", "gone", "fatal"}
QueueTypes == Len(events) <= MaxUhidEvents
TrafficTypes == RequestTypes /\ CacheTypes /\ SessionTypes /\ QueueTypes

\* A reply is typed when its origin is.
LEMMA ReplyTypes ==
  ASSUME RequestTypes, NEW kind, NEW id, NEW err \in 0 .. 1, NEW origin \in Origins,
         Reply(kind, id, err, origin)
  PROVE  RequestTypes'
BY DEF Reply, requestVars, RequestTypes, Answers

\* Taking an event shortens the queue.
LEMMA ConsumeShortens ==
  ASSUME RequestsInv, QueueTypes, events # <<>>, events' = Tail(events)
  PROVE  QueueTypes'
<1>1. Len(Tail(events)) = Len(events) - 1 /\ Len(events) \in Nat
  BY LenProperties, HeadTailProperties, EmptySeq DEF RequestsInv
<1> QED  BY <1>1, UhidAssumption DEF QueueTypes

LEMMA EmptyFits == ASSUME events' = <<>> PROVE QueueTypes'
BY UhidAssumption DEF QueueTypes

LEMMA QueueFits ==
  ASSUME RequestsInv, NEW e, Queue(e), e \in UhidEvents
  PROVE  QueueTypes'
<1>1. Len(Append(events, e)) = Len(events) + 1 /\ Len(events) \in Nat
  BY AppendProperties, LenProperties DEF RequestsInv
<1> QED  BY <1>1, UhidAssumption DEF Queue, QueueTypes

LEMMA EndTypes ==
  ASSUME TrafficTypes, NEW reason \in {"gone", "fatal"}, End(reason),
         UNCHANGED <<link, attached>>
  PROVE  RequestTypes' /\ SessionTypes' /\ QueueTypes'
BY EmptyFits DEF End, TrafficTypes, RequestTypes, SessionTypes

\* What the host asks for is cached, a fallback or nothing.
LEMMA CachedTypes == ASSUME CacheTypes, NEW r PROVE CachedReport(r) \in Origins
BY DEF CachedReport, CacheTypes, Origins

LEMMA TrafficStep ==
  ASSUME TrafficTypes, RequestsInv, [UhidNext]_uhidVars
  PROVE  TrafficTypes'
<1> USE DEF TrafficTypes
<1>1. ASSUME NEW s \in Sources, NEW t \in Targets, CreateDevice(s, t)
      PROVE  TrafficTypes'
  <2> DEFINE seeds == SeedFeatureReports(t) \cap ReportIds
  <2>1. PICK good \in SUBSET (FeatureReportsToCache(t) \cap ReportIds) :
          cache' = [r \in good \cup seeds |-> IF r \in seeds THEN "seed" ELSE "controller"]
    BY <1>1 DEF CreateDevice
  <2>2. CacheTypes'
    <3> HIDE DEF seeds
    <3>1. seeds \subseteq ReportIds
      BY DEF seeds
    <3> QED  BY <2>1, <3>1 DEF CacheTypes, Origins
  <2>3. QueueTypes'
    <3>1. events' = <<[type |-> "start"]>>
      BY <1>1 DEF CreateDevice
    <3>2. Len(<<[type |-> "start"]>>) = 1
      OBVIOUS
    <3> QED  BY <3>1, <3>2, UhidAssumption DEF QueueTypes
  <2>4. RequestTypes' /\ SessionTypes'
    BY <1>1 DEF CreateDevice, RequestTypes, SessionTypes, requestVars
  <2> QED  BY <2>2, <2>3, <2>4
<1>2. ASSUME NEW e \in HostEvents, HostSends(e) PROVE TrafficTypes'
  <2>1. QueueTypes'
    BY <1>2, QueueFits DEF HostSends, UhidEvents
  <2> QED  BY <1>2, <2>1
              DEF HostSends, RequestTypes, CacheTypes, SessionTypes, requestVars
<1>3. ASSUME NEW k \in Kinds, NEW r \in ReportIds, Request(k, r) PROVE TrafficTypes'
  <2>1. PICK rtype \in 0 .. 1 :
          Queue([type |-> k, id |-> asks', rnum |-> r, rtype |-> rtype])
    BY <1>3 DEF Request
  <2>2. asks' \in 1 .. MaxRequests /\ asks' \in Nat
    BY <1>3, UhidAssumption DEF Request, RequestTypes
  <2>3. QueueTypes'
    <3>1. [type |-> k, id |-> asks', rnum |-> r, rtype |-> rtype] \in UhidEvents
      BY <2>2 DEF UhidEvents
    <3> QED  BY <2>1, <3>1, QueueFits
  <2>4. RequestTypes'
    BY <1>3, <2>2, UhidAssumption DEF Request, RequestTypes, Asks
  <2> QED  BY <1>3, <2>3, <2>4 DEF Request, CacheTypes, SessionTypes
<1>4. CASE GiveUp
  BY <1>4 DEF GiveUp, RequestTypes, CacheTypes, SessionTypes, QueueTypes
<1>5. CASE Unplug \/ WakeUp \/ Drained
  BY <1>5 DEF Unplug, WakeUp, Drained, RequestTypes, CacheTypes, SessionTypes, QueueTypes,
              requestVars
<1>6. CASE PlayBlock
  <2>1. CacheTypes' /\ UNCHANGED <<link, attached>>
    BY <1>6 DEF PlayBlock, CacheTypes
  <2>2. CASE End("gone")
    BY <2>1, <2>2, EndTypes
  <2>3. CASE UNCHANGED <<over, handling, events, requestVars>>
    BY <2>1, <2>3 DEF RequestTypes, SessionTypes, QueueTypes, requestVars
  <2> QED  BY <1>6, <2>2, <2>3 DEF PlayBlock
<1>7. CASE Notice \/ DropOutput
  <2>1. QueueTypes'
    BY <1>7, ConsumeShortens DEF Notice, DropOutput, Reads, Consume
  <2> QED  BY <1>7, <2>1 DEF Notice, DropOutput, Consume, RequestTypes, CacheTypes,
                             SessionTypes, requestVars
<1>8. CASE StoppedByKernel \/ Garbled
  <2>1. End("fatal") /\ UNCHANGED <<link, attached, cache>>
    BY <1>8 DEF StoppedByKernel, Garbled
  <2> QED  BY <2>1, EndTypes DEF CacheTypes
<1>9. CASE ForwardOutput
  <2>1. CacheTypes' /\ UNCHANGED <<link, attached>> /\ events # <<>>
    BY <1>9 DEF ForwardOutput, CacheTypes, Reads
  <2>2. CASE End("gone")
    BY <2>1, <2>2, EndTypes
  <2>3. CASE Consume /\ UNCHANGED requestVars
    <3>1. QueueTypes'
      BY <2>1, <2>3, ConsumeShortens DEF Consume
    <3> QED  BY <2>1, <2>3, <3>1 DEF Consume, RequestTypes, SessionTypes, requestVars
  <2> QED  BY <1>9, <2>2, <2>3 DEF ForwardOutput
<1>10. CASE GetReport
  <2> DEFINE origin == CachedReport(Head(events).rnum)
             err == IF origin = "none" THEN 1 ELSE 0
  <2>1. /\ events # <<>> /\ Consume /\ Reply("get", Head(events).id, err, origin)
        /\ UNCHANGED <<link, cache, attached>>
    BY <1>10 DEF GetReport, Reads
  <2>2. origin \in Origins /\ err \in 0 .. 1
    BY CachedTypes
  <2> HIDE DEF origin, err
  <2>3. RequestTypes' /\ QueueTypes'
    BY <2>1, <2>2, ReplyTypes, ConsumeShortens DEF Consume
  <2> QED  BY <2>1, <2>3 DEF Consume, CacheTypes, SessionTypes
<1>11. CASE DropSetReport
  <2>1. /\ events # <<>> /\ Consume /\ Reply("set", Head(events).id, 0, "none")
        /\ UNCHANGED <<link, cache, attached>>
    BY <1>11 DEF DropSetReport, Reads
  <2>2. RequestTypes' /\ QueueTypes'
    BY <2>1, ReplyTypes, ConsumeShortens DEF Consume, Origins
  <2> QED  BY <2>1, <2>2 DEF Consume, CacheTypes, SessionTypes
<1>12. CASE ForwardSetReport
  <2>1. PICK err \in 0 .. 1, gone \in BOOLEAN :
          /\ events # <<>> /\ Reply("set", Head(events).id, err, "none")
          /\ IF gone THEN over' = "gone" /\ handling' = FALSE /\ events' = <<>> ELSE Consume
          /\ UNCHANGED <<link, cache, attached>>
    <3>1. PICK outcome \in Outcomes :
            /\ Reply("set", Head(events).id, IF outcome = "written" THEN 0 ELSE 1, "none")
            /\ IF outcome = "gone"
               THEN over' = "gone" /\ handling' = FALSE /\ events' = <<>> ELSE Consume
      BY <1>12 DEF ForwardSetReport
    <3>2. (IF outcome = "written" THEN 0 ELSE 1) \in 0 .. 1 /\ (outcome = "gone") \in BOOLEAN
      OBVIOUS
    <3> QED  BY <1>12, <3>1, <3>2 DEF ForwardSetReport, Reads
  <2>2. RequestTypes'
    BY <2>1, ReplyTypes DEF Origins
  <2>3. QueueTypes' /\ over' \in {"no", "gone", "fatal"} /\ handling' \in BOOLEAN
    BY <2>1, ConsumeShortens, EmptyFits DEF Consume, SessionTypes
  <2> QED  BY <2>1, <2>2, <2>3 DEF CacheTypes, SessionTypes
<1>13. CASE UNCHANGED uhidVars
  BY <1>13 DEF uhidVars, RequestTypes, CacheTypes, SessionTypes, QueueTypes
<1> QED  BY <1>1, <1>2, <1>3, <1>4, <1>5, <1>6, <1>7, <1>8, <1>9, <1>10, <1>11, <1>12,
            <1>13 DEF UhidNext

LEMMA TypesOfTraffic == TrafficTypes => UhidTypeOK
BY DEF TrafficTypes, RequestTypes, CacheTypes, SessionTypes, QueueTypes, Asks,
       Answers, UhidTypeOK

----------------------------------------------------------------------------

UhidInv == RequestsInv /\ TrafficTypes

\* The inductive invariant holds of the traffic of a session (uhid_events.rs).
THEOREM UhidInvariant == UhidSpec => []UhidInv
<1>1. UhidInit => UhidInv
  <2> SUFFICES ASSUME UhidInit PROVE UhidInv
    OBVIOUS
  <2>1. RequestsInv
    BY EmptySeq DEF UhidInit, RequestsInv, Running
  <2>2. CacheTypes
    BY DEF UhidInit, CacheTypes
  <2>3. RequestTypes
    BY UhidAssumption DEF UhidInit, RequestTypes
  <2>4. SessionTypes
    BY DEF UhidInit, SessionTypes
  <2>5. QueueTypes
    <3>1. events = <<>> /\ Len(<<>>) = 0
      BY EmptySeq DEF UhidInit
    <3> QED  BY <3>1, UhidAssumption DEF QueueTypes
  <2> QED  BY <2>1, <2>2, <2>3, <2>4, <2>5 DEF UhidInv, TrafficTypes
<1>2. UhidInv /\ [UhidNext]_uhidVars => UhidInv'
  BY RequestsStep, TrafficStep DEF UhidInv
<1> QED  BY <1>1, <1>2, PTL DEF UhidSpec

\* Every variable of the traffic keeps its type (uhid.rs).
THEOREM UhidTypes == UhidSpec => []UhidTypeOK
<1>1. UhidInv => UhidTypeOK
  BY TypesOfTraffic DEF UhidInv
<1> QED  BY <1>1, UhidInvariant, PTL

\* Every feature report asked for or set is replied to in the step that takes
\* it, for any number of requests, of those given up and of events between
\* them (uhid_events.rs).
THEOREM HostServed == UhidSpec => []HostIsServed
<1>1. UhidInv => HostIsServed
  <2>1. ASSUME RequestsInv PROVE HostIsServed
    <3>1. DOMAIN events = 1 .. Len(events)
      BY <2>1, LenProperties DEF RequestsInv
    <3> QED  BY <2>1, <3>1 DEF RequestsInv, HostIsServed, Queued, Matches
  <2> QED  BY <2>1 DEF UhidInv
<1> QED  BY <1>1, UhidInvariant, PTL
=============================================================================
