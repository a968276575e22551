---------------------------- MODULE ReportCodecs ----------------------------
(***************************************************************************)
(* The report formats (src/codec): what a DualSense report says, how a     *)
(* frame becomes the report of a virtual DualSense or DualShock 4, and how *)
(* the output reports of either become those of the physical controller.   *)
(*                                                                         *)
(* A report is a record of its fields.  The bits of the button bytes are a *)
(* set of names, a touch point keeps its four bytes, since its coordinates *)
(* are packed and rescaled, and a checksum is right or wrong.  Sticks,     *)
(* triggers and motion are opaque values.                                  *)
(***************************************************************************)
EXTENDS Integers, Sequences

CONSTANTS
  SeqSize,    \* values of the sequence number: 256, a byte
  Ds4SeqSize  \* of the DualShock 4 counter: 64, six bits of a byte

ASSUME CodecAssumption ==
  /\ SeqSize \in Nat \ {0} /\ Ds4SeqSize \in Nat \ {0}
  /\ SeqSize % Ds4SeqSize = 0

Byte == 0 .. 255

----------------------------------------------------------------------------
(* Buttons.                                                                *)

Dpad == {"up", "down", "left", "right"}
\* One bit each in a DualShock 4 report, and the bits a DualSense has more.
Ds4Bits == {"square", "cross", "circle", "triangle", "l1", "r1", "l2", "r2",
            "create", "options", "l3", "r3", "ps", "touchpad"}
Ds5Bits == Ds4Bits \cup {"mic", "left_fn", "right_fn", "left_paddle", "right_paddle"}

\* The hat switch: clockwise from up, 8 and above are neutral.
HatDirections ==
  <<{"up"}, {"up", "right"}, {"right"}, {"down", "right"},
    {"down"}, {"down", "left"}, {"left"}, {"up", "left"}>>
HatButtons(hat) == IF hat < 8 THEN HatDirections[hat + 1] ELSE {}

DpadValue(buttons) ==
  IF \E h \in 0 .. 7 : HatButtons(h) = buttons \cap Dpad
  THEN CHOOSE h \in 0 .. 7 : HatButtons(h) = buttons \cap Dpad
  ELSE 8

----------------------------------------------------------------------------
(* Touch points: id and not-touching bit, then x and y of twelve bits.     *)

Low(b) == b % 16
High(b) == b \div 16

Active(point) == point[1] < 128
ContactId(point) == point[1] % 128
ContactX(point) == Low(point[3]) * 256 + point[2]
ContactY(point) == point[4] * 16 + High(point[3])
ParseTouchpadContact(point) ==
  [active |-> Active(point), id |-> ContactId(point),
   x |-> ContactX(point), y |-> ContactY(point)]

\* The half of the touchpad a click counts for.
TouchpadSplitButton(report) ==
  LET touching == {i \in 1 .. 2 : Active(report.contacts[i])}
      first == report.contacts[IF 1 \in touching THEN 1 ELSE 2]
  IN IF "touchpad" \notin report.bits \/ touching = {} THEN {}
     ELSE {IF ContactX(first) < 960 THEN "touchpad_left" ELSE "touchpad_right"}

Untouched == <<128, 0, 0, 0>>
\* A DualShock 4 touchpad has 942 lines, a DualSense one 1080.
WritePoint(point) ==
  LET y == (ContactY(point) * 942) \div 1080
  IN IF Active(point)
     THEN <<point[1], point[2], Low(point[3]) + 16 * Low(y), (y \div 16) % 256>>
     ELSE Untouched

----------------------------------------------------------------------------
(* Input.                                                                  *)

\* What ds5_usb reads from a report with the right id and size.
ParseInput(report) ==
  [buttons |-> report.bits \cup HatButtons(report.hat), axes |-> report.axes]

\* A report as it is read: over Bluetooth the USB report is wrapped with a
\* checksum.  Nothing comes of one that is short, has another id or a wrong
\* checksum.
Sources == {"usb", "bt"}
InputId(source) == IF source = "usb" THEN 1 ELSE 49
Decodes(source, raw) ==
  raw.id = InputId(source) /\ (source = "bt" => raw.crc)

\* The frame of a report: state, and the USB layout the target starts from.
DecodeInput(raw) ==
  [state |-> ParseInput(raw.report), backing |-> raw.report]

Ds5Encode(frame, seq) ==
  [kind |-> "ds5", axes |-> frame.state.axes,
   hat |-> DpadValue(frame.state.buttons),
   bits |-> frame.state.buttons \cap Ds5Bits,
   seq |-> seq, low |-> frame.backing.low, motion |-> frame.backing.motion,
   time |-> frame.backing.time, contacts |-> frame.backing.contacts]

Ds4Encode(frame, seq) ==
  LET points == [i \in 1 .. 2 |-> WritePoint(frame.backing.contacts[i])]
  IN [kind |-> "ds4", axes |-> frame.state.axes,
      hat |-> DpadValue(frame.state.buttons),
      bits |-> frame.state.buttons \cap Ds4Bits,
      seq |-> seq % Ds4SeqSize, time |-> seq, touchSeq |-> seq % Ds4SeqSize,
      motion |-> frame.backing.motion, contacts |-> points,
      touches |-> IF \E i \in 1 .. 2 : Active(points[i]) THEN 1 ELSE 0]

Targets == {"auto", "forced", "ds4"}
EncodeInput(target, frame, seq) ==
  IF target = "ds4" THEN Ds4Encode(frame, seq) ELSE Ds5Encode(frame, seq)

----------------------------------------------------------------------------
(* Feature reports.  The cache maps a report id to where its data is from. *)

\* Calibration and firmware version, read when the target is a DualSense.
FeatureReportsToCache(target) == IF target = "ds4" THEN {} ELSE {5, 32}
\* The reports a virtual DualShock 4 is given: calibration, firmware, MAC.
SeedFeatureReports(target) == IF target = "ds4" THEN {2, 163, 18} ELSE {}
Ds5Fallbacks ==
  {5, 8, 9, 10, 32, 33, 34, 104, 160, 224} \cup 96 .. 101 \cup 112 .. 123
  \cup 128 .. 133 \cup {240, 241, 242, 244, 245}
FallbackFeatureReports(target) == IF target = "ds4" THEN {129} ELSE Ds5Fallbacks

\* size: whether the reply has the size asked for.
DecodesFeatureReport(source, request, raw) ==
  raw.size /\ raw.id = request /\ (source = "bt" => raw.crc)

\* Only a USB controller behind a virtual DualSense is sent feature reports.
EncodesSetReport(source, target) == source = "usb" /\ target # "ds4"

----------------------------------------------------------------------------
(* Output.  An output report is [id, size, rumble, light]; NoChange is a   *)
(* field whose valid bit is not set.                                       *)

NoChange == "unchanged"
Ds5Output(size, rumble, light) ==
  [id |-> 2, size |-> size, rumble |-> rumble, light |-> light]

\* A DualShock 4 output report as a DualSense one of 63 bytes: rumble and
\* light are the bytes at the offset its size and id call for.
ConvertOutputToDs5(ds4) ==
  LET offset == IF ds4.size >= 32 /\ ds4.id = 5 THEN 1 ELSE 0
  IN IF ds4.size < offset + 11 THEN Ds5Output(63, NoChange, NoChange)
     ELSE Ds5Output(63, ds4.rumble, ds4.light)

\* The report that goes out over USB or is wrapped for Bluetooth.
DecodeOutput(target, output) ==
  IF target = "ds4" THEN ConvertOutputToDs5(output) ELSE output
Wraps(output) == output.size \in 48 .. 64 /\ output.id = 2
Encodes(source, output) == source = "bt" => Wraps(output)

=============================================================================
