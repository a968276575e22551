----------------------------- MODULE HostReports -----------------------------
(***************************************************************************)
(* The input reports of one session as the host sees them: the sequence    *)
(* number of the proxy (proxy/mod.rs), the report that is repeated for a   *)
(* Bluetooth source (proxy/repeat.rs), and the formats of ReportCodecs.    *)
(*                                                                         *)
(* When a repeat or a runtime is due is the subject of ReportPath; here    *)
(* both may be due at any time.  What the mapping makes of a frame is any  *)
(* of Mapped.                                                              *)
(***************************************************************************)
EXTENDS ReportCodecs

CONSTANTS
  Reports,   \* reports the controller sends
  Mapped,    \* sets of buttons a mapping may produce
  TimeSize,  \* values of the sensor clock: 2^32
  TimeDelta  \* what a repeat adds to it: the interval over 333 ns

ASSUME HostAssumption ==
  /\ TimeSize \in Nat \ {0} /\ TimeDelta \in Nat \ {0}
  /\ \A r \in Reports : r.time \in Nat /\ r.contacts \in [1 .. 2 -> [1 .. 4 -> Byte]]

VARIABLES
  session,  \* [source, target, repeat], or Nothing
  seq,      \* the sequence number of the proxy
  frame,    \* Proxy.last_frame
  cached,   \* RepeatInput.last_report
  sent,     \* the report last sent
  \* (model only) the frame, with the mapping's buttons, that cached stands
  \* for; source reports read since a report was sent; repeats of the report
  \* of the last source frame
  meaning, reads, repeats

hostVars == <<session, seq, frame, cached, sent, meaning, reads, repeats>>

Nothing == <<>>

\* RepeatInput::from_env: off unless the source is Bluetooth; a virtual
\* DualShock 4 has it only on request.
RepeatModes == {"none", "seq_only", "seq_ts"}
RepeatMode(source, target, mode, ds4) ==
  IF source # "bt" \/ mode = "none" THEN "none"
  ELSE IF target # "ds4" THEN mode
  ELSE IF ds4 THEN "seq_only" ELSE "none"

HostTypeOK ==
  /\ \/ session = Nothing
     \/ session \in [source : Sources, target : Targets, repeat : RepeatModes]
  /\ seq \in 0 .. SeqSize - 1
  /\ frame = Nothing \/ frame.backing \in Reports
  /\ \A r \in {cached} \ {Nothing} : r.hat \in 0 .. 8 /\ r.bits \subseteq Ds5Bits
  /\ sent = Nothing \/ sent.report.seq \in 0 .. SeqSize - 1
  /\ reads \in 0 .. SeqSize - 1 /\ repeats \in 0 .. TimeSize - 1
  /\ cached # Nothing => frame # Nothing /\ session.repeat # "none"

Forgotten ==
  frame' = Nothing /\ cached' = Nothing /\ meaning' = Nothing /\ repeats' = 0

HostInit ==
  /\ session = Nothing /\ seq = 0 /\ frame = Nothing /\ cached = Nothing
  /\ sent = Nothing /\ meaning = Nothing /\ reads = 0 /\ repeats = 0

Repeating == session.repeat # "none"
Next1(s) == (s + 1) % SeqSize
WithButtons(f, buttons) == [f EXCEPT !.state.buttons = buttons]

\* What a report sent has to show, next to the report.
Send(report, of) ==
  /\ sent' = [report |-> report, of |-> of, repeats |-> repeats',
              seq |-> IF sent = Nothing THEN report.seq
                      ELSE (sent.report.seq + reads + 1) % SeqSize]
  /\ reads' = 0

StartSession(source, target) ==
  /\ session = Nothing
  /\ \E mode \in RepeatModes, ds4 \in BOOLEAN :
       session' = [source |-> source, target |-> target,
                   repeat |-> RepeatMode(source, target, mode, ds4)]
  /\ UNCHANGED <<seq, frame, cached, sent, meaning, reads, repeats>>

\* A configuration applied within a session, and the end of a session.
ApplyConfig ==
  session # Nothing /\ Forgotten /\ UNCHANGED <<session, seq, sent, reads>>
EndSession ==
  /\ session # Nothing /\ session' = Nothing
  /\ seq' = 0 /\ sent' = Nothing /\ reads' = 0 /\ Forgotten

\* A report of the right length that does not decode takes a number too.
ReadInvalid(raw) ==
  /\ session # Nothing /\ ~Decodes(session.source, raw)
  /\ seq' = Next1(seq) /\ reads' = (reads + 1) % SeqSize
  /\ UNCHANGED <<session, frame, cached, sent, meaning, repeats>>

ReadFrame(raw, buttons) ==
  LET f == DecodeInput(raw)
      out == EncodeInput(session.target, WithButtons(f, buttons), Next1(seq))
  IN /\ session # Nothing /\ Decodes(session.source, raw)
     /\ seq' = Next1(seq) /\ frame' = f /\ repeats' = 0
     /\ IF Repeating
        THEN /\ cached' = out /\ meaning' = WithButtons(f, buttons)
             /\ reads' = (reads + 1) % SeqSize /\ UNCHANGED sent
        ELSE Send(out, WithButtons(f, buttons)) /\ UNCHANGED <<cached, meaning>>
     /\ UNCHANGED session

\* Mutant: a runtime's report brings the clock of its source frame back.
PreserveOnlySeq(previous, updated) == [updated EXCEPT !.seq = previous.seq]

\* What a runtime's report keeps of the one it replaces.
Preserve(previous, updated) ==
  IF updated.kind = "ds4"
  THEN [updated EXCEPT !.seq = previous.seq, !.time = previous.time,
                       !.touchSeq = previous.touchSeq]
  ELSE [updated EXCEPT !.seq = previous.seq,
                       !.time = IF session.repeat = "seq_ts" THEN previous.time ELSE @]

\* The number of a repeat, and the report with it.
RepeatSeq(target) ==
  IF target = "ds4" THEN Next1(seq) % Ds4SeqSize ELSE Next1(seq)
Advance(report, number) ==
  IF report.kind = "ds4"
  THEN [report EXCEPT !.seq = number, !.time = number, !.touchSeq = number]
  ELSE [report EXCEPT !.seq = number,
          !.time = IF session.repeat = "seq_ts" THEN (@ + TimeDelta) % TimeSize ELSE @]

\* A runtime is due: without repeats its report is sent at once.
RuntimeDue(buttons) ==
  LET f == WithButtons(frame, buttons)
      number == Next1(seq)
  IN /\ session # Nothing /\ frame # Nothing /\ ~Repeating
     /\ seq' = number
     /\ UNCHANGED <<session, frame, cached, meaning, repeats>>
     /\ Send(EncodeInput(session.target, f, number), f)

\* With repeats it replaces the report that is repeated.
StoreRuntime(buttons) ==
  LET f == WithButtons(frame, buttons)
  IN /\ session # Nothing /\ frame # Nothing /\ Repeating
     /\ cached' = Preserve(cached, EncodeInput(session.target, f, seq))
     /\ meaning' = f
     /\ UNCHANGED <<session, seq, frame, sent, reads, repeats>>

\* A repeat is due, by itself or after the runtime's report was stored.
RepeatDue ==
  LET number == RepeatSeq(session.target)
  IN /\ cached # Nothing
     /\ seq' = number /\ cached' = Advance(cached, number)
     /\ repeats' = (repeats + 1) % TimeSize
     /\ Send(cached', meaning)
     /\ UNCHANGED <<session, frame, meaning>>

Raws == [id : {1, 49}, crc : BOOLEAN, report : Reports]

HostNext ==
  \/ \E s \in Sources, t \in Targets : StartSession(s, t)
  \/ ApplyConfig \/ EndSession
  \/ \E raw \in Raws : ReadInvalid(raw)
  \/ \E raw \in Raws, b \in Mapped : ReadFrame(raw, b)
  \/ \E b \in Mapped : RuntimeDue(b) \/ StoreRuntime(b)
  \/ RepeatDue

HostSpec == HostInit /\ [][HostNext]_hostVars

----------------------------------------------------------------------------
(* What the host makes of a report.                                        *)

\* The buttons the target has; opposite directions leave the hat neutral.
Visible(target, buttons) ==
  LET opposed == {"up", "down"} \subseteq buttons \/ {"left", "right"} \subseteq buttons
  IN (IF opposed THEN {} ELSE buttons \cap Dpad)
     \cup (buttons \cap (IF target = "ds4" THEN Ds4Bits ELSE Ds5Bits))

Touches(points, lines) ==
  {[id |-> c.id, x |-> c.x, y |-> (c.y * lines) \div 1080] :
     c \in {ParseTouchpadContact(points[i]) : i \in {j \in 1 .. 2 : Active(points[j])}}}

\* The sensor clock: of the source frame, plus the repeats in seq_ts mode; a
\* virtual DualShock 4 uses its counter as the clock.
ExpectedTime ==
  CASE session.target = "ds4" -> sent.seq
    [] session.repeat = "seq_ts" ->
         (sent.of.backing.time + sent.repeats * TimeDelta) % TimeSize
    [] OTHER -> sent.of.backing.time

\* The report last sent shows the buttons, axes and touches of the newest
\* frame through the mapping; its number is the one before plus one for every
\* report read in between, whichever of the two places that count advanced it
\* and however narrow the field; and its clock never falls back to that of
\* the source frame when a runtime changes the report between two repeats.
HostSeesTheController ==
  sent # Nothing =>
    LET report == sent.report
        size == IF session.target = "ds4" THEN Ds4SeqSize ELSE SeqSize
    IN /\ report.bits \cup HatButtons(report.hat)
            = Visible(session.target, sent.of.state.buttons)
       /\ report.axes = sent.of.state.axes /\ report.motion = sent.of.backing.motion
       /\ Touches(report.contacts, 1080)
            = Touches(sent.of.backing.contacts, IF session.target = "ds4" THEN 942 ELSE 1080)
       /\ report.seq = sent.seq % size
       /\ report.time % (IF session.target = "ds4" THEN size ELSE TimeSize)
            = ExpectedTime % (IF session.target = "ds4" THEN size ELSE TimeSize)
=============================================================================
