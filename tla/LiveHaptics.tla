------------------------------ MODULE LiveHaptics ------------------------------
(***************************************************************************)
(* The stream of haptics and speaker blocks from the audio bridge to a     *)
(* Bluetooth controller: the datagram socket (control/haptics.rs), the     *)
(* queue of the proxy (proxy/haptics.rs) and the writes to the controller  *)
(* (proxy/output.rs), in the turns of the proxy's event loop.              *)
(*                                                                         *)
(* Instants are relative to now, in ticks, Period of them to the time a    *)
(* block plays: zero is now, a negative instant is past.  A block is its   *)
(* kind: silence, pcm, or audio for one that carries speaker data.         *)
(***************************************************************************)
EXTENDS Integers, FiniteSets, SequencesExt

CONSTANTS
  Period,    \* PCM_PERIOD
  MaxAge,    \* MAX_AGE_NS
  Blocks,    \* kinds of block the bridge produces
  MaxInbox,  \* bound: datagrams the socket holds
  MaxLate,   \* bound: how late the timer may be served
  MaxFaults  \* bound: failing writes

Kinds == {"silence", "pcm", "audio"}

ASSUME HapticsAssumption ==
  /\ Period \in Nat \ {0}
  /\ Blocks \subseteq Kinds
  /\ {MaxAge, MaxLate, MaxFaults} \subseteq Nat
  /\ MaxInbox \in 0 .. 16  \* what a turn drains at most

Capacity == 3
Outcomes == {"ok", "failed", "gone"}

VARIABLES
  capture,  \* the capture of the audio bridge: on or off
  beat,     \* ticks until it completes a block, or may start again
  inbox,    \* datagrams in the socket: [kind, age]
  live,     \* LiveHaptics: frames, each with its due instant, and deadline
  timer,    \* the instant the timer is set to
  turn,     \* the descriptors this turn of the loop has served
  speaker_active,
  dev,      \* the controller: [speaker, playing, failed, gone]
  played,   \* the block of the queue played in the last step (model only)
  faults,
  exit

source == <<capture, beat>>
device == <<speaker_active, dev, faults>>
hapticsVars == <<source, inbox, live, timer, turn, device, played, exit>>

NoStream == [frames |-> <<>>, deadline |-> {}]

HapticsInit ==
  /\ capture = "off" /\ beat = 0
  /\ inbox = <<>> /\ live = NoStream /\ timer = {} /\ turn = {}
  /\ speaker_active = FALSE
  /\ dev = [speaker |-> FALSE, playing |-> FALSE, failed |-> FALSE, gone |-> FALSE]
  /\ played = {} /\ faults = 0 /\ exit = FALSE

----------------------------------------------------------------------------
(* The queue.                                                              *)

\* The instant of the next block of a stream: its due is kept with it.
NextDue(frames, deadline) == IF frames = <<>> THEN deadline ELSE Last(frames).due + Period

\* Mutant: a dropped head leaves its deadline to the next block.
PushAtDeadline(stream, kind) ==
  LET deadline == IF stream.deadline = {} THEN Period ELSE CHOOSE d \in stream.deadline : TRUE
      block == [kind |-> kind, due |-> NextDue(stream.frames, deadline)]
      full == Len(stream.frames) = Capacity
  IN IF stream.deadline = {} /\ kind = "silence" THEN stream
     ELSE [frames |-> Append(IF full THEN Tail(stream.frames) ELSE stream.frames, block),
           deadline |-> {deadline}]

\* Mutant: nothing is dropped.
PushUnbounded(stream, kind) ==
  LET deadline == IF stream.deadline = {} THEN Period ELSE CHOOSE d \in stream.deadline : TRUE
      block == [kind |-> kind, due |-> NextDue(stream.frames, deadline)]
  IN IF stream.deadline = {} /\ kind = "silence" THEN stream
     ELSE [frames |-> Append(stream.frames, block), deadline |-> {deadline}]

\* push(): silence starts no stream; a full queue drops its head, and the
\* deadline moves on to the next block.
Push(stream, kind) ==
  LET deadline == IF stream.deadline = {} THEN Period ELSE CHOOSE d \in stream.deadline : TRUE
      block == [kind |-> kind, due |-> NextDue(stream.frames, deadline)]
      full == Len(stream.frames) = Capacity
  IN IF stream.deadline = {} /\ kind = "silence" THEN stream
     ELSE [frames |-> Append(IF full THEN Tail(stream.frames) ELSE stream.frames, block),
           deadline |-> {IF full THEN deadline + Period ELSE deadline}]

AllSilent(frames) == \A i \in DOMAIN frames : frames[i].kind = "silence"

\* Mutant: a late tick plays the block it is late for.
TakeOldest(stream, deadline) ==
  LET rest == stream.frames
  IN IF rest = <<>> THEN [block |-> {}, live |-> NoStream]
     ELSE [block |-> {Head(rest)},
           live |-> IF AllSilent(rest) THEN NoStream
                    ELSE [frames |-> Tail(rest), deadline |-> {deadline + Period}]]

\* Mutant: a silent block ends the stream, whatever follows it.
TakeUntilSilence(stream, deadline) ==
  LET skipped == (-deadline) \div Period
      rest == SubSeq(stream.frames, skipped + 1, Len(stream.frames))
  IN IF rest = <<>> THEN [block |-> {}, live |-> NoStream]
     ELSE [block |-> {Head(rest)},
           live |-> IF Head(rest).kind = "silence" THEN NoStream
                    ELSE [frames |-> Tail(rest), deadline |-> {deadline + Period * (skipped + 1)}]]

\* take_due_frame() at or after the deadline: blocks whose time has passed are
\* skipped; an underrun, for which no block is taken, plays silence, and like
\* a queue of nothing but silence it ends the stream.
TakeDue(stream, deadline) ==
  LET skipped == (-deadline) \div Period
      rest == SubSeq(stream.frames, skipped + 1, Len(stream.frames))
  IN IF rest = <<>> THEN [block |-> {}, live |-> NoStream]
     ELSE [block |-> {Head(rest)},
           live |-> IF AllSilent(rest) THEN NoStream
                    ELSE [frames |-> Tail(rest), deadline |-> {deadline + Period * (skipped + 1)}]]

----------------------------------------------------------------------------
(* Writes to the controller, each with an outcome.                         *)

Lost(d, outcome) == [d EXCEPT !.failed = TRUE, !.gone = @ \/ outcome = "gone"]

WriteMode(d, on, outcome) ==
  IF outcome = "ok" THEN [d EXCEPT !.speaker = on] ELSE Lost(d, outcome)

WriteBlock(d, kind, outcome) ==
  IF outcome = "ok" THEN [d EXCEPT !.playing = kind # "silence",
                                  !.failed = @ /\ d.speaker # (kind = "audio")]
  ELSE Lost(d, outcome)

\* Mutant: the speaker counts as switched before the write is known to work.
SendLiveAudioEager(kind, mode, block) ==
  LET speaker == kind = "audio"
      switched == IF speaker # speaker_active THEN WriteMode(dev, speaker, mode) ELSE dev
  IN IF speaker # speaker_active /\ mode # "ok"
     THEN [dev |-> switched, active |-> speaker, ok |-> FALSE]
     ELSE [dev |-> WriteBlock(switched, kind, block), active |-> speaker, ok |-> block = "ok"]

\* send_live_audio: switch the speaker if the block asks for it, then play.
SendLiveAudio(kind, mode, block) ==
  LET speaker == kind = "audio"
      switched == IF speaker # speaker_active THEN WriteMode(dev, speaker, mode) ELSE dev
  IN IF speaker # speaker_active /\ mode # "ok"
     THEN [dev |-> switched, active |-> speaker_active, ok |-> FALSE]
     ELSE [dev |-> WriteBlock(switched, kind, block), active |-> speaker, ok |-> block = "ok"]

\* stop_speaker.
StopSpeaker(d, active, outcome) ==
  IF active /\ ~d.gone THEN WriteMode(d, FALSE, outcome) ELSE d

Failing(outcomes) == Cardinality({i \in DOMAIN outcomes : outcomes[i] # "ok"})

----------------------------------------------------------------------------
(* The audio bridge and the clock.                                         *)

Age(packets, by) ==
  [i \in DOMAIN packets |->
     [packets[i] EXCEPT !.age = IF @ + by > MaxAge THEN MaxAge + 1 ELSE @ + by]]

Earlier(instants) == {d - 1 : d \in instants}

\* A tick passes; the timer is served at most MaxLate after it is due.
Pass ==
  /\ ~exit /\ ~dev.gone
  /\ capture = "on" => beat > 0
  /\ \A d \in live.deadline : d > -MaxLate
  /\ beat' = IF beat > 0 THEN beat - 1 ELSE 0
  /\ inbox' = Age(inbox, 1)
  /\ live' = [frames |-> [i \in DOMAIN live.frames |-> [live.frames[i] EXCEPT !.due = @ - 1]],
              deadline |-> Earlier(live.deadline)]
  /\ timer' = {IF d > 0 THEN d - 1 ELSE 0 : d \in timer}
  /\ played' = {}
  /\ UNCHANGED <<capture, turn, device, exit>>

\* A datagram is dropped when the socket is full.
Deposit(kind) ==
  inbox' = IF Len(inbox) < MaxInbox THEN Append(inbox, [kind |-> kind, age |-> 0]) ELSE inbox

\* A block is complete (run_capture).
Produce(kind) ==
  /\ ~exit /\ capture = "on" /\ beat = 0
  /\ beat' = Period
  /\ Deposit(kind)
  /\ played' = {}
  /\ UNCHANGED <<capture, live, timer, turn, device, exit>>

StartCapture ==
  /\ ~exit /\ capture = "off" /\ beat = 0
  /\ capture' = "on" /\ beat' = Period
  /\ played' = {}
  /\ UNCHANGED <<inbox, live, timer, turn, device, exit>>

\* The sink is paused by PipeWire.
PauseCapture ==
  /\ ~exit /\ capture = "on"
  /\ capture' = "off" /\ beat' = Period
  /\ played' = {}
  /\ UNCHANGED <<inbox, live, timer, turn, device, exit>>

\* The bridge is dropped: its last block is silence.
EndCapture ==
  /\ ~exit /\ capture = "on"
  /\ capture' = "off" /\ beat' = Period
  /\ Deposit("silence")
  /\ played' = {}
  /\ UNCHANGED <<live, timer, turn, device, exit>>

----------------------------------------------------------------------------
(* Turns of the event loop.                                                *)

Running == ~exit /\ ~dev.gone

\* A turn serves each descriptor that is ready once.
Serve(fd) == fd \notin turn /\ turn' = turn \union {fd}

\* PcmReceiver::drain hands on each datagram that is not too old.
Received(stream, packets) ==
  LET after[n \in 0 .. Len(packets)] ==
        IF n = 0 THEN stream
        ELSE IF packets[n].age > MaxAge THEN after[n - 1]
        ELSE Push(after[n - 1], packets[n].kind)
  IN after[Len(packets)]

Drain ==
  /\ Running /\ inbox # <<>>
  /\ inbox' = <<>>
  /\ live' = Received(live, inbox)
  /\ Serve("pcm")
  /\ played' = {}
  /\ UNCHANGED <<source, timer, device, exit>>

TimerExpires ==
  /\ Running /\ 0 \in timer
  /\ timer' = {}
  /\ Serve("timer")
  /\ played' = {}
  /\ UNCHANGED <<source, inbox, live, device, exit>>

\* The timer serves other deadlines too.
OtherDeadline ==
  /\ Running
  /\ Serve("timer") /\ timer' = {}
  /\ played' = {}
  /\ UNCHANGED <<source, inbox, live, device, exit>>

HapticsDue == \E d \in live.deadline : d <= 0
Arm == turn' = {} /\ timer' = {IF d > 0 THEN d ELSE 0 : d \in live'.deadline}

EndTurn ==
  /\ Running /\ turn # {} /\ ("timer" \in turn => ~HapticsDue)
  /\ live' = live
  /\ Arm
  /\ played' = {}
  /\ UNCHANGED <<source, inbox, device, exit>>

\* handle_haptics_tick: when a write fails the speaker is muted and the stream
\* dropped.  A controller found to be gone ends the session.
Tick ==
  /\ Running /\ "timer" \in turn /\ HapticsDue
  /\ \E deadline \in live.deadline, mode, block, mute \in Outcomes :
       LET take == TakeDue(live, deadline)
           kind == IF take.block = {} THEN "silence" ELSE (CHOOSE b \in take.block : TRUE).kind
           sent == SendLiveAudio(kind, mode, block)
       IN /\ (kind = "audio") = speaker_active => mode = "ok"
          /\ mode # "ok" => block = "ok"
          /\ sent.ok => mute = "ok"
          /\ dev' = IF sent.ok THEN sent.dev ELSE StopSpeaker(sent.dev, sent.active, mute)
          /\ speaker_active' = (sent.ok /\ sent.active)
          /\ live' = IF sent.ok THEN take.live ELSE NoStream
          /\ played' = take.block
          /\ faults' = faults + Failing(<<mode, block, mute>>)
  /\ faults' <= MaxFaults
  /\ Arm
  /\ UNCHANGED <<source, inbox, exit>>

\* Another read or write finds the controller gone.
ControllerVanishes ==
  /\ Running
  /\ dev' = [dev EXCEPT !.gone = TRUE]
  /\ played' = {}
  /\ UNCHANGED <<source, inbox, live, timer, turn, speaker_active, faults, exit>>

\* Mutant: the stream is reset before it is asked whether it was active.
LeaveResetFirst ==
  /\ ~exit
  /\ exit' = TRUE
  /\ \E mute \in Outcomes :
       /\ dev' = StopSpeaker(dev, speaker_active, mute)
       /\ faults' = faults + Failing(<<mute>>)
  /\ faults' <= MaxFaults
  /\ live' = NoStream /\ speaker_active' = FALSE
  /\ inbox' = <<>> /\ played' = {}
  /\ UNCHANGED <<source, timer, turn>>

\* The session ends, with stop_live_haptics.
Leave ==
  /\ ~exit
  /\ exit' = TRUE
  /\ \E mute, silence \in Outcomes :
       LET muted == StopSpeaker(dev, speaker_active, mute)
       IN /\ dev' = IF live.deadline # {} /\ ~muted.gone
                    THEN WriteBlock(muted, "silence", silence) ELSE muted
          /\ faults' = faults + Failing(<<mute, silence>>)
  /\ faults' <= MaxFaults
  /\ live' = NoStream /\ speaker_active' = FALSE
  /\ inbox' = <<>> /\ played' = {}
  /\ UNCHANGED <<source, timer, turn>>

Clock == Pass \/ \E kind \in Blocks : Produce(kind)

HapticsNext ==
  \/ Clock
  \/ StartCapture \/ PauseCapture \/ EndCapture
  \/ Drain \/ TimerExpires \/ OtherDeadline \/ EndTurn \/ Tick
  \/ ControllerVanishes \/ Leave

HapticsSpec == HapticsInit /\ [][HapticsNext]_hapticsVars

\* Time passes and capture keeps pace; the loop serves every descriptor that
\* stays ready and ends its turns.
FairHapticsSpec ==
  /\ HapticsSpec
  /\ WF_hapticsVars(Clock)
  /\ WF_hapticsVars(Drain) /\ WF_hapticsVars(TimerExpires)
  /\ WF_hapticsVars(EndTurn) /\ WF_hapticsVars(Tick) /\ WF_hapticsVars(dev.gone /\ Leave)

----------------------------------------------------------------------------
(* Properties.                                                             *)

\* Types and the bound on the queue.
LiveTypeOK ==
  /\ capture \in {"on", "off"} /\ beat \in 0 .. Period
  /\ Len(inbox) <= MaxInbox
  /\ \A i \in DOMAIN inbox : inbox[i] \in [kind : Kinds, age : 0 .. MaxAge + 1]
  /\ Len(live.frames) <= Capacity /\ Cardinality(live.deadline) <= 1
  /\ \A i \in DOMAIN live.frames : live.frames[i] \in [kind : Kinds, due : Int]
  /\ timer \subseteq Nat /\ turn \subseteq {"pcm", "timer"}
  /\ dev \in [speaker : BOOLEAN, playing : BOOLEAN, failed : BOOLEAN, gone : BOOLEAN]
  /\ speaker_active \in BOOLEAN /\ exit \in BOOLEAN /\ faults \in 0 .. MaxFaults

\* "The deadline belongs to the queue head, including after overflow"
\* (proxy/haptics.rs): whatever was dropped, the blocks of a stream are due
\* one period after the other, and the deadline is that of the first.
DeadlineBelongsToHead ==
  live.frames # <<>> =>
    /\ live.deadline = {Head(live.frames).due}
    /\ \A i \in 2 .. Len(live.frames) : live.frames[i].due = live.frames[i - 1].due + Period

\* "Late ticks discard missed blocks" (docs/DEVELOPMENT_REFERENCE.md): a block
\* of the queue is played during its own period, never before or after it.
PlayedOnTime == \A b \in played : -Period < b.due /\ b.due <= 0

\* A tick takes nothing from the future of the stream: what is queued for
\* later stays, unless a write fails or silence is all there is.
FutureBlocksSurvive ==
  [][("timer" \in turn /\ turn' = {} /\ faults' = faults) =>
       \A i \in DOMAIN live.frames :
         (live.frames[i].due > 0 /\ live.frames[i].kind # "silence")
           => live.frames[i] \in ToSet(live'.frames)]_hapticsVars

\* A controller is not left playing or with its speaker on when its stream has
\* ended, by silence, underrun or the end of the session, if no write failed
\* since the last block it took with its speaker switched as the block asks.
QuietWhenIdle ==
  (live.deadline = {} /\ ~dev.gone /\ ~dev.failed) => (~dev.playing /\ ~dev.speaker)

\* One failing write does not leave the speaker on: it is muted by another.
OneFailureStillMutes ==
  (live.deadline = {} /\ ~dev.gone /\ ~exit /\ faults <= 1) => ~dev.speaker

\* "continuous zero input does not keep physical playback active"
\* (docs/DEVELOPMENT_REFERENCE.md): when capture goes on and every datagram is
\* silence the stream ends.
ZeroInputEndsPlayback ==
  <>[](capture = "on" /\ \A i \in DOMAIN inbox : inbox[i].kind = "silence")
    => []<>(live.deadline = {})
===============================================================================
