------------------------------ MODULE ReportPath ------------------------------
(***************************************************************************)
(* The event loop of the proxy (proxy/mod.rs) as far as reports go: source *)
(* reports, the timing timer, the repeat of the last report for Bluetooth  *)
(* sources (proxy/repeat.rs), the virtual keyboard (keyboard.rs) and a     *)
(* change of configuration in between.                                     *)
(*                                                                         *)
(* One turn of the loop is a batch of events in any order; an expired      *)
(* timer is handled after the others, and the turn ends by arming the      *)
(* timer again.  Time passes between any two steps: every wake-up may be   *)
(* late.  Sequence numbers and time stamps of reports are left out.        *)
(***************************************************************************)
EXTENDS MappingPipeline

CONSTANTS
  Mappings,     \* compiled configurations, by name
  Frames,       \* decoded source reports
  RepeatTicks,  \* interval of the repeat, 0 when it is disabled
  NoFrame,
  MaxNow,       \* bound: the clock
  MaxReports,   \* bound: source reports
  MaxSwitches,  \* bound: changes of configuration
  MaxFailures   \* bound: keyboard updates with writes that fail

ASSUME ReportAssumption ==
  /\ NoFrame \notin Frames
  /\ {RepeatTicks, MaxNow, MaxReports, MaxSwitches, MaxFailures} \subseteq Nat

\* Every mapping in force has been validated.
ASSUME MappingAssumption == \A c \in DOMAIN Mappings : CanRun(Mappings[c])

\* The half of the touchpad that is touched is one of two, and a controller
\* that reports a pull reports the button of the trigger: this is used of a
\* trigger under turbo only, where the report that ends the turbo has no pull.
ASSUME FrameAssumption ==
  \A f \in Frames :
    /\ f.half \subseteq {"touchpad_left", "touchpad_right"}
    /\ \A c \in DOMAIN Mappings, t \in Triggers :
         t \in DOMAIN Mappings[c].turbo /\ t \notin f.buttons => f.analog[t] = 0

VARIABLES
  now,
  config,       \* name of the mapping in force
  last_frame,   \* the cached frame, or NoFrame
  last_output,  \* what the last transform produced
  turbo, macros,
  next_tick, last_report,  \* the repeat: its deadline, the report it sends
  timer,        \* the instant the timer is set to
  turn,         \* idle, busy: in a turn, expired: in one that has to tick
  held_keys,    \* keys pressed successfully and not released since
  missed,       \* keys whose write failed in the last update (model only)
  shown,        \* state in the last report the virtual controller was sent
  sent,         \* it was sent in the last step (model only)
  exit,         \* no, stopped, fatal
  reports, switches, failures

mapped == <<config, last_frame, last_output, turbo, macros>>
repeat == <<next_tick, last_report>>
keyboard == <<held_keys, missed, failures>>
virtual == <<shown, sent>>
reportVars == <<now, mapped, repeat, timer, turn, keyboard, virtual, exit,
                reports, switches>>

Mapping == Mappings[config]
Repeating == RepeatTicks > 0
Neutral == [buttons |-> {}, analog |-> [t \in Triggers |-> 0], sticks |-> {}]
NoOutput == [state |-> Neutral, keyboard |-> {}]

RuntimesDue == \E d \in RuntimeDeadline(Mapping, turbo, macros) : d <= now
RepeatDue == \E d \in next_tick : d <= now

ReportInit ==
  /\ now = 0
  /\ config \in DOMAIN Mappings
  /\ last_frame = NoFrame /\ last_output = NoOutput
  /\ turbo = FreshTurbo(Mapping) /\ macros = FreshMacros(Mapping)
  /\ next_tick = {} /\ last_report = {}
  /\ timer = {} /\ turn = "idle"
  /\ held_keys = {} /\ missed = {}
  /\ shown = Neutral /\ sent = FALSE
  /\ exit = "no"
  /\ reports = 0 /\ switches = 0 /\ failures = 0

----------------------------------------------------------------------------
\* Mutant: a key is no longer held once its release was tried.
SyncForgetsRelease(desired) ==
  /\ \E failed \in SUBSET SymDiff(held_keys, desired) :
       /\ held_keys' = desired \ failed
       /\ missed' = failed
       /\ failures' = failures + (IF failed = {} THEN 0 ELSE 1)
  /\ failures' <= MaxFailures

\* KeyboardDevice::sync: release what is held and not wanted, press what is
\* wanted and not held; a transition that fails leaves its key as it was.
Sync(desired) ==
  /\ \E failed \in SUBSET SymDiff(held_keys, desired) :
       /\ held_keys' = SymDiff(desired, failed)
       /\ missed' = failed
       /\ failures' = failures + (IF failed = {} THEN 0 ELSE 1)
  /\ failures' <= MaxFailures

\* encode_frame: transform a frame and bring the keyboard in line with it.
Encode(frame, observe) ==
  LET result == Transform(Mapping, turbo, macros, frame, now, observe)
  IN /\ last_output' = result.output
     /\ turbo' = result.turbo
     /\ macros' = result.macros
     /\ Sync(result.output.keyboard)

\* UHID_INPUT2.
Send(state) == shown' = state /\ sent' = TRUE
SendNothing == shown' = shown /\ sent' = FALSE

(* The repeat.                                                             *)

\* Mutant: the repeat runs from the moment it was served.
FirstFutureRelative(deadline) == now + RepeatTicks

\* The first instant of the grid after now: slots that were missed stay so.
FirstFutureDeadline(deadline) ==
  now + RepeatTicks - ((now - deadline) % RepeatTicks)

\* A source report replaces the one to repeat; only the first starts the grid.
StoreSource(report) ==
  /\ next_tick' = IF last_report = {} \/ next_tick = {} THEN {now} ELSE next_tick
  /\ last_report' = {report}

\* prepare_report and the report it makes, if there is one.
SendRepeat ==
  /\ next_tick' = {FirstFutureDeadline(d) : d \in next_tick}
  /\ IF last_report' = {} THEN SendNothing ELSE \E report \in last_report' : Send(report)

----------------------------------------------------------------------------
(* Events of a turn.                                                       *)

\* handle_hidraw_input, one report.
SourceReport(frame) ==
  /\ exit = "no" /\ reports < MaxReports
  /\ reports' = reports + 1
  /\ turn' = IF turn = "idle" THEN "busy" ELSE turn
  /\ last_frame' = frame
  /\ Encode(frame, TRUE)
  /\ IF Repeating THEN StoreSource(last_output'.state) /\ SendNothing
     ELSE Send(last_output'.state) /\ UNCHANGED repeat
  /\ UNCHANGED <<now, config, timer, exit, switches>>

\* Mutant: the runtimes of the old mapping are left running.
ApplyKeepsRuntimes(c) ==
  /\ exit = "no" /\ switches < MaxSwitches
  /\ switches' = switches + 1
  /\ turn' = IF turn = "idle" THEN "busy" ELSE turn
  /\ config' = c
  /\ last_frame' = NoFrame /\ last_output' = NoOutput
  /\ next_tick' = {} /\ last_report' = {}
  /\ Sync({})
  /\ SendNothing
  /\ UNCHANGED <<now, turbo, macros, timer, exit, reports>>

\* Mutant: the same configuration again leaves the runtimes running.
ApplySameKeepsRuntimes(c) ==
  /\ exit = "no" /\ switches < MaxSwitches
  /\ switches' = switches + 1
  /\ turn' = IF turn = "idle" THEN "busy" ELSE turn
  /\ config' = c
  /\ turbo' = IF c = config THEN turbo ELSE FreshTurbo(Mappings[c])
  /\ macros' = IF c = config THEN macros ELSE FreshMacros(Mappings[c])
  /\ last_frame' = NoFrame /\ last_output' = NoOutput
  /\ next_tick' = {} /\ last_report' = {}
  /\ Sync({})
  /\ SendNothing
  /\ UNCHANGED <<now, timer, exit, reports>>

\* apply_active_config with a configuration for the same output device: the
\* mapping, its runtimes and everything derived from the old ones.
ApplyConfig(c) ==
  /\ exit = "no" /\ switches < MaxSwitches
  /\ switches' = switches + 1
  /\ turn' = IF turn = "idle" THEN "busy" ELSE turn
  /\ config' = c
  /\ turbo' = FreshTurbo(Mappings[c]) /\ macros' = FreshMacros(Mappings[c])
  /\ last_frame' = NoFrame /\ last_output' = NoOutput
  /\ next_tick' = {} /\ last_report' = {}
  /\ Sync({})
  /\ SendNothing
  /\ UNCHANGED <<now, timer, exit, reports>>

TimerExpires ==
  /\ exit = "no" /\ \E d \in timer : d <= now
  /\ timer' = {}
  /\ turn' = "expired"
  /\ SendNothing
  /\ UNCHANGED <<now, mapped, repeat, keyboard, exit, reports, switches>>

(* The end of a turn: handle_timing_tick if the timer expired, then        *)
(* arm_timing_timer.                                                       *)

\* Mutant: only the runtimes set the timer.
ArmForRuntimes ==
  /\ turn' = "idle"
  /\ timer' = {IF d > now THEN d ELSE now :
                 d \in RuntimeDeadline(Mapping, turbo, macros)'}

Arm ==
  /\ turn' = "idle"
  /\ timer' = {IF d > now THEN d ELSE now :
                 d \in Earliest(RuntimeDeadline(Mapping, turbo, macros)' \cup next_tick')}

NothingDue == turn = "busy" \/ (~RuntimesDue /\ ~RepeatDue)

EndTurn ==
  /\ exit = "no" /\ turn # "idle" /\ NothingDue
  /\ SendNothing
  /\ UNCHANGED <<now, mapped, repeat, keyboard, exit, reports, switches>>
  /\ Arm

CanAdvance == last_frame # NoFrame /\ (Repeating => last_report # {})

\* Mutant: the repeat sends before the runtimes are advanced.
AdvanceAfterSending ==
  /\ Encode(last_frame, FALSE)
  /\ IF ~Repeating THEN Send(last_output'.state) /\ UNCHANGED repeat
     ELSE /\ last_report' = {last_output'.state}
          /\ IF RepeatDue
             THEN /\ next_tick' = {FirstFutureDeadline(d) : d \in next_tick}
                  /\ \E report \in last_report : Send(report)
             ELSE SendNothing /\ UNCHANGED next_tick
  /\ UNCHANGED <<last_frame, exit>>

\* The cached frame is transformed again; the report is sent at once, or
\* stored for the repeat.
AdvanceRuntimes ==
  /\ Encode(last_frame, FALSE)
  /\ IF Repeating
     THEN /\ last_report' = {last_output'.state}
          /\ IF RepeatDue THEN SendRepeat ELSE SendNothing /\ UNCHANGED next_tick
     ELSE Send(last_output'.state) /\ UNCHANGED repeat
  /\ UNCHANGED <<last_frame, exit>>

\* Runtimes that are due with no frame to transform, or no report to refresh,
\* are a fatal error.
Tick ==
  /\ exit = "no" /\ turn = "expired" /\ RuntimesDue
  /\ IF CanAdvance THEN AdvanceRuntimes
     ELSE exit' = "fatal" /\ SendNothing /\ UNCHANGED <<mapped, repeat, keyboard>>
  /\ UNCHANGED <<now, config, reports, switches>>
  /\ Arm

RepeatTick ==
  /\ exit = "no" /\ turn = "expired" /\ ~RuntimesDue /\ RepeatDue
  /\ last_report' = last_report
  /\ SendRepeat
  /\ UNCHANGED <<now, mapped, keyboard, exit, reports, switches>>
  /\ Arm

\* The loop ends for another reason; clear_timing_state.
Stop ==
  /\ exit = "no" /\ turn # "idle"
  /\ exit' = "stopped"
  /\ turbo' = FreshTurbo(Mapping) /\ macros' = FreshMacros(Mapping)
  /\ last_frame' = NoFrame
  /\ next_tick' = {} /\ last_report' = {}
  /\ Sync({})
  /\ SendNothing
  /\ UNCHANGED <<now, config, last_output, timer, turn, reports, switches>>

\* Time is up to the scheduler: any wake-up can be this late.
Pass ==
  /\ exit = "no" /\ now < MaxNow
  /\ now' = now + 1
  /\ SendNothing
  /\ UNCHANGED <<mapped, repeat, timer, turn, keyboard, exit, reports, switches>>

ReportNext ==
  \/ \E f \in Frames : SourceReport(f)
  \/ \E c \in DOMAIN Mappings : ApplyConfig(c)
  \/ TimerExpires \/ EndTurn \/ Tick \/ RepeatTick
  \/ Stop \/ Pass

ReportSpec == ReportInit /\ [][ReportNext]_reportVars

----------------------------------------------------------------------------
(* Properties.                                                             *)

\* Types.
ReportTypeOK ==
  /\ now \in 0 .. MaxNow
  /\ config \in DOMAIN Mappings
  /\ last_frame \in Frames \cup {NoFrame}
  /\ DOMAIN turbo = DOMAIN Mapping.turbo /\ DOMAIN macros = DOMAIN Mapping.macros
  /\ {next_tick, timer} \subseteq SUBSET Nat
  /\ turn \in {"idle", "busy", "expired"}
  /\ exit \in {"no", "stopped", "fatal"}

\* Deadlines miss nothing: as long as none is due, what the last transform
\* produced is what the mapping means now for the last frame, given when its
\* turbos and macros were started, however late earlier wake-ups came.
OutputIsCurrent ==
  (exit = "no" /\ last_frame # NoFrame /\ ~RuntimesDue)
    => last_output = Meaning(Mapping, turbo, macros, last_frame, now)

\* Every report the virtual controller is sent is right at the instant it is
\* sent: a late repeat does not send an outdated one, and none is made of the
\* mapping before a switch.
EveryReportIsCurrent ==
  sent => shown = Meaning(Mapping, turbo, macros, last_frame, now).state

\* "BT repeat rate was added on top of the physical report rate"
\* (docs/BUGFIX.md #105): source reports are not sent on, and the grid of the
\* repeat does not move, however irregular sources and wake-ups are.
RepeatKeepsItsCadence ==
  [][/\ Repeating /\ sent' => next_tick' # next_tick
     /\ \A d \in next_tick, e \in next_tick' :
          d # e => d <= now /\ now < e /\ e <= now + RepeatTicks /\ (e - d) % RepeatTicks = 0
    ]_reportVars

\* A turn that served the timer leaves only deadlines in the future: the loop
\* does not spin, whatever was missed.
TickMakesProgress ==
  [][turn = "expired" /\ turn' = "idle" =>
       \A d \in RuntimeDeadline(Mapping, turbo, macros)' \cup next_tick' : d > now]_reportVars

\* Between turns the timer is set for the first deadline there is.
NoDeadlineIsForgotten ==
  (exit = "no" /\ turn = "idle") =>
    \A d \in RuntimeDeadline(Mapping, turbo, macros) \cup next_tick :
      \E t \in timer : t <= d \/ t <= now

\* No order of reports, timers and switches, even in one batch of events,
\* makes a runtime due without the frame and report it needs.
TimingIsNeverFatal == exit # "fatal"

\* A timer continues macros but never starts one ("deadlines cannot retrigger
\* physical/combo macro activation", docs/DEVELOPMENT_REFERENCE.md).
TimersStartNothing ==
  [][turn = "expired" /\ turn' = "idle" =>
       \A i \in DOMAIN macros' : macros'[i].active =>
         macros[i].active /\ macros'[i].start = macros[i].start]_reportVars

\* A single macro, once started, "keeps running after release"
\* (docs/STATUS.md): only its last release, a switch or the end of the proxy
\* end it.
SingleRunsToItsEnd ==
  [][\A i \in DOMAIN macros :
       (/\ Mapping.macros[i].mode = "single" /\ macros[i].active
        /\ switches' = switches /\ exit' = "no"
        /\ ~macros'[i].active)
         => now >= macros[i].start + Ms(CycleMs(Mapping.macros[i]))]_reportVars

\* A key differs from what the last transform wants only if its own write
\* failed in the last update: earlier failures have been made good.
KeyboardFollows == exit = "no" => SymDiff(held_keys, last_output.keyboard) = missed

\* A trigger whose press is taken by a turbo, combo, block or remap leaves no
\* analog pull behind either.
TriggerLeavesNoAnalog ==
  last_frame # NoFrame /\ exit = "no" =>
    \A t \in Triggers \cap last_frame.buttons :
      t \notin last_output.state.buttons => last_output.state.analog[t] = 0

\* "single" "runs once" (config/default.toml): a single macro starts when its
\* trigger goes down, not again while it stays down.
SingleRunsOnce ==
  [][\A i \in DOMAIN macros :
       (/\ Mapping.macros[i].mode = "single" /\ Mapping.macros[i].source = "physical"
        /\ ~macros[i].active /\ switches' = switches /\ last_frame # NoFrame
        /\ macros'[i].active)
         => Mapping.macros[i].trigger \notin last_frame.buttons]_reportVars
===============================================================================
