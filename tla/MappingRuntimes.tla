--------------------------- MODULE MappingRuntimes ---------------------------
(***************************************************************************)
(* The timed runtimes of a mapping (proxy/runtime.rs): turbo on a source   *)
(* button, and macros that loop while held or run once.  Instants are      *)
(* naturals counted in ticks, TicksPerMs of them to a millisecond: turbo   *)
(* is computed on instants, macros on elapsed whole milliseconds.          *)
(*                                                                         *)
(* An Option of the code is a set with at most one element.  The fields of *)
(* an inactive runtime are dead (activation overwrites them) and are reset *)
(* here.  checked_add never overflows at the durations modelled.           *)
(***************************************************************************)
EXTENDS Naturals, FiniteSetsExt

CONSTANT TicksPerMs

ASSUME TicksAssumption == TicksPerMs \in Nat \ {0}

Ms(n) == n * TicksPerMs
Earliest(instants) == IF instants = {} THEN {} ELSE {Min(instants)}

----------------------------------------------------------------------------
(* Turbo: on at the press, then toggling every interval once the delay has *)
(* passed.  A configuration is [interval, delay] in milliseconds.          *)

TurboIdle ==
  [active |-> FALSE, toggling |-> FALSE, phase |-> FALSE, press |-> 0, toggle |-> 0]

TurboPressed(now) ==
  [active |-> TRUE, toggling |-> FALSE, phase |-> TRUE, press |-> now, toggle |-> 0]

TurboDeadline(cfg, t) ==
  IF ~t.active THEN {}
  ELSE {IF t.toggling THEN t.toggle + Ms(cfg.interval) ELSE t.press + Ms(cfg.delay)}

\* Mutant: a late wake-up replays one toggle and leaves the rest for the next.
TurboReplayed(cfg, t, now) ==
  LET from == IF t.toggling THEN t.toggle ELSE t.press + Ms(cfg.delay)
      due == now >= from + Ms(cfg.interval)
  IN IF now < from THEN t
     ELSE [t EXCEPT !.toggling = TRUE,
                    !.phase = IF due THEN ~@ ELSE @,
                    !.toggle = IF due THEN from + Ms(cfg.interval) ELSE from]

\* Mutant: the next period starts at the wake-up instead of on schedule.
TurboRebased(cfg, t, now) ==
  LET from == IF t.toggling THEN t.toggle ELSE t.press + Ms(cfg.delay)
      toggles == (now - from) \div Ms(cfg.interval)
  IN IF now < from THEN t
     ELSE [t EXCEPT !.toggling = TRUE,
                    !.phase = IF toggles % 2 = 1 THEN ~@ ELSE @,
                    !.toggle = IF toggles > 0 THEN now ELSE from]

\* A late wake-up counts the toggles it missed instead of replaying them.
TurboAdvance(cfg, t, now) ==
  LET from == IF t.toggling THEN t.toggle ELSE t.press + Ms(cfg.delay)
      toggles == (now - from) \div Ms(cfg.interval)
  IN IF now < from THEN t
     ELSE [t EXCEPT !.toggling = TRUE,
                    !.phase = IF toggles % 2 = 1 THEN ~@ ELSE @,
                    !.toggle = now - ((now - from) % Ms(cfg.interval))]

----------------------------------------------------------------------------
(* Macros.  A rule is [trigger, mode, source, steps]; a step is            *)
(* [action, press, release] with press < release, in milliseconds.         *)

MacroIdle == [active |-> FALSE, start |-> 0, next |-> {}]

MacroActivate(rule, m, now) ==
  IF m.active THEN m
  ELSE [active |-> TRUE, start |-> now,
        next |-> Earliest({now + Ms(s.press) : s \in rule.steps})]

MacroDeadline(m) == IF m.active THEN m.next ELSE {}

CycleMs(rule) == Max({s.release : s \in rule.steps})
ElapsedMs(m, now) == (now - m.start) \div TicksPerMs

\* Where a runtime stands in its steps: a hold macro wraps around.
Position(rule, m, now) ==
  IF rule.mode = "hold" THEN ElapsedMs(m, now) % CycleMs(rule) ELSE ElapsedMs(m, now)

Completed(rule, m, now) ==
  rule.mode = "single" /\ \A s \in rule.steps : ElapsedMs(m, now) >= s.release

\* The steps that are down after an advance to now.
PressedSteps(rule, m, now) ==
  {s \in rule.steps : s.press <= Position(rule, m, now) /\ Position(rule, m, now) < s.release}

\* The instants, from the start of the current run or cycle, at which a step
\* changes next.
StepChange(rule, s, position) ==
  IF position < s.press THEN {s.press}
  ELSE IF position < s.release THEN {s.release}
  ELSE IF rule.mode = "hold" THEN {CycleMs(rule) + s.press} ELSE {}

\* advance(): a single macro ends with its last step.
MacroAdvance(rule, m, now) ==
  LET position == Position(rule, m, now)
      origin == m.start + Ms(ElapsedMs(m, now) - position)
      changes == UNION {StepChange(rule, s, position) : s \in rule.steps}
  IN IF Completed(rule, m, now) THEN MacroIdle
     ELSE [m EXCEPT !.next = Earliest({d \in {origin + Ms(c) : c \in changes} : d > now})]

----------------------------------------------------------------------------
(* What the runtimes stand for, as functions of when they were started:    *)
(* the definitions above are checked against these.                        *)

\* Turbo is on during the delay and then in every other interval.
TurboOn(cfg, press, now) ==
  LET since == now - (press + Ms(cfg.delay))
  IN now < press + Ms(cfg.delay) \/ (since \div Ms(cfg.interval)) % 2 = 0

\* A step of a single macro is down from press to release once; one of a
\* hold macro in every cycle.
StepDown(rule, s, start, now) ==
  LET round(k) == start + Ms(k * CycleMs(rule))
      down(from) == from + Ms(s.press) <= now /\ now < from + Ms(s.release)
  IN IF rule.mode = "single" THEN down(start)
     ELSE \E k \in 0 .. now : down(round(k))
=============================================================================
