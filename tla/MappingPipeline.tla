--------------------------- MODULE MappingPipeline ---------------------------
(***************************************************************************)
(* The transform of one controller frame through a mapping                 *)
(* (proxy/pipeline.rs, mapping.rs): turbo, combos, blocks, macros and      *)
(* remaps, reduced to one output.                                          *)
(*                                                                         *)
(* A frame or output state is [buttons, analog]: the buttons pressed and   *)
(* the value of each analog trigger.  Sticks and motion pass through and   *)
(* are left out; of a stick target remains the set of directions asked     *)
(* for.  A frame also says which half of the touchpad is touched.          *)
(*                                                                         *)
(* A mapping is [split, turbo, combos, blocked, rules, macros]: turbo and  *)
(* rules are functions of the source button, macros a function of a name   *)
(* of the runtime.  A target is [kind, to].                                *)
(***************************************************************************)
EXTENDS MappingRuntimes

Triggers == {"l2", "r2"}
FullPull == 255

\* What validate() and the compiler make sure of (validate.rs; ConfigCompile
\* checks that they do): steps are released after they are pressed and no timer
\* has a period of zero, but for a turbo on the click of a split touchpad,
\* which is never pressed.
MacroCanRun(rule) ==
  /\ rule.mode \in {"hold", "single"}
  /\ IsFiniteSet(rule.steps) /\ rule.steps # {}
  /\ \A s \in rule.steps : {s.press, s.release} \subseteq Nat /\ s.press < s.release

CanRun(mapping) ==
  /\ \A b \in DOMAIN mapping.turbo :
       /\ {mapping.turbo[b].interval, mapping.turbo[b].delay} \subseteq Nat
       /\ mapping.turbo[b].interval > 0 \/ (mapping.split /\ b = "touchpad")
  /\ \A i \in DOMAIN mapping.macros : MacroCanRun(mapping.macros[i])

\* Mutant: a suppressed trigger keeps its analog value.
SuppressButtonOnly(state, buttons) ==
  [buttons |-> state.buttons \ buttons, analog |-> state.analog]

Suppress(state, buttons) ==
  [buttons |-> state.buttons \ buttons,
   analog |-> [t \in Triggers |-> IF t \in buttons THEN 0 ELSE state.analog[t]]]

\* With a split touchpad the click counts for the half that is touched.
Snapshot(mapping, frame) ==
  [buttons |-> IF mapping.split THEN (frame.buttons \ {"touchpad"}) \cup frame.half
                                ELSE frame.buttons,
   analog |-> frame.analog]

----------------------------------------------------------------------------
(* L1: what the physical input counts as.                                  *)

\* One turbo runtime in a transform.  A source frame starts and stops it; a
\* frame that starts it does not advance it.
TurboStep(cfg, t, pressed, now, observe) ==
  IF observe /\ pressed /\ ~t.active THEN TurboPressed(now)
  ELSE IF observe /\ ~pressed THEN TurboIdle
  ELSE IF t.active THEN TurboAdvance(cfg, t, now)
  ELSE t

TurboAfter(mapping, turbo, physical, now, observe) ==
  [b \in DOMAIN mapping.turbo |->
     TurboStep(mapping.turbo[b], turbo[b], b \in physical.buttons, now, observe)]

\* A turbo source is replaced by its phase; on is the set of sources whose
\* turbo is in the on phase, owned those with a runtime that is, or in this
\* transform was, active.
AfterTurbo(physical, owned, on) ==
  LET silent == Suppress(physical, owned)
  IN [silent EXCEPT !.buttons = @ \cup on]

ModifierHeld(combo, state) == combo.modifier \in state.buttons
Triggered(mapping, state) ==
  {c \in mapping.combos : ModifierHeld(c, state) /\ c.key \in state.buttons}

\* A held modifier takes itself and the keys of its combos out of the input.
AfterCombos(mapping, state) ==
  LET held == {c \in mapping.combos : ModifierHeld(c, state)}
  IN Suppress(state, {c.modifier : c \in held} \cup {c.key : c \in held})

L1(mapping, state) == Suppress(AfterCombos(mapping, state), mapping.blocked)

----------------------------------------------------------------------------
(* L2: what is produced from it.                                           *)

IsMacro(target, m, mapping) ==
  target.kind = "macro" /\ target.to = mapping.macros[m].name

\* Mutant: a timer starts macros like a source frame does.
PhysicalMacroOnTimer(rule, m, l1, now, observe) ==
  IF rule.trigger \in l1.buttons THEN MacroActivate(rule, m, now)
  ELSE IF rule.mode = "hold" THEN MacroIdle ELSE m

\* Mutant: a released trigger stops a single macro too.
PhysicalMacroStopped(rule, m, l1, now, observe) ==
  IF ~observe THEN m
  ELSE IF rule.trigger \in l1.buttons THEN MacroActivate(rule, m, now) ELSE MacroIdle

\* A source frame starts the macro of a pressed trigger and stops a hold
\* macro whose trigger is up.
PhysicalMacro(rule, m, l1, now, observe) ==
  IF ~observe THEN m
  ELSE IF rule.trigger \in l1.buttons THEN MacroActivate(rule, m, now)
  ELSE IF rule.mode = "hold" THEN MacroIdle ELSE m

\* A macro a combo asks for: started by source frames only, while a timer
\* too stops a hold macro no combo asks for any more.
ComboMacro(rule, m, asked, now, observe) ==
  IF asked THEN (IF observe THEN MacroActivate(rule, m, now) ELSE m)
  ELSE IF rule.mode = "hold" THEN MacroIdle ELSE m

MacroBefore(mapping, macros, i, l1, combos, now, observe) ==
  LET rule == mapping.macros[i]
  IN IF rule.source = "physical" THEN PhysicalMacro(rule, macros[i], l1, now, observe)
     ELSE ComboMacro(rule, macros[i], \E c \in combos : IsMacro(c.output, i, mapping),
                     now, observe)

\* The targets the rules and the triggered combos ask for, and the steps of
\* macros, reduced to one output: buttons and keys are unions, a trigger is
\* the strongest contribution.
Reduce(mapping, l1, combos, steps) ==
  LET cleared == {b \in DOMAIN mapping.rules : b \in l1.buttons}
      targets == {mapping.rules[b] : b \in cleared} \cup {c.output : c \in combos}
                   \cup {s.action : s \in steps}
      asked(kind) == {g.to : g \in {h \in targets : h.kind = kind}}
      handed(t) == {l1.analog[b] : b \in {d \in cleared \cap Triggers :
                                           mapping.rules[d] = [kind |-> "button", to |-> t]}}
      base(t) == IF t \in cleared THEN 0 ELSE l1.analog[t]
      full(t) == IF t \in asked("trigger") THEN {FullPull} ELSE {}
  IN [state |-> [buttons |-> (l1.buttons \ cleared) \cup asked("button") \cup asked("trigger"),
                 analog |-> [t \in Triggers |-> Max({base(t)} \cup handed(t) \cup full(t))],
                 sticks |-> asked("stick")],
      keyboard |-> asked("key")]

----------------------------------------------------------------------------
\* transform_inner(): the output and the runtimes after it.
Transform(mapping, turbo, macros, frame, now, observe) ==
  LET physical == Snapshot(mapping, frame)
      turboNow == TurboAfter(mapping, turbo, physical, now, observe)
      owned == {b \in DOMAIN turbo : turbo[b].active \/ turboNow[b].active}
      on == {b \in DOMAIN turbo : turboNow[b].active /\ turboNow[b].phase}
      played == AfterTurbo(physical, owned, on)
      combos == Triggered(mapping, played)
      l1 == L1(mapping, played)
      before == [i \in DOMAIN macros |->
                   MacroBefore(mapping, macros, i, l1, combos, now, observe)]
      running == {i \in DOMAIN macros : before[i].active}
      macrosNow == [i \in DOMAIN macros |->
                      IF i \in running THEN MacroAdvance(mapping.macros[i], before[i], now)
                      ELSE before[i]]
      steps == UNION {PressedSteps(mapping.macros[i], before[i], now) : i \in running}
  IN [output |-> Reduce(mapping, l1, combos, steps),
      turbo |-> turboNow,
      macros |-> macrosNow]

\* MappingRuntimes::from_mapping.
FreshTurbo(mapping) == [b \in DOMAIN mapping.turbo |-> TurboIdle]
FreshMacros(mapping) == [i \in DOMAIN mapping.macros |-> MacroIdle]

\* MappingRuntimes::next_deadline.
TurboDeadlines(mapping, turbo) ==
  UNION {TurboDeadline(mapping.turbo[b], turbo[b]) : b \in DOMAIN turbo}
MacroDeadlines(macros) == UNION {MacroDeadline(macros[i]) : i \in DOMAIN macros}
RuntimeDeadline(mapping, turbo, macros) ==
  Earliest(TurboDeadlines(mapping, turbo) \cup MacroDeadlines(macros))

----------------------------------------------------------------------------
\* What a mapping shows at an instant for a frame, given only when its
\* turbos and macros were started: the incremental transform is checked
\* against this.
Meaning(mapping, turbo, macros, frame, now) ==
  LET pressed == {b \in DOMAIN turbo : turbo[b].active}
      on == {b \in pressed : TurboOn(mapping.turbo[b], turbo[b].press, now)}
      played == AfterTurbo(Snapshot(mapping, frame), pressed, on)
      steps == UNION {LET rule == mapping.macros[i] IN
                        {s \in rule.steps : StepDown(rule, s, macros[i].start, now)}
                      : i \in {j \in DOMAIN macros : macros[j].active}}
  IN Reduce(mapping, L1(mapping, played), Triggered(mapping, played), steps)
=============================================================================
