--------------------------- MODULE ConfigCompile ---------------------------
(***************************************************************************)
(* A configuration file from the disk to the tables the pipeline runs      *)
(* (config/): read, parse, validate, to_mapping_config. Validation looks   *)
(* at one section at a time and skips some; the compiler walks the         *)
(* sections again, four times, with its own conditions; the runtimes trust *)
(* what comes out. The module edits a draft file a few times, in every     *)
(* way, and loads it.                                                      *)
(*                                                                         *)
(* A text is the member of a small set; only the order in which the parser *)
(* tries its meanings matters.                                             *)
(***************************************************************************)
EXTENDS Naturals, Sequences

CONSTANTS
  Example,      \* the file the editing starts from
  SectionNames, \* texts used as [section] names
  RemapTexts,   \* texts used as remap
  ComboTexts,   \* texts used as the key and the output of a combo
  MacroNames,   \* texts used as names of macros
  StepKeys,     \* texts used as the key of a macro step
  Capitals,     \* the capitalised names among these, with their lower case
  KeyTexts,     \* the texts among these that begin with "key:"
  KnownKeys,    \* those of them keycodes.rs resolves
  MaxDraftEdits      \* bound on the edits before the load

VARIABLES
  draft,  \* the Config the file parses to
  edits,
  outcome  \* <<>>, or what loading the file gave

compileVars == <<draft, edits, outcome>>

NoRemap == "none"   \* the field is absent
NoButton == "no button"

Buttons == {"square", "cross", "circle", "triangle", "l1", "r1", "l2", "r2",
            "create", "options", "l3", "r3", "ps", "touchpad", "touchpad_left",
            "touchpad_right", "mic", "dpad_up", "dpad_down", "dpad_left",
            "dpad_right", "left_fn", "right_fn", "left_paddle", "right_paddle",
            "l2_analog", "r2_analog"}
Halves == {"touchpad_left", "touchpad_right"}
Internal == {"mic", "l2_analog", "r2_analog"}
EdgeButtons == {"left_fn", "right_fn", "left_paddle", "right_paddle"}

ASSUME CompileAssumption ==
  /\ MaxDraftEdits \in Nat
  /\ \A text \in DOMAIN Capitals : text \notin Buttons /\ Capitals[text] \in Buttons
  /\ KnownKeys \subseteq KeyTexts
  /\ DOMAIN Example = {"device", "version", "buttons", "macros"}
  /\ \A name \in DOMAIN Example.macros :
       \A i \in DOMAIN Example.macros[name].steps :
         LET step == Example.macros[name].steps[i]
         IN  step.press \in Nat /\ step.release \in Nat
  /\ Example.device \in {"auto", "dualsense", "dualshock4", "xbox"} /\ Example.version \in Nat
  /\ \A s \in DOMAIN Example.buttons :
       /\ DOMAIN Example.buttons[s] = {"remap", "turbo", "interval", "combos"}
       /\ Example.buttons[s].turbo \in BOOLEAN /\ Example.buttons[s].interval \in Nat

\* Button::from_name: the case does not matter.
FromName(text) ==
  LET lower == IF text \in DOMAIN Capitals THEN Capitals[text] ELSE text
  IN  IF lower \in Buttons THEN lower ELSE NoButton

----------------------------------------------------------------------------
(* What a text means as a target (targets.rs).                             *)

UnknownTarget == [kind |-> "unknown", of |-> ""]

Keywords == {"passthrough", "block", "split", "combo"}
Triggers == {"l2_full", "r2_full"}
StickDirections ==
  {stick \o dir : stick \in {"ls_", "rs_"}, dir \in {"up", "down", "left", "right"}}

\* The parser tries these in order.
ParseTarget(text, macros) ==
  IF text \in Keywords THEN [kind |-> text, of |-> ""]
  ELSE IF text \in Triggers THEN [kind |-> "trigger", of |-> text]
  ELSE IF text \in StickDirections THEN [kind |-> "stick", of |-> text]
  ELSE IF text \in KeyTexts
    THEN IF text \in KnownKeys THEN [kind |-> "keyboard", of |-> text] ELSE UnknownTarget
  ELSE IF FromName(text) # NoButton THEN [kind |-> "button", of |-> FromName(text)]
  ELSE IF text \in macros THEN [kind |-> "macro", of |-> text]
  ELSE UnknownTarget

\* into_mapping_target: what a rule or a combo may produce.
IsMappingTarget(target) ==
  \/ target.kind \in {"trigger", "stick", "keyboard", "macro"}
  \/ target.kind = "button" /\ target.of \notin EdgeButtons \cup Internal \cup Halves

\* resolve_step_target: what a macro step may press.
IsStepTarget(target) ==
  \/ target.kind = "keyboard"
  \/ target.kind = "button" /\ target.of \notin Internal \cup Halves

IsReservedMacroName(name) ==
  \/ name \in KeyTexts \/ name = "macro"
  \/ ParseTarget(name, {}) # UnknownTarget

MacrosOf(cfg) == DOMAIN cfg.macros
\* An absent or an empty remap passes the button through.
RemapOf(cfg, s) ==
  IF cfg.buttons[s].remap \in {NoRemap, ""} THEN [kind |-> "passthrough", of |-> ""]
  ELSE ParseTarget(cfg.buttons[s].remap, MacrosOf(cfg))
ComboOutput(cfg, combo) == ParseTarget(combo.output, MacrosOf(cfg))

----------------------------------------------------------------------------
(* to_mapping_config (compile.rs).                                         *)

Sections(cfg) == DOMAIN cfg.buttons
IsSplit(cfg) == \E s \in Sections(cfg) :
  FromName(s) = "touchpad" /\ cfg.buttons[s].remap = "split"
\* In split mode the touchpad sections take part through the halves only.
Compiled(cfg) == {s \in Sections(cfg) :
  ~(IsSplit(cfg) /\ FromName(s) \in Halves \cup {"touchpad"})}

HalfRemap(cfg, half) ==
  IF half \in Sections(cfg) /\ cfg.buttons[half].remap # NoRemap
  THEN ParseTarget(cfg.buttons[half].remap, MacrosOf(cfg)) ELSE UnknownTarget

Compiles(cfg) ==
  /\ \A s \in Sections(cfg) : FromName(s) # NoButton
  /\ \A s \in Compiled(cfg) : LET target == RemapOf(cfg, s) IN
       \/ target.kind \in {"passthrough", "block"} \/ IsMappingTarget(target)
       \/ /\ target.kind = "combo"
          /\ \A i \in DOMAIN cfg.buttons[s].combos :
               LET combo == cfg.buttons[s].combos[i]
               IN  FromName(combo.key) # NoButton /\ IsMappingTarget(ComboOutput(cfg, combo))
  /\ IsSplit(cfg) => \A half \in Halves : IsMappingTarget(HalfRemap(cfg, half))

RulesOf(cfg) ==
  {[src |-> FromName(s), dst |-> RemapOf(cfg, s)] :
     s \in {t \in Compiled(cfg) : IsMappingTarget(RemapOf(cfg, t))}}
  \cup {[src |-> half, dst |-> HalfRemap(cfg, half)] :
             half \in IF IsSplit(cfg) THEN Halves ELSE {}}

BlockedOf(cfg) ==
  {FromName(s) : s \in {t \in Compiled(cfg) : RemapOf(cfg, t).kind = "block"}}

CombosOf(cfg) == UNION {
  {[modifier |-> FromName(s), key |-> FromName(cfg.buttons[s].combos[i].key),
    output |-> ComboOutput(cfg, cfg.buttons[s].combos[i])] : i \in DOMAIN cfg.buttons[s].combos} :
  s \in {t \in Compiled(cfg) : RemapOf(cfg, t).kind = "combo"}}

\* build_turbo_configs and build_macro_configs look at every section again.
TurboOf(cfg) == {[src |-> FromName(s), interval |-> cfg.buttons[s].interval] :
                   s \in {t \in Sections(cfg) : cfg.buttons[t].turbo}}

MacroRulesOf(cfg) ==
  {[trigger |-> FromName(s), name |-> cfg.buttons[s].remap, source |-> "physical"] :
     s \in {t \in Sections(cfg) :
              /\ ~cfg.buttons[t].turbo
              /\ cfg.buttons[t].remap # NoRemap
              /\ ParseTarget(cfg.buttons[t].remap, MacrosOf(cfg)).kind = "macro"}}
  \cup UNION {{[trigger |-> "cross", name |-> combo.output, source |-> "combo"] :
                 combo \in {c \in {cfg.buttons[s].combos[i] : i \in DOMAIN cfg.buttons[s].combos} :
                              ComboOutput(cfg, c).kind = "macro"}} :
              s \in {t \in Sections(cfg) : cfg.buttons[t].remap = "combo"}}

ToMapping(cfg) ==
  [rules |-> RulesOf(cfg), split |-> IsSplit(cfg), turbo |-> TurboOf(cfg),
   blocked |-> BlockedOf(cfg), combos |-> CombosOf(cfg), macros |-> MacroRulesOf(cfg),
   steps |-> [name \in MacrosOf(cfg) |-> cfg.macros[name].steps]]

----------------------------------------------------------------------------
(* validate (validate.rs).                                                 *)

IsSplitSection(cfg, s) == s = "touchpad" /\ RemapOf(cfg, s).kind = "split"

ComboOk(cfg, s, combo) ==
  LET key == FromName(combo.key) IN
  /\ key \notin {NoButton, s} \cup Internal \cup Halves
  /\ IsMappingTarget(ComboOutput(cfg, combo))
  /\ ~(s \in {"left_fn", "right_fn"} /\ key \in {"cross", "circle", "square", "triangle"})

CombosOk(cfg, s) ==
  LET combos == cfg.buttons[s].combos  isCombo == RemapOf(cfg, s).kind = "combo" IN
  /\ isCombo => s \notin Halves
  /\ isCombo <=> combos # <<>>
  /\ \A i \in DOMAIN combos : ComboOk(cfg, s, combos[i])
  /\ \A i, j \in DOMAIN combos : FromName(combos[i].key) = FromName(combos[j].key) => i = j

\* Mutant: TurboOk, below, without its clauses on macros.
TurboOkDirect(cfg, s) ==
  LET button == cfg.buttons[s] IN
  button.turbo =>
    /\ s \in {"l2", "r2"} => button.remap \notin {NoRemap, "", "l2", "r2"}
    /\ button.interval > 0
    /\ button.remap # "passthrough"

\* A trigger button with an analog target cannot be toggled; a macro has
\* timing of its own.
TurboOk(cfg, s) ==
  LET button == cfg.buttons[s] IN
  button.turbo =>
    /\ s \in {"l2", "r2"} => button.remap \notin {NoRemap, "", "l2", "r2"}
    /\ button.interval > 0
    /\ RemapOf(cfg, s).kind # "macro"
    /\ RemapOf(cfg, s).kind = "combo" =>
         \A i \in DOMAIN button.combos : ComboOutput(cfg, button.combos[i]).kind # "macro"
    /\ button.remap # "passthrough"

\* The section of a split touchpad is not looked at any further.
SectionOk(cfg, s) ==
  /\ FromName(s) \notin {NoButton} \cup Internal
  /\ s \notin DOMAIN Capitals
  /\ \/ IsSplitSection(cfg, s)
     \/ /\ CombosOk(cfg, s)
        /\ TurboOk(cfg, s)
        /\ \/ RemapOf(cfg, s).kind \in {"passthrough", "block", "combo"}
           \/ IsMappingTarget(RemapOf(cfg, s))

MacroOk(cfg, name) ==
  /\ ~IsReservedMacroName(name)
  /\ cfg.macros[name].mode \in {"hold", "single"}
  /\ cfg.macros[name].steps # <<>>
  /\ \A i \in DOMAIN cfg.macros[name].steps : LET s == cfg.macros[name].steps[i] IN
       IsStepTarget(ParseTarget(s.key, {})) /\ s.release > s.press

SplitOk(cfg) ==
  IF \E s \in Sections(cfg) : IsSplitSection(cfg, s)
  THEN Halves \subseteq Sections(cfg)
       /\ \A half \in Halves : IsMappingTarget(HalfRemap(cfg, half))
  ELSE Halves \cap Sections(cfg) = {}

Validate(cfg) ==
  /\ cfg.device \in {"auto", "dualsense", "dualshock4"}
  /\ \A s \in Sections(cfg) : SectionOk(cfg, s)
  /\ \A name \in MacrosOf(cfg) : MacroOk(cfg, name)
  /\ SplitOk(cfg)
  /\ cfg.version = 2
  /\ Compiles(cfg)

----------------------------------------------------------------------------
(* The file: edited, then read, parsed and validated.                      *)

Steps ==
  {<<>>} \cup {<<[key |-> k, press |-> 0, release |-> r]>> : k \in StepKeys, r \in 0 .. 1}
BlankButton == [remap |-> NoRemap, turbo |-> FALSE, interval |-> 100, combos |-> <<>>]
Button(s) == IF s \in Sections(draft) THEN draft.buttons[s] ELSE BlankButton

CompileInit == draft = Example /\ edits = 0 /\ outcome = <<>>

Edit(cfg) == outcome = <<>> /\ edits < MaxDraftEdits
             /\ edits' = edits + 1 /\ draft' = cfg /\ UNCHANGED outcome
EditButton(s, button) ==
  Edit([draft EXCEPT !.buttons = [t \in Sections(draft) \cup {s} |->
                                    IF t = s THEN button ELSE draft.buttons[t]]])

EditRemap == \E s \in SectionNames, text \in RemapTexts :
  EditButton(s, [Button(s) EXCEPT !.remap = text])
EditTurbo == \E s \in SectionNames, on \in BOOLEAN, ms \in 0 .. 1 :
  EditButton(s, [Button(s) EXCEPT !.turbo = on, !.interval = ms])
EditCombos == \E s \in SectionNames, k, o \in ComboTexts :
  EditButton(s, [Button(s) EXCEPT !.combos = Append(@, [key |-> k, output |-> o])])
RemoveSection == \E s \in Sections(draft) :
  Edit([draft EXCEPT !.buttons = [t \in Sections(draft) \ {s} |-> draft.buttons[t]]])
EditMacro == \E name \in MacroNames, mode \in {"hold", "single", "twice"}, steps \in Steps :
  Edit([draft EXCEPT !.macros = [n \in MacrosOf(draft) \cup {name} |->
          IF n = name THEN [mode |-> mode, steps |-> steps] ELSE draft.macros[n]]])
RemoveMacro == \E name \in MacrosOf(draft) :
  Edit([draft EXCEPT !.macros = [n \in MacrosOf(draft) \ {name} |-> draft.macros[n]]])
EditHeader == \E device \in {"auto", "xbox"}, version \in 1 .. 2 :
  Edit([draft EXCEPT !.device = device, !.version = version])

\* ActiveConfig::read fails, or Config::parse does.
LoadFails == outcome = <<>> /\ outcome' = <<"error">> /\ UNCHANGED <<draft, edits>>
Load ==
  /\ outcome = <<>>
  /\ outcome' = IF Validate(draft) THEN <<"mapping", ToMapping(draft)>> ELSE <<"error">>
  /\ UNCHANGED <<draft, edits>>

CompileNext ==
  \/ EditRemap \/ EditTurbo \/ EditCombos \/ RemoveSection
  \/ EditMacro \/ RemoveMacro \/ EditHeader
  \/ LoadFails \/ Load

CompileSpec == CompileInit /\ [][CompileNext]_compileVars

CompileTypeOK ==
  /\ draft.device \in {"auto", "dualsense", "dualshock4", "xbox"} /\ draft.version \in Nat
  /\ \A s \in Sections(draft) :
       /\ DOMAIN draft.buttons[s] = DOMAIN BlankButton
       /\ draft.buttons[s].turbo \in BOOLEAN /\ draft.buttons[s].interval \in Nat
  /\ edits \in 0 .. MaxDraftEdits
  /\ outcome = <<>> \/ outcome[1] \in {"error", "mapping"}

----------------------------------------------------------------------------
(* What the pipeline takes for granted of the tables.                      *)

TargetsOf(mapping) == {r.dst : r \in mapping.rules} \cup {c.output : c \in mapping.combos}
\* One owner per source button: a rule, a block or a combo.
HasOneOwner(mapping) ==
  LET sources == {r.src : r \in mapping.rules}
      modifiers == {c.modifier : c \in mapping.combos}
  IN  /\ \A r, q \in mapping.rules : r.src = q.src => r = q
      /\ sources \cap (mapping.blocked \cup modifiers) = {}
      /\ mapping.blocked \cap modifiers = {}
      /\ mapping.split <=> Halves \subseteq sources
      /\ ~mapping.split => Halves \cap sources = {}
\* TurboRuntime::advance divides by the interval; only the touchpad of a split
\* configuration, which is never pressed, may have none.
TurboRuns(mapping) == \A t \in mapping.turbo :
  \/ t.interval > 0
  \/ mapping.split /\ t.src = "touchpad"
\* A macro runs because a rule finds it by its trigger, or a combo by its name;
\* advance_hold divides by the longest release. The name "" is the exception:
\* an empty remap then passes the button through and starts the macro as well,
\* except for a half of a split touchpad under turbo, whose macro never starts.
MacrosRun(mapping) ==
  /\ \A r \in mapping.rules : r.dst.kind = "macro" =>
       \/ [trigger |-> r.src, name |-> r.dst.of, source |-> "physical"] \in mapping.macros
       \/ r.dst.of = "" /\ r.src \in Halves \cap {t.src : t \in mapping.turbo}
  /\ \A c \in mapping.combos : c.output.kind = "macro" =>
       \E m \in mapping.macros : m.name = c.output.of /\ m.source = "combo"
  /\ \A m \in mapping.macros : m.name # "" =>
       /\ \E target \in TargetsOf(mapping) : target = [kind |-> "macro", of |-> m.name]
       /\ mapping.steps[m.name] # <<>>
       /\ \A i \in DOMAIN mapping.steps[m.name] : mapping.steps[m.name][i].release > 0
\* A combo can be held: its key is neither its modifier nor a half.
CombosRun(mapping) == \A c \in mapping.combos :
  c.key \notin Halves \cup {c.modifier} /\ IsMappingTarget(c.output)

\* A configuration that loads has tables the runtimes can run: every button has
\* one owner, no timer divides by zero, and whatever names a macro finds its
\* runtime, although validate and the compiler skip different sections
\* (validate.rs:11-253, compile.rs:39-216).
AcceptedRuns ==
  outcome # <<>> /\ outcome[1] = "mapping" =>
    LET mapping == outcome[2]
    IN  HasOneOwner(mapping) /\ TurboRuns(mapping) /\ MacrosRun(mapping) /\ CombosRun(mapping)

============================================================================
