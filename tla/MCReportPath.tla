----------------------------- MODULE MCReportPath -----------------------------
(* Two mappings.  "game": cross under turbo and the key of a combo of l2     *)
(* that loops a macro, triangle a single macro that shares button and key    *)
(* with the loop, r2 given to l2.  "split": the left half of the touchpad    *)
(* pulls l2, which is blocked itself, triangle holds a macro, r2 is a stick. *)
EXTENDS ReportPath

Target(kind, to) == [kind |-> kind, to |-> to]
Step(action, press, release) == [action |-> action, press |-> press, release |-> release]
Macro(name, trigger, mode, source, steps) ==
  [name |-> name, trigger |-> trigger, mode |-> mode, source |-> source, steps |-> steps]

Circle == Target("button", "circle")
Space == Target("key", "space")

Game ==
  [split |-> FALSE,
   turbo |-> [b \in {"cross"} |-> [interval |-> 2, delay |-> 1]],
   combos |-> {[modifier |-> "l2", key |-> "cross", output |-> Target("macro", "loop")]},
   blocked |-> {},
   rules |-> [b \in {"triangle", "r2"} |->
                IF b = "r2" THEN Target("button", "l2") ELSE Target("macro", "tap")],
   macros |-> [loop |-> Macro("loop", "cross", "hold", "combo",
                              {Step(Circle, 0, 1), Step(Space, 1, 3)}),
               tap |-> Macro("tap", "triangle", "single", "physical",
                             {Step(Circle, 0, 2), Step(Space, 1, 2)})]]

Split ==
  [split |-> TRUE,
   turbo |-> [b \in {} |-> 0],
   combos |-> {},
   blocked |-> {"l2"},
   rules |-> [b \in {"triangle", "r2", "touchpad_left"} |->
                CASE b = "triangle" -> Target("macro", "spin")
                  [] b = "r2" -> Target("stick", "ls_up")
                  [] b = "touchpad_left" -> Target("trigger", "l2")],
   macros |-> [spin |-> Macro("spin", "triangle", "hold", "physical",
                              {Step(Space, 1, 2)})]]

MCMappings == [game |-> Game, split |-> Split]

Frame(buttons) ==
  [buttons |-> buttons,
   half |-> IF "touchpad" \in buttons THEN {"touchpad_left"} ELSE {},
   analog |-> [t \in Triggers |-> IF t \in buttons THEN 200 ELSE 20]]
MCFrames == {Frame({}), Frame({"cross"}), Frame({"cross", "l2"}),
             Frame({"cross", "triangle"}), Frame({"triangle", "l2", "r2", "touchpad"})}
===============================================================================
