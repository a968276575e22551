------------------------------ MODULE MCParts ------------------------------
(***************************************************************************)
(* The components that share no state with each other, checked in one run: *)
(* each behaviour picks one of them and takes its steps.                   *)
(***************************************************************************)
EXTENDS DeviceMonitor, DaemonMonitor, HostReports, UhidTraffic,
        ConfigCompile, AudioBridge, ControlServer, TLC

VARIABLE part

partVars == <<monitorVars, watcherVars, hostVars, uhidVars, compileVars,
              audioVars, serverVars>>

PartsInit ==
  /\ part \in {"devices", "watches", "reports",
              "uhid", "config", "audio", "server"}
  /\ MonitorInit /\ WatcherInit /\ HostInit
  /\ UhidInit /\ CompileInit /\ AudioInit /\ ServerInit

PartsNext == UNCHANGED part /\
  \/ part = "devices" /\ MonitorNext
     /\ UNCHANGED <<watcherVars, hostVars, uhidVars,
                    compileVars, audioVars, serverVars>>
  \/ part = "watches" /\ WatcherNext
     /\ UNCHANGED <<monitorVars, hostVars, uhidVars,
                    compileVars, audioVars, serverVars>>
  \/ part = "reports" /\ HostNext
     /\ UNCHANGED <<monitorVars, watcherVars, uhidVars,
                    compileVars, audioVars, serverVars>>
  \/ part = "uhid" /\ UhidNext
     /\ UNCHANGED <<monitorVars, watcherVars, hostVars,
                    compileVars, audioVars, serverVars>>
  \/ part = "config" /\ CompileNext
     /\ UNCHANGED <<monitorVars, watcherVars, hostVars,
                    uhidVars, audioVars, serverVars>>
  \/ part = "audio" /\ AudioNext
     /\ UNCHANGED <<monitorVars, watcherVars, hostVars,
                    uhidVars, compileVars, serverVars>>
  \/ part = "server" /\ ServerNext
     /\ UNCHANGED <<monitorVars, watcherVars, hostVars,
                    uhidVars, compileVars, audioVars>>

PartsSpec == PartsInit /\ [][PartsNext]_<<part, partVars>>

----------------------------------------------------------------------------
(* Reports of a controller, what a mapping makes of their buttons, and     *)
(* what a host writes back.                                                *)

MCReport(buttons, hat, time, contacts) ==
  [bits |-> buttons, hat |-> hat, axes |-> hat, low |-> hat, motion |-> time,
   time |-> time, contacts |-> contacts]
MCReports == {MCReport({"cross"}, 8, 0, <<<<5, 200, 3 * 16 + 11, 67>>, <<128, 0, 0, 0>>>>),
              MCReport({"touchpad"}, 3, 3, <<<<127, 0, 255, 255>>, <<0, 17, 18, 1>>>>)}
MCMapped == {{}, {"up", "right", "cross"}, {"left", "right", "mic"}}

MCOutputs == {[id |-> 2, size |-> 48, rumble |-> 1, light |-> NoChange],
              [id |-> 5, size |-> 32, rumble |-> 1, light |-> 1]}

(* A configuration with a split touchpad, a combo and a macro.             *)

Plain(text) == [BlankButton EXCEPT !.remap = text]
MCExample ==
  [device |-> "auto", version |-> 2,
   buttons |-> "touchpad" :> Plain("split") @@ "touchpad_left" :> Plain("circle")
               @@ "touchpad_right" :> Plain("dash")
               @@ "l1" :> [Plain("combo") EXCEPT
                             !.combos = <<[key |-> "cross", output |-> "dash"]>>],
   macros |-> "dash" :> [mode |-> "hold",
                         steps |-> <<[key |-> "square", press |-> 0, release |-> 1]>>]]
MCCapitals == "Cross" :> "cross" @@ "L2" :> "l2"

----------------------------------------------------------------------------

\* Every variable of every component has its type.
PartsTypeOK ==
  /\ MonitorTypeOK /\ WatcherTypeOK
  /\ HostTypeOK /\ UhidTypeOK /\ CompileTypeOK
  /\ AudioTypeOK /\ ServerTypeOK

============================================================================
