---------------------------- MODULE DeviceMonitor ----------------------------
(***************************************************************************)
(* How dseuhid waits for a controller (daemon.rs, device/monitor.rs,       *)
(* device/discovery.rs): a udev monitor is opened, the devices that exist  *)
(* are enumerated, and then the daemon sleeps on the monitor, the control  *)
(* socket and the shutdown signal.  A controller is used once udev has     *)
(* initialized its hidraw node and all of its input nodes.  Devices come   *)
(* and go between any two steps; their events queue at the monitor, which  *)
(* drops those its buffer has no room for and reports that as an error     *)
(* once: to poll, which is fatal, or to a read that follows a poll before. *)
(***************************************************************************)
EXTENDS Naturals, Sequences

CONSTANTS
  Controllers,
  NoController,
  MaxPlugEvents \* udev events the buffer of the monitor holds

ASSUME MonitorAssumption == NoController \notin Controllers /\ MaxPlugEvents \in Nat \ {0}

VARIABLES
  hidraw,   \* controllers whose hidraw node exists and is initialized
  inputs,   \* controllers whose input nodes exist and are initialized
  udev,     \* events queued at the monitor: the controller added, or none of use
  control,  \* the control socket is readable
  signal,   \* SIGINT or SIGTERM is pending
  found,    \* the controller whose input nodes are awaited
  paths,    \* events whose hidraw nodes are still to probe
  monitorAt,\* where the daemon is
  overrun,  \* events were dropped: not, to be reported, reported to a read
  missed    \* (model only) controllers that could not be probed, or whose
            \* event was dropped

monitorVars ==
  <<hidraw, inputs, udev, control, signal, found, paths, monitorAt, overrun, missed>>

Places == {"new", "enumerate", "check", "wait_nodes", "wait", "probe", "session", "stopped"}

MonitorTypeOK ==
  /\ hidraw \subseteq Controllers
  /\ inputs \subseteq Controllers
  /\ udev \in Seq(Controllers \cup {NoController})
  /\ control \in BOOLEAN
  /\ signal \in BOOLEAN
  /\ found \in Controllers \cup {NoController}
  /\ paths \in Seq(Controllers \cup {NoController})
  /\ monitorAt \in Places
  /\ overrun \in {"none", "raised", "taken"}
  /\ missed \subseteq Controllers

MonitorInit ==
  /\ hidraw = {} /\ inputs = {}
  /\ udev = <<>>
  /\ control = FALSE /\ signal = FALSE
  /\ found = NoController
  /\ paths = <<>>
  /\ monitorAt = "new"
  /\ overrun = "none"
  /\ missed = {}

Monitoring == monitorAt \notin {"new", "session", "stopped"}
daemonVars == <<control, signal, found, paths, monitorAt>>

----------------------------------------------------------------------------
(* The world.                                                              *)

\* Once an event has been dropped so are all until the queue has been emptied.
Room == overrun = "none" /\ Len(udev) < MaxPlugEvents
MonitorEvent(e) ==
  /\ udev' = IF Monitoring /\ Room THEN Append(udev, e) ELSE udev
  /\ overrun' = IF Monitoring /\ ~Room /\ overrun = "none" THEN "raised" ELSE overrun

HidrawAdded(c) ==
  /\ c \notin hidraw
  /\ hidraw' = hidraw \cup {c}
  /\ MonitorEvent(c)
  /\ missed' = IF Room THEN missed \ {c} ELSE missed \cup {c}
  /\ UNCHANGED <<inputs, daemonVars>>

InputsAdded(c) ==
  /\ c \notin inputs
  /\ inputs' = inputs \cup {c}
  /\ MonitorEvent(NoController)
  /\ UNCHANGED <<hidraw, missed, daemonVars>>

Removed(c) ==
  /\ c \in hidraw \cup inputs
  /\ hidraw' = hidraw \ {c} /\ inputs' = inputs \ {c}
  /\ MonitorEvent(NoController)
  /\ UNCHANGED <<missed, daemonVars>>

Poke ==
  /\ \/ ~control /\ control' = TRUE /\ signal' = signal
     \/ ~signal /\ signal' = TRUE /\ control' = control
  /\ UNCHANGED <<hidraw, inputs, udev, found, paths, monitorAt, overrun, missed>>

----------------------------------------------------------------------------
(* The daemon.                                                             *)

world == <<hidraw, inputs>>
losses == <<overrun, missed>>

\* HidrawMonitor::new: from here on events are queued.
NewMonitor ==
  /\ monitorAt = "new"
  /\ udev' = <<>> /\ overrun' = "none"
  /\ monitorAt' = "enumerate"
  /\ UNCHANGED <<world, control, signal, found, paths, missed>>

\* find_dualsense: the first controller of those that can be probed.
FindDualsense ==
  /\ monitorAt = "enumerate"
  /\ \E failing \in SUBSET hidraw :
       /\ missed' = failing
       /\ \/ \E c \in hidraw \ failing : found' = c /\ monitorAt' = "check"
          \/ hidraw = failing /\ found' = NoController /\ monitorAt' = "wait"
  /\ UNCHANGED <<world, udev, control, signal, paths, overrun>>

\* Mutant: after the removal the daemon waits for events, of which
\* wait_for_input_nodes has thrown some away.
RemovedWithoutScan ==
  monitorAt = "check" /\ found \notin hidraw /\ monitorAt' = "wait" /\ found' = NoController

\* wait_for_input_nodes: removed, and the devices are enumerated again; ...
ControllerRemoved ==
  monitorAt = "check" /\ found \notin hidraw
  /\ monitorAt' = "enumerate" /\ found' = NoController

\* ... ready: the monitor is dropped and the session begins; or pending.
CheckInputNodes ==
  /\ \/ ControllerRemoved
     \/ /\ monitorAt = "check" /\ found \in hidraw
        /\ monitorAt' = IF found \in inputs THEN "session" ELSE "wait_nodes"
        /\ found' = found
  /\ UNCHANGED <<world, udev, control, signal, paths, losses>>

\* wait_for_event: an error of the monitor first, then the shutdown signal, the
\* control socket and the devices.
Sleeping == monitorAt \in {"wait_nodes", "wait"}
Polled == Sleeping /\ overrun # "raised"

ShutdownRequested ==
  /\ Polled /\ signal
  /\ signal' = FALSE
  /\ monitorAt' = "stopped"
  /\ UNCHANGED <<world, udev, control, found, paths, losses>>

\* reject_inactive_control.  While input nodes are awaited the daemon then goes
\* on to wait for devices, with the controller kept.
ControlActivity ==
  /\ Polled /\ ~signal /\ control
  /\ control' = FALSE
  /\ monitorAt' = IF monitorAt = "wait" /\ found # NoController THEN "check" ELSE "wait"
  /\ UNCHANGED <<world, udev, signal, found, paths, losses>>

\* The events are thrown away and the nodes looked at again.
NodeActivity ==
  /\ Polled /\ monitorAt = "wait_nodes" /\ ~signal /\ ~control /\ udev # <<>>
  /\ udev' = <<>> /\ overrun' = "none"
  /\ monitorAt' = "check"
  /\ UNCHANGED <<world, control, signal, found, paths, missed>>

\* read_paths; an event of no use has no path.
DeviceActivity ==
  /\ Polled /\ monitorAt = "wait" /\ ~signal /\ ~control /\ udev # <<>>
  /\ paths' = udev
  /\ udev' = <<>> /\ overrun' = "none"
  /\ monitorAt' = "probe"
  /\ UNCHANGED <<world, control, signal, found, missed>>

\* Events were dropped: poll finds that; or it had returned before, and the read
\* finds it, takes it for the end of the queue and reads nothing.
Overrun ==
  /\ Sleeping /\ overrun = "raised"
  /\ \/ monitorAt' = "stopped" /\ overrun' = overrun
     \/ /\ monitorAt' = IF monitorAt = "wait" THEN "probe" ELSE "check"
        /\ overrun' = "taken"
  /\ UNCHANGED <<world, udev, control, signal, found, paths, missed>>

\* probe_dualsense of each path: the first controller is kept, one that has
\* gone is none, and one that cannot be probed is passed over.
Probe(ok) ==
  /\ monitorAt = "probe" /\ paths # <<>>
  /\ paths' = Tail(paths)
  /\ LET c == Head(paths)
     IN IF c \in hidraw /\ ok
        THEN found' = (IF found = NoController THEN c ELSE found) /\ missed' = missed
        ELSE found' = found /\ missed' = missed \cup ({c} \cap hidraw)
  /\ UNCHANGED <<world, udev, control, signal, monitorAt, overrun>>

ProbeEnds ==
  /\ monitorAt = "probe" /\ paths = <<>>
  /\ monitorAt' = IF found = NoController THEN "wait" ELSE "check"
  /\ UNCHANGED <<world, udev, control, signal, found, paths, losses>>

SessionEnds ==
  /\ monitorAt = "session"
  /\ monitorAt' = "new"
  /\ found' = NoController
  /\ UNCHANGED <<world, udev, control, signal, paths, losses>>

\* The monitor, an enumeration, the input nodes of a controller still there, a
\* wait or the control socket fails: dseuhid exits.
MonitorFails ==
  /\ monitorAt \in {"new", "enumerate", "wait", "wait_nodes"}
     \/ (monitorAt = "check" /\ found \in hidraw)
  /\ monitorAt' = "stopped"
  /\ UNCHANGED <<world, udev, control, signal, found, paths, losses>>

MonitorNext ==
  \/ \E c \in Controllers : HidrawAdded(c) \/ InputsAdded(c) \/ Removed(c)
  \/ Poke
  \/ NewMonitor \/ FindDualsense \/ CheckInputNodes \/ ShutdownRequested \/ ControlActivity
  \/ NodeActivity \/ DeviceActivity \/ Overrun \/ (\E ok \in BOOLEAN : Probe(ok))
  \/ ProbeEnds \/ SessionEnds \/ MonitorFails

MonitorSpec == MonitorInit /\ [][MonitorNext]_monitorVars

----------------------------------------------------------------------------
(* Properties.                                                             *)

\* Asleep without an event to come, the daemon overlooks nothing: without a
\* candidate there is no controller but those it could not probe and those
\* whose event was dropped between a poll and its read; and the candidate it has
\* is there and is not ready.  Events are thrown away while input nodes are
\* awaited, and a control request moves the daemon from one wait to the other
\* (run of daemon.rs, wait_for_input_nodes).
NoWakeUpIsLost ==
  Sleeping /\ udev = <<>> =>
    IF found = NoController THEN hidraw \subseteq missed ELSE found \in hidraw \ inputs
=============================================================================
