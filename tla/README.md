# Verification of edgemap

TLA+ models of edgemap, the TLC configurations that check them and theorems
checked with TLAPS. Paths are relative to the repository, `proxy/mod.rs` and the
like to `src/`.

## The system

`dseuhid` (root) reads a DualSense Edge over hidraw, maps its buttons and shows
the result as a virtual controller (UHID) and a virtual keyboard (uinput).
`edgemap` (user) chooses the configuration: its daemon matches running games
to profiles and sends the file that applies; `edgemap switch-config` sends one by
hand. They meet at a SEQPACKET control socket, and, for Bluetooth haptics, at a
datagram socket.

| component | state | operations | what makes it hard | correct when | modelled in |
|---|---|---|---|---|---|
| reconnect loop, `daemon.rs`, `session.rs` | phase, configuration kept for the next session | discover, run a session, delay, recreate, shut down | the controller vanishes anywhere; three copies of the configuration | a recreated session keeps its configuration, a lost controller drops it | DseuhidControl |
| discovery, `device/monitor.rs`, `discovery.rs` | udev monitor, candidate | enumerate, wait for nodes, wait for devices, probe | events thrown away while nodes are awaited, or dropped by a full buffer | it never sleeps past a controller | DeviceMonitor |
| input-node permissions, `device/permissions.rs` | original mode and ACL per node | restrict, restrict again, restore, forget | a crash leaves nodes hidden; grants arrive in between; calls fail one by one | hidden while held, restored at exit | NodePermissions |
| configuration commit, `proxy/mod.rs` | mapping, active configuration, recreate flag | parse, validate, compile, commit | partial failure | nothing changes unless all succeed | DseuhidControl |
| configuration compiler, `config/` | none | read, parse, validate, compile | what one accepts the other needs | accepted files give tables that run | ConfigCompile |
| control server, `control/` | clients, buffers, published state | accept, greet, drain, reply, publish | slow clients, descriptors reused within a batch, two limits | a client that reads knows the truth, none costs another its connection | DseuhidControl, ControlServer |
| daemon decisions, `bin/edgemap/daemon/mod.rs` | what is believed in force, selection, failure, force | reload, scan, prepare, acknowledge, fall back | decides on a state that may be old | the belief is true and the selection prevails | ConfigApply, ConfigSync |
| control connection, `bin/edgemap/control_session.rs` | connection, last state | connect, drain, request | states, errors, replies and timeouts in any mix | a reply is taken for its own request | ConfigSync |
| wake-ups, `bin/edgemap/daemon/monitor.rs` | inotify watches, scan deadline | wait, rebuild watches | directories deleted, moved and created between event and watch; dropped events | each directory or its parent is watched | DaemonMonitor |
| mapping, `proxy/pipeline.rs`, `runtime.rs` | turbo phases, macros, cached frame | transform, advance | late timers, shared outputs, analog values of suppressed triggers | the output is what the mapping means now | MappingRuntimes, MappingPipeline |
| report timing, `proxy/mod.rs`, `repeat.rs` | one timer, the report repeated, sequence number and clock | source report, tick, repeat, switch | batches of events, one timer for three users, two counters | no outdated report, no forgotten deadline, no number twice | ReportPath, HostReports |
| codecs, `codec/` | none (the counters are their users') | parse, encode | fields of 4, 6 and 8 bits, checksums | the host sees what the controller sent | ReportCodecs |
| UHID events, `proxy/uhid_events.rs`, `uhid.rs` | feature cache, events | start, output, get and set report | requests given up and asked again, a controller that vanishes | every request is replied to | UhidTraffic |
| keyboard, `keyboard.rs` | keys held | sync | some writes fail | a failed transition is retried | ReportPath |
| Bluetooth haptics, `proxy/haptics.rs`, `output.rs`, `control/haptics.rs` | queue, its deadline, speaker mode | receive, tick, stop | bursts, lateness, failing writes | played on time or dropped; never left playing | LiveHaptics |
| audio bridge, `bin/edgemap/daemon/audio.rs` | sink, worker thread | start, capture, send, stop | sessions end and begin while states are on their way | the capture belongs to the session | AudioBridge |
| lock, profiles, command line, GUI | little | flock, match, edit | mostly I/O | | |

`PROJECT.json` says component by component what is modelled.

## Modules

    ConfigService  <--implements--  DseuhidControl            DseuhidControlProofs
         ^                              |
         +---------implements---  ConfigSync <- ConfigApply   ConfigSyncProofs
    MappingRuntimes -> MappingPipeline -> ReportPath          ReportPathProofs
    LiveHaptics                                               HapticsProofs

    ControlClients <--implements--  ControlServer       --+   ControlServerProofs
                   ReportCodecs ->  HostReports         --+   HostProofs
                                ->  UhidTraffic         --+   HostProofs
                                    ConfigCompile       --+   ConfigFileProofs
               MCDaemonMonitor  <-  DaemonMonitor       --+   ConfigFileProofs
                                    AudioBridge         --+   PartsProofs
                                    DeviceMonitor       --+   PartsProofs
                                                          +-> MCParts (PartsProofs)
    NodePermissions, DseuhidControl -> MCDseuhidControl       PartsProofs

On the right the module that proves the theorems about it.

Each `MC` module gives its model the constants TLC needs. Operators marked
*Mutant:* are plausible bugs, each next to the definition it would replace and
in no action: replacing the definition by its mutant must violate a property,
and so shows that the property says something about the code. They are no part
of the models. `(model only)` marks variables that the code has no counterpart of,
such as the number of requests given up; no guard reads them except to bound a run.

**DseuhidControl.** `dseuhid` is one thread and each of its actions is what
that thread does between two points where it can be overtaken: `phase` names
those points (looking for a controller, opening it, building the session,
starting the proxy, running, waiting to retry, stopped). `active` is the
configuration of `daemon.rs`, `proxy` that of the running proxy, `uhid` the
output type the virtual controller was made for. `Deliver` is `set_state`
and `reply`: packets are appended to the buffers of the clients and a client whose
buffer is full loses its connection (`hup`: closed by the server, still
readable by the client). Left out here: descriptors, the limit of 16 clients and
malformed packets (ControlServer), several controllers (DeviceMonitor). `apply_active_config`
returns early at three stages: the constants `Parses`, `Valid` and `Compiles` say which
configurations pass each, and `mapping` is what the proxy's mapping and runtimes were built
from, next to the configuration it calls its own (`proxy`).

**ConfigService** is what clients are promised: one live configuration, up or
down, the `needs_config` flag its exact shadow, lost only by unplugging or a
restart. `ServiceSpec` maps `live` to the proxy's configuration once there is a
proxy and the daemon's otherwise.

**ConfigApply** has the operators of `ConfigApplyTracker`, **ConfigSync** the
loop of `cmd_daemon` on top of the whole of DseuhidControl, cut where another
process can overtake it: wake-up, reload or drain, connect, hello, decision,
each packet of a reply. Options such as `Option<PathBuf>` are a path or
`NoPath`. The profile scan returns what `wanted` says; an error of the scan, after
which the iteration ends like one that has nothing to do, is not an action of its
own. `Base` is a constant: a reload keeps the base configuration. Other clients
run `edgemap switch-config`.

**MappingRuntimes** has turbo and macro clocks, **MappingPipeline**
`transform_inner`: snapshot with the touchpad split, turbo, combos, blocks,
remaps and macros. Sets replace the per-button tables. An analog trigger is a
number, a stick target a direction; real stick values, motion and touch
coordinates pass through the code untouched and are left out. A pull a frame
reports for a released trigger is 20, so that "kept" and "cleared" differ.
Macros count in whole milliseconds from their start, turbo in exact
instants: with `TicksPerMs = 2` a wake-up can fall between two milliseconds.

**ReportPath** is the event loop around it: source reports, `ApplyConfig`, the
timer, ticks, the repeat of Bluetooth sources, the keyboard with writes that
fail. A turn is a batch of events in any order; time passes at any step. An
optional deadline or report is a set of at most one. Fields the code resets when it
stops using them (`MacroIdle`) are reset here too. Sequence numbers and time
stamps of reports are those of HostReports; a configuration for another output device ends
the proxy and belongs to DseuhidControl.

**LiveHaptics** is the stream of blocks to a Bluetooth controller. A block is its
kind: `silence`, `pcm`, or `audio` if it carries speaker data. Instants are
relative to now, so the state space needs no clock bound. Each queued block
carries the instant it is due, which the code has only for the head: the
properties compare the two. `Pass` within a turn is a proxy that is late, with
`MaxLate` its bound; blocks collect in the socket meanwhile, as they do when the
sender was late and sends a burst. `dev` is the controller: playing, speaker on,
and whether it refused a write since it last took a block.

**ControlServer** is the server below the packet queues of DseuhidControl: a table
of descriptors and `drain_requests`, which walks over a batch of events whose flags are as old as
the batch, in any order. Each event is a step, so that clients
connect, send and hang up within the walk. A connection ends at once if a reply does not reach it
(`AnswerPending`), and with the drain if it hung up, failed or sent garbage (`remove`, `EndDrain`). A descriptor is the lowest
free number, as the kernel gives them out. Packets have a kind (a request, one refused, one that
ends the connection, with a reply or, if it is empty, without); the state published has no content
here. An interrupted accept costs one of those of the wake-up; any other error of `accept4` or
`epoll_wait` ends `dseuhid` and every connection (`Fails`). Not modelled: an `epoll_ctl` that fails for a
client just accepted, which is logged and the client closed.

**ControlClients** is what the server's clients are promised, connection by connection, without
descriptors, batches or wake-ups: packets are taken in the order sent; for the one request that may
be owed an answer, nothing else is taken before it is answered; a connection ends only if its client
left, left its buffer full, sent garbage, was one too many, met a loose end (below, *Other
observations*), or the server came to its end (`End`). `ServerPromise` maps a
connection to its socket, the limit on descriptors to one on connections, and the loose ends to the
numbers that are on the list of closes twice.

**DeviceMonitor** has the three places where `dseuhid` looks for a controller
(`find_dualsense`, `wait_for_input_nodes`, `wait_for_event`) against udev events that
queue at the monitor. Its buffer is bounded: what it has no room for is dropped, and the error is
seen by the poll, which is fatal, or, if it had returned before, by the read, which takes it
for the end of the queue (`Overrun`). A probe may fail, as may the monitor, an enumeration or
a wait, which ends the daemon (`MonitorFails`). `missed` has the controllers that could not be probed or
whose event was lost.

**NodePermissions** has the passes over the nodes of a controller, a node at a time and with getfacl as a
step of its own, against udev and logind. What a node has is a mode and an ACL, since `getfacl`,
`setfacl -b`, `chmod` and the two calls of `restore` fail one by one. `granted` is what udev gave a node last,
or `Lost` where the code had no chance to see it or failed to bring it back; `exposed` are nodes the
last chmod 000 failed on. What makes a grant lost is written in the actions and named at
`NodesAreHiddenThenRestored`.

**DaemonMonitor** has `wait`, `handle_events` and the loops of `ensure_config_watch`,
`ensure_runtime_watch` and `ensure_run_watch`, with `Check`, `Look`, `Install`, `WatchParent` and
`Recheck` as the system calls between which a directory may come or go. A directory is an inode:
the one created in its place is another, the one that is moved away and back is the same and keeps its
watch. The queue of events is bounded (`MaxQueue`): what it has no room for is dropped, with one
event that says so. A poll that fails, and the loss of the parent of the
configuration directory, end the daemon. The two sides share these actions; `side` is the one being
looked after. The scan deadline is ConfigSync's.

**ReportCodecs** has the formats of both virtual controllers as operators from a report to
a record of its fields, and their counters with the width as a constant. **HostReports** is
what the proxy sends with them: the number it counts, the report kept for repeats, and a
runtime's change to it (`PreserveSeqTs`). `HostSeesTheController` compares the report last
sent with the source frame through a definition of its own (`Visible`, `Touches`,
`ExpectedTime`) and not through the encoder. **UhidTraffic** is the other direction: output
reports, feature requests, and blocks of live audio, whose failing write ends the session between two
of them. The kernel has one request at a time, may give
it up and ask again while the event of the first is still queued; a reply counts only with the
number of the request that waits.

**ConfigCompile** edits a small configuration and loads it: parse, validate and compile are
operators, and `AcceptedRuns` says of the tables that come out what the runtimes assume without
asking. A text is a member of a set that has each kind the parser tells apart (a button, a
capitalised button, a macro, a key known and unknown, the keywords, and "").

**AudioBridge** is dseuhid's receiver and published state, the states on their way to the
daemon, the manager and its worker. `bridge.to` is the receiver the worker is connected to: the
code has it only as a socket.

**MCParts** takes the seven modules of the lower half of the diagram, which share no state,
into one specification: a behaviour picks a part and takes its steps, so each is checked in all of its
interleavings and none is multiplied with another. **MCDseuhidControl** does the same with the nodes
`dseuhid` hides and its control plane.

## Runs

| run | question | bounds, and why they are enough |
|---|---|---|
| `control` | Is what dseuhid publishes true in every interleaving, and does it implement ConfigService? Do the nodes it hides come back? | Two symmetric clients (one to be dropped, one to be told), a configuration per output type and one that parses and is rejected by validation, a buffer of 2 packets so that it fills, 1 unplugging, 1 restart. 2 nodes, so that a pass is interrupted between them; 2 grants, to tell an old one from a new one; crashes, unplugging and failing calls as often as they like. |
| `sync` | Does edgemap believe the truth? | The daemon and one manual client, any 2 of: unplug, restart of either daemon, timeout, profile change, reload, broken file, manual switch. Two events are a fault and one that overtakes its handling. |
| `sync_live` | Is every request answered, every lost belief restored, and does the selection prevail? | The daemon alone, any 3 of: unplug, restart of dseuhid, timeout, profile change, reload, a file broken or repaired (2, so that what was broken can be repaired). No manual switch and no restart of the daemon, as fairness makes the check slower. A buffer of 4 packets still fills. |
| `needs_config` (violation) | Is a controller that needs a configuration given one? | 1 unplugging. |
| `stale_ack` (violation) | Do decisions advance only when acknowledged? | 1 timeout, 1 profile change. |
| `report_direct` | Is what the runtimes and keyboard show the meaning of the mapping at its instant? | Mappings with turbo, a combo, both macro modes, shared outputs, split touchpad, blocks and remaps; 10 half milliseconds cover two turbo periods and both macros to their end; 3 source reports (press, change, release), 1 switch, 1 failing update. |
| `report_repeat` | The same for every report when the last one is repeated: cadence, no forgotten deadline, no spinning. | 6 ms, two intervals of the repeat; same reports and switch. |
| `single_macro` (violation) | Does a single macro run once? | 3 reports, no fault. |
| `haptics` | Are blocks played on time or dropped, and is no controller left playing? | A period of 2 ticks, so that wake-ups fall inside it; lateness of three periods, the whole of the queue; 2 failing writes, as the second is the muting one. |
| `zero_input` (violation) | Does silence end the stream? | A period of 1 tick, lateness of 1, no failing write. |
| `parts` | Seven questions, one per part (below), and the types of all of them (`PartsTypeOK`). | Below. |
| `missed_change` (violation) | Is a change of edgemap.toml loaded when the daemon sleeps with nothing queued? | 2 directories per side (one and its replacement), 2 versions of the file, a queue of 3 events, nothing moved. |

The parts of `parts`:

| part | property | bounds, and why they are enough |
|---|---|---|
| ControlServer | `ServerPromise`: it implements ControlClients, so a connection the server ends was at fault, and what was received is answered, once, to its sender | 3 peers against a limit of 2 clients, so that one is refused and a descriptor is reused; 1 accept a wake-up, so that accepting spills over; buffers of 1 packet, so that replies fail. |
| DeviceMonitor | `NoWakeUpIsLost` | 2 controllers, one of which is the candidate; a buffer of 2 events, so that one more is dropped, however often they come and go. |
| DaemonMonitor | `WatchesAreInPlace` | As in `missed_change`, with a queue of 1 event so that it overflows, and the configuration directory moved away and back. |
| HostReports | `HostSeesTheController` | Counters of 4 and 2 values and a clock of 4, so that each wraps several times; 2 reports with different touches and hats; 3 button sets, with opposite directions; every source, target and mode of repeat. |
| UhidTraffic | `HostIsServed` | 2 events queued and 2 requests: one given up and its successor; a report that is forwarded as it is and one that is not the target's. |
| ConfigCompile | `AcceptedRuns` | 2 edits of a configuration that has a split touchpad, a combo and a macro: a clash takes one section or two. |
| AudioBridge | `CaptureFollowsSession` | 2 devices, 3 sessions (same device, another one, back again), a socket of 3 states, so that two sessions can pass before a state is taken. |

The properties, each with the code it is about, are documented where they
are defined. Deadlock is not checked where the system really stops: in
ReportPath and LiveHaptics when the session has ended (or, in ReportPath, the
clock has reached its bound), and in `parts` and `missed_change` when a daemon has ended, a
file is loaded, or the bound on what may still happen is reached. `control`, `sync` and `sync_live` check it.

### Fairness

`Fairness` of DseuhidControl: each step of the daemon thread is weakly fair, as
it never waits for anything but a controller and clients. Serving one client is strongly
fair: a drain takes one request and leaves the others in their sockets, epoll is level-triggered
and puts a descriptor that is still ready behind the others it returned, and a client that has
asked waits for its reply before it asks again, so one client is not overtaken by another for
ever. (The weaker assumption of a client that floods the server is not made: `edgemap` is none.) Nothing is
assumed of the controller or of clients. `EdgemapFairness`: each step of the loop is weakly fair, for the same
reason. A scan (`Wake(TRUE)`) is strongly fair: its deadline is absolute, so
other wake-ups cannot postpone it, though each of them takes the loop out of
the state in which it waits. A timeout is never assumed to happen, so liveness
does not rest on it. `FairHapticsSpec`: time passes, blocks are complete in
time, and the loop serves descriptors and ends its turns; nothing is assumed of
capture starting or stopping. The parts state no fairness: what they ask of a daemon that is
asleep, or has taken every state, is what it has overlooked, and is an invariant.

## What the runs show: disagreements with the documentation

* **`needs_config`**: the daemon forces a new apply when it sees `needs_config`
  go from false to true (`daemon/mod.rs:26`). States are coalesced and the
  flag is cleared after the acknowledgement. If the controller goes away between
  an acknowledged apply and the drain that follows, the daemon sees true
  and true, and a controller that asks for a configuration stays in
  passthrough until the selection changes.
* **`stale_ack`**: a reply names no configuration. One that arrives after its
  request timed out is taken for the next one (`control_session.rs:53`), and
  the tracker records as applied what dseuhid has not acknowledged.
  `AckIsForPending` shows that this is the only way.
* **`single_macro`**: macros start on a level. A single macro whose trigger is
  still down when it ends starts again with the next report
  (`pipeline.rs:118`), where the documentation says it runs once.
* **`zero_input`**: an overflow of the block queue moves the deadline on
  (`proxy/haptics.rs:42`). After one stall of the proxy has filled the queue, a
  block in each period overflows it again before the tick, so the deadline is
  never reached: silence does not end the stream, and sound, by the same steps,
  is not played until capture pauses.
* **`missed_change`**: `ensure_config_watch` looks at the configuration directory twice
  (`monitor.rs:202`, `211`). A directory that is gone at the first look and back at the second gets a new
  watch, but nothing sets `config_changed`: the event of the old watch no longer counts, and its
  parent, which would have reported the new directory, was not watched. The new `edgemap.toml` is
  loaded when another event comes. `resync_runtime` has its second look for this very reason.
  No event has to be dropped for it.

### Other observations

Met while modelling; the models have them as the code does.

* A client that sends garbage and cannot be told is removed at once and again, by descriptor
  number, when the drain ends (`control/server.rs:136-161`). A client accepted in between on that
  number is closed in its place. `DroppedForCause` names this exception (`heirs`).
* `remap = "L2"` is the same button as `remap = "l2"` to the parser, but the turbo check compares
  the text: turbo on the capitalised form is accepted (`config/validate.rs`).
* The `[touchpad]` section of a split touchpad is not validated any further. With turbo and an
  interval of 0 it becomes a turbo entry that would divide by zero; it never runs, because the
  pipeline has replaced the button by its halves. `TurboRuns` names this case.
* A macro may be named "". An empty remap then passes the button through and also starts it.
* On a half of a split touchpad such a remap hides a macro from validation. `remap = ""` counts as
  passthrough (`config/validate.rs:43`), so turbo beside it is accepted, where turbo and a macro exclude
  each other; the compiler takes "" for the macro's name (`config/compile.rs:112`), and makes no
  runtime for a section with turbo. What comes out is a rule whose macro never starts. It takes
  three edits of the example, one more than the run makes: the attempt to prove `AcceptedRuns`
  found it, and `MacrosRun` now names the case.
* A combo whose key is `touchpad` under a split touchpad is accepted and never fires: the
  pipeline has replaced that button by its halves.
* Steps of macros may press Edge buttons, which the documentation excludes as targets
  (`config/targets.rs`, docs/DEVELOPMENT_REFERENCE.md:221).
* A crash while nodes are hidden makes the next run take mode 000 for the original
  (`device/permissions.rs:63`): `Lost` in NodePermissions.
* If chmod 000 fails on a node whose ACL has been cleared, the next input report captures it again
  (`re_restrict` skips nodes of mode 000 only) and the snapshot with the ACL is replaced by one
  without: the ACL is lost, though nothing went wrong at the end. `exposed` in NodePermissions.
* A queue of inotify events that overflows sets `config_changed` and `runtime_changed`, but the watches
  are looked at only for a directory that is missing. If the event dropped was the end of a watch
  and the directory is there again, the daemon takes the old watch for that of the new
  directory and hears no more of it, where docs/DEVELOPMENT_REFERENCE.md:216 says that
  resynchronization recovers from overflow. `WatchesAreInPlace` names these sides (`dropped`).
* If the udev monitor's buffer overflows after its poll and before its read, `read_paths` sees the
  error as the end of the events: a controller whose event was among those dropped is
  not used until it is plugged in again (`missed` in DeviceMonitor).

## Theorems

`DseuhidControlProofs` proves, for any clients, configurations, buffer sizes and
bounds, under the assumptions named in DseuhidControl (accepted configurations are
configurations, `NoConfig` is none, the startup configuration is
accepted, an output type is not `NoUhid`, buffers hold a packet):

| theorem | |
|---|---|
| `ControlInvariant` | the inductive invariant `ControlInv` |
| `NeedsConfigCorrect`, `ReadyUhidCorrect`, `OnlyAcceptableLive` | the three invariants on published state and configuration |
| `NewestStateCorrect` | the newest state in a connected client's queue is the published one |
| `TypeCorrect` | types and the bound on what a client leaves unread |
| `ImplementsService` | `Spec => ServiceSpec` |

The three invariants are not inductive. That `needs_config` is true exactly in
passthrough needs to know which copy of the configuration counts: `PhaseInv`
says that outside `start` and `running` there is no proxy configuration and
nothing to recreate, that the session being built has the virtual controller its
configuration asks for, and that in `start` both copies agree. `RecreateInv` says that
only a session with a configuration is recreated: without it `ConfigChanged`
would copy passthrough while the flag stays. `ControlInv` is these with the types
and the three properties, preserved action by action. The connections are
independent of it: `WireInv` (types of the queues, `NewestQueuedStateIsCurrent`)
follows from lemmas on `Deliver`, which appends the new state to the queue
of every client it does not drop. `ImplementsService` maps each action under `ControlInv` to a
step of ConfigService or to a stutter.

`ConfigSyncProofs` puts edgemap on top of it, for any clients, configurations and bounds
(`NoConfig` is neither a configuration nor a client):

| theorem | |
|---|---|
| `BeliefCorrect` | `BeliefIsTrue`: what the daemon believes in force is in force |
| `AckCorrect` | `AckIsForPending`: an acknowledgement is that of the request pending |
| `ViewCorrect`, `ConnectionKept`, `SyncTypeCorrect` | the drained view is the published state, draining costs no connection, types |
| `SyncImplementsService` | `SyncSpec => ServiceSpec`: with edgemap at the other end dseuhid still is a ConfigService |
| `SyncPublishesTruth` | the four invariants of what dseuhid publishes hold of both processes together |

The belief is about a reply that is still on its way, so `BeliefInv` says it of both sides of the
acknowledgement: once its "ok" is in the queue the configuration in force is the one requested,
before that it is the old one. That needs `ReplyInv` (what is unanswered, and the answers in the queue,
are one request or none, unless one was given up), `HelloInv` (the hello is the first packet and
the only one of its kind), `LinkInv` (what a connection may be at each point of the loop) and
`ManualInv`. Below these are `ControlInv` and `WireInv`; every step of dseuhid the daemon does not
see keeps what it relies on (`ServedLoop`).

The last two theorems ask nothing of edgemap's own state: by `OthersLeaveServer` a step of edgemap, of
switch-config or of the files leaves what dseuhid decides with alone, dseuhid's own steps are mapped as in
`ImplementsService`, and what is published is `ControlInv` and `WireInv`, which the steps of both processes
keep.

`ReportPathProofs` proves, for every set of validated mappings, source frames, interval of the
repeat and bound, however late the wake-ups:

| theorem | |
|---|---|
| `OutputCorrect` | `OutputIsCurrent`: while nothing is due, the last output is what the mapping means now |
| `ReportsCorrect` | `EveryReportIsCurrent`: so is every report sent, by the repeat too |
| `TimerCorrect`, `TicksProgress` | `NoDeadlineIsForgotten`, and a turn that served the timer leaves nothing overdue |
| `SinglesComplete`, `TimersOnlyContinue` | a single macro runs to its end; a timer starts nothing |
| `TriggersSilenced` | a suppressed trigger leaves no analog pull |
| `TimingNeverFails` | the fatal errors of `handle_timing_tick` are unreachable |
| `KeyboardCorrect` | keys held differ from the last output only where the last update failed |
| `CadenceKept` | the action property `RepeatKeepsItsCadence` |
| `ReportTypes` | types, and runtimes that are those of the mapping in force |

The meaning of a mapping is stated on the instants at which turbos and macros were started, the code
counts forward from where it was. `RuntimesRight`, in `RuntimeInv`, joins them: each runtime is right
at any later instant up to its own deadline, and its deadline does not come after its next change, so
that nothing is missed between two wake-ups. `CacheInv`: without a cached frame the runtimes are
those just made from the mapping, which have no deadline, and with one the repeat has a report.
`ReportInv` says that this report is the last output, `GridInv` that there is one deadline of
the repeat exactly while there is a report, which with the arithmetic of `first_future_deadline`
(`NextOnGrid`) is the cadence. `TimerInv` has the timer. `PathInv` is all of them. `KeyboardFollows` is
inductive as it stands, since what an update leaves over does not depend on what was held before it.

Five modules prove the properties of the other components, for all their constants:

| theorem | establishes | invariant |
|---|---|---|
| `HapticsProofs!PlayedInTime`, `DeadlineCorrect` | a block of the queue is played in its period; the deadline is that of the first | `LiveInv` |
| `HapticsProofs!QuietCorrect`, `MuteCorrect` | `QuietWhenIdle`, `OneFailureStillMutes` | `LiveInv` |
| `HapticsProofs!FutureKept`, `LiveTypeCorrect` | the action property `FutureBlocksSurvive`; types and bounds | `LiveInv` |
| `HostProofs!HostSeesCorrect` | `HostSeesTheController` | `HostInv` |
| `HostProofs!HostServed` | `HostIsServed` | `UhidInv` |
| `HostProofs!HostTypes`, `UhidTypes` | `HostTypeOK`, `UhidTypeOK`: numbers fit their fields, queues their bounds | with `CursorTypes`; `UhidInv` |
| `ControlServerProofs!ClientsServed` | `ClientsGetTheirDue`: a connection dropped had a cause, a request is answered to its sender | `ServerInv` |
| `ControlServerProofs!ServerKeepsPromise` | `ServerSpec => ServerPromise` | `PromiseInv` |
| `ConfigFileProofs!WatchesCorrect` | `WatchesAreInPlace` | `WatcherInv` |
| `ConfigFileProofs!AcceptedCorrect` | `AcceptedRuns` | `CompileInv` |
| `PartsProofs!WakeUpsAreKept` | `NoWakeUpIsLost` | `MonitorInv` |
| `PartsProofs!NodesComeBack` | `NodesAreHiddenThenRestored` | `PermInv` |
| `PartsProofs!CaptureIsOfSession` | `CaptureFollowsSession` | `AudioInv` |
| `PartsProofs!PartsAreBehaviours` | `PartsSpec` implies each of the seven specifications | none |
| `PartsProofs!PartsTypes` | `PartsTypeOK` | those of the parts |

LiveHaptics. A step of the loop takes every datagram that waits, and `Received` folds over them: what holds
of the stream after one datagram must be carried to the last. The proof takes the least index at which
`StreamRight` would fail instead of an induction. `StreamRight` says that the first block is due at the
deadline and the others a period apart; `IdleInv` and `SpeakerInv` say when the controller is as
the code believes it is, counting the writes that failed.

`CaptureFollowsSession` speaks of a daemon that has taken every state. `LinkInv` says that the last
state on its way is what is shown, and `StaleInv`, the heart of it, that a worker of a session before
this one is stale only as long as a not-ready state is on its way, which will stop it: this is why
every state is handed to the manager and not the last one only. `StageInv` ties what is shown to the
receiver.

`HostSeesTheController` compares a report with the frame field by field, after packing, rescaling and
three counters. The lemmas are on the formats: `HatShows` (four directions and the hat), `TouchesWritten`
(coordinates of 12 bits in bytes, and the rescaled ones of the DualShock 4), `EncodeShows`, `PreserveShows`
(a runtime's change of the report that is repeated). `HostInv` says of the report kept what the
property says of the one sent, with the clock of its repeats (`CachedInv`), and
counts numbers and instants modulo the widths of their fields (`SentInv`).

`HostIsServed` rests on `RequestsInv`: the request that waits is in the queue while the proxy runs, though
others before it may have been given up; its lemmas are on appending to and taking from the queue.

`ClientsGetTheirDue` rests on `TableInv` (a descriptor has one open connection), on `BatchInv` (an event
of the batch is of a client that is still there, is not to be removed and has asked for nothing
in this drain) and on `RemoveInv` (what is to be removed has a cause, or its number has passed to
another, the exception the property names). Events of a batch may be walked in any order.

`ServerKeepsPromise` maps each step of the server, under `PromiseInv`, to a step of ControlClients or to a
stutter. The converse of `TableInv`, `TableIsFull` (a connection that is served has a descriptor), makes
the map from descriptors to connections one to one, so that the limit on
descriptors is one on clients (`ServedCount`), and refusing a client or failing to greet it is one step,
`TurnAway`. Closing is where the levels differ: the server closes numbers, the clients have
connections. `CloseOne` shows that to close a descriptor is to close one connection, `EndDrainMapping`
that the closes a drain ends with are those of doomed connections or loose ends, and `OneLess` that a
client which stays open keeps its descriptor then.

`PartsTypes` rests on `PartsAreBehaviours`: a step of the run is one of a part and leaves the others
alone, so that what is proved of a specification holds in the run. The types themselves are seldom
inductive. `HostTypeOK` needs that the field of a DualShock 4 divides that of the proxy (`NarrowFits`),
and that a report which is repeated was encoded from a frame (`HatTyped`, `Shows`); `UhidTypeOK` that events
of the kernel are typed while they wait (`RequestsInv`); `AudioTypeOK` that a worker's receiver has begun.

`WatchesAreInPlace` speaks of an idle daemon, and of the sides the end of whose watch was not dropped. `Secured` is the same of one side at a time, in place or
with an event queued that will restore it, and `DoneInv` says which sides each point of a wake-up has seen
to; `ParentInv` is about the directory that comes between two system calls.

`AcceptedRuns` is not a matter of edits: the lemmas show that whatever `Validate` accepts gives tables
that run (`OneOwner`, `Turbos`, `MacrosStart`, `CombosHeld`, `ValidFilesRun`), for any texts, and
`CompileInv` only says that what was loaded was validated.

`NoWakeUpIsLost` speaks of a daemon that sleeps with no event queued. Before that, `SearchInv`
says which events still announce the controllers there are: those queued, and while paths are being
probed those read too. `CandidateInv` says that a candidate whose nodes are awaited has an event
to come or is as it was when it was last looked at; it needs `ControllerRemoved` to enumerate again.

In NodePermissions a property of the end of a session depends on every step of a pass before it.
`GrantInv` says where the last grant of a node is: in force, or hidden and recorded, and, for the node
being hidden, in force until its ACL has been read and recorded after. `HiddenInv` excuses the node a
pass is at, what the process has not looked at (`unseen`) and what it failed to hide (`exposed`), and
`PassInv` keeps a node from being visited again.

### Assumptions

They are the ones named in the modules. Those that are more than a constant's type:

* `MappingAssumption` (ReportPath): the mappings are such as validation lets through, with the
  intervals and macros the runtimes assume. `AcceptedCorrect` is about the same conditions where they come from.
* `FrameAssumption` (ReportPath): the half of the touchpad that is touched is one of two; and a
  controller that reports a pull of a trigger under turbo reports its button. The second is a
  property of the hardware, and is needed: the report that ends a turbo is made
  with the button released and its pull cleared.
* `HostAssumption` (HostReports): contacts are bytes and instants natural numbers.
* `CompileAssumption` (ConfigCompile): the configuration that is edited has the fields serde reads, with
  natural instants and intervals, as the unsigned fields they are read into.
* `UhidAssumption` (UhidTraffic): the bound on queued events is not 0, as the device is created with
  its first event queued. The proof of `UhidTypeOK` asked for it.
* `GrantAssumption` (NodePermissions): what udev gives a node is not mode 000 without an ACL, so that hidden
  and given differ; `DirsAssumption` (DaemonMonitor), `MonitorAssumption` (DeviceMonitor): bounds are numbers.
* `CodecAssumption` (ReportCodecs, also for UhidTraffic): widths are positive, and the counter of a
  DualShock 4 divides that of the proxy.

### Only model-checked

The liveness properties (`UnknownIsResolved`, `RequestEnds`, `SelectionPrevails`), as liveness under
fairness and `ENABLED` are out of the prover's reach. Every safety and action property of the passing
runs is stated by a theorem (`DaemonTypeOK` and `PartsTypeOK` are those of their parts). That the
example's tables, mappings and frames of the `MC` modules satisfy the assumptions is evaluated
in their runs.

## Not modelled, and the plan

Not modelled by intent: byte layouts and descriptors, the arithmetic of sticks, motion, battery and checksums
(a checksum is right or wrong), the resampler and Opus, logging, PipeWire, `/proc` scanning,
argument handling, the lock (one flock), the creation of the uinput device, and the GUI, which ConfigSync sees as edited
files. What the kernel holds of a key whose SYN could not be written (`keyboard.rs:172`) is not in
ReportPath. Whether a manual configuration or the daemon's has precedence
after `needs_config` (`daemon/mod.rs:492`) is left open by the documentation, so no property decides it.

Built in this order: the control plane and its service; reports and haptics; then, the most
exposed first, the server, the devices and their nodes, the daemon's watches, the reports and
requests of the host, the compiler and the audio bridge. Left:

1. `ControlServer` implements ControlClients, whose packets have a kind; DseuhidControl has the
   same queues with the contents of packets. One level that has both would join the two.
2. Liveness of DeviceMonitor: a controller that stays is used in the end.
