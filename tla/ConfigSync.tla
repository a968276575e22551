----------------------------- MODULE ConfigSync -----------------------------
(***************************************************************************)
(* The edgemap daemon keeping dseuhid on the configuration its profiles     *)
(* select: the loop of bin/edgemap/daemon/mod.rs, its wake-ups             *)
(* (daemon/monitor.rs) and its control connection (control_session.rs),     *)
(* composed with the control plane of dseuhid.  Other clients run           *)
(* "edgemap switch-config".                                                 *)
(*                                                                          *)
(* The loop is cut where it can be overtaken: between a wake-up and the     *)
(* drain it causes, between the drain and the request the profile scan      *)
(* leads to, and at every packet awaited after that.                        *)
(***************************************************************************)
EXTENDS DseuhidControl, ConfigApply

CONSTANTS
  Edgemap,      \* the daemon's client identity
  Base,         \* base_config of edgemap.toml
  NoView,       \* control_state is None: not connected
  MaxTimeouts,  \* bound: requests given up after CONTROL_TIMEOUT
  MaxSwitches,  \* bound: changes of the profile that matches
  MaxReloads,   \* bound: writes to edgemap.toml
  MaxEdits,     \* bound: configuration files broken or repaired
  MaxManual,    \* bound: runs of edgemap switch-config
  MaxKills,     \* bound: restarts of the edgemap daemon
  MaxEvents     \* bound: all of these, replugs and restarts together

ASSUME EdgemapAssumption ==
  /\ Edgemap \in Clients
  /\ Base \in Configs
  /\ Paths = Configs /\ NoPath = NoConfig
  /\ NoView \notin ControlState
  /\ {MaxTimeouts, MaxSwitches, MaxReloads, MaxEdits, MaxManual,
      MaxKills, MaxEvents} \subseteq Nat

VARIABLES
  pc,          \* wait, top, hello, decide, reply
  view,        \* control_state
  tracker,     \* apply_tracker
  pending,     \* the apply whose reply is awaited
  due,         \* activity.profile_due
  changed,     \* activity.config_changed
  runtime,     \* activity.runtime_changed
  touched,     \* an inotify event for edgemap.toml is queued
  wanted,      \* the configuration the process scan selects
  loadable,    \* configuration files that read, parse and validate
  stale,       \* requests given up on this connection (model only)
  budget       \* what is left of each bound

activity == <<due, changed, runtime>>
world == <<touched, wanted, loadable>>
edgemap == <<pc, view, tracker, pending, activity, stale>>
server == <<phase, session, state, device, lost, replugs, restarts>>
syncVars == <<vars, edgemap, world, budget>>

Events == {"timeout", "switch", "reload", "edit", "manual", "kill", "any"}
Spend(e) ==
  /\ budget[e] > 0 /\ replugs + restarts < budget["any"]
  /\ budget' = [budget EXCEPT ![e] = @ - 1, !["any"] = @ - 1]

NoPending == [selected |-> NoConfig, target |-> NoConfig, fallback |-> FALSE]

SyncTypeOK ==
  /\ TypeOK
  /\ pc \in {"wait", "top", "hello", "decide", "reply"}
  /\ view \in ControlState \cup {NoView}
  /\ tracker \in Tracker
  /\ pending \in PendingApply \cup {NoPending}
  /\ {due, changed, runtime, touched} \subseteq BOOLEAN
  /\ wanted \in Configs
  /\ loadable \subseteq Configs
  /\ stale \in Nat
  /\ budget \in [Events -> Nat]

SyncInit ==
  /\ Init
  /\ pc = "top" /\ view = NoView
  /\ tracker = NewTracker /\ pending = NoPending
  /\ due = TRUE /\ changed = FALSE /\ runtime = TRUE
  /\ stale = 0
  /\ touched = FALSE
  /\ wanted \in Configs
  /\ loadable = Configs
  /\ budget = [e \in Events |->
       CASE e = "timeout" -> MaxTimeouts [] e = "switch" -> MaxSwitches
         [] e = "reload" -> MaxReloads [] e = "edit" -> MaxEdits
         [] e = "manual" -> MaxManual [] e = "kill" -> MaxKills
         [] e = "any" -> MaxEvents]

----------------------------------------------------------------------------
(* The loop of cmd_daemon.                                                  *)

Connected == view # NoView
Ready == Connected /\ view.uhid_ready
Readable == Connected /\ (rsp[Edgemap] # <<>> \/ conn[Edgemap] = "hup")

\* DaemonMonitor::wait returns: the control socket is readable, edgemap.toml
\* changed, the socket to connect to exists, or the scan deadline passed.
Wake(scan) ==
  LET dial == ~Connected /\ phase # "stopped" IN
  /\ pc = "wait"
  /\ scan \/ Readable \/ touched \/ dial
  /\ pc' = "top"
  /\ due' = (due \/ scan)
  /\ runtime' = (runtime \/ Readable \/ dial)
  /\ changed' = (changed \/ touched)
  /\ touched' = FALSE
  /\ UNCHANGED <<vars, view, tracker, pending, stale, wanted, loadable, budget>>

\* A reload that fails keeps the previous configuration and the tracker.
Reload ==
  /\ pc = "top" /\ changed
  /\ changed' = FALSE
  /\ \/ tracker' = ForceUnknown(tracker) /\ due' = TRUE
     \/ UNCHANGED <<tracker, due>>
  /\ UNCHANGED <<vars, pc, view, pending, runtime, stale, world, budget>>

\* Where an iteration goes once connection and state are up to date.
After(v, d) == IF v.uhid_ready /\ d THEN "decide" ELSE "wait"

Disconnect ==
  /\ HangUp(Edgemap)
  /\ view' = NoView
  /\ stale' = 0

\* drain_control_state: the latest state wins; a reply or the end of the
\* stream drops the connection.
Drain ==
  LET q == rsp[Edgemap]
      latest == IF q = <<>> THEN view ELSE q[Len(q)].state
      asked == latest.needs_config /\ ~view.needs_config
  IN
  /\ pc = "top" /\ ~changed /\ runtime /\ Connected
  /\ runtime' = FALSE
  /\ IF conn[Edgemap] = "hup" \/ \E i \in 1 .. Len(q) : q[i].kind # "state"
     THEN /\ Disconnect
          /\ pc' = "wait"
          /\ UNCHANGED <<tracker, due>>
     ELSE /\ view' = latest
          /\ rsp' = [rsp EXCEPT ![Edgemap] = <<>>]
          /\ tracker' = IF asked THEN ForceUnknown(tracker) ELSE tracker
          /\ due' = (due \/ asked)
          /\ pc' = After(latest, due')
          /\ UNCHANGED <<conn, req, stale>>
  /\ UNCHANGED <<server, pending, changed, world, budget>>

Connect ==
  /\ pc = "top" /\ ~changed /\ runtime /\ ~Connected
  /\ runtime' = FALSE
  /\ \/ /\ phase # "stopped"
        /\ Dial(Edgemap)
        /\ pc' = "hello"
     \/ /\ phase = "stopped"
        /\ pc' = "wait"
        /\ UNCHANGED wire
  /\ UNCHANGED <<server, view, tracker, pending, due, changed, stale, world, budget>>

\* connect_control succeeds: whatever dseuhid runs is unknown.
Greeted ==
  /\ pc = "hello" /\ rsp[Edgemap] # <<>>
  /\ view' = Head(rsp[Edgemap]).state
  /\ Read(Edgemap)
  /\ tracker' = ForceUnknown(tracker)
  /\ due' = TRUE
  /\ pc' = After(view', TRUE)
  /\ UNCHANGED <<server, pending, changed, runtime, stale, world, budget>>

\* No hello within CONTROL_TIMEOUT, or the socket closed.
ConnectFails ==
  /\ pc = "hello" /\ rsp[Edgemap] = <<>>
  /\ HangUp(Edgemap)
  /\ pc' = "wait"
  /\ UNCHANGED <<server, view, tracker, pending, activity, stale, world, budget>>

NothingChanged ==
  /\ pc = "top" /\ ~changed /\ ~runtime
  /\ pc' = IF Ready /\ due THEN "decide" ELSE "wait"
  /\ UNCHANGED <<vars, view, tracker, pending, activity, stale, world, budget>>

\* The profile scan and prepare(): nothing to send, ...
Settle ==
  /\ NoChange(tracker, wanted, loadable) \/ Retains(tracker, wanted, Base, loadable)
  /\ tracker' = Prepared(tracker, wanted, Base, loadable)
  /\ pc' = "wait"
  /\ UNCHANGED <<pending, runtime, wire>>

\* ... a request for the selection or for the base configuration, ...
Planned ==
  \/ RequestsSelected(tracker, wanted, loadable)
  \/ RequestsBase(tracker, wanted, Base, loadable)

\* Mutant: the file sent is always the selected one.
SendSelected ==
  /\ Planned /\ conn[Edgemap] = "open"
  /\ pending' = Pending(tracker, wanted, Base, loadable)
  /\ Request(Edgemap, wanted)
  /\ pc' = "reply"
  /\ UNCHANGED <<tracker, runtime>>

SendRequest ==
  /\ Planned /\ conn[Edgemap] = "open"
  /\ pending' = Pending(tracker, wanted, Base, loadable)
  /\ Request(Edgemap, pending'.target)
  /\ pc' = "reply"
  /\ UNCHANGED <<tracker, runtime>>

\* ... or one that fails because the server closed the connection.
SendFails ==
  /\ Planned /\ conn[Edgemap] = "hup"
  /\ tracker' = RecordRequestFailure(tracker, Pending(tracker, wanted, Base, loadable))
  /\ runtime' = TRUE
  /\ pc' = "wait"
  /\ UNCHANGED <<pending, wire>>

Decide ==
  /\ pc = "decide"
  /\ due' = FALSE
  /\ Settle \/ SendRequest \/ SendFails
  /\ UNCHANGED <<server, view, changed, stale, world, budget>>

----------------------------------------------------------------------------
(* send_daemon_control_request: packets until a reply, an error or a        *)
(* timeout.                                                                 *)

Reply == Head(rsp[Edgemap])
Awaiting(kind) == pc = "reply" /\ rsp[Edgemap] # <<>> /\ Reply.kind = kind

\* The request failed; the connection is kept and drained at the next turn.
RequestFails ==
  /\ tracker' = RecordRequestFailure(tracker, pending)
  /\ pending' = NoPending
  /\ runtime' = TRUE
  /\ pc' = "wait"
  /\ UNCHANGED <<server, view, due, changed, world>>

\* Mutant: a state that arrives before the reply is an unexpected reply.
FailOnState ==
  /\ Awaiting("state")
  /\ Read(Edgemap)
  /\ RequestFails
  /\ UNCHANGED <<stale, budget>>

\* Mutant: a state that arrives before the reply is thrown away.
IgnoreState ==
  /\ Awaiting("state")
  /\ Read(Edgemap)
  /\ UNCHANGED <<server, pc, view, tracker, pending, activity, stale, world, budget>>

ReceiveState ==
  /\ Awaiting("state")
  /\ view' = Reply.state
  /\ Read(Edgemap)
  /\ UNCHANGED <<server, pc, tracker, pending, activity, stale, world, budget>>

ReceiveOk ==
  /\ Awaiting("ok")
  /\ tracker' = Acknowledge(tracker, pending)
  /\ pending' = NoPending
  /\ pc' = "wait"
  /\ Read(Edgemap)
  /\ UNCHANGED <<server, view, activity, stale, world, budget>>

ReceiveError ==
  /\ Awaiting("error")
  /\ Read(Edgemap)
  /\ RequestFails
  /\ UNCHANGED <<stale, budget>>

ReceiveHangUp ==
  /\ pc = "reply" /\ conn[Edgemap] = "hup"
  /\ RequestFails
  /\ UNCHANGED <<wire, stale, budget>>

ReceiveTimeout ==
  /\ pc = "reply" /\ rsp[Edgemap] = <<>> /\ conn[Edgemap] = "open"
  /\ Spend("timeout")
  /\ stale' = stale + 1
  /\ RequestFails
  /\ UNCHANGED wire

EdgemapStep ==
  \/ \E scan \in BOOLEAN : Wake(scan)
  \/ Reload \/ Drain \/ Connect \/ Greeted \/ ConnectFails \/ NothingChanged
  \/ Decide
  \/ ReceiveState \/ ReceiveOk \/ ReceiveError \/ ReceiveHangUp \/ ReceiveTimeout

----------------------------------------------------------------------------
(* edgemap switch-config: connect, send once, wait for the reply.           *)

ManualDial(c) ==
  /\ Spend("manual") /\ Dial(c)
ManualRequest(c) ==
  /\ conn[c] = "open" /\ rsp[c] # <<>> /\ Head(rsp[c]).kind = "hello"
  /\ rsp' = [rsp EXCEPT ![c] = Tail(@)]
  /\ \E cfg \in Configs : req' = [req EXCEPT ![c] = Append(@, cfg)]
  /\ UNCHANGED <<conn, budget>>
ManualRead(c) ==
  /\ rsp[c] # <<>> /\ Head(rsp[c]).kind = "state"
  /\ Read(c)
  /\ UNCHANGED budget
ManualExit(c) ==
  /\ HangUp(c)
  /\ UNCHANGED budget

Manual(c) ==
  /\ ManualDial(c) \/ ManualRequest(c) \/ ManualRead(c) \/ ManualExit(c)
  /\ UNCHANGED <<server, edgemap, world>>

\* The edgemap daemon exits and is started again.
Kill ==
  /\ Spend("kill")
  /\ IF conn[Edgemap] = "closed" THEN UNCHANGED wire ELSE HangUp(Edgemap)
  /\ pc' = "top" /\ view' = NoView
  /\ tracker' = NewTracker /\ pending' = NoPending
  /\ due' = TRUE /\ changed' = FALSE /\ runtime' = TRUE
  /\ stale' = 0
  /\ touched' = FALSE
  /\ UNCHANGED <<server, wanted, loadable>>

(* What the user and the games do.                                          *)
ProfileChanges ==
  /\ Spend("switch")
  /\ wanted' \in Configs \ {wanted}
  /\ UNCHANGED <<vars, edgemap, touched, loadable>>

EdgemapTomlWritten ==
  /\ Spend("reload")
  /\ touched' = TRUE
  /\ UNCHANGED <<vars, edgemap, wanted, loadable>>

ConfigFileEdited ==
  /\ Spend("edit")
  /\ \E c \in Configs :
       loadable' = IF c \in loadable THEN loadable \ {c} ELSE loadable \cup {c}
  /\ UNCHANGED <<vars, edgemap, touched, wanted>>

SyncNext ==
  \/ /\ DaemonStep \/ Environment
     /\ replugs' + restarts' \leq budget["any"]
     /\ UNCHANGED <<edgemap, world, budget>>
  \/ EdgemapStep
  \/ \E c \in Clients \ {Edgemap} : Manual(c)
  \/ Kill
  \/ ProfileChanges \/ EdgemapTomlWritten \/ ConfigFileEdited

\* edgemap is one thread too; the profile scan has an absolute deadline, so
\* other wake-ups do not postpone it for ever.
EdgemapFairness ==
  /\ SF_syncVars(Wake(TRUE))
  /\ WF_syncVars(Wake(FALSE))
  /\ WF_syncVars(Reload \/ Drain \/ Connect \/ NothingChanged)
  /\ WF_syncVars(Greeted \/ ConnectFails) /\ WF_syncVars(Decide)
  /\ WF_syncVars(ReceiveState \/ ReceiveOk \/ ReceiveError \/ ReceiveHangUp)

SyncSpec == SyncInit /\ [][SyncNext]_syncVars
SyncFairSpec == SyncSpec /\ Fairness /\ EdgemapFairness

----------------------------------------------------------------------------
(* Properties.                                                              *)

\* On a connection on which no request was given up, an acknowledgement the
\* tracker takes is the one of the configuration it is waiting for, whatever
\* states, reconnects and profile changes happened since the request.
AckIsForPending ==
  [][ReceiveOk /\ stale = 0 => Reply.config = pending.target]_syncVars

\* "Selected, effective, and failed config decisions advance only after
\* acknowledged applies" (docs/DEVELOPMENT_REFERENCE.md), without the proviso.
DecisionsAdvanceOnlyWhenAcknowledged ==
  [][ReceiveOk => Reply.config = pending.target]_syncVars

\* What the tracker believes is true: outside a request, while edgemap holds
\* a belief over a connection the server still has, and dseuhid does not ask
\* for a configuration, the configuration in force is the effective one.
\* Only a late reply or a run of edgemap switch-config can make it false.
BeliefIsTrue ==
  (/\ budget["manual"] = MaxManual
   /\ Connected /\ conn[Edgemap] = "open" /\ stale = 0
   /\ pc # "reply" /\ ~tracker.force /\ ~state.needs_config)
     => Live = tracker.effective

\* edgemap's picture of dseuhid lags but does not diverge: once no state
\* packet is queued, its control_state is the server's state.
ViewConverges ==
  (/\ Connected /\ conn[Edgemap] = "open"
   /\ \A i \in 1 .. Len(rsp[Edgemap]) : rsp[Edgemap][i].kind # "state")
     => view = state

\* edgemap drops a connection the server still holds only after it gave up
\* a request on it: replies and requests otherwise stay in step.
HealthyConnectionIsKept ==
  [][Drain /\ conn[Edgemap] = "open" /\ stale = 0 => Connected']_syncVars

\* A belief thrown away (new connection, also to a dseuhid that was restarted,
\* needs_config seen, reload) leads to an acknowledged apply unless the virtual
\* controller goes away or neither the selected nor the base configuration can
\* be loaded; once one of them is repaired it is applied.
UnknownIsResolved ==
  (tracker.force /\ state.uhid_ready)
    ~> (~tracker.force \/ ~state.uhid_ready \/ {wanted, Base} \cap loadable = {})

\* Every request sent is eventually answered or its connection lost: no
\* request falls between a session that ends and the one that follows.
RequestEnds == pc = "reply" ~> pc # "reply"

\* "Only needs_config=true, an edgemap.toml reload, or a genuinely changed
\* profile decision makes the daemon re-inject": a controller that is up and
\* needs a configuration gets one.
NeedsConfigIsAnswered ==
  (state.uhid_ready /\ state.needs_config)
    ~> ~(state.uhid_ready /\ state.needs_config)

\* When games and files stop changing and the controller stays, the
\* configuration in force ends up the selected one, if dseuhid has one at all
\* and the file can be loaded: also one that was broken, had its base applied
\* in its place and was repaired, and after a restart of dseuhid.
SelectionPrevails ==
  <>[](state.uhid_ready /\ ~state.needs_config /\ wanted \in loadable => Live = wanted)
=============================================================================
