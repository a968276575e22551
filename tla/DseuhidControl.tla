--------------------------- MODULE DseuhidControl ---------------------------
(***************************************************************************)
(* The control plane of dseuhid: the reconnect loop of daemon.rs, the      *)
(* session it runs per controller (session.rs), the proxy that commits     *)
(* configurations (proxy/mod.rs) and the control server that publishes     *)
(* uhid_ready and needs_config and answers switch-config requests          *)
(* (control/server.rs).  The daemon is one thread: each of its actions     *)
(* below runs to completion, and clients, the controller and a kill        *)
(* interleave between them.                                                *)
(*                                                                         *)
(* A connection is a pair of FIFO packet queues.  A reply or a state       *)
(* packet that does not fit the client's socket buffer makes the server    *)
(* drop that client (server.rs set_state and reply).                       *)
(***************************************************************************)
EXTENDS Naturals, Sequences

CONSTANTS
  Clients,     \* control clients: the edgemap daemon, edgemap switch-config
  Configs,     \* configurations a client can send
  Parses,      \* those whose text parses,
  Valid,       \* those the validation lets through,
  Compiles,    \* those a mapping can be built from
  NoConfig,    \* passthrough
  Startup,     \* the -c configuration, or NoConfig
  OutputOf,    \* output_device of a configuration ("auto" for passthrough)
  NoUhid,      \* no virtual controller exists
  RspCap,      \* packets a client's receive buffer holds
  ReqCap,      \* bound: requests a client has queued
  MaxReplugs,  \* bound: controller removals
  MaxRestarts  \* bound: daemon stops

\* apply_active_config returns early at each of its three stages.
Accepts == Parses \cap Valid \cap Compiles

ASSUME ConfigsAssumption ==
  /\ Parses \subseteq Configs
  /\ NoConfig \notin Configs \cup Clients
  /\ Startup \in Accepts \cup {NoConfig}
ASSUME OutputAssumption ==
  /\ DOMAIN OutputOf = Configs \cup {NoConfig}
  /\ \A c \in DOMAIN OutputOf : OutputOf[c] # NoUhid
ASSUME BoundAssumption ==
  /\ RspCap \in Nat \ {0}
  /\ ReqCap \in Nat
  /\ MaxReplugs \in Nat
  /\ MaxRestarts \in Nat

VARIABLES
  phase,     \* where the daemon thread is
  active,    \* active_config of daemon.rs
  proxy,     \* active_config of the running proxy
  mapping,   \* the configuration its mapping and runtimes are built from
  recreate,  \* recreate_uhid of the running proxy
  uhid,      \* output type the existing virtual controller was created with
  state,     \* ControlState of the server
  device,    \* a controller is plugged in
  lost,      \* the hidraw descriptor of the session belongs to a gone device
  conn,      \* per client: closed, backlog, open, hup (server side closed)
  req, rsp,  \* per client: packets to and from the server
  replugs, restarts

wire == <<conn, req, rsp>>
session == <<active, proxy, mapping, recreate, uhid>>
vars == <<phase, session, state, device, lost, wire, replugs, restarts>>

Phases == {"discover", "open", "setup", "start", "running", "delay", "stopped"}
\* A session holds a hidraw descriptor in these phases.
InSession == phase \in {"setup", "start", "running"}

ControlState == [uhid_ready : BOOLEAN, needs_config : BOOLEAN]
\* The config of an "ok" is a tag of the model: the packet itself only says
\* that some switch-config succeeded.
Packet == [kind : {"hello", "state", "ok", "error"},
           state : ControlState,
           config : Configs \cup {NoConfig}]

Pkt(kind, st, cfg) == [kind |-> kind, state |-> st, config |-> cfg]

TypeOK ==
  /\ phase \in Phases
  /\ active \in Configs \cup {NoConfig}
  /\ proxy \in Configs \cup {NoConfig}
  /\ mapping \in Configs \cup {NoConfig}
  /\ recreate \in BOOLEAN
  /\ uhid \in {OutputOf[c] : c \in Configs \cup {NoConfig}} \cup {NoUhid}
  /\ state \in ControlState
  /\ device \in BOOLEAN
  /\ lost \in BOOLEAN
  /\ conn \in [Clients -> {"closed", "backlog", "open", "hup"}]
  /\ req \in [Clients -> Seq(Configs)]
  /\ rsp \in [Clients -> Seq(Packet)]
  /\ \A c \in Clients : Len(rsp[c]) \leq RspCap
  /\ replugs \in 0 .. MaxReplugs
  /\ restarts \in 0 .. MaxRestarts

Fresh == [uhid_ready |-> FALSE, needs_config |-> (Startup = NoConfig)]

Init ==
  /\ phase = "discover"
  /\ active = Startup
  /\ proxy = NoConfig
  /\ mapping = NoConfig
  /\ recreate = FALSE
  /\ uhid = NoUhid
  /\ state = Fresh
  /\ device \in BOOLEAN
  /\ lost = FALSE
  /\ conn = [c \in Clients |-> "closed"]
  /\ req = [c \in Clients |-> <<>>]
  /\ rsp = [c \in Clients |-> <<>>]
  /\ replugs = 0
  /\ restarts = 0

----------------------------------------------------------------------------
(* The control server.                                                     *)

\* Mutant: needs_config alone does not count as a change of state.
SentOnReadyChange(c, to, reply, new) ==
  (IF c = to THEN <<reply>> ELSE <<>>)
    \o (IF new.uhid_ready # state.uhid_ready
        THEN <<Pkt("state", new, NoConfig)>> ELSE <<>>)

\* The packets the server sends to client c in one step: a reply addressed
\* to it, then the state if it changed.
Sent(c, to, reply, new) ==
  (IF c = to THEN <<reply>> ELSE <<>>)
    \o (IF new # state THEN <<Pkt("state", new, NoConfig)>> ELSE <<>>)

\* Mutant: a slow client is kept whatever it leaves unread.
DeliverToSlowClients(to, reply, new) ==
  /\ state' = new
  /\ rsp' = [c \in Clients |-> IF conn[c] = "open"
                              THEN rsp[c] \o Sent(c, to, reply, new) ELSE rsp[c]]
  /\ conn' = conn

\* What arrives: a client whose buffer overflows loses the rest and is dropped.
Deliver(to, reply, new) ==
  LET out(c) == IF conn[c] = "open" THEN Sent(c, to, reply, new) ELSE <<>>
      fits(c) == Len(rsp[c]) + Len(out(c)) \leq RspCap
  IN /\ state' = new
     /\ rsp' = [c \in Clients |->
                  IF fits(c) THEN rsp[c] \o out(c)
                  ELSE SubSeq(rsp[c] \o out(c), 1, RspCap)]
     /\ conn' = [c \in Clients |-> IF fits(c) THEN conn[c] ELSE "hup"]

\* set_state with no reply: the addressee is not a client.
SetState(new) == Deliver(NoConfig, Pkt("error", new, NoConfig), new)

\* Serving a client that is dropped in the same step discards its requests.
Pop(c) == req' = [d \in Clients |-> IF conn'[d] = "hup" THEN <<>>
                                    ELSE IF d = c THEN Tail(req[d]) ELSE req[d]]
Purge == req' = [d \in Clients |-> IF conn'[d] = "hup" THEN <<>> ELSE req[d]]

Draining == phase \in {"discover", "start", "delay"} \/ (phase = "running" /\ ~recreate)

\* accept_clients: greet a queued connection with the current state.
Accept(c) ==
  /\ Draining
  /\ conn[c] = "backlog"
  /\ conn' = [conn EXCEPT ![c] = "open"]
  /\ rsp' = [rsp EXCEPT ![c] = <<Pkt("hello", state, NoConfig)>>]
  /\ UNCHANGED <<phase, session, state, device, lost, req, replugs, restarts>>

\* Mutant: a request outside a session is dropped without an answer.
NotReadySilently(c) ==
  /\ conn[c] = "open" /\ req[c] # <<>>
  /\ UNCHANGED <<state, rsp, conn>>
  /\ Pop(c)

\* reject_inactive_control: one request of one client gets "not-ready".
NotReady(c) ==
  /\ conn[c] = "open" /\ req[c] # <<>>
  /\ Deliver(c, Pkt("error", state, NoConfig), state)
  /\ Pop(c)

Reject(c) ==
  /\ phase \in {"discover", "delay"}
  /\ NotReady(c)
  /\ UNCHANGED <<phase, session, device, lost, replugs, restarts>>

----------------------------------------------------------------------------
(* The reconnect loop and the session.                                     *)

FindDevice ==
  /\ phase = "discover" /\ device
  /\ phase' = "open"
  /\ UNCHANGED <<session, state, device, lost, wire, replugs, restarts>>

\* The node is gone again before it could be opened: the configuration and
\* the published state stay as they are.
OpenGone ==
  /\ phase = "open" /\ ~device
  /\ phase' = "delay"
  /\ UNCHANGED <<session, state, device, lost, wire, replugs, restarts>>

\* Mutant: every session is created for the startup configuration.
OpenStartupSession ==
  /\ phase = "open" /\ device
  /\ phase' = "setup"
  /\ uhid' = OutputOf[Startup]
  /\ lost' = FALSE
  /\ UNCHANGED <<active, proxy, mapping, recreate, state, device, wire, replugs, restarts>>

\* Open hidraw and create the virtual controller the configuration asks for.
OpenSession ==
  /\ phase = "open" /\ device
  /\ phase' = "setup"
  /\ uhid' = OutputOf[active]
  /\ lost' = FALSE
  /\ UNCHANGED <<active, proxy, mapping, recreate, state, device, wire, replugs, restarts>>

\* One drain before the proxy is built: a second queued request survives it.
RejectBeforeProxy ==
  /\ phase = "setup"
  /\ phase' = "start"
  /\ proxy' = active /\ mapping' = active
  /\ recreate' = FALSE
  /\ IF \E c \in Clients : conn[c] = "open" /\ req[c] # <<>>
     THEN \E c \in Clients : NotReady(c)
     ELSE UNCHANGED <<wire, state>>
  /\ UNCHANGED <<active, uhid, device, lost, replugs, restarts>>

StartProxy ==
  /\ phase = "start"
  /\ phase' = "running"
  /\ SetState([state EXCEPT !.uhid_ready = TRUE])
  /\ Purge
  /\ UNCHANGED <<session, device, lost, replugs, restarts>>

\* Mutant: the mapping is replaced as soon as the text parses, and kept when the
\* validation rejects the configuration.
SwitchHalfway(c) ==
  LET cfg == Head(req[c]) IN
  /\ phase = "running" /\ ~recreate
  /\ conn[c] = "open" /\ req[c] # <<>>
  /\ mapping' = IF cfg \in Parses THEN cfg ELSE mapping
  /\ \/ /\ cfg \in Accepts
        /\ proxy' = cfg
        /\ recreate' = (OutputOf[cfg] # OutputOf[proxy])
        /\ Deliver(c, Pkt("ok", state, cfg), [state EXCEPT !.needs_config = FALSE])
     \/ /\ cfg \notin Accepts
        /\ Deliver(c, Pkt("error", state, NoConfig), state)
        /\ UNCHANGED <<proxy, recreate>>
  /\ Pop(c)
  /\ UNCHANGED <<phase, active, uhid, device, lost, replugs, restarts>>

\* apply_active_config: nothing is replaced before the last stage is passed.
\* The mapping is published first, active_config and the runtimes follow.
Commit(cfg) ==
  /\ cfg \in Accepts
  /\ mapping' = cfg
  /\ proxy' = cfg
  /\ recreate' = (OutputOf[cfg] # OutputOf[proxy])

\* handle_control_requests: commit, acknowledge, then clear needs_config.
Switch(c) ==
  LET cfg == Head(req[c]) IN
  /\ phase = "running" /\ ~recreate
  /\ conn[c] = "open" /\ req[c] # <<>>
  /\ \/ /\ Commit(cfg)
        /\ Deliver(c, Pkt("ok", state, cfg), [state EXCEPT !.needs_config = FALSE])
     \/ /\ cfg \notin Parses \/ cfg \notin Valid \/ cfg \notin Compiles
        /\ Deliver(c, Pkt("error", state, NoConfig), state)
        /\ UNCHANGED <<proxy, mapping, recreate>>
  /\ Pop(c)
  /\ UNCHANGED <<phase, active, uhid, device, lost, replugs, restarts>>

\* Mutant: the next session starts from what the last one started from.
ConfigChangedForgotten ==
  /\ phase = "running" /\ recreate
  /\ phase' = "discover"
  /\ active' = active
  /\ proxy' = NoConfig /\ mapping' = NoConfig
  /\ recreate' = FALSE
  /\ uhid' = NoUhid
  /\ SetState([uhid_ready |-> FALSE, needs_config |-> FALSE])
  /\ Purge
  /\ UNCHANGED <<device, lost, replugs, restarts>>

\* SessionExit::ConfigChanged: the next session starts from what the proxy
\* committed, without a reconnect delay.
ConfigChanged ==
  /\ phase = "running" /\ recreate
  /\ phase' = "discover"
  /\ active' = proxy
  /\ proxy' = NoConfig /\ mapping' = NoConfig
  /\ recreate' = FALSE
  /\ uhid' = NoUhid
  /\ SetState([uhid_ready |-> FALSE, needs_config |-> FALSE])
  /\ Purge
  /\ UNCHANGED <<device, lost, replugs, restarts>>

\* Mutant: the configuration outlives the controller.
DeviceGoneKeepsConfig ==
  /\ phase = "running" /\ ~recreate /\ lost
  /\ phase' = "delay"
  /\ active' = proxy
  /\ proxy' = NoConfig /\ mapping' = NoConfig
  /\ uhid' = NoUhid
  /\ SetState([uhid_ready |-> FALSE, needs_config |-> TRUE])
  /\ Purge
  /\ UNCHANGED <<recreate, device, lost, replugs, restarts>>

\* SessionExit::DeviceGone with reset_config.
DeviceGone ==
  /\ phase = "running" /\ ~recreate /\ lost
  /\ phase' = "delay"
  /\ active' = NoConfig
  /\ proxy' = NoConfig /\ mapping' = NoConfig
  /\ uhid' = NoUhid
  /\ SetState([uhid_ready |-> FALSE, needs_config |-> TRUE])
  /\ Purge
  /\ UNCHANGED <<recreate, device, lost, replugs, restarts>>

RetryDelayElapsed ==
  /\ phase = "delay"
  /\ phase' = "discover"
  /\ UNCHANGED <<session, state, device, lost, wire, replugs, restarts>>

\* Shutdown, a fatal session error or a kill: every connection is closed.
\* The variables take the values the next process starts with.
Stop ==
  /\ phase # "stopped" /\ restarts < MaxRestarts
  /\ phase' = "stopped"
  /\ restarts' = restarts + 1
  /\ active' = Startup /\ proxy' = NoConfig /\ mapping' = NoConfig
  /\ recreate' = FALSE /\ uhid' = NoUhid
  /\ state' = Fresh
  /\ lost' = FALSE
  /\ conn' = [c \in Clients |-> IF conn[c] = "closed" THEN "closed" ELSE "hup"]
  /\ req' = [c \in Clients |-> <<>>]
  /\ UNCHANGED <<rsp, device, replugs>>

Start ==
  /\ phase = "stopped"
  /\ phase' = "discover"
  /\ UNCHANGED <<session, state, device, lost, wire, replugs, restarts>>

DaemonStep ==
  \/ \E c \in Clients : Accept(c) \/ Reject(c) \/ Switch(c)
  \/ FindDevice \/ OpenGone \/ OpenSession \/ RejectBeforeProxy \/ StartProxy
  \/ ConfigChanged \/ DeviceGone \/ RetryDelayElapsed
  \/ Stop \/ Start

----------------------------------------------------------------------------
(* The controller, and a control client that follows the protocol.         *)

Unplug ==
  /\ device /\ replugs < MaxReplugs
  /\ device' = FALSE
  /\ lost' = (lost \/ InSession)
  /\ replugs' = replugs + 1
  /\ UNCHANGED <<phase, session, state, wire, restarts>>

Plug ==
  /\ ~device
  /\ device' = TRUE
  /\ UNCHANGED <<phase, session, state, lost, wire, replugs, restarts>>

Environment == Unplug \/ Plug

Dial(c) ==
  /\ phase # "stopped" /\ conn[c] = "closed"
  /\ conn' = [conn EXCEPT ![c] = "backlog"]
  /\ UNCHANGED <<req, rsp>>

Request(c, cfg) ==
  /\ conn[c] = "open"
  /\ req' = [req EXCEPT ![c] = Append(@, cfg)]
  /\ UNCHANGED <<conn, rsp>>

Read(c) ==
  /\ rsp[c] # <<>>
  /\ rsp' = [rsp EXCEPT ![c] = Tail(@)]
  /\ UNCHANGED <<conn, req>>

HangUp(c) ==
  /\ conn[c] # "closed"
  /\ conn' = [conn EXCEPT ![c] = "closed"]
  /\ req' = [req EXCEPT ![c] = <<>>]
  /\ rsp' = [rsp EXCEPT ![c] = <<>>]

ClientStep(c) ==
  /\ \/ Dial(c)
     \/ \E cfg \in Configs : Len(req[c]) < ReqCap /\ Request(c, cfg)
     \/ Read(c)
     \/ HangUp(c)
  /\ UNCHANGED <<phase, session, state, device, lost, replugs, restarts>>

Next == DaemonStep \/ Environment \/ \E c \in Clients : ClientStep(c)

\* The thread never stops for good.  Serving one client is strongly fair:
\* epoll keeps ready descriptors in the order they became ready, and a drain
\* serves the first, so a waiting client is not overtaken for ever.
Fairness ==
  /\ WF_vars(FindDevice) /\ WF_vars(OpenGone) /\ WF_vars(OpenSession)
  /\ WF_vars(RejectBeforeProxy) /\ WF_vars(StartProxy) /\ WF_vars(ConfigChanged)
  /\ WF_vars(DeviceGone) /\ WF_vars(RetryDelayElapsed) /\ WF_vars(Start)
  /\ \A c \in Clients : SF_vars(Accept(c)) /\ SF_vars(Reject(c) \/ Switch(c))

Spec == Init /\ [][Next]_vars

----------------------------------------------------------------------------
(* Properties.                                                             *)

\* The configuration in force: the proxy's once it is built, the daemon's
\* otherwise.
Live == IF phase \in {"start", "running"} THEN proxy ELSE active

\* needs_config is published exactly when the daemon runs, or would next
\* run, in passthrough: across switches, sessions recreated for another
\* output device, unplugging and restarts, no copy of the configuration
\* drifts from the flag that edgemap acts on.
NeedsConfigIffPassthrough == state.needs_config <=> (Live = NoConfig)

\* uhid_ready is published exactly while the proxy loop runs, and then the
\* virtual controller is of the type the live configuration asks for unless
\* its recreation is the next thing the daemon does.
ReadyUhidMatchesConfig ==
  /\ state.uhid_ready <=> phase = "running"
  /\ phase = "running" => /\ uhid # NoUhid
                          /\ recreate <=> (uhid # OutputOf[proxy])

\* A configuration rejected at any stage leaves nothing of itself behind: what
\* the proxy maps by, what it calls its configuration and what the next session
\* starts from are whole and acceptable, so a recreated session cannot die on
\* its own config and no report is mapped by one that was refused
\* (apply_active_config, session.rs).
LiveIsAcceptable ==
  /\ mapping = proxy
  /\ {active, proxy} \subseteq Accepts \cup {NoConfig}

\* The index of the last state a client can read in its queue, 0 if none.
StateAt(q, i) == /\ q[i].kind \in {"hello", "state"}
                 /\ \A j \in i + 1 .. Len(q) : q[j].kind \notin {"hello", "state"}

\* Whatever mix of hellos, replies and states is queued for a connected
\* client, the newest state among them is the server's: a client that reads
\* everything knows the truth, however late it reads.
NewestQueuedStateIsCurrent ==
  \A c \in Clients : conn[c] = "open" =>
    \A i \in 1 .. Len(rsp[c]) : StateAt(rsp[c], i) => rsp[c][i].state = state

\* The daemon implements the configuration service of ConfigService.tla.
Service == INSTANCE ConfigService
  WITH live <- Live, ready <- state.uhid_ready, needs <- state.needs_config
ServiceSpec == Service!Spec
============================================================================
