---------------------------- MODULE AudioBridge ----------------------------
(***************************************************************************)
(* The audio of a Bluetooth controller, from the virtual sink to the       *)
(* receiver of the session (bin/edgemap/daemon/audio.rs and speaker.rs,    *)
(* control/haptics.rs). dseuhid opens a receiver for a session and tells   *)
(* its clients; the daemon answers each state it takes with               *)
(* AudioManager::update; a worker thread connects to the receiver's path,  *)
(* captures, and ends for reasons of its own. Nothing but the states in    *)
(* the socket ties a capture to a session.                                 *)
(***************************************************************************)
EXTENDS Naturals, Sequences

CONSTANTS
  AudioDevices, \* HapticsDevice: what the sink pretends to be
  NoAudio,
  MaxSessions,  \* bound on the sessions dseuhid begins
  WireSize      \* states the socket of the daemon holds

ASSUME AudioAssumption ==
  /\ NoAudio \notin AudioDevices
  /\ MaxSessions \in Nat /\ WireSize \in Nat \ {0}

VARIABLES
  stage,     \* of dseuhid: "down", "idle", "bound", "ready", "closing"
  sessions,  \* how many sessions have begun; the number names the last one
  receiver,  \* the session whose PcmReceiver is open, or 0
  offered,   \* the device of that session
  shown,     \* ControlServer.state: what clients have been told
  connection, \* the daemon's connection: "none", "up", "broken"
  statesSent, \* states sent on it and not taken
  sinkDevice, \* AudioManager.device
  bridge     \* AudioManager.bridge and its worker

dseuhidAudio == <<stage, sessions, receiver, offered, shown>>
managerVars == <<sinkDevice, bridge>>
audioVars == <<dseuhidAudio, connection, statesSent, managerVars>>

NotReady == [ready |-> FALSE, haptics |-> NoAudio]
Ready(d) == [ready |-> TRUE, haptics |-> d]
\* The device a state asks a sink for.
Wanted(state) == IF state.ready THEN state.haptics ELSE NoAudio

\* worker: what the thread does; to: the receiver its socket is connected to;
\* fault: it ended because of pw-cat, libopus or the system, not the receiver.
NoBridge == [worker |-> "none", to |-> 0, fault |-> FALSE]
Started == [NoBridge EXCEPT !.worker = "starting"]

AudioTypeOK ==
  /\ stage \in {"down", "idle", "bound", "ready", "closing"}
  /\ sessions \in 0 .. MaxSessions /\ receiver \in 0 .. sessions
  /\ offered \in AudioDevices \cup {NoAudio}
  /\ shown \in [ready : BOOLEAN, haptics : AudioDevices \cup {NoAudio}]
  /\ connection \in {"none", "up", "broken"}
  /\ statesSent \in Seq([ready : BOOLEAN, haptics : AudioDevices \cup {NoAudio}])
  /\ Len(statesSent) \leq WireSize
  /\ sinkDevice \in AudioDevices \cup {NoAudio}
  /\ bridge \in [worker : {"none", "starting", "capturing", "ended"}, to : 0 .. sessions,
                 fault : BOOLEAN]

AudioInit ==
  /\ stage = "idle" /\ sessions = 0 /\ receiver = 0 /\ offered = NoAudio
  /\ shown = NotReady
  /\ connection = "none" /\ statesSent = <<>>
  /\ sinkDevice = NoAudio /\ bridge = NoBridge

----------------------------------------------------------------------------
(* dseuhid.                                                                *)

\* ControlServer::set_state: a client whose socket is full is dropped.
Show(state) ==
  /\ shown' = state
  /\ IF connection # "up" \/ state = shown THEN UNCHANGED <<connection, statesSent>>
     ELSE IF Len(statesSent) < WireSize
          THEN statesSent' = Append(statesSent, state) /\ UNCHANGED connection
     ELSE connection' = "broken" /\ UNCHANGED statesSent

\* Proxy::run binds the receiver, which may fail, before it says it is ready.
BindReceiver == \E d \in AudioDevices \cup {NoAudio} :
  /\ stage = "idle" /\ sessions < MaxSessions
  /\ stage' = "bound" /\ sessions' = sessions + 1
  /\ offered' = d /\ receiver' = IF d = NoAudio THEN 0 ELSE sessions'
  /\ UNCHANGED <<shown, connection, statesSent, managerVars>>
AnnounceReady ==
  /\ stage = "bound"
  /\ stage' = "ready" /\ Show(Ready(offered))
  /\ UNCHANGED <<sessions, receiver, offered, managerVars>>
\* The receiver goes with the run, the state follows when the session is over.
CloseReceiver ==
  /\ stage = "ready"
  /\ stage' = "closing" /\ receiver' = 0
  /\ UNCHANGED <<sessions, offered, shown, connection, statesSent, managerVars>>
AnnounceNotReady ==
  /\ stage = "closing"
  /\ stage' = "idle" /\ Show(NotReady)
  /\ UNCHANGED <<sessions, receiver, offered, managerVars>>
DseuhidDies ==
  /\ stage # "down"
  /\ stage' = "down" /\ receiver' = 0
  /\ connection' = IF connection = "up" THEN "broken" ELSE connection
  /\ UNCHANGED <<sessions, offered, shown, statesSent, managerVars>>
DseuhidStarts ==
  /\ stage = "down"
  /\ stage' = "idle" /\ shown' = NotReady
  /\ UNCHANGED <<sessions, receiver, offered, connection, statesSent, managerVars>>

----------------------------------------------------------------------------
(* The daemon's main thread.                                               *)

\* AudioManager::update. Another device: the bridge is dropped, which stops
\* and joins its worker, and a new one starts, unless the thread cannot.
Update(d) ==
  /\ sinkDevice' = d
  /\ \/ d = sinkDevice /\ UNCHANGED bridge
     \/ d # sinkDevice /\ d = NoAudio /\ bridge' = NoBridge
     \/ d # sinkDevice /\ d # NoAudio
        /\ bridge' \in {Started, [NoBridge EXCEPT !.fault = TRUE]}

ConnectControl ==
  /\ connection = "none" /\ stage # "down"
  /\ connection' = "up" /\ statesSent' = <<>> /\ Update(Wanted(shown))
  /\ UNCHANGED dseuhidAudio
\* drain_control_state hands every state to the manager, not the last one.
TakeLastState ==
  /\ statesSent # <<>>
  /\ statesSent' = <<>> /\ Update(Wanted(statesSent[Len(statesSent)]))
  /\ UNCHANGED <<dseuhidAudio, connection>>
TakeState ==
  /\ statesSent # <<>>
  /\ statesSent' = Tail(statesSent) /\ Update(Wanted(Head(statesSent)))
  /\ UNCHANGED <<dseuhidAudio, connection>>
LinkLost ==
  /\ connection = "broken" /\ statesSent = <<>>
  /\ connection' = "none" /\ Update(NoAudio)
  /\ UNCHANGED <<dseuhidAudio, statesSent>>
DaemonRestarts ==
  /\ connection' = "none" /\ statesSent' = <<>>
  /\ sinkDevice' = NoAudio /\ bridge' = NoBridge
  /\ UNCHANGED dseuhidAudio

----------------------------------------------------------------------------
(* The worker thread.                                                      *)

WorkerConnects ==
  /\ bridge.worker = "starting"
  /\ bridge' = IF receiver # 0 THEN [bridge EXCEPT !.worker = "capturing", !.to = receiver]
               ELSE [bridge EXCEPT !.worker = "ended"]
  /\ UNCHANGED <<dseuhidAudio, connection, statesSent, sinkDevice>>
\* No libopus, no pw-cat, pw-cat exits, or a system call fails: no retry.
WorkerFails ==
  /\ bridge.worker \in {"starting", "capturing"}
  /\ bridge' = [bridge EXCEPT !.worker = "ended", !.fault = TRUE]
  /\ UNCHANGED <<dseuhidAudio, connection, statesSent, sinkDevice>>
\* A block is sent, or dropped when the receiver is behind, and the capture
\* goes on; a receiver that is closed ends it.
WorkerSends ==
  /\ bridge.worker = "capturing" /\ bridge.to # receiver
  /\ bridge' = [bridge EXCEPT !.worker = "ended"]
  /\ UNCHANGED <<dseuhidAudio, connection, statesSent, sinkDevice>>

AudioNext ==
  \/ BindReceiver \/ AnnounceReady \/ CloseReceiver \/ AnnounceNotReady
  \/ DseuhidDies \/ DseuhidStarts
  \/ ConnectControl \/ TakeState \/ LinkLost \/ DaemonRestarts
  \/ WorkerConnects \/ WorkerFails \/ WorkerSends

AudioSpec == AudioInit /\ [][AudioNext]_audioVars

----------------------------------------------------------------------------
\* The daemon has taken every state and its worker has connected.
Settled ==
  /\ connection = "up" /\ statesSent = <<>> /\ bridge.worker # "starting"
  /\ stage \in {"ready", "idle"}

\* The capture belongs to the session: once the daemon has caught up with a
\* session that has a receiver, its worker is connected to that receiver and not
\* to the one of a session before, however fast the sessions changed, unless
\* the capture failed for a reason of its own; and with no session the sink is
\* gone (daemon/audio.rs:264-276, control_session.rs:11-25).
CaptureFollowsSession ==
  Settled =>
    IF receiver # 0
    THEN /\ sinkDevice = offered
         /\ ~bridge.fault => bridge.worker = "capturing" /\ bridge.to = receiver
    ELSE sinkDevice = NoAudio /\ bridge = NoBridge

============================================================================
