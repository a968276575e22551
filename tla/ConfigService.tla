--------------------------- MODULE ConfigService ---------------------------
(***************************************************************************)
(* What dseuhid promises its control clients, with none of the machinery:  *)
(* there is one live configuration, the virtual controller is either up or *)
(* down, and the published needs_config flag says exactly whether the live *)
(* configuration is missing (passthrough).  A configuration is lost only   *)
(* when the controller goes away or the daemon restarts; bringing the      *)
(* virtual controller down to change its type keeps it.                    *)
(***************************************************************************)
CONSTANTS Configs, NoConfig, Startup

VARIABLES live, ready, needs

svars == <<live, ready, needs>>

Publish == needs' = (live' = NoConfig)

Init ==
  /\ live = Startup
  /\ ready = FALSE
  /\ needs = (live = NoConfig)

\* An accepted switch-config takes effect while the controller is up.
Commit ==
  /\ ready /\ ready'
  /\ live' \in Configs
  /\ Publish

BringUp ==
  /\ ~ready /\ ready'
  /\ live' = live
  /\ Publish

\* Only a committed configuration can ask for another kind of controller.
Recreate ==
  /\ ready /\ ~ready'
  /\ live # NoConfig /\ live' = live
  /\ Publish

Unplug ==
  /\ ready /\ ~ready'
  /\ live' = NoConfig
  /\ Publish

Restart ==
  /\ ~ready'
  /\ live' = Startup
  /\ Publish

Next == Commit \/ BringUp \/ Recreate \/ Unplug \/ Restart

Spec == Init /\ [][Next]_svars
============================================================================
