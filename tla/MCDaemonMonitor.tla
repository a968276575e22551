-------------------------- MODULE MCDaemonMonitor --------------------------
(***************************************************************************)
(* The watches of the edgemap daemon on their own.                         *)
(***************************************************************************)
EXTENDS DaemonMonitor
=============================================================================
