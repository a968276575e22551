---------------------------- MODULE MCLiveHaptics ----------------------------
(* Instances of LiveHaptics: the constants are numbers, given in the         *)
(* configurations.                                                           *)
EXTENDS LiveHaptics
==============================================================================
