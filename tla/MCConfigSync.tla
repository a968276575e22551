---------------------------- MODULE MCConfigSync ----------------------------
(* The edgemap daemon alone or with one "edgemap switch-config", a base       *)
(* configuration and a game profile that asks for another output device.     *)
EXTENDS ConfigSync

CONSTANTS cli, daemon, default, game

MCAlone == {daemon}
MCWithCli == {cli, daemon}
MCConfigs == {default, game}
MCOutputOf ==
  [c \in {default, game, NoConfig} |-> IF c = game THEN "ds4" ELSE "auto"]
=============================================================================
