-------------------------- MODULE MCDseuhidControl --------------------------
(* Two clients, a configuration per output device and one that parses but    *)
(* fails the validation; and the device nodes dseuhid hides meanwhile, which *)
(* share no state with the rest: each behaviour takes the steps of one part. *)
EXTENDS DseuhidControl, NodePermissions, TLC

CONSTANTS cli, edgemap, default, game, broken

MCClients == {cli, edgemap}
MCConfigs == {default, game, broken}
MCParses == {default, game, broken}
MCValid == {default, game}
MCOutputOf ==
  [c \in {default, game, broken, NoConfig} |-> IF c = game THEN "ds4" ELSE "auto"]
DaemonSymmetry ==
  Permutations({cli, edgemap}) \cup Permutations(Nodes) \cup Permutations(Grants)

VARIABLE part

DaemonInit ==
  /\ Init /\ PermInit
  /\ part = "control" \/ (part = "nodes" /\ device)
DaemonNext ==
  \/ part = "control" /\ Next /\ UNCHANGED <<part, permVars>>
  \/ part = "nodes" /\ PermNext /\ UNCHANGED <<part, vars>>
DaemonSpec == DaemonInit /\ [][DaemonNext]_<<part, vars, permVars>>

\* Every variable of either part has its type.
DaemonTypeOK == TypeOK /\ PermTypeOK
=============================================================================
