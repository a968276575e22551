--------------------------- MODULE NodePermissions ---------------------------
(***************************************************************************)
(* While dseuhid holds a controller it hides the hidraw and input nodes of *)
(* the controller from other programs (chmod 000, ACL cleared) and gives   *)
(* them back what they had when the session ends (device/permissions.rs;   *)
(* the calls are in session.rs, device/hidraw.rs and proxy/mod.rs).        *)
(*                                                                         *)
(* udev and logind change the nodes on their own: at login, on resume, when*)
(* the controller is plugged in.  They interleave with every step below; a *)
(* capture forks getfacl, so its window is a long one.  Each of the calls  *)
(* may fail; what fails is logged and the pass goes on.                    *)
(***************************************************************************)
CONSTANTS
  Nodes,    \* device nodes of the controller
  Grants,   \* what udev and logind may give a node, as mode and ACL entries
  NoAccess, \* mode 000
  NoAcl,    \* no ACL entries
  NoDump,   \* the empty snapshot of an ACL that could not be read
  Lost,     \* nothing in particular
  NoNode

Perms == [mode : Grants \cup {NoAccess}, acl : Grants \cup {NoAcl}]
NoPerm == [mode |-> NoAccess, acl |-> NoAcl]
Whole(g) == [mode |-> g, acl |-> g]

ASSUME GrantAssumption ==
  Grants # {} /\ NoAccess \notin Grants /\ NoAcl \notin Grants /\ NoDump \notin Perms
  /\ Lost \notin Grants
ASSUME NodeAssumption == NoNode \notin Nodes

VARIABLES
  present,        \* nodes that exist
  perm,           \* the permissions of each node
  restored_nodes, \* snapshots to restore, for the nodes that have one
  pass,           \* what the process is doing with the nodes
  todo,           \* nodes the pass has not reached
  work,           \* the node being hidden, and how far that is
  \* (model only) what each node ought to have once no session holds it: what
  \* udev gave it last, or Lost; recorded nodes given something the process has
  \* not looked at; nodes the last chmod 000 failed on
  granted, unseen, exposed

permVars ==
  <<present, perm, restored_nodes, pass, todo, work, granted, unseen, exposed>>

Passes == {"none", "restrict", "run", "re_restrict"}
Modes == Grants \cup {NoAccess}
Snapshots == [mode : Modes, dump : Perms \cup {NoDump}]
Recorded == DOMAIN restored_nodes
NoSnapshots == [n \in {} |-> NoNode]
\* step: its mode was read, its ACL too, the ACL has been cleared.
NoWork == [node |-> NoNode, mode |-> NoAccess, step |-> "stat"]
Idle == work = NoWork
Hidden(n) == perm[n].mode = NoAccess

PermTypeOK ==
  /\ present \subseteq Nodes
  /\ perm \in [Nodes -> Perms]
  /\ Recorded \subseteq Nodes
  /\ \A n \in Recorded : restored_nodes[n] \in Snapshots
  /\ pass \in Passes
  /\ todo \subseteq Nodes
  /\ work \in [node : Nodes \cup {NoNode}, mode : Modes, step : {"stat", "read"}]
  /\ granted \in [Nodes -> Grants \cup {Lost}]
  /\ unseen \subseteq Nodes /\ exposed \subseteq Nodes

PermInit ==
  /\ present = Nodes
  /\ \E g \in Grants : /\ granted = [n \in Nodes |-> g]
                       /\ perm = [n \in Nodes |-> Whole(g)]
  /\ restored_nodes = NoSnapshots
  /\ pass = "none"
  /\ todo = {}
  /\ work = NoWork
  /\ unseen = {} /\ exposed = {}

processVars == <<restored_nodes, pass, todo, work>>

\* What udev gave these nodes will not come back by itself.
Lose(nodes) == granted' = [n \in Nodes |-> IF n \in nodes THEN Lost ELSE granted[n]]
\* A node whose ACL has been read and that is about to be hidden.
Taken == IF work.step = "stat" THEN {} ELSE {work.node}

----------------------------------------------------------------------------
(* udev, logind, the controller.                                           *)

\* What comes after the ACL was read and before the node is hidden is hidden
\* without having been captured.
Grant(n, g) ==
  /\ n \in present
  /\ perm' = [perm EXCEPT ![n] = Whole(g)]
  /\ granted' = [granted EXCEPT ![n] = IF n \in Taken THEN Lost ELSE g]
  /\ unseen' = unseen \cup ({n} \cap Recorded)
  /\ exposed' = exposed \ {n}
  /\ UNCHANGED <<processVars, present>>

UnplugNodes ==
  /\ present # {}
  /\ present' = {}
  /\ Lose(Nodes)
  /\ perm' = [n \in Nodes |-> NoPerm]
  /\ unseen' = {} /\ exposed' = {}
  /\ UNCHANGED processVars

\* The nodes come back under their old names.
PlugNodes(g) ==
  /\ present = {}
  /\ present' = Nodes
  /\ perm' = [n \in Nodes |-> Whole(g)]
  /\ granted' = [n \in Nodes |-> IF n \in Taken THEN Lost ELSE g]
  /\ unseen' = Recorded /\ exposed' = {}
  /\ UNCHANGED processVars

----------------------------------------------------------------------------
(* The process.                                                            *)

historyVars == <<granted, unseen, exposed>>

\* restrict, of a session that begins: the nodes enumerated now.
RestrictNodes ==
  /\ pass = "none" /\ present # {}
  /\ pass' = "restrict"
  /\ todo' = present
  /\ UNCHANGED <<present, perm, restored_nodes, work, historyVars>>

\* re_restrict, before each input report is read: the nodes recorded.
ReRestrict ==
  /\ pass = "run"
  /\ pass' = "re_restrict"
  /\ todo' = Recorded
  /\ UNCHANGED <<present, perm, restored_nodes, work, historyVars>>

\* A node that has gone is skipped; so is, the second time, one still hidden.
Skip(n) ==
  /\ Idle /\ n \in todo
  /\ n \notin present \/ (pass = "re_restrict" /\ Hidden(n))
  /\ todo' = todo \ {n}
  /\ UNCHANGED <<present, perm, restored_nodes, pass, work, historyVars>>

Inspect(n) ==
  /\ Idle /\ n \in todo
  /\ n \in present
  /\ pass = "re_restrict" => ~Hidden(n)
  /\ todo' = todo \ {n}
  /\ work' = [NoWork EXCEPT !.node = n, !.mode = perm[n].mode]
  /\ UNCHANGED <<present, perm, restored_nodes, pass, historyVars>>

Snapshot(n, new) ==
  [m \in Recorded \cup {n} |-> IF m = n THEN new ELSE restored_nodes[m]]

\* Mutant: only the first capture of a node is recorded (BUGFIX.md #91).
RecordFirst(dump) ==
  LET n == work.node
  IN restored_nodes' = IF n \in Recorded THEN restored_nodes
                       ELSE Snapshot(n, [mode |-> work.mode, dump |-> dump])

\* A first capture is recorded as it is.  A later one replaces it, unless the
\* ACL could not be read.
Record(dump) ==
  LET n == work.node
  IN restored_nodes' = IF pass = "re_restrict" /\ dump = NoDump THEN restored_nodes
                       ELSE Snapshot(n, [mode |-> work.mode, dump |-> dump])

\* getfacl, which also fails if the node has just gone.  What udev gave a node
\* is lost if the capture fails, and also if it succeeds on one that an earlier
\* chmod failed on: its ACL has been cleared, and the good snapshot goes.
ReadAcl(ok) ==
  /\ ~Idle /\ work.step = "stat"
  /\ ok => work.node \in present
  /\ Record(IF ok THEN perm[work.node] ELSE NoDump)
  /\ work' = [work EXCEPT !.step = "read"]
  /\ IF ok <=> work.node \in exposed THEN Lose({work.node}) ELSE UNCHANGED granted
  /\ unseen' = unseen \ {work.node}
  /\ UNCHANGED <<present, perm, pass, todo, exposed>>

\* setfacl -b, then chmod 000: a failure of either is logged, and the node stays
\* recorded.
Hide(cleared, ok) ==
  /\ work.step = "read"
  /\ cleared \/ ok => work.node \in present
  /\ perm' = [perm EXCEPT ![work.node] = 
       [mode |-> IF ok THEN NoAccess ELSE @.mode, acl |-> IF cleared THEN NoAcl ELSE @.acl]]
  /\ exposed' = IF ok THEN exposed \ {work.node} ELSE exposed \cup {work.node}
  /\ work' = NoWork
  /\ UNCHANGED <<present, restored_nodes, pass, todo, granted, unseen>>

EndPass ==
  /\ pass \in {"restrict", "re_restrict"} /\ Idle /\ todo = {}
  /\ pass' = "run"
  /\ UNCHANGED <<present, perm, restored_nodes, todo, work, historyVars>>

\* chmod of each node that exists, then one setfacl --restore of all dumps. A
\* dump of getfacl also holds the mode.
RestoredPerm(n, chmods, dumps) ==
  LET snapshot == restored_nodes[n]
  IN IF n \in dumps /\ snapshot.dump # NoDump THEN snapshot.dump
     ELSE IF n \in chmods THEN [perm[n] EXCEPT !.mode = snapshot.mode]
     ELSE perm[n]

\* The session ends in order and its HidrawDevice is dropped: restore, with the
\* nodes each of the two calls works on.  A grant nobody has looked at is
\* overwritten; a node setfacl does not reach has its mode back at most.
Restore(chmods, dumps) ==
  /\ pass = "run"
  /\ chmods \cup dumps \subseteq Recorded \cap present
  /\ pass' = "none"
  /\ perm' = [n \in Nodes |-> IF n \in chmods \cup dumps THEN RestoredPerm(n, chmods, dumps)
                              ELSE perm[n]]
  /\ restored_nodes' = NoSnapshots
  /\ unseen' = {} /\ exposed' = {}
  /\ Lose({n \in Recorded : n \in unseen \/ n \notin dumps})
  /\ UNCHANGED <<present, todo, work>>

\* Nodes left hidden or without their ACL that nothing will restore.
Orphans == {n \in present : Hidden(n) \/ perm[n].acl = NoAcl}

\* The controller is gone, or its descriptor failed: forget.
Forget ==
  /\ pass = "run"
  /\ pass' = "none"
  /\ restored_nodes' = NoSnapshots
  /\ unseen' = {} /\ exposed' = {}
  /\ Lose(Orphans)
  /\ UNCHANGED <<present, perm, todo, work>>

\* SIGKILL, or the end of the system: nothing is dropped.
Crash ==
  /\ pass # "none"
  /\ pass' = "none"
  /\ restored_nodes' = NoSnapshots /\ todo' = {} /\ work' = NoWork
  /\ unseen' = {} /\ exposed' = {}
  /\ Lose(Orphans)
  /\ UNCHANGED <<present, perm>>

PermNext ==
  \/ \E n \in Nodes, g \in Grants : Grant(n, g)
  \/ UnplugNodes \/ \E g \in Grants : PlugNodes(g)
  \/ RestrictNodes \/ ReRestrict \/ EndPass \/ Forget \/ Crash
  \/ \E n \in Nodes : Skip(n) \/ Inspect(n)
  \/ \E ok \in BOOLEAN : ReadAcl(ok) \/ \E cleared \in BOOLEAN : Hide(cleared, ok)
  \/ \E chmods, dumps \in SUBSET Nodes : Restore(chmods, dumps)

PermSpec == PermInit /\ [][PermNext]_permVars

----------------------------------------------------------------------------
(* Properties.                                                             *)

HiddenWhileHeld ==
  pass = "run" => \A n \in Recorded \cap present : Hidden(n) \/ n \in unseen \cup exposed

RestoredAtExit ==
  pass = "none" => \A n \in present : granted[n] # Lost => perm[n] = Whole(granted[n])

\* While a session runs, no recorded node is open except to a grant that came
\* since the last input report, or because the last chmod 000 failed on it.
\* When the session has ended every node has what udev gave it last, mode and
\* ACL, also if that came in the middle of the session, if chmod failed when the
\* node was to be hidden or restored, or if setfacl could not clear its ACL.
\* Lost are only grants that came between getfacl and chmod or after the last
\* input report, that getfacl or setfacl --restore failed on, that were captured
\* again after a failing chmod, or that were hidden when the process was killed
\* or its descriptor failed with the controller still there: the next session
\* then takes mode 000 for the original (restrict_node, re_restrict, restore,
\* forget).
NodesAreHiddenThenRestored == HiddenWhileHeld /\ RestoredAtExit
=============================================================================
