----------------------------- MODULE PartsProofs -----------------------------
(***************************************************************************)
(* Theorems of the components that stand alone: no wake-up of dseuhid is   *)
(* lost (DeviceMonitor), nodes are hidden and restored (NodePermissions),  *)
(* the capture follows the session (AudioBridge).  Then of the components  *)
(* of MCParts together: every behaviour of the run is one of each          *)
(* specification, and all variables keep their types.                      *)
(***************************************************************************)
EXTENDS MCParts, NodePermissions, HostProofs, ConfigFileProofs, ControlServerProofs,
        SequenceTheorems, TLAPS

----------------------------------------------------------------------------
(* DeviceMonitor.                                                           *)

\* What a queue of events announces.
Announced(queue) == {queue[i] : i \in 1 .. Len(queue)}

\* Looking for a controller after it has enumerated them, the daemon has every
\* controller there is announced by an event it has not handled, or has missed it.
SearchInv ==
  /\ monitorAt = "wait" /\ found = NoController => hidraw \subseteq Announced(udev) \cup missed
  /\ monitorAt = "probe" /\ found = NoController =>
       hidraw \subseteq Announced(udev) \cup Announced(paths) \cup missed

\* Asleep with a candidate, it is still waiting for its nodes or has an event;
\* it has one whenever others have been dropped.
CandidateInv ==
  /\ Monitoring /\ overrun # "none" => udev # <<>>
  /\ monitorAt \in {"check", "wait_nodes"} => found # NoController
  /\ Sleeping /\ found # NoController /\ udev = <<>> => found \in hidraw \ inputs

MonitorInv == MonitorTypeOK /\ SearchInv /\ CandidateInv

\* An event that arrives announces what the queue did and what it is about.
LEMMA AppendAnnounces ==
  ASSUME NEW S, NEW q \in Seq(S), NEW e \in S
  PROVE  /\ Append(q, e) \in Seq(S)
         /\ Append(q, e) # <<>>
         /\ Announced(Append(q, e)) = Announced(q) \cup {e}
<1>1. /\ Append(q, e) \in Seq(S)
      /\ Append(q, e) # <<>>
      /\ Len(Append(q, e)) = Len(q) + 1
      /\ \A i \in 1 .. Len(q) : Append(q, e)[i] = q[i]
      /\ Append(q, e)[Len(q) + 1] = e
  BY AppendProperties
<1>2. Len(q) \in Nat
  BY LenProperties
<1>3. 1 .. (Len(q) + 1) = (1 .. Len(q)) \cup {Len(q) + 1}
  BY <1>2
<1> QED  BY <1>1, <1>3 DEF Announced

\* An empty queue announces nothing; the first of another can be taken off.
LEMMA EmptyAnnounces == Announced(<<>>) = {}
BY DEF Announced

LEMMA TailAnnounces ==
  ASSUME NEW S, NEW q \in Seq(S), q # <<>>
  PROVE  /\ Tail(q) \in Seq(S) /\ Head(q) \in S
         /\ Announced(q) = {Head(q)} \cup Announced(Tail(q))
<1>1. /\ Head(q) \in S /\ Tail(q) \in Seq(S)
      /\ Len(Tail(q)) = Len(q) - 1 /\ Len(q) \in Nat \ {0}
      /\ \A i \in 1 .. Len(Tail(q)) : Tail(q)[i] = q[i + 1]
      /\ Head(q) = q[1]
  BY HeadTailProperties, LenProperties, EmptySeq
<1>2. \A i \in 1 .. Len(q) : i = 1 \/ i - 1 \in 1 .. Len(Tail(q))
  BY <1>1
<1>3. ASSUME NEW x \in Announced(q) PROVE x \in {Head(q)} \cup Announced(Tail(q))
  <2>1. PICK i \in 1 .. Len(q) : x = q[i]
    BY <1>3 DEF Announced
  <2>2. CASE i = 1
    BY <1>1, <2>1, <2>2
  <2>3. CASE i - 1 \in 1 .. Len(Tail(q))
    <3>1. Tail(q)[i - 1] = q[i]
      BY <1>1, <2>1, <2>3
    <3> QED  BY <2>1, <2>3, <3>1 DEF Announced
  <2> QED  BY <1>2, <2>1, <2>2, <2>3
<1>4. ASSUME NEW x \in {Head(q)} \cup Announced(Tail(q)) PROVE x \in Announced(q)
  <2>1. CASE x = Head(q)
    BY <1>1, <2>1 DEF Announced
  <2>2. CASE x \in Announced(Tail(q))
    <3>1. PICK i \in 1 .. Len(Tail(q)) : x = Tail(q)[i]
      BY <2>2 DEF Announced
    <3>2. x = q[i + 1] /\ i + 1 \in 1 .. Len(q)
      BY <1>1, <3>1
    <3> QED  BY <3>2 DEF Announced
  <2> QED  BY <1>4, <2>1, <2>2
<1> QED  BY <1>1, <1>3, <1>4

\* A device that comes or goes leaves the daemon where it is and, while it
\* listens, an event.
LEMMA WorldStep ==
  ASSUME MonitorInv, NEW e \in Controllers \cup {NoController}, MonitorEvent(e),
         UNCHANGED daemonVars,
         hidraw' \subseteq Controllers, inputs' \subseteq Controllers,
         hidraw' \subseteq hidraw \cup {e}, missed' \subseteq Controllers,
         hidraw' \cap missed \subseteq missed' \cup {e},
         Room \/ hidraw' \cap {e} \subseteq hidraw \cup missed',
         Room \/ missed \subseteq missed'
  PROVE  MonitorInv'
<1> USE MonitorAssumption DEF MonitorInv, daemonVars
<1>1. /\ udev' \in Seq(Controllers \cup {NoController})
      /\ overrun' \in {"none", "raised", "taken"}
      /\ Monitoring => udev' # <<>> /\ Announced(udev) \subseteq Announced(udev')
      /\ Monitoring /\ Room => e \in Announced(udev')
  <2>1. /\ Append(udev, e) \in Seq(Controllers \cup {NoController})
        /\ Append(udev, e) # <<>>
        /\ Announced(Append(udev, e)) = Announced(udev) \cup {e}
    BY AppendAnnounces DEF MonitorTypeOK
  <2>2. Monitoring /\ ~Room => udev # <<>>
    <3>1. Len(<<>>) = 0
      OBVIOUS
    <3> QED  BY <3>1 DEF Room, CandidateInv
  <2> QED  BY <2>1, <2>2 DEF MonitorEvent, MonitorTypeOK
<1>2. MonitorTypeOK'
  BY <1>1 DEF MonitorTypeOK
<1>3. SearchInv'
  <2>1. CASE Room
    BY <1>1, <2>1 DEF SearchInv, Monitoring
  <2>2. CASE ~Room
    BY <1>1, <2>2 DEF SearchInv, Monitoring
  <2> QED  BY <2>1, <2>2
<1>4. CandidateInv'
  BY <1>1 DEF CandidateInv, Monitoring, Sleeping
<1> QED  BY <1>2, <1>3, <1>4

\* Every step preserves the invariant.
LEMMA MonitorInvStep ==
  ASSUME MonitorInv, [MonitorNext]_monitorVars
  PROVE  MonitorInv'
<1> USE MonitorAssumption DEF MonitorInv
<1>1. ASSUME NEW c \in Controllers, HidrawAdded(c) PROVE MonitorInv'
  BY <1>1, WorldStep DEF HidrawAdded, MonitorTypeOK
<1>2. ASSUME NEW c \in Controllers, InputsAdded(c) PROVE MonitorInv'
  BY <1>2, WorldStep DEF InputsAdded, MonitorTypeOK
<1>3. ASSUME NEW c \in Controllers, Removed(c) PROVE MonitorInv'
  BY <1>3, WorldStep DEF Removed, MonitorTypeOK
<1>4. CASE Poke
  BY <1>4 DEF Poke, MonitorTypeOK, SearchInv, CandidateInv, Sleeping, Monitoring, Polled
<1>5. CASE NewMonitor
  BY <1>5 DEF NewMonitor, world, losses, MonitorTypeOK, Places, SearchInv, CandidateInv,
          Sleeping, Monitoring, Polled
<1>6. CASE FindDualsense
  BY <1>6 DEF FindDualsense, world, losses, MonitorTypeOK, Places, SearchInv, CandidateInv,
          Sleeping, Monitoring, Polled
<1>7. CASE CheckInputNodes
  BY <1>7 DEF CheckInputNodes, ControllerRemoved, world, losses, MonitorTypeOK, Places,
              SearchInv, CandidateInv, Sleeping, Monitoring, Polled
<1>8. CASE ShutdownRequested
  BY <1>8 DEF ShutdownRequested, world, losses, MonitorTypeOK, Places, SearchInv, CandidateInv,
          Sleeping, Monitoring, Polled
<1>9. CASE ControlActivity
  BY <1>9 DEF ControlActivity, world, losses, MonitorTypeOK, Places, SearchInv, CandidateInv,
          Sleeping, Monitoring, Polled
<1>10. CASE NodeActivity
  BY <1>10 DEF NodeActivity, world, losses, MonitorTypeOK, Places, SearchInv, CandidateInv,
          Sleeping, Monitoring, Polled
<1>11. CASE DeviceActivity
  BY <1>11 DEF DeviceActivity, world, losses, MonitorTypeOK, Places, SearchInv, CandidateInv,
          Sleeping, Monitoring, Polled
<1>12. ASSUME NEW ok \in BOOLEAN, Probe(ok) PROVE MonitorInv'
  <2>1. /\ Tail(paths) \in Seq(Controllers \cup {NoController})
        /\ Announced(paths) = {Head(paths)} \cup Announced(Tail(paths))
    BY <1>12, TailAnnounces DEF Probe, MonitorTypeOK
  <2> QED  BY <1>12, <2>1 DEF Probe, world, losses, MonitorTypeOK, SearchInv, CandidateInv, Sleeping, Monitoring, Polled
<1>13. CASE ProbeEnds
  BY <1>13, EmptyAnnounces DEF ProbeEnds, world, losses, MonitorTypeOK, Places, SearchInv,
                               CandidateInv, Sleeping, Monitoring, Polled
<1>14. CASE SessionEnds
  BY <1>14 DEF SessionEnds, world, losses, MonitorTypeOK, Places, SearchInv, CandidateInv,
          Sleeping, Monitoring, Polled
<1>15. CASE Overrun
  BY <1>15, EmptyAnnounces DEF Overrun, world, losses, MonitorTypeOK, Places, SearchInv,
                               CandidateInv, Sleeping, Monitoring, Polled
<1>16. CASE MonitorFails
  BY <1>16 DEF MonitorFails, world, losses, MonitorTypeOK, Places, SearchInv, CandidateInv,
          Sleeping, Monitoring
<1>17. CASE UNCHANGED monitorVars
  BY <1>17 DEF monitorVars, MonitorTypeOK, SearchInv, CandidateInv, Sleeping, Monitoring, Polled
<1> QED  BY <1>1, <1>2, <1>3, <1>4, <1>5, <1>6, <1>7, <1>8, <1>9, <1>10, <1>11, <1>12,
            <1>13, <1>14, <1>15, <1>16, <1>17 DEF MonitorNext

\* The inductive invariant holds of the wait for controllers (daemon.rs, run).
THEOREM MonitorInvariant == MonitorSpec => []MonitorInv
<1>1. MonitorInit => MonitorInv
  BY EmptySeq DEF MonitorInit, MonitorInv, MonitorTypeOK, Places, SearchInv,
                           CandidateInv, Sleeping, Monitoring, Polled
<1>2. MonitorInv /\ [MonitorNext]_monitorVars => MonitorInv'
  BY MonitorInvStep
<1> QED  BY <1>1, <1>2, PTL DEF MonitorSpec

\* Asleep without an event to come the daemon overlooks no controller, although
\* it throws events away (wait_for_input_nodes) and control requests interrupt
\* its waits.
THEOREM WakeUpsAreKept == MonitorSpec => []NoWakeUpIsLost
<1>1. MonitorInv => NoWakeUpIsLost
  BY EmptyAnnounces DEF MonitorInv, SearchInv, CandidateInv, NoWakeUpIsLost, Sleeping
<1> QED  BY <1>1, MonitorInvariant, PTL

----------------------------------------------------------------------------
(* NodePermissions.                                                         *)

\* A pass is at one node, which is not to come again; a first pass comes to
\* nodes not recorded yet, a later one to recorded ones.  Between passes there is
\* none, and between sessions nothing is recorded.
PassInv ==
  /\ Idle \/ work.node \in Nodes \ todo
  /\ ~Idle /\ work.step = "read" => work.node \in Recorded
  /\ pass \in {"none", "run"} => Idle /\ todo = {}
  /\ pass = "none" => Recorded = {}
  /\ pass = "restrict" => todo \cap Recorded = {}
  /\ pass = "re_restrict" => todo \subseteq Recorded /\ (Idle \/ work.node \in Recorded)
  /\ exposed \subseteq Recorded

\* A recorded node is hidden, or has been given something since it was looked
\* at, or could not be hidden, or is being hidden.
HiddenInv ==
  \A n \in Recorded \cap present : Hidden(n) \/ n \in unseen \cup exposed \/ n = work.node

Captured(n) == n \in Recorded /\ restored_nodes[n].dump = Whole(granted[n])

\* What udev gave a node is in force, or recorded.  What is left of it is what
\* chmod and setfacl could not take.
KeptInv(n) ==
  /\ perm[n].mode \in {granted[n], NoAccess} /\ perm[n].acl \in {granted[n], NoAcl}
  /\ \/ perm[n] = Whole(granted[n])
     \/ Captured(n) /\ (Hidden(n) \/ n \in exposed \/ n = work.node)
  /\ n \in exposed => Captured(n)

\* While a node is being hidden that is in force until its ACL is read, and
\* recorded then; it is recorded before if chmod has failed on the node.
WorkInv(n) ==
  IF work.step = "read" THEN Captured(n)
  ELSE IF n \in exposed THEN Captured(n) /\ pass = "re_restrict"
  ELSE perm[n] = Whole(granted[n])

Kept == {n \in present : granted[n] # Lost}

GrantInv ==
  /\ \A n \in Kept : KeptInv(n)
  /\ ~Idle /\ work.node \in Kept => WorkInv(work.node)

PermInv == PermTypeOK /\ PassInv /\ HiddenInv /\ GrantInv

LEMMA NoWorkFields == NoWork.node = NoNode /\ NoWork.step = "stat"
BY DEF NoWork

LEMMA WholeFields ==
  ASSUME NEW g \in Grants
  PROVE  /\ Whole(g) \in Perms /\ Whole(g).mode = g /\ Whole(g).acl = g
         /\ g # NoAccess /\ g # NoAcl /\ g # Lost /\ Whole(g) # NoDump
BY GrantAssumption DEF Whole, Perms

\* What udev and the controller do.
LEMMA WorldKeeps ==
  ASSUME PermInv,
         \/ \E n \in Nodes, g \in Grants : Grant(n, g)
         \/ UnplugNodes
         \/ \E g \in Grants : PlugNodes(g)
  PROVE  PermInv'
<1> USE NodeAssumption DEF PermInv
<1>1. ASSUME NEW n \in Nodes, NEW g \in Grants, Grant(n, g) PROVE PermInv'
  <2>1. /\ n \in present /\ UNCHANGED <<restored_nodes, pass, todo, work, present>>
        /\ perm' = [perm EXCEPT ![n] = Whole(g)]
        /\ granted' = [granted EXCEPT ![n] = IF n \in Taken THEN Lost ELSE g]
        /\ unseen' = unseen \cup ({n} \cap Recorded)
        /\ exposed' = exposed \ {n}
    BY <1>1 DEF Grant, processVars
  <2>2. PermTypeOK'
    BY <2>1, WholeFields DEF PermTypeOK, Recorded
  <2>3. PassInv'
    BY <2>1 DEF PassInv, Idle, Recorded
  <2>4. HiddenInv'
    BY <2>1 DEF HiddenInv, PermTypeOK, Recorded, Hidden
  <2>5. ASSUME NEW m \in Kept' PROVE KeptInv(m)'
    <3>1. CASE m = n
      <4>1. granted'[m] = g /\ perm'[m] = Whole(g) /\ m \notin exposed'
        BY <2>1, <2>5, <3>1 DEF Kept, PermTypeOK
      <4> QED  BY <4>1, WholeFields DEF KeptInv
    <3>2. CASE m # n
      <4>1. /\ m \in Kept /\ granted'[m] = granted[m] /\ perm'[m] = perm[m]
            /\ (m \in exposed') = (m \in exposed)
        BY <2>1, <2>5, <3>2 DEF Kept, PermTypeOK
      <4> QED  BY <2>1, <4>1 DEF GrantInv, KeptInv, Captured, Recorded, Hidden
    <3> QED  BY <3>1, <3>2
  <2>6. ASSUME ~Idle', work'.node \in Kept' PROVE WorkInv(work.node)'
    <3>1. ~Idle /\ work' = work
      BY <2>1, <2>6 DEF Idle
    <3>2. CASE work.node = n
      <4>1. granted'[n] = g /\ work.step # "read" /\ perm'[n] = Whole(g) /\ n \notin exposed'
        BY <2>1, <2>6, <3>1, <3>2 DEF Kept, PermTypeOK, Taken
      <4> QED  BY <3>1, <3>2, <4>1 DEF WorkInv
    <3>3. CASE work.node # n
      <4>1. /\ work.node \in Kept /\ granted'[work.node] = granted[work.node]
            /\ perm'[work.node] = perm[work.node]
            /\ (work.node \in exposed') = (work.node \in exposed)
        BY <2>1, <2>6, <3>1, <3>3 DEF Kept, PermTypeOK
      <4> QED  BY <2>1, <3>1, <4>1 DEF GrantInv, WorkInv, Captured, Recorded
    <3> QED  BY <3>2, <3>3
  <2> QED  BY <2>2, <2>3, <2>4, <2>5, <2>6 DEF GrantInv
<1>2. CASE UnplugNodes
  <2>1. PermTypeOK'
    BY <1>2 DEF UnplugNodes, processVars, PermTypeOK, Recorded, Perms, NoPerm, Lose
  <2> QED  BY <1>2, <2>1
              DEF UnplugNodes, processVars, PassInv, HiddenInv, GrantInv, Kept, Recorded, Idle
<1>3. ASSUME NEW g \in Grants, PlugNodes(g) PROVE PermInv'
  <2>1. /\ UNCHANGED <<restored_nodes, pass, todo, work>> /\ present' = Nodes
        /\ perm' = [n \in Nodes |-> Whole(g)]
        /\ granted' = [n \in Nodes |-> IF n \in Taken THEN Lost ELSE g]
        /\ unseen' = Recorded /\ exposed' = {}
    BY <1>3 DEF PlugNodes, processVars
  <2>2. PermTypeOK'
    BY <2>1, WholeFields DEF PermTypeOK, Recorded
  <2>3. PassInv'
    BY <2>1 DEF PassInv, Idle, Recorded
  <2>4. HiddenInv'
    BY <2>1 DEF HiddenInv, Recorded
  <2>5. \A n \in Kept' : n \notin Taken /\ granted'[n] = g /\ perm'[n] = Whole(g)
    BY <2>1 DEF Kept
  <2>6. \A n \in Kept' : KeptInv(n)'
    BY <2>1, <2>5, WholeFields DEF KeptInv
  <2>7. ~Idle' /\ work'.node \in Kept' => WorkInv(work.node)'
    BY <2>1, <2>5 DEF WorkInv, Taken, PermTypeOK
  <2> QED  BY <2>2, <2>3, <2>4, <2>6, <2>7 DEF GrantInv
<1> QED  BY <1>1, <1>2, <1>3

\* A pass begins, goes over its nodes and ends.
LEMMA PassKeeps ==
  ASSUME PermInv,
         \/ RestrictNodes \/ ReRestrict \/ EndPass
         \/ \E n \in Nodes : Skip(n) \/ Inspect(n)
  PROVE  PermInv'
<1> USE NodeAssumption DEF PermInv
<1>1. UNCHANGED <<present, perm, restored_nodes, granted, unseen, exposed>>
  BY DEF RestrictNodes, ReRestrict, EndPass, Skip, Inspect, historyVars
<1>2. Recorded' = Recorded /\ Kept' = Kept
  BY <1>1 DEF Recorded, Kept
<1>3. ASSUME work' = work, Idle PROVE HiddenInv' /\ GrantInv'
  BY <1>1, <1>3 DEF HiddenInv, GrantInv, KeptInv, Kept, Captured, Recorded, Idle, Hidden
<1>4. CASE RestrictNodes \/ ReRestrict \/ EndPass
  <2>1. PermTypeOK' /\ PassInv' /\ Idle /\ work' = work
    BY <1>1, <1>4 DEF RestrictNodes, ReRestrict, EndPass, PermTypeOK, PassInv, Passes,
                      Recorded, Idle
  <2> QED  BY <1>3, <2>1
<1>5. ASSUME NEW n \in Nodes, Skip(n) PROVE PermInv'
  <2>1. PermTypeOK' /\ PassInv' /\ Idle /\ work' = work
    BY <1>1, <1>5 DEF Skip, PermTypeOK, PassInv, Passes, Recorded, Idle
  <2> QED  BY <1>3, <2>1
<1>6. ASSUME NEW n \in Nodes, Inspect(n) PROVE PermInv'
  <2>1. /\ Idle /\ n \in todo /\ todo' = todo \ {n} /\ n \in present /\ pass' = pass
        /\ pass = "re_restrict" => ~Hidden(n)
    BY <1>6 DEF Inspect
  <2>2. /\ work'.node = n /\ work'.step = "stat" /\ work' # NoWork /\ n # work.node
        /\ work' \in [node : Nodes \cup {NoNode}, mode : Modes, step : {"stat", "read"}]
    BY <1>6, <2>1, NoWorkFields DEF Inspect, NoWork, PermTypeOK, Perms, Modes, Idle
  <2>3. pass \in {"restrict", "re_restrict"}
    BY <2>1 DEF PassInv, PermTypeOK, Passes
  <2>4. PermTypeOK' /\ PassInv'
    BY <1>1, <2>1, <2>2, <2>3 DEF PermTypeOK, PassInv, Recorded, Idle
  <2>5. work.node \notin Nodes
    BY <2>1, NoWorkFields DEF Idle
  <2>6. HiddenInv'
    BY <1>1, <2>5 DEF HiddenInv, PermTypeOK, Recorded, Hidden
  <2>7. \A m \in Kept' : KeptInv(m)'
    BY <1>1, <1>2, <2>5 DEF GrantInv, KeptInv, Kept, Captured, Recorded, Hidden, PermTypeOK
  <2>8. n \in Kept => WorkInv(n)'
    <3>1. CASE n \in exposed
      BY <1>1, <2>1, <2>2, <2>3, <3>1 DEF GrantInv, KeptInv, WorkInv, Captured, Recorded, PassInv
    <3>2. CASE n \notin exposed
      <4>1. n \in Kept => perm[n] = Whole(granted[n])
        BY <2>1, <2>3, <2>5, <3>2 DEF GrantInv, KeptInv, Captured, PassInv
      <4> QED  BY <1>1, <2>2, <3>2, <4>1 DEF WorkInv
    <3> QED  BY <3>1, <3>2
  <2> QED  BY <1>2, <2>2, <2>4, <2>6, <2>7, <2>8 DEF GrantInv
<1> QED  BY <1>4, <1>5, <1>6

\* The ACL of a node is read and recorded, then the node is hidden.
LEMMA HideKeeps ==
  ASSUME PermInv,
         \E ok \in BOOLEAN : ReadAcl(ok) \/ \E cleared \in BOOLEAN : Hide(cleared, ok)
  PROVE  PermInv'
<1> USE NodeAssumption DEF PermInv
<1>1. ASSUME NEW ok \in BOOLEAN, ReadAcl(ok) PROVE PermInv'
  <2> DEFINE w == work.node
             dump == IF ok THEN perm[w] ELSE NoDump
             entry == [mode |-> work.mode, dump |-> dump]
             lost == ok <=> w \in exposed
  <2>1. /\ ~Idle /\ work.step = "stat" /\ w \in Nodes \ todo /\ (ok => w \in present)
        /\ pass \in {"restrict", "re_restrict"}
    BY <1>1 DEF ReadAcl, PassInv, PermTypeOK, Passes
  <2>2. /\ UNCHANGED <<present, perm, pass, todo, exposed>>
        /\ granted' = IF lost THEN [n \in Nodes |-> IF n = w THEN Lost ELSE granted[n]]
                      ELSE granted
        /\ unseen' = unseen \ {w}
        /\ work' = [work EXCEPT !.step = "read"]
        /\ Record(dump)
    BY <1>1 DEF ReadAcl, Lose
  <2>3. entry \in Snapshots
    BY <2>1 DEF PermTypeOK, Snapshots
  <2>4. /\ work'.node = w /\ work'.step = "read" /\ work' # NoWork
        /\ work' \in [node : Nodes \cup {NoNode}, mode : Modes, step : {"stat", "read"}]
    BY <2>2, NoWorkFields DEF PermTypeOK
  <2>5. /\ Recorded' = Recorded \cup {w}
        /\ \A n \in Recorded : n # w => restored_nodes'[n] = restored_nodes[n]
        /\ restored_nodes'[w] = IF pass = "re_restrict" /\ dump = NoDump
                                THEN restored_nodes[w] ELSE entry
    BY <2>1, <2>2 DEF Record, Snapshot, Recorded, PassInv
  <2>6. /\ entry.dump = dump /\ (ok => dump = perm[w]) /\ (~ok => dump = NoDump)
    OBVIOUS
  <2>7. \A n \in Nodes : granted'[n] # Lost =>
          granted'[n] = granted[n] /\ ~(n = w /\ lost)
    BY <2>2 DEF PermTypeOK
  <2> HIDE DEF w, dump, entry
  <2>8. PermTypeOK'
    <3>1. \A n \in Recorded' : restored_nodes'[n] \in Snapshots
      BY <2>1, <2>3, <2>5 DEF PermTypeOK, PassInv, w
    <3>2. granted' \in [Nodes -> Grants \cup {Lost}]
      BY <2>2 DEF PermTypeOK
    <3> QED  BY <2>1, <2>2, <2>4, <2>5, <3>1, <3>2 DEF PermTypeOK
  <2>9. PassInv'
    BY <2>1, <2>2, <2>4, <2>5 DEF PassInv, Idle
  <2>10. HiddenInv'
    BY <2>2, <2>4, <2>5 DEF HiddenInv, Hidden, w
  <2>11. ASSUME NEW n \in Kept', n = w PROVE Captured(n)'
    <3>1. /\ w \in Kept /\ granted'[w] = granted[w] /\ ~lost /\ granted[w] \in Grants
      BY <2>1, <2>2, <2>7, <2>11 DEF Kept, PermTypeOK
    <3>2. WorkInv(w)
      BY <2>1, <3>1 DEF GrantInv, w
    <3>3. CASE ok
      <4>1. perm[w] = Whole(granted[w])
        BY <2>1, <3>1, <3>2, <3>3 DEF WorkInv
      <4>2. dump = Whole(granted[w]) /\ dump # NoDump
        BY <2>6, <3>1, <3>3, <4>1, WholeFields
      <4> QED  BY <2>5, <2>6, <2>11, <3>1, <4>2 DEF Captured
    <3>4. CASE ~ok
      <4>1. Captured(w) /\ pass = "re_restrict"
        BY <2>1, <3>1, <3>2, <3>4 DEF WorkInv
      <4> QED  BY <2>5, <2>6, <2>11, <3>1, <3>4, <4>1 DEF Captured
    <3> QED  BY <3>3, <3>4
  <2>12. ASSUME NEW n \in Kept' PROVE KeptInv(n)'
    <3>1. n \in Kept /\ granted'[n] = granted[n] /\ perm'[n] = perm[n] /\ KeptInv(n)
      BY <2>2, <2>7, <2>12 DEF Kept, PermTypeOK, GrantInv
    <3>2. Captured(n) => Captured(n)'
      BY <2>5, <2>11, <2>12, <3>1 DEF Captured
    <3> QED  BY <2>2, <2>4, <3>1, <3>2 DEF KeptInv, Hidden, w
  <2> QED  BY <2>4, <2>8, <2>9, <2>10, <2>11, <2>12 DEF GrantInv, WorkInv
<1>2. ASSUME NEW ok \in BOOLEAN, NEW cleared \in BOOLEAN, Hide(cleared, ok) PROVE PermInv'
  <2> DEFINE w == work.node
             new == [mode |-> IF ok THEN NoAccess ELSE perm[w].mode,
                     acl |-> IF cleared THEN NoAcl ELSE perm[w].acl]
  <2>1. /\ ~Idle /\ w \in Nodes /\ w \in Recorded /\ work.step = "read" /\ work' = NoWork
        /\ Idle' /\ work'.node \notin Nodes /\ pass \in {"restrict", "re_restrict"}
    BY <1>2, NoWorkFields DEF Hide, PassInv, Idle, PermTypeOK, Passes
  <2>2. /\ UNCHANGED <<present, restored_nodes, pass, todo, granted, unseen>>
        /\ perm' = [perm EXCEPT ![w] = new]
        /\ exposed' = IF ok THEN exposed \ {w} ELSE exposed \cup {w}
    BY <1>2 DEF Hide, PermTypeOK, PassInv
  <2>3. /\ new \in Perms /\ new.mode = (IF ok THEN NoAccess ELSE perm[w].mode)
        /\ new.acl = IF cleared THEN NoAcl ELSE perm[w].acl
    BY <2>1 DEF PermTypeOK, Perms, Modes
  <2> HIDE DEF w, new
  <2>4. perm'[w] = new /\ \A n \in Nodes \ {w} : perm'[n] = perm[n]
    BY <2>1, <2>2 DEF PermTypeOK
  <2>5. PermTypeOK' /\ PassInv'
    BY <2>1, <2>2, <2>3, NoWorkFields
       DEF PermTypeOK, PassInv, Recorded, NoWork, Modes, Idle
  <2>6. HiddenInv'
    BY <2>1, <2>2, <2>3, <2>4 DEF HiddenInv, PermTypeOK, Recorded, Hidden, w
  <2>7. ASSUME NEW n \in Kept' PROVE KeptInv(n)'
    <3>1. n \in Kept /\ KeptInv(n) /\ n \in Nodes
      BY <2>2, <2>7 DEF Kept, GrantInv, PermTypeOK
    <3>2. (Captured(n)') = Captured(n)
      BY <2>2 DEF Captured, Recorded
    <3>3. CASE n = w
      <4>1. Captured(n)
        BY <2>1, <3>1, <3>3 DEF GrantInv, WorkInv, w
      <4> QED  BY <2>2, <2>3, <2>4, <3>1, <3>2, <3>3, <4>1 DEF KeptInv, Hidden
    <3>4. CASE n # w
      <4>1. perm'[n] = perm[n] /\ (n \in exposed' <=> n \in exposed) /\ granted' = granted
        BY <2>2, <2>4, <3>1, <3>4
      <4> QED  BY <3>1, <3>2, <3>4, <4>1 DEF KeptInv, Hidden, w
    <3> QED  BY <3>3, <3>4
  <2> QED  BY <2>1, <2>5, <2>6, <2>7 DEF GrantInv
<1> QED  BY <1>1, <1>2

\* The session ends.
LEMMA EndKeepsGrants ==
  ASSUME PermInv, Forget \/ Crash \/ \E chmods, dumps \in SUBSET Nodes : Restore(chmods, dumps)
  PROVE  PermInv'
<1> USE NodeAssumption DEF PermInv
<1>1. /\ Recorded' = {} /\ restored_nodes' = NoSnapshots /\ pass' = "none"
      /\ unseen' = {} /\ exposed' = {} /\ present' = present
  BY DEF Forget, Crash, Restore, Recorded, NoSnapshots
<1>2. todo' = {} /\ work' = NoWork /\ Idle'
  BY DEF Forget, Crash, Restore, PassInv, Idle
<1>3. PassInv' /\ HiddenInv'
  BY <1>1, <1>2 DEF PassInv, HiddenInv
<1>4. ASSUME perm' \in [Nodes -> Perms], granted' \in [Nodes -> Grants \cup {Lost}],
             \A n \in Kept' : perm'[n] = Whole(granted'[n])
      PROVE  PermInv'
  <2>1. PermTypeOK'
    BY <1>1, <1>2, <1>4 DEF PermTypeOK, Passes, NoWork, Modes
  <2>2. \A n \in Kept' : granted'[n] \in Grants
    BY <2>1, <1>4 DEF Kept, PermTypeOK
  <2> QED  BY <1>1, <1>2, <1>3, <1>4, <2>1, <2>2, WholeFields DEF GrantInv, KeptInv
<1>5. CASE Forget \/ Crash
  <2>1. /\ perm' = perm
        /\ granted' = [n \in Nodes |-> IF n \in Orphans THEN Lost ELSE granted[n]]
    BY <1>5 DEF Forget, Crash, Lose
  <2>2. ASSUME NEW n \in Kept' PROVE perm'[n] = Whole(granted'[n])
    <3>1. n \in Kept /\ n \notin Orphans /\ granted'[n] = granted[n] /\ n \in Nodes
      BY <1>1, <2>1, <2>2 DEF Kept, PermTypeOK
    <3>2. perm[n].mode = granted[n] /\ perm[n].acl = granted[n] /\ perm[n] \in Perms
      BY <3>1 DEF GrantInv, KeptInv, Orphans, Kept, Hidden, PermTypeOK
    <3> QED  BY <2>1, <3>1, <3>2 DEF Whole, Perms
  <2> QED  BY <1>4, <2>1, <2>2 DEF PermTypeOK
<1>6. ASSUME NEW chmods \in SUBSET Nodes, NEW dumps \in SUBSET Nodes, Restore(chmods, dumps)
      PROVE  PermInv'
  <2>1. /\ pass = "run" /\ chmods \cup dumps \subseteq Recorded \cap present
        /\ perm' = [n \in Nodes |-> IF n \in chmods \cup dumps
                                    THEN RestoredPerm(n, chmods, dumps) ELSE perm[n]]
        /\ granted' = [n \in Nodes |-> IF n \in Recorded /\ (n \in unseen \/ n \notin dumps)
                                       THEN Lost ELSE granted[n]]
    BY <1>6 DEF Restore, Lose
  <2>2. work.node \notin Nodes
    BY <2>1, NoWorkFields DEF PassInv, Idle
  <2>3. \A n \in chmods \cup dumps : RestoredPerm(n, chmods, dumps) \in Perms
    BY <2>1 DEF RestoredPerm, PermTypeOK, Snapshots, Perms, Modes
  <2>4. perm' \in [Nodes -> Perms] /\ granted' \in [Nodes -> Grants \cup {Lost}]
    BY <2>1, <2>3 DEF PermTypeOK
  <2>5. ASSUME NEW n \in Kept' PROVE perm'[n] = Whole(granted'[n])
    <3>1. /\ n \in Kept /\ granted'[n] = granted[n] /\ n \in Nodes /\ granted[n] \in Grants
          /\ KeptInv(n) /\ n \in present /\ (n \in Recorded => n \notin unseen /\ n \in dumps)
      BY <1>1, <2>1, <2>5 DEF Kept, PermTypeOK, GrantInv
    <3>2. CASE n \in Recorded
      <4>1. Hidden(n) \/ n \in exposed
        BY <2>2, <3>1, <3>2 DEF HiddenInv
      <4>2. restored_nodes[n].dump = Whole(granted[n])
        BY <3>1, <4>1, WholeFields DEF KeptInv, Captured, Hidden
      <4> QED  BY <2>1, <3>1, <3>2, <4>2, WholeFields DEF RestoredPerm
    <3>3. CASE n \notin Recorded
      BY <2>1, <3>1, <3>3 DEF KeptInv, Captured
    <3> QED  BY <3>2, <3>3
  <2> QED  BY <1>4, <2>4, <2>5
<1> QED  BY <1>5, <1>6

\* The inductive invariant holds of the nodes of a controller (permissions.rs).
THEOREM PermInvariant == PermSpec => []PermInv
<1>1. PermInit => PermInv
  <2> SUFFICES ASSUME PermInit PROVE PermInv
    OBVIOUS
  <2>1. PICK g \in Grants : granted = [n \in Nodes |-> g] /\ perm = [n \in Nodes |-> Whole(g)]
    BY DEF PermInit
  <2>2. Recorded = {}
    BY DEF PermInit, Recorded, NoSnapshots
  <2>3. PermTypeOK
    BY <2>1, <2>2, WholeFields DEF PermInit, PermTypeOK, NoWork, Passes, Modes
  <2>4. \A n \in Nodes : KeptInv(n)
    BY <2>1, WholeFields DEF PermInit, KeptInv
  <2> QED  BY <2>2, <2>3, <2>4 DEF PermInit, PermInv, PassInv, HiddenInv, GrantInv, Kept, Idle
<1>2. PermInv /\ [PermNext]_permVars => PermInv'
  <2>1. CASE UNCHANGED permVars
    BY <2>1 DEF permVars, PermInv, PermTypeOK, PassInv, HiddenInv, GrantInv, KeptInv, WorkInv,
            Kept, Captured, Recorded, Idle, Hidden
  <2> QED  BY <2>1, WorldKeeps, PassKeeps, HideKeeps, EndKeepsGrants DEF PermNext
<1> QED  BY <1>1, <1>2, PTL DEF PermSpec

\* Through any order of passes, grants, failing getfacl, setfacl and chmod calls,
\* unplugging and crashes, recorded nodes are hidden and, but for the grants
\* that are lost, restored (restrict, re_restrict, restore, forget).
THEOREM NodesComeBack == PermSpec => []NodesAreHiddenThenRestored
<1>1. PermInv => NodesAreHiddenThenRestored
  <2> SUFFICES ASSUME PermInv PROVE NodesAreHiddenThenRestored
    OBVIOUS
  <2>1. HiddenWhileHeld
    BY NodeAssumption, NoWorkFields
       DEF PermInv, PermTypeOK, PassInv, HiddenInv, HiddenWhileHeld, Idle
  <2>2. RestoredAtExit
    BY DEF PermInv, PassInv, GrantInv, KeptInv, Kept, Captured, RestoredAtExit
  <2> QED  BY <2>1, <2>2 DEF NodesAreHiddenThenRestored
<1> QED  BY <1>1, PermInvariant, PTL
----------------------------------------------------------------------------
(* The audio bridge.                                                       *)

Devices == AudioDevices \cup {NoAudio}
States == [ready : BOOLEAN, haptics : Devices]
Workers == [worker : {"none", "starting", "capturing", "ended"}, to : Nat,
            fault : BOOLEAN]

AudioTyped ==
  /\ sessions \in Nat /\ receiver \in Nat
  /\ offered \in Devices /\ sinkDevice \in Devices
  /\ shown \in States /\ statesSent \in Seq(States)
  /\ bridge \in Workers

\* What clients are told and which receiver is open, by the stage of dseuhid.
StageInv ==
  /\ stage = "down" => connection # "up"
  /\ stage \in {"ready", "closing"} => shown = Ready(offered)
  /\ stage \in {"idle", "bound"} => ~shown.ready
  /\ stage \in {"bound", "ready"} =>
       sessions # 0 /\ receiver = IF offered = NoAudio THEN 0 ELSE sessions
  /\ stage \notin {"bound", "ready"} => receiver = 0

\* What the daemon will have seen when it has taken the states it was sent.
LinkInv ==
  /\ connection = "none" => statesSent = <<>> /\ sinkDevice = NoAudio
  /\ connection = "up" /\ statesSent = <<>> => sinkDevice = Wanted(shown)
  /\ connection = "up" /\ statesSent # <<>> => statesSent[Len(statesSent)] = shown

\* There is a worker exactly while there is a sink, unless it could not start.
WorkerInv ==
  /\ sinkDevice = NoAudio => bridge = NoBridge
  /\ sinkDevice # NoAudio => bridge.worker # "none" \/ bridge.fault

\* The worker belongs to a session before this one.
Stale ==
  /\ ~bridge.fault
  /\ bridge.worker = "ended" \/ (bridge.worker = "capturing" /\ bridge.to # receiver)

\* A state that will end it is on its way.
NotReadyAmong(states) == \E i \in 1 .. Len(states) : ~states[i].ready
StaleInv ==
  connection = "up" /\ stage = "ready" /\ receiver # 0 /\ Stale =>
    NotReadyAmong(statesSent)

AudioInv == AudioTyped /\ StageInv /\ LinkInv /\ WorkerInv /\ StaleInv

LEMMA StatesTyped ==
  /\ NotReady \in States /\ NoBridge \in Workers /\ Started \in Workers
  /\ [NoBridge EXCEPT !.fault = TRUE] \in Workers
  /\ \A d \in Devices : Ready(d) \in States
  /\ \A s \in States : Wanted(s) \in Devices
BY DEF NotReady, States, NoBridge, Started, Workers, Devices, Ready, Wanted

LEMMA AppendState ==
  ASSUME NEW q \in Seq(States), NEW s \in States
  PROVE  /\ Append(q, s) \in Seq(States) /\ Append(q, s) # <<>>
         /\ Append(q, s)[Len(Append(q, s))] = s
         /\ NotReadyAmong(q) => NotReadyAmong(Append(q, s))
<1>1. /\ Append(q, s) \in Seq(States) /\ Append(q, s) # <<>> /\ Len(q) \in Nat
      /\ Len(Append(q, s)) = Len(q) + 1
      /\ \A i \in 1 .. Len(q) : Append(q, s)[i] = q[i]
      /\ Append(q, s)[Len(q) + 1] = s
  BY AppendProperties, LenProperties
<1>2. ASSUME NotReadyAmong(q) PROVE NotReadyAmong(Append(q, s))
  <2>1. PICK i \in 1 .. Len(q) : ~q[i].ready
    BY <1>2 DEF NotReadyAmong
  <2>2. i \in 1 .. Len(Append(q, s)) /\ Append(q, s)[i] = q[i]
    BY <1>1, <2>1
  <2> QED  BY <2>1, <2>2 DEF NotReadyAmong
<1> QED  BY <1>1, <1>2

LEMMA TailState ==
  ASSUME NEW q \in Seq(States), q # <<>>
  PROVE  /\ Tail(q) \in Seq(States) /\ Head(q) \in States
         /\ Tail(q) = <<>> => Head(q) = q[Len(q)]
         /\ Tail(q) # <<>> => Tail(q)[Len(Tail(q))] = q[Len(q)]
         /\ NotReadyAmong(q) /\ Head(q).ready => NotReadyAmong(Tail(q))
<1>1. /\ Head(q) \in States /\ Tail(q) \in Seq(States) /\ Head(q) = q[1]
      /\ Len(Tail(q)) = Len(q) - 1 /\ Len(q) \in Nat \ {0}
      /\ \A i \in 1 .. Len(Tail(q)) : Tail(q)[i] = q[i + 1]
  BY HeadTailProperties, LenProperties, EmptySeq
<1>2. Tail(q) = <<>> <=> Len(Tail(q)) = 0
  BY <1>1, EmptySeq
<1>3. ASSUME NotReadyAmong(q), Head(q).ready PROVE NotReadyAmong(Tail(q))
  <2>1. PICK i \in 1 .. Len(q) : ~q[i].ready
    BY <1>3 DEF NotReadyAmong
  <2>2. i - 1 \in 1 .. Len(Tail(q)) /\ Tail(q)[i - 1] = q[i]
    BY <1>1, <1>3, <2>1
  <2> QED  BY <2>1, <2>2 DEF NotReadyAmong
<1> QED  BY <1>1, <1>2, <1>3

----------------------------------------------------------------------------
(* The manager.                                                            *)

\* Whatever it is told, the manager keeps sink and worker together; a worker
\* it starts is not stale, and without a sink there is none.
LEMMA UpdateKeeps ==
  ASSUME AudioTyped, WorkerInv, receiver' = receiver, NEW d \in Devices, Update(d)
  PROVE  /\ sinkDevice' = d /\ bridge' \in Workers
         /\ WorkerInv'
         /\ Stale' => Stale /\ d # NoAudio /\ d = sinkDevice
<1>1. sinkDevice' = d /\ bridge' \in Workers
  BY StatesTyped DEF Update, AudioTyped
<1>2. CASE d = sinkDevice /\ bridge' = bridge
  BY <1>1, <1>2 DEF WorkerInv, Stale, NoBridge
<1>3. CASE bridge' = NoBridge /\ d = NoAudio
  BY <1>1, <1>3 DEF WorkerInv, Stale, NoBridge
<1>4. CASE d # NoAudio /\ bridge' \in {Started, [NoBridge EXCEPT !.fault = TRUE]}
  BY <1>1, <1>4 DEF WorkerInv, Stale, NoBridge, Started
<1> QED  BY <1>1, <1>2, <1>3, <1>4 DEF Update

----------------------------------------------------------------------------
(* Steps.                                                                  *)

\* A state that differs from the last is the last the daemon is sent.
LEMMA ShowKeeps ==
  ASSUME AudioTyped, LinkInv, NEW state \in States, state # shown, Show(state),
         UNCHANGED managerVars
  PROVE  /\ shown' = state /\ statesSent' \in Seq(States) /\ LinkInv'
         /\ connection' = "up" =>
              connection = "up" /\ statesSent' = Append(statesSent, state)
<1>1. /\ Append(statesSent, state) \in Seq(States) /\ Append(statesSent, state) # <<>>
      /\ Append(statesSent, state)[Len(Append(statesSent, state))] = state
  BY AppendState DEF AudioTyped
<1> QED  BY <1>1 DEF Show, LinkInv, AudioTyped, managerVars

LEMMA DseuhidKeeps ==
  ASSUME AudioInv,
         \/ BindReceiver \/ AnnounceReady \/ CloseReceiver \/ AnnounceNotReady
         \/ DseuhidDies \/ DseuhidStarts
  PROVE  AudioInv'
<1> USE DEF AudioInv
<1>1. CASE BindReceiver
  <2>1. PICK d \in Devices :
          /\ stage = "idle" /\ stage' = "bound" /\ sessions' = sessions + 1
          /\ offered' = d /\ receiver' = IF d = NoAudio THEN 0 ELSE sessions'
          /\ UNCHANGED <<shown, connection, statesSent, managerVars>>
    BY <1>1 DEF BindReceiver, Devices
  <2>2. AudioTyped'
    BY <2>1 DEF AudioTyped, managerVars
  <2>3. StageInv'
    BY <2>1 DEF StageInv, AudioTyped
  <2>4. LinkInv' /\ WorkerInv' /\ StaleInv'
    BY <2>1 DEF LinkInv, WorkerInv, StaleInv, managerVars
  <2> QED  BY <2>2, <2>3, <2>4
<1>2. CASE AnnounceReady
  <2>1. Ready(offered) \in States /\ Ready(offered) # shown /\ ~shown.ready
    BY <1>2, StatesTyped DEF AnnounceReady, StageInv, AudioTyped, Ready
  <2>2. /\ shown' = Ready(offered) /\ statesSent' \in Seq(States) /\ LinkInv'
        /\ connection' = "up" =>
             connection = "up" /\ statesSent' = Append(statesSent, Ready(offered))
    BY <1>2, <2>1, ShowKeeps DEF AnnounceReady
  <2>3. AudioTyped' /\ StageInv' /\ WorkerInv'
    BY <1>2, <2>1, <2>2 DEF AnnounceReady, AudioTyped, StageInv, WorkerInv, managerVars
  <2>4. ASSUME connection' = "up", Stale PROVE NotReadyAmong(statesSent')
    <3>1. statesSent # <<>>
      BY <2>1, <2>2, <2>4 DEF LinkInv, WorkerInv, Wanted, Stale, NoBridge
    <3>2. ~statesSent[Len(statesSent)].ready
      BY <2>1, <2>2, <2>4, <3>1 DEF LinkInv
    <3>3. Len(statesSent) \in 1 .. Len(statesSent)
      BY <3>1, EmptySeq, LenProperties DEF AudioTyped
    <3>4. NotReadyAmong(statesSent)
      BY <3>2, <3>3 DEF NotReadyAmong
    <3> QED  BY <2>1, <2>2, <2>4, <3>4, AppendState DEF AudioTyped
  <2>5. Stale' => Stale
    BY <1>2 DEF AnnounceReady, Stale, managerVars
  <2>6. StaleInv'
    BY <2>4, <2>5 DEF StaleInv
  <2> QED  BY <2>2, <2>3, <2>6
<1>3. CASE CloseReceiver
  BY <1>3 DEF CloseReceiver, AudioTyped, StageInv, LinkInv, WorkerInv, StaleInv, managerVars
<1>4. CASE AnnounceNotReady
  <2>1. NotReady \in States /\ NotReady # shown /\ ~NotReady.ready
    BY <1>4, StatesTyped DEF AnnounceNotReady, StageInv, AudioTyped, Ready, NotReady
  <2>2. shown' = NotReady /\ statesSent' \in Seq(States) /\ LinkInv'
    BY <1>4, <2>1, ShowKeeps DEF AnnounceNotReady
  <2> QED  BY <1>4, <2>1, <2>2 DEF AnnounceNotReady, AudioTyped, StageInv, WorkerInv,
                                   StaleInv, managerVars
<1>5. CASE DseuhidDies
  BY <1>5 DEF DseuhidDies, AudioTyped, StageInv, LinkInv, WorkerInv, StaleInv, managerVars
<1>6. CASE DseuhidStarts
  <2>1. NotReady \in States /\ ~NotReady.ready
    BY StatesTyped DEF NotReady
  <2> QED  BY <1>6, <2>1 DEF DseuhidStarts, AudioTyped, StageInv, LinkInv, WorkerInv,
                             StaleInv, managerVars
<1> QED  BY <1>1, <1>2, <1>3, <1>4, <1>5, <1>6

LEMMA DaemonKeeps ==
  ASSUME AudioInv, ConnectControl \/ TakeState \/ LinkLost \/ DaemonRestarts
  PROVE  AudioInv'
<1> USE DEF AudioInv
<1>1. CASE ConnectControl
  <2>1. PICK d \in Devices : d = Wanted(shown) /\ Update(d) /\ receiver' = receiver
    BY <1>1, StatesTyped DEF ConnectControl, AudioTyped, dseuhidAudio
  <2>2. /\ sinkDevice' = d /\ bridge' \in Workers /\ WorkerInv'
        /\ Stale' => d # NoAudio /\ d = sinkDevice
    BY <2>1, UpdateKeeps
  <2>3. AudioTyped'
    BY <1>1, <2>1, <2>2, EmptySeq DEF ConnectControl, AudioTyped, dseuhidAudio
  <2>4. StageInv' /\ LinkInv' /\ StaleInv'
    BY <1>1, <2>1, <2>2
       DEF ConnectControl, StageInv, LinkInv, StaleInv, dseuhidAudio, Wanted
  <2> QED  BY <2>2, <2>3, <2>4
<1>2. CASE TakeState
  <2> DEFINE state == Head(statesSent)
  <2>1. /\ Tail(statesSent) \in Seq(States) /\ state \in States
        /\ Tail(statesSent) = <<>> => state = statesSent[Len(statesSent)]
        /\ Tail(statesSent) # <<>> =>
             Tail(statesSent)[Len(Tail(statesSent))] = statesSent[Len(statesSent)]
        /\ NotReadyAmong(statesSent) /\ state.ready => NotReadyAmong(Tail(statesSent))
    BY <1>2, TailState DEF TakeState, AudioTyped
  <2>2. /\ statesSent # <<>> /\ statesSent' = Tail(statesSent) /\ Update(Wanted(state))
        /\ UNCHANGED <<stage, sessions, receiver, offered, shown, connection>>
    BY <1>2 DEF TakeState, dseuhidAudio
  <2> HIDE DEF state
  <2>3. /\ Wanted(state) \in Devices
        /\ Wanted(state) # NoAudio => state.ready
    BY <2>1, StatesTyped DEF Wanted
  <2>4. /\ sinkDevice' = Wanted(state) /\ bridge' \in Workers /\ WorkerInv'
        /\ Stale' => Stale /\ Wanted(state) # NoAudio
    BY <2>2, <2>3, UpdateKeeps
  <2>5. AudioTyped' /\ StageInv'
    BY <2>1, <2>2, <2>3, <2>4 DEF AudioTyped, StageInv
  <2>6. LinkInv'
    BY <2>1, <2>2, <2>4 DEF LinkInv, Wanted
  <2>7. StaleInv'
    BY <2>1, <2>2, <2>3, <2>4 DEF StaleInv
  <2> QED  BY <2>4, <2>5, <2>6, <2>7
<1>3. CASE LinkLost
  <2>1. NoAudio \in Devices
    BY DEF Devices
  <2>2. sinkDevice' = NoAudio /\ bridge' \in Workers /\ WorkerInv'
    BY <1>3, <2>1, UpdateKeeps DEF LinkLost, dseuhidAudio
  <2> QED  BY <1>3, <2>1, <2>2
              DEF LinkLost, AudioTyped, StageInv, LinkInv, StaleInv, dseuhidAudio
<1>4. CASE DaemonRestarts
  BY <1>4, StatesTyped, EmptySeq
     DEF DaemonRestarts, AudioTyped, StageInv, LinkInv, WorkerInv, StaleInv,
          dseuhidAudio, Devices
<1> QED  BY <1>1, <1>2, <1>3, <1>4

LEMMA WorkerKeeps ==
  ASSUME AudioInv, WorkerConnects \/ WorkerFails \/ WorkerSends
  PROVE  AudioInv'
<1> USE DEF AudioInv
<1>1. UNCHANGED <<stage, sessions, receiver, offered, shown, connection, statesSent,
                  sinkDevice>>
  BY DEF WorkerConnects, WorkerFails, WorkerSends, dseuhidAudio
<1>2. /\ bridge' \in Workers /\ bridge.worker # "none" /\ bridge'.worker # "none"
      /\ Stale' => Stale \/ receiver = 0
  <2>1. CASE WorkerConnects
    BY <1>1, <2>1 DEF WorkerConnects, AudioTyped, Workers, Stale
  <2>2. CASE WorkerFails
    BY <1>1, <2>2 DEF WorkerFails, AudioTyped, Workers, Stale
  <2>3. CASE WorkerSends
    BY <1>1, <2>3 DEF WorkerSends, AudioTyped, Workers, Stale
  <2> QED  BY <2>1, <2>2, <2>3
<1>3. AudioTyped' /\ StageInv' /\ LinkInv'
  BY <1>1, <1>2 DEF AudioTyped, StageInv, LinkInv
<1>4. WorkerInv' /\ StaleInv'
  BY <1>1, <1>2 DEF WorkerInv, StaleInv, NoBridge
<1> QED  BY <1>3, <1>4

\* The inductive invariant holds of dseuhid, the manager and its worker.
THEOREM AudioInvariant == AudioSpec => []AudioInv
<1>1. AudioInit => AudioInv
  BY StatesTyped, EmptySeq
     DEF AudioInit, AudioInv, AudioTyped, StageInv, LinkInv, WorkerInv, StaleInv,
          Devices, NotReady
<1>2. AudioInv /\ [AudioNext]_audioVars => AudioInv'
  <2>1. CASE UNCHANGED audioVars
    BY <2>1 DEF audioVars, dseuhidAudio, managerVars, AudioInv, AudioTyped, StageInv, LinkInv,
                WorkerInv, StaleInv, Stale
  <2> QED  BY <2>1, DseuhidKeeps, DaemonKeeps, WorkerKeeps DEF AudioNext
<1> QED  BY <1>1, <1>2, PTL DEF AudioSpec

\* However fast sessions change, a daemon that has caught up captures for the
\* receiver of the session there is and for no other (daemon/audio.rs,
\* control_session.rs).
THEOREM CaptureIsOfSession == AudioSpec => []CaptureFollowsSession
<1>1. AudioInv => CaptureFollowsSession
  <2> SUFFICES ASSUME AudioInv, Settled PROVE CaptureFollowsSession
    BY DEF CaptureFollowsSession
  <2>1. ~NotReadyAmong(statesSent)
    BY DEF Settled, NotReadyAmong
  <2>2. sinkDevice = Wanted(shown)
    BY DEF AudioInv, LinkInv, Settled
  <2>3. CASE receiver # 0
    <3>1. stage = "ready" /\ offered # NoAudio /\ shown = Ready(offered)
      BY <2>3 DEF Settled, AudioInv, StageInv
    <3>2. sinkDevice = offered /\ sinkDevice # NoAudio
      BY <2>2, <3>1 DEF Wanted, Ready
    <3>3. ~Stale
      BY <2>1, <2>3, <3>1 DEF Settled, AudioInv, StaleInv
    <3> QED  BY <2>3, <3>2, <3>3 DEF Settled, AudioInv, AudioTyped, Workers, WorkerInv, Stale,
                                     CaptureFollowsSession
  <2>4. CASE receiver = 0
    <3>1. Wanted(shown) = NoAudio
      BY <2>4 DEF Settled, AudioInv, AudioTyped, StageInv, Wanted, Ready
    <3> QED  BY <2>2, <2>4, <3>1 DEF AudioInv, WorkerInv, CaptureFollowsSession
  <2> QED  BY <2>3, <2>4
<1> QED  BY <1>1, AudioInvariant, PTL

----------------------------------------------------------------------------
(* Types of the audio bridge.                                              *)

StagesOk ==
  /\ stage \in {"down", "idle", "bound", "ready", "closing"}
  /\ connection \in {"none", "up", "broken"}
SessionsOk == sessions \in 0 .. MaxSessions /\ receiver \in 0 .. sessions
WireOk == Len(statesSent) <= WireSize
WorkerOk == bridge.to \in 0 .. sessions
AudioBounds == StagesOk /\ SessionsOk /\ WireOk /\ WorkerOk

\* A state that is sent fits; the manager starts a worker that is not connected.
LEMMA ShowFits ==
  ASSUME AudioTyped, AudioBounds, NEW state \in States, Show(state)
  PROVE  WireOk' /\ connection' \in {"none", "up", "broken"}
<1>1. Len(Append(statesSent, state)) = Len(statesSent) + 1 /\ Len(statesSent) \in Nat
  BY AppendProperties, LenProperties DEF AudioTyped
<1> QED  BY <1>1, AudioAssumption DEF Show, AudioBounds, StagesOk, WireOk

LEMMA UpdateFits ==
  ASSUME AudioBounds, NEW d, Update(d), sessions' = sessions
  PROVE  WorkerOk'
BY AudioAssumption DEF Update, AudioBounds, SessionsOk, WorkerOk, NoBridge, Started

LEMMA DseuhidFits ==
  ASSUME AudioInv, AudioBounds,
         \/ BindReceiver \/ AnnounceReady \/ CloseReceiver \/ AnnounceNotReady
         \/ DseuhidDies \/ DseuhidStarts
  PROVE  AudioBounds'
<1> USE DEF AudioBounds
<1>1. CASE BindReceiver
  <2>1. PICK d : /\ stage' = "bound" /\ sessions < MaxSessions /\ sessions' = sessions + 1
                 /\ receiver' = (IF d = NoAudio THEN 0 ELSE sessions')
                 /\ UNCHANGED <<connection, statesSent, bridge>>
    BY <1>1 DEF BindReceiver, managerVars
  <2>2. SessionsOk'
    BY <2>1, AudioAssumption DEF SessionsOk
  <2>3. WorkerOk'
    BY <2>1 DEF WorkerOk, SessionsOk
  <2> QED  BY <2>1, <2>2, <2>3 DEF StagesOk, WireOk
<1>2. CASE AnnounceReady \/ AnnounceNotReady
  <2>1. PICK state \in States : Show(state)
    BY <1>2, StatesTyped DEF AnnounceReady, AnnounceNotReady, AudioInv, AudioTyped
  <2>2. WireOk' /\ connection' \in {"none", "up", "broken"}
    BY <2>1, ShowFits DEF AudioInv
  <2> QED  BY <1>2, <2>2 DEF AnnounceReady, AnnounceNotReady, StagesOk, SessionsOk, WorkerOk,
                             managerVars
<1>3. CASE CloseReceiver \/ DseuhidDies
  BY <1>3 DEF CloseReceiver, DseuhidDies, StagesOk, SessionsOk, WireOk, WorkerOk, managerVars
<1>4. CASE DseuhidStarts
  BY <1>4 DEF DseuhidStarts, StagesOk, SessionsOk, WireOk, WorkerOk, managerVars
<1> QED  BY <1>1, <1>2, <1>3, <1>4

LEMMA DaemonFits ==
  ASSUME AudioInv, AudioBounds, ConnectControl \/ TakeState \/ LinkLost \/ DaemonRestarts
  PROVE  AudioBounds'
<1> USE DEF AudioBounds
<1>1. UNCHANGED <<stage, sessions, receiver>>
  BY DEF ConnectControl, TakeState, LinkLost, DaemonRestarts, dseuhidAudio
<1>2. StagesOk' /\ SessionsOk'
  BY <1>1 DEF ConnectControl, TakeState, LinkLost, DaemonRestarts, StagesOk, SessionsOk
<1>3. WireOk'
  <2>1. CASE statesSent' = <<>>
    BY <2>1, EmptySeq, AudioAssumption DEF WireOk
  <2>2. CASE TakeState
    <3>1. /\ statesSent # <<>> /\ statesSent' = Tail(statesSent)
          /\ Len(Tail(statesSent)) = Len(statesSent) - 1 /\ Len(statesSent) \in Nat
      BY <2>2, LenProperties, HeadTailProperties DEF TakeState, AudioInv, AudioTyped
    <3> QED  BY <3>1, AudioAssumption DEF WireOk
  <2>3. CASE LinkLost
    BY <2>3 DEF LinkLost, WireOk
  <2> QED  BY <2>1, <2>2, <2>3 DEF ConnectControl, DaemonRestarts
<1>4. WorkerOk'
  <2>1. CASE \E d : Update(d)
    BY <1>1, <2>1, UpdateFits
  <2>2. CASE DaemonRestarts
    BY <1>1, <2>2, AudioAssumption DEF DaemonRestarts, WorkerOk, NoBridge, SessionsOk
  <2> QED  BY <2>1, <2>2 DEF ConnectControl, TakeState, LinkLost
<1> QED  BY <1>2, <1>3, <1>4

LEMMA WorkerFits ==
  ASSUME AudioInv, AudioBounds, WorkerConnects \/ WorkerFails \/ WorkerSends
  PROVE  AudioBounds'
<1> USE DEF AudioBounds
<1>1. UNCHANGED <<stage, sessions, receiver, connection, statesSent>>
  BY DEF WorkerConnects, WorkerFails, WorkerSends, dseuhidAudio
<1>2. WorkerOk'
  <2>1. CASE WorkerConnects
    BY <1>1, <2>1 DEF WorkerConnects, WorkerOk, SessionsOk, AudioInv, AudioTyped, Workers
  <2>2. CASE WorkerFails
    BY <1>1, <2>2 DEF WorkerFails, WorkerOk, AudioInv, AudioTyped, Workers
  <2>3. CASE WorkerSends
    BY <1>1, <2>3 DEF WorkerSends, WorkerOk, AudioInv, AudioTyped, Workers
  <2> QED  BY <2>1, <2>2, <2>3
<1> QED  BY <1>1, <1>2 DEF StagesOk, SessionsOk, WireOk

\* Sessions are counted, the socket is bounded, and a worker is connected to
\* a session that has begun (daemon/audio.rs).
THEOREM AudioTypes == AudioSpec => []AudioTypeOK
<1>1. AudioInit => AudioBounds
  BY EmptySeq, AudioAssumption
     DEF AudioInit, AudioBounds, StagesOk, SessionsOk, WireOk, WorkerOk, NoBridge
<1>2. AudioInv /\ AudioBounds /\ [AudioNext]_audioVars => AudioBounds'
  <2>1. CASE UNCHANGED audioVars
    BY <2>1 DEF audioVars, dseuhidAudio, managerVars, AudioBounds, StagesOk, SessionsOk,
                WireOk, WorkerOk
  <2> QED  BY <2>1, DseuhidFits, DaemonFits, WorkerFits DEF AudioNext
<1>3. AudioInv /\ AudioBounds => AudioTypeOK
  BY DEF AudioInv, AudioTyped, States, Devices, Workers, AudioBounds, StagesOk, SessionsOk,
         WireOk, WorkerOk, AudioTypeOK
<1> QED  BY <1>1, <1>2, <1>3, AudioInvariant, PTL DEF AudioSpec

----------------------------------------------------------------------------
(* The parts together: each is left alone by the steps of the others.      *)

\* A step of the run is a step of each part or leaves it as it is.
LEMMA PartsStep ==
  ASSUME [PartsNext]_<<part, partVars>>
  PROVE  /\ [MonitorNext]_monitorVars /\ [WatcherNext]_watcherVars
         /\ [HostNext]_hostVars /\ [UhidNext]_uhidVars /\ [CompileNext]_compileVars
         /\ [AudioNext]_audioVars /\ [ServerNext]_serverVars
<1>1. CASE PartsNext
  BY <1>1 DEF PartsNext
<1>2. CASE UNCHANGED <<part, partVars>>
  BY <1>2 DEF partVars
<1> QED  BY <1>1, <1>2

\* So every behaviour of the run is one of each specification, and what is
\* proved of a specification holds in the run.
THEOREM PartsAreBehaviours ==
  PartsSpec => /\ MonitorSpec /\ WatcherSpec /\ HostSpec
               /\ UhidSpec /\ CompileSpec /\ AudioSpec /\ ServerSpec
<1>1. PartsInit => /\ MonitorInit /\ WatcherInit /\ HostInit
                   /\ UhidInit /\ CompileInit /\ AudioInit /\ ServerInit
  BY DEF PartsInit
<1>2. [PartsNext]_<<part, partVars>> =>
        /\ [MonitorNext]_monitorVars /\ [WatcherNext]_watcherVars
        /\ [HostNext]_hostVars /\ [UhidNext]_uhidVars /\ [CompileNext]_compileVars
        /\ [AudioNext]_audioVars /\ [ServerNext]_serverVars
  BY PartsStep
<1> QED  BY <1>1, <1>2, PTL DEF PartsSpec, MonitorSpec, WatcherSpec, HostSpec,
                                UhidSpec, CompileSpec, AudioSpec, ServerSpec

\* Every variable of every component keeps its type, for every value of the
\* constants and on every order of the steps.
THEOREM PartsTypes == PartsSpec => []PartsTypeOK
<1>1. MonitorInv => MonitorTypeOK
  BY DEF MonitorInv
<1>2. WatcherInv => WatcherTypeOK
  BY DEF WatcherInv
<1>3. ServerInv => ServerTypeOK
  BY DEF ServerInv
<1>4. (/\ MonitorTypeOK /\ WatcherTypeOK
       /\ HostTypeOK /\ UhidTypeOK /\ CompileTypeOK
       /\ AudioTypeOK /\ ServerTypeOK) => PartsTypeOK
  BY DEF PartsTypeOK
<1> QED  BY <1>1, <1>2, <1>3, <1>4, PartsAreBehaviours,
            MonitorInvariant, WatcherInvariant, ServerInvariant, HostTypes, UhidTypes,
            CompileTypes, AudioTypes, PTL

============================================================================
