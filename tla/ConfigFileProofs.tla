-------------------------- MODULE ConfigFileProofs --------------------------
(***************************************************************************)
(* A configuration on its way from the disk to the pipeline: the           *)
(* directories edgemap watches for it, for all directories and versions of *)
(* the file; and the tables that come of a file that loads, for all texts  *)
(* it may hold.                                                            *)
(***************************************************************************)
EXTENDS DaemonMonitor, ConfigCompile, SequenceTheorems, TLAPS

----------------------------------------------------------------------------
(* The queue of events of the daemon's watches.                            *)

EventsOf(q) == {q[i] : i \in 1 .. Len(q)}

\* What a queue holds after one more event, or without its first.
LEMMA QueueEvents ==
  ASSUME NEW q \in Seq(Events)
  PROVE  /\ EventsOf(q) \subseteq Events
         /\ q = <<>> <=> EventsOf(q) = {}
         /\ \A e \in Events : /\ Append(q, e) \in Seq(Events)
                              /\ EventsOf(Append(q, e)) = EventsOf(q) \cup {e}
         /\ q # <<>> => /\ Head(q) \in Events /\ Tail(q) \in Seq(Events)
                        /\ EventsOf(q) = EventsOf(Tail(q)) \cup {Head(q)}
<1>1. EventsOf(q) \subseteq Events
  BY ElementOfSeq DEF EventsOf
<1>2. q = <<>> <=> EventsOf(q) = {}
  <2>1. q = <<>> => EventsOf(q) = {}
    BY DEF EventsOf
  <2>2. q # <<>> => q[1] \in EventsOf(q)
    BY EmptySeq DEF EventsOf
  <2> QED
    BY <2>1, <2>2
<1>3. ASSUME NEW e \in Events
      PROVE  /\ Append(q, e) \in Seq(Events)
             /\ EventsOf(Append(q, e)) = EventsOf(q) \cup {e}
  <2> DEFINE r == Append(q, e)
  <2>1. /\ r \in Seq(Events) /\ Len(q) \in Nat /\ Len(r) = Len(q) + 1
        /\ \A i \in 1 .. Len(q) : r[i] = q[i]
        /\ r[Len(q) + 1] = e
    BY AppendProperties, LenProperties
  <2> HIDE DEF r
  <2>2. \A i \in 1 .. Len(r) : i \in 1 .. Len(q) \/ i = Len(q) + 1
    BY <2>1
  <2>3. EventsOf(r) \subseteq EventsOf(q) \cup {e}
    BY <2>1, <2>2 DEF EventsOf
  <2>4. 1 .. Len(q) \subseteq 1 .. Len(r) /\ Len(q) + 1 \in 1 .. Len(r)
    BY <2>1
  <2>5. EventsOf(q) \cup {e} \subseteq EventsOf(r)
    BY <2>1, <2>4 DEF EventsOf
  <2> QED
    BY <2>1, <2>3, <2>5 DEF r
<1>4. ASSUME q # <<>>
      PROVE  /\ Head(q) \in Events /\ Tail(q) \in Seq(Events)
             /\ EventsOf(q) = EventsOf(Tail(q)) \cup {Head(q)}
  <2> DEFINE r == Tail(q)
  <2>1. /\ Head(q) \in Events /\ r \in Seq(Events) /\ Len(q) \in Nat /\ Len(q) > 0
        /\ Head(q) = q[1] /\ Len(r) = Len(q) - 1
        /\ \A i \in 1 .. Len(r) : r[i] = q[i + 1]
    BY <1>4, HeadTailProperties, LenProperties, EmptySeq
  <2> HIDE DEF r
  <2>2. \A i \in 1 .. Len(q) : i = 1 \/ (i - 1 \in 1 .. Len(r) /\ q[i] = r[i - 1])
    BY <2>1
  <2>3. EventsOf(q) \subseteq EventsOf(r) \cup {Head(q)}
    <3>1. \A i \in 1 .. Len(r) : r[i] \in EventsOf(r)
      BY DEF EventsOf
    <3>2. \A i \in 1 .. Len(q) : q[i] \in EventsOf(r) \cup {Head(q)}
      BY <2>1, <2>2, <3>1
    <3> QED
      BY <3>2 DEF EventsOf
  <2>4. \A i \in 1 .. Len(r) : i + 1 \in 1 .. Len(q)
    BY <2>1
  <2>5. EventsOf(r) \cup {Head(q)} \subseteq EventsOf(q)
    BY <2>1, <2>4 DEF EventsOf
  <2> QED
    BY <2>1, <2>3, <2>5 DEF r
<1> QED
  BY <1>1, <1>2, <1>3, <1>4

----------------------------------------------------------------------------
(* The inductive invariant.                                                 *)

\* A directory is looked after: its watch, or its parent's, is in the kernel.
InPlace(s) ==
  IF Exists(s) THEN watch[s] = dir[s] /\ dir[s] \in watched[s] ELSE parent[s]
\* An event that will make the daemon look again is queued.
Stirred(s) == \E e \in EventsOf(inotify) : e = Overflow \/ e.side = s
Secured(s) == InPlace(s) \/ Stirred(s) \/ s \in dropped
Looking == watcherAt \in {"check", "look", "install", "parent", "recheck"}

\* A watch the daemon holds is the kernel's, or its end has been reported, or
\* the report was dropped.
WatchInv ==
  \A s \in Sides : watch[s] # NoDir =>
    \/ watch[s] = dir[s] /\ dir[s] \in watched[s]
    \/ Gone(s, watch[s]) \in EventsOf(inotify) \cup EventsOf(readEvents)
    \/ s \in dropped

ReadInv ==
  EventsOf(readEvents) # {} =>
    watcherAt \in {"events", "failed"} \/ (Looking /\ mode = "event")

\* Between two system calls: a directory that came after the daemon looked.
ParentInv ==
  /\ watcherAt = "parent" /\ parent[side] => ~Exists(side) \/ Stirred(side)
  /\ watcherAt = "recheck" => parent[side]

\* What a wake-up has seen to, at each point of it.
DoneInv ==
  /\ watcherAt \in {"asleep", "capture"} => Secured("config") /\ Secured("runtime")
  /\ Looking /\ mode = "full" /\ side = "runtime" => Secured("config")
  /\ Looking /\ mode = "brief" =>
       side = "runtime" /\ Secured("config") /\ Secured("runtime")

SnapshotInv ==
  watcherAt = "asleep" =>
    snapshot = Capture \/ Stirred("runtime") \/ "runtime" \in dropped

WatcherInv ==
  WatcherTypeOK /\ WatchInv /\ ReadInv /\ ParentInv /\ DoneInv /\ SnapshotInv

LEMMA WatcherInvInit ==
  WatcherInit => WatcherInv
<1> SUFFICES ASSUME WatcherInit PROVE WatcherInv
  OBVIOUS
<1>1. EventsOf(<<>>) = {} /\ <<>> \in Seq(Events)
  BY DEF EventsOf
<1>2. dir["config"] = 1 /\ dir["runtime"] = 0 /\ dirs = dir /\ watch = dir
  BY DEF WatcherInit, Sides
<1>3. WatcherTypeOK
  <2>1. dirs \in [Sides -> Dirs \cup {NoDir}]
    BY DirsAssumption DEF WatcherInit, Sides, Dirs, NoDir
  <2>2. watched \in [Sides -> SUBSET Dirs]
    BY <2>1, <1>2 DEF WatcherInit
  <2>3. snapshot \in RuntimeSnapshot
    BY DEF WatcherInit, RuntimeSnapshot, Capture, Exists
  <2>4. parent \in [Sides -> BOOLEAN]
    BY DEF WatcherInit
  <2>5. content \in 0 .. MaxFileEdits
    BY DirsAssumption DEF WatcherInit
  <2> QED
    BY <1>1, <1>2, <2>1, <2>2, <2>3, <2>4, <2>5 DEF WatcherInit, WatcherTypeOK, Sides
<1>4. WatchInv /\ ReadInv
  BY <1>1, <1>2 DEF WatcherInit, WatchInv, ReadInv, Sides, NoDir
<1>5. ParentInv /\ DoneInv /\ SnapshotInv
  BY <1>1, <1>2 DEF WatcherInit, ParentInv, DoneInv, SnapshotInv, Secured, InPlace, Exists,
     Sides, NoDir, Looking
<1> QED
  BY <1>3, <1>4, <1>5 DEF WatcherInv

----------------------------------------------------------------------------
(* The file system moves, the daemon does not.                              *)

\* What the queue holds once an event was to be queued: it, or the one that
\* tells of those dropped.
LEMMA QueuedEvents ==
  ASSUME NEW q \in Seq(Events), NEW e \in Events
  PROVE  /\ Enqueued(q, e) \in Seq(Events)
         /\ EventsOf(q) \subseteq EventsOf(Enqueued(q, e))
         /\ e \in EventsOf(Enqueued(q, e)) \/ Overflow \in EventsOf(Enqueued(q, e))
         /\ Len(q) < MaxQueue => e \in EventsOf(Enqueued(q, e))
<1>1. Overflow \in Events
  BY DEF Events
<1>2. CASE Len(q) < MaxQueue
  BY <1>2, QueueEvents DEF Enqueued
<1>3. CASE ~(Len(q) < MaxQueue) /\ Overflow \in {q[i] : i \in 1 .. Len(q)}
  BY <1>3 DEF Enqueued, EventsOf
<1>4. CASE ~(Len(q) < MaxQueue) /\ Overflow \notin {q[i] : i \in 1 .. Len(q)}
  BY <1>1, <1>4, QueueEvents DEF Enqueued
<1> QED
  BY <1>2, <1>3, <1>4

\* What is enough of a step of the file system on one side: it loses no event, it
\* says that it takes that side's directory from under its watch, and if the side
\* is in place the daemon will look at it again.
LEMMA FileSystemStep ==
  ASSUME WatcherInv, NEW s \in Sides, UNCHANGED processState, WatcherTypeOK',
         EventsOf(inotify) \subseteq EventsOf(inotify'), dropped \subseteq dropped',
         \A t \in Sides \ {s} : dir'[t] = dir[t] /\ watched'[t] = watched[t],
         s # "runtime" => socketPath' = socketPath,
         dir[s] # NoDir /\ dir[s] \in watched[s] =>
           \/ dir'[s] = dir[s] /\ dir[s] \in watched'[s]
           \/ Gone(s, dir[s]) \in EventsOf(inotify') \/ s \in dropped',
         InPlace(s) => Stirred(s)'
  PROVE  WatcherInv'
<1>0. /\ "config" \in Sides /\ "runtime" \in Sides /\ side \in Sides
      /\ WatchInv /\ ReadInv /\ ParentInv /\ DoneInv /\ SnapshotInv
  BY DEF Sides, WatcherInv, WatcherTypeOK
<1>1. \A t \in Sides : Stirred(t) => Stirred(t)'
  BY DEF Stirred
<1>2. \A t \in Sides : Secured(t) => Secured(t)'
  <2> SUFFICES ASSUME NEW t \in Sides, Secured(t) PROVE Secured(t)'
    OBVIOUS
  <2>1. CASE t = s
    BY <1>1, <2>1 DEF Secured
  <2>2. CASE t # s
    BY <1>1, <2>2 DEF Secured, InPlace, Exists, processState
  <2> QED
    BY <2>1, <2>2
<1>3. WatchInv'
  <2> SUFFICES ASSUME NEW t \in Sides, watch[t] # NoDir
               PROVE  \/ watch[t] = dir'[t] /\ dir'[t] \in watched'[t]
                      \/ Gone(t, watch[t]) \in EventsOf(inotify') \cup EventsOf(readEvents)
                      \/ t \in dropped'
    BY DEF WatchInv, processState
  <2>1. \/ watch[t] = dir[t] /\ dir[t] \in watched[t]
        \/ Gone(t, watch[t]) \in EventsOf(inotify) \cup EventsOf(readEvents)
        \/ t \in dropped
    BY <1>0 DEF WatchInv
  <2>2. CASE t = s
    BY <2>1, <2>2
  <2>3. CASE t # s
    BY <2>1, <2>3
  <2> QED
    BY <2>2, <2>3
<1>4. ReadInv'
  BY <1>0 DEF ReadInv, Looking, processState
<1>5. ParentInv'
  <2>1. ASSUME NEW t \in Sides, t = side, watcherAt = "parent", parent[t]
        PROVE  ~Exists(t)' \/ Stirred(t)'
    <3>1. ~Exists(t) \/ Stirred(t)
      BY <1>0, <2>1 DEF ParentInv
    <3>2. CASE t = s
      BY <1>1, <2>1, <3>1, <3>2 DEF InPlace
    <3>3. CASE t # s
      BY <1>1, <3>1, <3>3 DEF Exists
    <3> QED
      BY <3>2, <3>3
  <2> QED
    BY <1>0, <2>1 DEF ParentInv, processState
<1>6. DoneInv'
  BY <1>0, <1>2 DEF DoneInv, Looking, processState
<1>7. SnapshotInv'
  <2> SUFFICES ASSUME watcherAt = "asleep", ~Stirred("runtime")', "runtime" \notin dropped'
               PROVE  snapshot = Capture'
    BY DEF SnapshotInv, processState
  <2>1. snapshot = Capture /\ Secured("runtime") /\ ~Stirred("runtime")
    BY <1>0, <1>1 DEF SnapshotInv, DoneInv
  <2>2. InPlace("runtime")
    BY <2>1 DEF Secured
  <2>3. s # "runtime"
    BY <2>2
  <2> QED
    BY <1>0, <2>1, <2>3 DEF Capture, Exists
<1> QED
  BY <1>3, <1>4, <1>5, <1>6, <1>7 DEF WatcherInv

\* The configuration file is edited, or the socket comes or goes.
LEMMA ContentStep ==
  ASSUME WatcherInv, NEW s \in Sides, Exists(s), inotify' = Inside(s),
         UNCHANGED <<dir, dirs, away, homeless, watched, dropped, processState>>,
         content' \in 0 .. MaxFileEdits, socketPath' \in BOOLEAN,
         s # "runtime" => socketPath' = socketPath
  PROVE  WatcherInv'
<1>1. WatcherTypeOK /\ inotify \in Seq(Events)
  BY DEF WatcherInv, WatcherTypeOK
<1>2. Named(s, dir[s]) \in Events /\ Named(s, dir[s]).side = s
  BY <1>1 DEF WatcherTypeOK, Named, Events
<1>3. inotify' \in Seq(Events) /\ EventsOf(inotify) \subseteq EventsOf(inotify')
  <2>1. CASE dir[s] \in watched[s]
    BY <1>1, <1>2, <2>1, QueuedEvents DEF Inside
  <2>2. CASE dir[s] \notin watched[s]
    BY <1>1, <2>2 DEF Inside
  <2> QED
    BY <2>1, <2>2
<1>4. InPlace(s) => Stirred(s)'
  <2> SUFFICES ASSUME dir[s] \in watched[s] PROVE Stirred(s)'
    BY DEF InPlace
  <2>1. inotify' = Enqueued(inotify, Named(s, dir[s]))
    BY DEF Inside
  <2> QED
    BY <1>1, <1>2, <2>1, QueuedEvents DEF Stirred
<1>5. WatcherTypeOK'
  BY <1>1, <1>3 DEF WatcherTypeOK, processState
<1>6. /\ dropped \subseteq dropped'
      /\ \A t \in Sides \ {s} : dir'[t] = dir[t] /\ watched'[t] = watched[t]
      /\ dir[s] \in watched[s] => dir'[s] = dir[s] /\ dir[s] \in watched'[s]
  OBVIOUS
<1> QED
  BY <1>3, <1>4, <1>5, <1>6, FileSystemStep

LEMMA EditConfigStep ==
  ASSUME WatcherInv, EditConfig PROVE WatcherInv'
<1>1. WatcherTypeOK /\ "config" \in Sides
  BY DEF WatcherInv, Sides
<1>2. content' \in 0 .. MaxFileEdits /\ socketPath' \in BOOLEAN
  BY <1>1, DirsAssumption DEF EditConfig, WatcherTypeOK
<1> QED
  BY <1>1, <1>2, ContentStep DEF EditConfig

LEMMA ToggleSocketStep ==
  ASSUME WatcherInv, ToggleSocket PROVE WatcherInv'
<1>1. WatcherTypeOK /\ "runtime" \in Sides
  BY DEF WatcherInv, Sides
<1>2. content' \in 0 .. MaxFileEdits /\ socketPath' \in BOOLEAN
  BY <1>1 DEF ToggleSocket, WatcherTypeOK
<1> QED
  BY <1>1, <1>2, ContentStep DEF ToggleSocket

\* A directory goes, deleted or moved away.
LEMMA LeavesStep ==
  ASSUME WatcherInv, NEW s \in Sides, DeleteDir(s) \/ MoveAway(s) PROVE WatcherInv'
<1>1. /\ WatcherTypeOK /\ dir[s] \in Dirs /\ dir[s] # NoDir /\ Leaves(s)
      /\ inotify \in Seq(Events)
  BY DEF WatcherInv, WatcherTypeOK, DeleteDir, MoveAway, Exists
<1>2. Gone(s, dir[s]) \in Events /\ Gone(s, dir[s]).side = s
  BY <1>1 DEF Gone, Events
<1>3. inotify' \in Seq(Events) /\ EventsOf(inotify) \subseteq EventsOf(inotify')
  BY <1>1, <1>2, QueuedEvents DEF Leaves, Of
<1>4. dropped \subseteq dropped' /\ dropped' \subseteq dropped \cup {s}
  BY <1>1 DEF Leaves
<1>5. dir[s] \in watched[s] => Gone(s, dir[s]) \in EventsOf(inotify') \/ s \in dropped'
  BY <1>1, <1>2, QueuedEvents DEF Leaves, Of
<1>6. InPlace(s) => Stirred(s)'
  BY <1>1, <1>2, QueuedEvents DEF Leaves, Of, InPlace, Exists, Stirred
<1>7. /\ \A t \in Sides \ {s} : dir'[t] = dir[t] /\ watched'[t] = watched[t]
      /\ s # "runtime" => socketPath' = socketPath
      /\ UNCHANGED processState
  BY <1>1 DEF Leaves, DeleteDir, MoveAway, WatcherTypeOK
<1>8. WatcherTypeOK'
  <2>1. dir' \in [Sides -> Dirs \cup {NoDir}] /\ watched' \in [Sides -> SUBSET Dirs]
        /\ away' \subseteq Sides /\ dropped' \subseteq Sides
    BY <1>1, <1>4 DEF Leaves, DeleteDir, MoveAway, WatcherTypeOK
  <2>2. socketPath' \in BOOLEAN
    BY <1>1 DEF Leaves
  <2> QED
    BY <1>1, <1>3, <2>1, <2>2 DEF WatcherTypeOK, Leaves, processState
<1> QED
  BY <1>3, <1>4, <1>5, <1>6, <1>7, <1>8, FileSystemStep

\* A directory comes, a new one or the one that was moved away.
LEMMA ComesStep ==
  ASSUME WatcherInv, NEW s \in Sides, CreateDir(s) \/ MoveBack(s) PROVE WatcherInv'
<1>1. /\ WatcherTypeOK /\ dir[s] = NoDir /\ Comes(s) /\ inotify \in Seq(Events)
      /\ dirs[s] \in Dirs \cup {NoDir}
  BY DEF WatcherInv, WatcherTypeOK, CreateDir, MoveBack, Comes, Exists
<1>2. /\ Named(s, NoDir) \in Events /\ Named(s, NoDir).side = s
      /\ Gone(s, dirs[s]) \in Events
  BY <1>1 DEF Named, Gone, Events
<1>3. /\ InParent(s) \in Seq(Events)
      /\ EventsOf(inotify) \subseteq EventsOf(InParent(s))
      /\ parent[s] => \E e \in EventsOf(InParent(s)) : e = Overflow \/ e.side = s
  BY <1>1, <1>2, QueuedEvents DEF InParent
<1>4. inotify' \in Seq(Events) /\ EventsOf(InParent(s)) \subseteq EventsOf(inotify')
  BY <1>2, <1>3, QueuedEvents DEF CreateDir, MoveBack, Of
<1>5. InPlace(s) => Stirred(s)'
  BY <1>1, <1>3, <1>4 DEF InPlace, Exists, Stirred
<1>6. /\ \A t \in Sides \ {s} : dir'[t] = dir[t] /\ watched'[t] = watched[t]
      /\ s # "runtime" => socketPath' = socketPath
      /\ UNCHANGED <<processState, dropped, homeless, watched>>
  BY <1>1 DEF Comes, CreateDir, MoveBack, WatcherTypeOK
<1>7. WatcherTypeOK'
  <2>1. /\ dir' \in [Sides -> Dirs \cup {NoDir}] /\ dirs' \in [Sides -> Dirs \cup {NoDir}]
        /\ content' \in 0 .. MaxFileEdits
    <3>1. CASE CreateDir(s)
      <4>1. dirs[s] + 1 \in Dirs
        BY <1>1, <3>1, DirsAssumption DEF CreateDir, Dirs, NoDir
      <4>2. content' \in 0 .. MaxFileEdits
        BY <1>1, <3>1, DirsAssumption DEF CreateDir, WatcherTypeOK
      <4> QED
        BY <1>1, <3>1, <4>1, <4>2 DEF CreateDir, WatcherTypeOK
    <3>2. CASE MoveBack(s)
      BY <1>1, <3>2 DEF MoveBack, WatcherTypeOK
    <3> QED
      BY <3>1, <3>2
  <2>2. socketPath' \in BOOLEAN /\ away' \subseteq Sides
    BY <1>1 DEF Comes, WatcherTypeOK
  <2> QED
    BY <1>1, <1>4, <1>6, <2>1, <2>2 DEF WatcherTypeOK, processState
<1>8. EventsOf(inotify) \subseteq EventsOf(inotify') /\ dropped \subseteq dropped'
  BY <1>3, <1>4, <1>6
<1> QED
  BY <1>1, <1>5, <1>6, <1>7, <1>8, FileSystemStep

LEMMA LoseParentStep ==
  ASSUME WatcherInv, LoseParent PROVE WatcherInv'
<1>1. /\ WatcherTypeOK /\ "config" \in Sides /\ inotify \in Seq(Events)
      /\ UNCHANGED <<dir, watched, dropped, socketPath, processState>>
      /\ ~Exists("config") /\ homeless' = TRUE
  BY DEF WatcherInv, WatcherTypeOK, Sides, LoseParent
<1>2. Gone("config", NoDir) \in Events /\ Gone("config", NoDir).side = "config"
  BY <1>1 DEF Gone, Events
<1>3. inotify' \in Seq(Events) /\ EventsOf(inotify) \subseteq EventsOf(inotify')
  BY <1>1, <1>2, QueuedEvents DEF LoseParent
<1>4. InPlace("config") => Stirred("config")'
  BY <1>1, <1>2, QueuedEvents DEF LoseParent, InPlace, Stirred
<1>5. WatcherTypeOK'
  BY <1>1, <1>3 DEF LoseParent, WatcherTypeOK, processState
<1> QED
  BY <1>1, <1>3, <1>4, <1>5, FileSystemStep

----------------------------------------------------------------------------
(* The daemon moves, the file system does not.                              *)

\* A directory has been looked after and what was in place still is: the wake-up
\* goes on to the next, and has seen to this one.
LEMMA FinishedStep ==
  ASSUME WatcherInv, Looking, Finished, UNCHANGED <<fsVars, inotify, readEvents, snapshot>>,
         WatcherTypeOK', WatchInv',
         \A s \in Sides : Secured(s) => Secured(s)',
         \A s \in Sides : mode = "full" /\ s = side => Secured(s)'
  PROVE  WatcherInv'
<1>0. "config" \in Sides /\ "runtime" \in Sides /\ side \in Sides
  BY DEF Sides, WatcherInv, WatcherTypeOK
<1>1. ReadInv'
  BY DEF WatcherInv, ReadInv, Looking, Finished, LookAfter
<1>2. ParentInv'
  BY DEF ParentInv, Finished, LookAfter
<1>3. DoneInv'
  <2>0. DoneInv
    BY DEF WatcherInv
  <2>1. CASE mode = "event" /\ watcherAt' = "events"
    BY <2>1 DEF DoneInv, Looking
  <2>2. CASE mode = "full" /\ side = "config" /\ LookAfter("runtime", "full")
    <3>1. Secured("config")'
      BY <1>0, <2>2
    <3> QED
      BY <2>2, <3>1 DEF DoneInv, Looking, LookAfter
  <2>3. CASE mode = "full" /\ side = "runtime" /\ LookAfter("runtime", "brief")
    <3>1. Secured("config")' /\ Secured("runtime")'
      BY <1>0, <2>0, <2>3 DEF DoneInv
    <3> QED
      BY <2>3, <3>1 DEF DoneInv, Looking, LookAfter
  <2>4. CASE mode = "brief" /\ watcherAt' = "capture"
    <3>1. Secured("config")' /\ Secured("runtime")'
      BY <1>0, <2>0, <2>4 DEF DoneInv
    <3> QED
      BY <2>4, <3>1 DEF DoneInv, Looking
  <2> QED
    BY <2>1, <2>2, <2>3, <2>4 DEF Finished
<1>4. SnapshotInv'
  BY DEF SnapshotInv, Finished, LookAfter
<1> QED
  BY <1>1, <1>2, <1>3, <1>4 DEF WatcherInv

\* The wake-up goes on to another step for the same directory.
LEMMA LookingStep ==
  ASSUME WatcherInv, Looking, Looking',
         UNCHANGED <<fsVars, inotify, readEvents, side, mode>>,
         WatcherTypeOK', WatchInv', ParentInv',
         \A s \in Sides : Secured(s) /\ (mode = "full" => s # side) => Secured(s)'
  PROVE  WatcherInv'
<1>0. "config" \in Sides /\ "runtime" \in Sides
  BY DEF Sides
<1>1. ReadInv'
  BY DEF WatcherInv, ReadInv, Looking
<1>2. DoneInv'
  BY <1>0 DEF WatcherInv, DoneInv, Looking
<1>3. SnapshotInv'
  BY DEF SnapshotInv, Looking
<1> QED
  BY <1>1, <1>2, <1>3 DEF WatcherInv

LEMMA WakeStep ==
  ASSUME WatcherInv, WakeOnEvents \/ WakeOtherwise \/ EventsHandled \/ EndWake
  PROVE  WatcherInv'
<1>1. /\ WatcherTypeOK /\ WatchInv /\ ReadInv /\ ParentInv /\ DoneInv
      /\ "config" \in Sides /\ "runtime" \in Sides
  BY DEF WatcherInv, Sides
<1>2. CASE WakeOnEvents
  <2>1. EventsOf(readEvents) = {} /\ EventsOf(inotify') = {}
    BY <1>1, <1>2 DEF WakeOnEvents, ReadInv, Looking, EventsOf
  <2>2. EventsOf(inotify') \cup EventsOf(readEvents')
          = EventsOf(inotify) \cup EventsOf(readEvents)
    BY <1>2, <2>1 DEF WakeOnEvents
  <2>3. <<>> \in Seq(Events)
    OBVIOUS
  <2>4. WatcherTypeOK'
    BY <1>1, <1>2, <2>3 DEF WakeOnEvents, WatcherTypeOK, fsVars, watchVars
  <2>5. WatchInv'
    BY <1>1, <1>2, <2>2 DEF WakeOnEvents, WatchInv, fsVars, watchVars
  <2> QED
    BY <1>2, <2>4, <2>5 DEF WakeOnEvents, WatcherInv, ReadInv, ParentInv, DoneInv,
       SnapshotInv, Looking
<1>3. CASE WakeOtherwise
  <2>1. WatcherTypeOK'
    BY <1>1, <1>3 DEF WakeOtherwise, LookAfter, WatcherTypeOK, fsVars, watchVars
  <2>2. WatchInv'
    BY <1>1, <1>3 DEF WakeOtherwise, WatchInv, fsVars, watchVars
  <2>3. EventsOf(readEvents) = {}
    BY <1>1, <1>3 DEF WakeOtherwise, ReadInv, Looking
  <2>4. Secured("config")'
    BY <1>1, <1>3 DEF WakeOtherwise, DoneInv, Secured, InPlace, Stirred, Exists, fsVars,
       watchVars
  <2> QED
    BY <1>3, <2>1, <2>2, <2>3, <2>4 DEF WakeOtherwise, LookAfter, WatcherInv, ReadInv,
       ParentInv, DoneInv, SnapshotInv, Looking
<1>4. CASE EventsHandled
  <2>1. WatcherTypeOK'
    BY <1>1, <1>4 DEF EventsHandled, LookAfter, WatcherTypeOK, fsVars, watchVars
  <2>2. WatchInv'
    BY <1>1, <1>4 DEF EventsHandled, WatchInv, fsVars, watchVars
  <2>3. EventsOf(readEvents) = {}
    BY <1>4 DEF EventsHandled, EventsOf
  <2> QED
    BY <1>4, <2>1, <2>2, <2>3 DEF EventsHandled, LookAfter, WatcherInv, ReadInv,
       ParentInv, DoneInv, SnapshotInv, Looking
<1>5. CASE EndWake
  <2>1. WatcherTypeOK'
    <3>1. Capture \in RuntimeSnapshot
      BY <1>1 DEF Capture, RuntimeSnapshot, Exists, WatcherTypeOK
    <3>2. configRead' \in 0 .. MaxFileEdits
      BY <1>1, <1>5 DEF EndWake, WatcherTypeOK
    <3> QED
      BY <1>1, <1>5, <3>1, <3>2 DEF EndWake, WatcherTypeOK, fsVars, watchVars
  <2>2. WatchInv'
    BY <1>1, <1>5 DEF EndWake, WatchInv, fsVars, watchVars
  <2>3. EventsOf(readEvents) = {}
    BY <1>1, <1>5 DEF EndWake, ReadInv, Looking
  <2>4. Secured("config")' /\ Secured("runtime")'
    BY <1>1, <1>5 DEF EndWake, DoneInv, Secured, InPlace, Stirred, Exists, fsVars, watchVars
  <2>5. snapshot' = Capture'
    BY <1>5 DEF EndWake, Capture, Exists, fsVars
  <2> QED
    BY <1>5, <2>1, <2>2, <2>3, <2>4, <2>5 DEF EndWake, WatcherInv, ReadInv,
       ParentInv, DoneInv, SnapshotInv, Looking
<1> QED
  BY <1>2, <1>3, <1>4, <1>5

LEMMA HandleEventStep ==
  ASSUME WatcherInv, HandleEvent PROVE WatcherInv'
<1> DEFINE e == Head(readEvents)
           ofWatch == e.on # NoDir /\ e.on = watch[e.side]
           ofParent == e.on = NoDir /\ parent[e.side]
<1>1. WatcherTypeOK /\ WatchInv /\ readEvents \in Seq(Events) /\ readEvents # <<>>
  BY DEF WatcherInv, WatcherTypeOK, HandleEvent
<1>2. /\ e \in Events /\ readEvents' \in Seq(Events)
      /\ EventsOf(readEvents) = EventsOf(readEvents') \cup {e}
  BY <1>1, QueueEvents DEF HandleEvent
<1>3. e.side \in Sides /\ e.on \in Dirs \cup {NoDir} /\ e.gone \in BOOLEAN
  BY <1>2 DEF Events, HandleEvent
<1>4. /\ changed' = (changed \/ (e.side = "config" /\ (ofWatch \/ ofParent)))
      /\ IF ofWatch /\ e.gone
         THEN watch' = [watch EXCEPT ![e.side] = NoDir] /\ dropped' = dropped \ {e.side}
         ELSE UNCHANGED <<watch, dropped>>
      /\ IF ~ofParent THEN UNCHANGED <<side, mode, watcherAt>>
         ELSE IF e.gone THEN watcherAt' = "failed" /\ UNCHANGED <<side, mode>>
         ELSE LookAfter(e.side, "event")
      /\ watcherAt = "events"
      /\ UNCHANGED <<fsVars, inotify, watched, parent, snapshot, configRead>>
  BY DEF HandleEvent
<1> HIDE DEF e
<1>5. WatcherTypeOK'
  <2>1. changed' \in BOOLEAN
    BY <1>4
  <2>2. watch' \in [Sides -> Dirs \cup {NoDir}] /\ dropped' \subseteq Sides
    BY <1>1, <1>3, <1>4 DEF WatcherTypeOK
  <2>3. side' \in Sides /\ mode' \in {"full", "brief", "event"}
        /\ watcherAt' \in {"events", "check", "failed"}
    BY <1>1, <1>3, <1>4 DEF WatcherTypeOK, LookAfter
  <2> QED
    BY <1>1, <1>2, <1>4, <2>1, <2>2, <2>3 DEF WatcherTypeOK, fsVars
<1>6. \A s \in Sides : watch'[s] = NoDir \/ (watch'[s] = watch[s] /\ (s \in dropped => s \in dropped'))
  BY <1>1, <1>3, <1>4 DEF WatcherTypeOK
<1>8. WatchInv'
  <2> SUFFICES ASSUME NEW s \in Sides, watch'[s] # NoDir
               PROVE  \/ watch'[s] = dir[s] /\ dir[s] \in watched[s]
                      \/ Gone(s, watch'[s]) \in EventsOf(inotify) \cup EventsOf(readEvents')
                      \/ s \in dropped'
    BY <1>4 DEF WatchInv, fsVars
  <2>1. watch'[s] = watch[s] /\ (s \in dropped => s \in dropped')
    BY <1>6
  <2>2. Gone(s, watch[s]) # e
    <3> SUFFICES ASSUME Gone(s, watch[s]) = e PROVE FALSE
      OBVIOUS
    <3>1. e.side = s /\ e.on = watch[s] /\ e.gone
      BY DEF Gone
    <3> QED
      BY <1>1, <1>4, <2>1, <3>1 DEF WatcherTypeOK
  <2> QED
    BY <1>1, <1>2, <2>1, <2>2 DEF WatchInv
<1>9. ReadInv' /\ ParentInv' /\ DoneInv' /\ SnapshotInv'
  <2>1. CASE ofParent
    BY <1>4, <2>1 DEF LookAfter, ReadInv, ParentInv, DoneInv, SnapshotInv, Looking
  <2>2. CASE ~ofParent
    BY <1>4, <2>2 DEF ReadInv, ParentInv, DoneInv, SnapshotInv, Looking
  <2> QED
    BY <2>1, <2>2
<1> QED
  BY <1>5, <1>8, <1>9 DEF WatcherInv

LEMMA HandleOverflowStep ==
  ASSUME WatcherInv, HandleOverflow PROVE WatcherInv'
<1>1. /\ WatcherTypeOK /\ WatchInv /\ readEvents \in Seq(Events) /\ readEvents # <<>>
      /\ Head(readEvents) = Overflow
  BY DEF WatcherInv, WatcherTypeOK, HandleOverflow
<1>2. /\ readEvents' \in Seq(Events)
      /\ EventsOf(readEvents) = EventsOf(readEvents') \cup {Overflow}
  BY <1>1, QueueEvents DEF HandleOverflow
<1>3. \A s \in Sides, d \in Dirs \cup {NoDir} : Gone(s, d) # Overflow
  BY DEF Gone, Overflow, Sides
<1>4. WatcherTypeOK'
  BY <1>1, <1>2 DEF HandleOverflow, WatcherTypeOK, fsVars, watchVars
<1>5. WatchInv'
  BY <1>1, <1>2, <1>3 DEF HandleOverflow, WatchInv, WatcherTypeOK, fsVars, watchVars
<1>6. ReadInv' /\ ParentInv' /\ DoneInv' /\ SnapshotInv'
  BY DEF HandleOverflow, ReadInv, ParentInv, DoneInv, SnapshotInv, Looking
<1> QED
  BY <1>4, <1>5, <1>6 DEF WatcherInv

\* The daemon ends with an error.
LEMMA WatcherFailsStep ==
  ASSUME WatcherInv, WaitFails \/ InstallFails PROVE WatcherInv'
<1>1. /\ WatcherTypeOK /\ WatchInv /\ watcherAt' = "failed"
      /\ UNCHANGED <<fsVars, inotify, watchVars, snapshot, readEvents, side, mode, changed,
                     configRead, dropped>>
  BY DEF WatcherInv, WaitFails, InstallFails
<1>2. WatcherTypeOK' /\ WatchInv'
  BY <1>1 DEF WatcherTypeOK, WatchInv, fsVars, watchVars
<1>3. ReadInv' /\ ParentInv' /\ DoneInv' /\ SnapshotInv'
  BY <1>1 DEF ReadInv, ParentInv, DoneInv, SnapshotInv, Looking
<1> QED
  BY <1>2, <1>3 DEF WatcherInv

LEMMA CheckStep ==
  ASSUME WatcherInv, Check PROVE WatcherInv'
<1>1. /\ WatcherTypeOK /\ WatchInv /\ ReadInv /\ DoneInv
      /\ Looking /\ side \in Sides
      /\ UNCHANGED <<fsVars, inotify, watched, parent, snapshot, readEvents>>
  BY DEF WatcherInv, WatcherTypeOK, Check, Looking
<1>2. CASE watch[side] # NoDir /\ Exists(side)
  <2>1. Finished /\ watch' = watch /\ dropped' = dropped
    BY <1>2 DEF Check
  <2>2. WatcherTypeOK'
    BY <1>1, <2>1 DEF Check, WatcherTypeOK, Finished, LookAfter, fsVars, Sides
  <2>3. WatchInv'
    BY <1>1, <2>1 DEF WatchInv, fsVars
  <2>4. \A s \in Sides : Secured(s) => Secured(s)'
    BY <1>1, <2>1 DEF Secured, InPlace, Stirred, Exists, fsVars
  <2>5. mode = "full" => Secured(side)
    <3> SUFFICES ASSUME mode = "full" PROVE Secured(side)
      OBVIOUS
    <3>1. EventsOf(readEvents) = {}
      BY <1>1 DEF ReadInv, Looking
    <3>2. Gone(side, watch[side]).side = side
      BY DEF Gone
    <3> QED
      BY <1>1, <1>2, <3>1, <3>2 DEF WatchInv, Secured, InPlace, Stirred
  <2> QED
    BY <1>1, <2>1, <2>2, <2>3, <2>4, <2>5, FinishedStep
<1>3. CASE ~(watch[side] # NoDir /\ Exists(side))
  <2>1. /\ watch' = [watch EXCEPT ![side] = NoDir]
        /\ dropped' = IF mode = "full" THEN dropped \ {side} ELSE dropped
        /\ watcherAt' = "look" /\ UNCHANGED <<side, mode>>
    BY <1>3 DEF Check
  <2>2. \A s \in Sides : watch'[s] = IF s = side THEN NoDir ELSE watch[s]
    BY <1>1, <2>1 DEF WatcherTypeOK
  <2>3. WatcherTypeOK'
    BY <1>1, <2>1 DEF Check, WatcherTypeOK, fsVars
  <2>5. WatchInv'
    BY <1>1, <2>1, <2>2 DEF WatchInv, fsVars
  <2>6. \A s \in Sides : Secured(s) /\ (mode = "full" => s # side) => Secured(s)'
    BY <1>1, <1>3, <2>1, <2>2 DEF Secured, InPlace, Stirred, Exists, fsVars
  <2>7. Looking' /\ ParentInv'
    BY <2>1 DEF Looking, ParentInv
  <2> QED
    BY <1>1, <2>1, <2>3, <2>5, <2>6, <2>7, LookingStep
<1> QED
  BY <1>2, <1>3

LEMMA LookStep ==
  ASSUME WatcherInv, Look PROVE WatcherInv'
<1>1. /\ WatcherTypeOK /\ WatchInv
      /\ Looking /\ side \in Sides
      /\ UNCHANGED <<fsVars, inotify, watchVars, snapshot, readEvents, changed, configRead, dropped>>
  BY DEF WatcherInv, WatcherTypeOK, Look, Looking
<1>2. WatchInv'
  BY <1>1 DEF WatchInv, fsVars, watchVars
<1>3. \A s \in Sides : Secured(s) => Secured(s)'
  BY <1>1 DEF Secured, InPlace, Stirred, Exists, fsVars, watchVars
<1>4. CASE mode # "full" /\ Finished
  <2>1. WatcherTypeOK'
    BY <1>1, <1>4 DEF WatcherTypeOK, Finished, LookAfter, fsVars, watchVars, Sides
  <2> QED
    BY <1>1, <1>2, <1>3, <1>4, <2>1, FinishedStep
<1>5. CASE /\ UNCHANGED <<side, mode>>
           /\ watcherAt' = "install" \/ (watcherAt' = "parent" /\ ~Exists(side))
  <2>1. WatcherTypeOK'
    BY <1>1, <1>5 DEF WatcherTypeOK, fsVars, watchVars
  <2>2. Looking' /\ ParentInv'
    BY <1>1, <1>5 DEF Looking, ParentInv, Exists, fsVars
  <2> QED
    BY <1>1, <1>2, <1>3, <1>5, <2>1, <2>2, LookingStep
<1> QED
  BY <1>4, <1>5 DEF Look

LEMMA InstallStep ==
  ASSUME WatcherInv, Install PROVE WatcherInv'
<1>1. WatcherTypeOK /\ WatchInv /\ side \in Sides
  BY DEF WatcherInv, WatcherTypeOK
<1>2. CASE Install
  <2>1. /\ Looking /\ dir[side] \in Dirs /\ dir[side] # NoDir
        /\ UNCHANGED <<fsVars, inotify, snapshot, readEvents, dropped>>
    BY <1>1, <1>2 DEF Install, Looking, Exists, WatcherTypeOK
  <2>2. \A s \in Sides : /\ watch'[s] = IF s = side THEN dir[s] ELSE watch[s]
                         /\ dir[s] \in watched[s] \/ s = side => dir[s] \in watched'[s]
                         /\ s # side => parent'[s] = parent[s]
    BY <1>1, <1>2 DEF Install, WatcherTypeOK
  <2>3. WatcherTypeOK'
    <3>1. /\ watch' \in [Sides -> Dirs \cup {NoDir}] /\ watched' \in [Sides -> SUBSET Dirs]
          /\ parent' \in [Sides -> BOOLEAN]
      BY <1>1, <1>2, <2>1 DEF Install, WatcherTypeOK
    <3> QED
      BY <1>1, <1>2, <3>1 DEF Install, WatcherTypeOK, Finished, LookAfter, fsVars, Sides
  <2>5. WatchInv'
    BY <1>1, <2>1, <2>2 DEF WatchInv, fsVars
  <2>6. \A s \in Sides : Secured(s) => Secured(s)'
    BY <1>1, <2>1, <2>2 DEF Secured, InPlace, Stirred, Exists, fsVars
  <2>7. \A s \in Sides : s = side => Secured(s)'
    BY <1>1, <2>1, <2>2 DEF Secured, InPlace, Exists, fsVars
  <2> QED
    BY <1>2, <2>1, <2>3, <2>5, <2>6, <2>7, FinishedStep DEF Install
<1> QED
  BY <1>2

LEMMA WatchParentStep ==
  ASSUME WatcherInv, WatchParent PROVE WatcherInv'
<1>1. /\ WatcherTypeOK /\ WatchInv /\ ParentInv
      /\ Looking /\ side \in Sides
      /\ UNCHANGED <<fsVars, inotify, watched, watch, snapshot, readEvents, changed,
                     configRead, dropped>>
  BY DEF WatcherInv, WatcherTypeOK, WatchParent, Looking
<1>2. \A s \in Sides : parent'[s] = (parent[s] \/ s = side)
  BY <1>1 DEF WatchParent, WatcherTypeOK
<1>3. parent' \in [Sides -> BOOLEAN]
  BY <1>1 DEF WatchParent, WatcherTypeOK
<1>4. WatchInv'
  BY <1>1 DEF WatchInv, fsVars
<1>5. \A s \in Sides : Secured(s) => Secured(s)'
  BY <1>1, <1>2 DEF Secured, InPlace, Stirred, Exists, fsVars
<1>6. CASE parent[side]
  <2>1. Finished
    BY <1>6 DEF WatchParent
  <2>2. WatcherTypeOK'
    BY <1>1, <1>3, <2>1 DEF WatcherTypeOK, Finished, LookAfter, fsVars, Sides
  <2>3. Secured(side)
    BY <1>1, <1>6 DEF WatchParent, ParentInv, Secured, InPlace
  <2> QED
    BY <1>1, <1>4, <1>5, <2>1, <2>2, <2>3, FinishedStep
<1>7. CASE ~parent[side]
  <2>1. watcherAt' = "recheck" /\ UNCHANGED <<side, mode>>
    BY <1>7 DEF WatchParent
  <2>2. WatcherTypeOK'
    BY <1>1, <1>3, <2>1 DEF WatcherTypeOK, fsVars
  <2>3. Looking' /\ ParentInv'
    BY <1>1, <1>2, <2>1 DEF Looking, ParentInv
  <2> QED
    BY <1>1, <1>4, <1>5, <2>1, <2>2, <2>3, LookingStep
<1> QED
  BY <1>6, <1>7

LEMMA RecheckStep ==
  ASSUME WatcherInv, Recheck PROVE WatcherInv'
<1>1. /\ WatcherTypeOK /\ WatchInv /\ ParentInv
      /\ Looking /\ side \in Sides
      /\ UNCHANGED <<fsVars, inotify, watchVars, snapshot, readEvents, changed, configRead, dropped>>
  BY DEF WatcherInv, WatcherTypeOK, Recheck, Looking
<1>2. WatchInv'
  BY <1>1 DEF WatchInv, fsVars, watchVars
<1>3. \A s \in Sides : Secured(s) => Secured(s)'
  BY <1>1 DEF Secured, InPlace, Stirred, Exists, fsVars, watchVars
<1>4. CASE Exists(side)
  <2>1. watcherAt' = "check" /\ UNCHANGED <<side, mode>>
    BY <1>4 DEF Recheck
  <2>2. WatcherTypeOK'
    BY <1>1, <2>1 DEF WatcherTypeOK, fsVars, watchVars
  <2>3. Looking' /\ ParentInv'
    BY <2>1 DEF Looking, ParentInv
  <2> QED
    BY <1>1, <1>2, <1>3, <2>1, <2>2, <2>3, LookingStep
<1>5. CASE ~Exists(side)
  <2>1. Finished
    BY <1>5 DEF Recheck
  <2>2. WatcherTypeOK'
    BY <1>1, <2>1 DEF WatcherTypeOK, Finished, LookAfter, fsVars, watchVars, Sides
  <2>3. Secured(side)
    BY <1>1, <1>5 DEF Recheck, ParentInv, Secured, InPlace
  <2> QED
    BY <1>1, <1>2, <1>3, <2>1, <2>2, <2>3, FinishedStep
<1> QED
  BY <1>4, <1>5

----------------------------------------------------------------------------
(* The invariant, and what it says of a daemon asleep.                      *)

LEMMA WatcherInvStep ==
  WatcherInv /\ [WatcherNext]_watcherVars => WatcherInv'
<1> SUFFICES ASSUME WatcherInv, [WatcherNext]_watcherVars PROVE WatcherInv'
  OBVIOUS
<1>1. CASE EditConfig \/ ToggleSocket
  BY <1>1, EditConfigStep, ToggleSocketStep
<1>2. CASE LoseParent
  BY <1>2, LoseParentStep
<1>3. CASE \E s \in Sides : DeleteDir(s) \/ CreateDir(s) \/ MoveAway(s) \/ MoveBack(s)
  BY <1>3, LeavesStep, ComesStep
<1>4. CASE WakeOnEvents \/ WakeOtherwise \/ EventsHandled \/ EndWake
  BY <1>4, WakeStep
<1>5. CASE HandleEvent \/ HandleOverflow
  BY <1>5, HandleEventStep, HandleOverflowStep
<1>6. CASE Check
  BY <1>6, CheckStep
<1>7. CASE Look
  BY <1>7, LookStep
<1>8. CASE Install \/ InstallFails \/ WaitFails
  BY <1>8, InstallStep, WatcherFailsStep
<1>9. CASE WatchParent
  BY <1>9, WatchParentStep
<1>10. CASE Recheck
  BY <1>10, RecheckStep
<1>11. CASE UNCHANGED watcherVars
  BY <1>11 DEF watcherVars, fsVars, watchVars, WatcherInv, WatcherTypeOK, WatchInv,
     ReadInv, ParentInv, DoneInv, SnapshotInv, Secured, InPlace, Stirred, Looking, Exists,
     Capture
<1> QED
  BY <1>1, <1>2, <1>3, <1>4, <1>5, <1>6, <1>7, <1>8, <1>9, <1>10, <1>11 DEF WatcherNext

\* The invariant: whatever is out of place has been reported to the daemon.
THEOREM WatcherInvariant == WatcherSpec => []WatcherInv
<1> QED
  BY WatcherInvInit, WatcherInvStep, PTL DEF WatcherSpec

\* Asleep with no event queued, the daemon watches each directory that exists and
\* the parent of each that does not, and its snapshot of the runtime directory is
\* current, however often the directories were deleted, moved away and back or
\* created again, and however many events were dropped, but for a directory the
\* end of whose watch was dropped (ensure_config_watch, ensure_run_watch,
\* resync_runtime).
THEOREM WatchesCorrect == WatcherSpec => []WatchesAreInPlace
<1>1. WatcherInv => WatchesAreInPlace
  <2> SUFFICES ASSUME WatcherInv, watcherAt = "asleep", inotify = <<>>
               PROVE  /\ \A s \in Sides \ dropped : InPlace(s)
                      /\ snapshot = Capture \/ "runtime" \in dropped
    BY DEF WatchesAreInPlace, InPlace
  <2>1. \A s \in Sides : ~Stirred(s)
    BY DEF Stirred, EventsOf
  <2>2. \A s \in Sides : Secured(s)
    BY DEF WatcherInv, DoneInv, Sides
  <2> QED
    BY <2>1, <2>2 DEF WatcherInv, SnapshotInv, Secured, Sides
<1> QED
  BY <1>1, WatcherInvariant, PTL

----------------------------------------------------------------------------
(* What a text means.                                                      *)

LEMMA KindsOfTargets ==
  ASSUME NEW text, NEW macros, NEW target, target = ParseTarget(text, macros)
  PROVE  /\ target.kind \in Keywords \cup {"trigger", "stick", "keyboard", "button", "macro",
                                           "unknown"}
         /\ target.kind \in Keywords => target.kind = text
         /\ text \in Keywords => target.kind = text
         /\ target.kind = "macro" => target = [kind |-> "macro", of |-> text] /\ text \in macros
BY DEF ParseTarget, UnknownTarget, Keywords

\* What a section is remapped to.
LEMMA Remaps ==
  ASSUME NEW cfg, NEW s
  PROVE  /\ RemapOf(cfg, s).kind \in {"block", "split", "combo"} =>
              RemapOf(cfg, s).kind = cfg.buttons[s].remap
         /\ cfg.buttons[s].remap \in {"block", "split", "combo"} =>
              RemapOf(cfg, s).kind = cfg.buttons[s].remap
         /\ RemapOf(cfg, s).kind = "macro" =>
              /\ RemapOf(cfg, s) = ParseTarget(cfg.buttons[s].remap, MacrosOf(cfg))
              /\ RemapOf(cfg, s) = [kind |-> "macro", of |-> cfg.buttons[s].remap]
              /\ cfg.buttons[s].remap \notin {NoRemap, ""}
              /\ cfg.buttons[s].remap \in MacrosOf(cfg)
<1>1. CASE cfg.buttons[s].remap \in {NoRemap, ""}
  <2>1. RemapOf(cfg, s).kind = "passthrough"
    BY <1>1 DEF RemapOf
  <2> QED  BY <1>1, <2>1 DEF NoRemap
<1>2. CASE cfg.buttons[s].remap \notin {NoRemap, ""}
  <2>1. PICK text : text = cfg.buttons[s].remap /\ text \notin {NoRemap, ""}
    BY <1>2
  <2>2. RemapOf(cfg, s) = ParseTarget(text, MacrosOf(cfg))
    BY <2>1 DEF RemapOf
  <2>3. PICK target : target = ParseTarget(text, MacrosOf(cfg))
    OBVIOUS
  <2>4. /\ target.kind \in {"block", "split", "combo"} => target.kind = text
        /\ text \in {"block", "split", "combo"} => target.kind = text
        /\ target.kind = "macro" => target = [kind |-> "macro", of |-> text]
                                    /\ text \in MacrosOf(cfg)
    BY <2>3, KindsOfTargets DEF Keywords
  <2> QED  BY <2>1, <2>2, <2>3, <2>4
<1> QED  BY <1>1, <1>2

LEMMA Producible ==
  ASSUME NEW target, IsMappingTarget(target)
  PROVE  target.kind \in {"trigger", "stick", "keyboard", "macro", "button"}
BY DEF IsMappingTarget

----------------------------------------------------------------------------
(* A file that is valid.                                                   *)

\* Its sections bear the names of their buttons, one section to a button.
LEMMA NamesAreButtons ==
  ASSUME NEW cfg, Validate(cfg), NEW s \in Sections(cfg)
  PROVE  FromName(s) = s /\ s \in Buttons
<1>1. FromName(s) \notin {NoButton} \cup Internal /\ s \notin DOMAIN Capitals
  BY DEF Validate, SectionOk
<1> QED  BY <1>1 DEF FromName

\* It is split for the compiler if it is for validate.
LEMMA SplitIsSplit ==
  ASSUME NEW cfg, Validate(cfg)
  PROVE  /\ IsSplit(cfg) => /\ "touchpad" \in Sections(cfg)
                            /\ cfg.buttons["touchpad"].remap = "split"
                            /\ Halves \subseteq Sections(cfg)
                            /\ \A half \in Halves : IsMappingTarget(HalfRemap(cfg, half))
         /\ ~IsSplit(cfg) => Halves \cap Sections(cfg) = {}
         /\ \A s \in Sections(cfg) : IsSplitSection(cfg, s) => IsSplit(cfg) /\ s = "touchpad"
<1>1. IsSplit(cfg) => "touchpad" \in Sections(cfg) /\ cfg.buttons["touchpad"].remap = "split"
  BY NamesAreButtons DEF IsSplit
<1>2. ASSUME NEW s \in Sections(cfg), IsSplitSection(cfg, s)
      PROVE  IsSplit(cfg) /\ s = "touchpad"
  <2>1. s = "touchpad" /\ RemapOf(cfg, s).kind = "split"
    BY <1>2 DEF IsSplitSection
  <2>2. cfg.buttons[s].remap = "split"
    BY <2>1, Remaps
  <2>3. FromName(s) = "touchpad"
    BY <2>1, NamesAreButtons
  <2> QED  BY <2>1, <2>2, <2>3 DEF IsSplit
<1>3. ASSUME IsSplit(cfg) PROVE \E s \in Sections(cfg) : IsSplitSection(cfg, s)
  <2>1. RemapOf(cfg, "touchpad").kind = "split"
    BY <1>1, <1>3, Remaps
  <2> QED  BY <1>1, <1>3, <2>1 DEF IsSplitSection
<1>4. SplitOk(cfg)
  BY DEF Validate
<1> QED  BY <1>1, <1>2, <1>3, <1>4 DEF SplitOk

\* Sections other than that of a split touchpad have been looked at.
LEMMA SectionsChecked ==
  ASSUME NEW cfg, Validate(cfg), NEW s \in Sections(cfg),
         cfg.buttons[s].remap # "split" \/ ~IsSplitSection(cfg, s)
  PROVE  CombosOk(cfg, s) /\ TurboOk(cfg, s)
<1>1. ~IsSplitSection(cfg, s)
  BY Remaps DEF IsSplitSection
<1> QED  BY <1>1 DEF Validate, SectionOk

LEMMA CompiledSections ==
  ASSUME NEW cfg, Validate(cfg), NEW s \in Compiled(cfg)
  PROVE  /\ s \in Sections(cfg) /\ FromName(s) = s
         /\ IsSplit(cfg) => s \notin Halves \cup {"touchpad"}
BY NamesAreButtons DEF Compiled

\* The rules are those of sections, or of the halves of the touchpad.
LEMMA Rules ==
  ASSUME NEW cfg, Validate(cfg), NEW r \in RulesOf(cfg)
  PROVE  \/ r.src \in Compiled(cfg) /\ r = [src |-> r.src, dst |-> RemapOf(cfg, r.src)]
            /\ IsMappingTarget(r.dst)
         \/ IsSplit(cfg) /\ r.src \in Halves
            /\ r = [src |-> r.src, dst |-> HalfRemap(cfg, r.src)]
<1>1. ASSUME NEW s \in Compiled(cfg), IsMappingTarget(RemapOf(cfg, s)),
             r = [src |-> FromName(s), dst |-> RemapOf(cfg, s)]
      PROVE  r.src \in Compiled(cfg) /\ r = [src |-> r.src, dst |-> RemapOf(cfg, r.src)]
             /\ IsMappingTarget(r.dst)
  <2>1. r.src = s /\ r.dst = RemapOf(cfg, s)
    BY <1>1, CompiledSections
  <2> QED  BY <1>1, <2>1
<1>2. ASSUME IsSplit(cfg), NEW half \in Halves, r = [src |-> half, dst |-> HalfRemap(cfg, half)]
      PROVE  r.src \in Halves /\ r = [src |-> r.src, dst |-> HalfRemap(cfg, r.src)]
  BY <1>2
<1> QED  BY <1>1, <1>2 DEF RulesOf

LEMMA OneOwner ==
  ASSUME NEW cfg, Validate(cfg)
  PROVE  HasOneOwner(ToMapping(cfg))
<1> DEFINE mapping == ToMapping(cfg)
<1>1. /\ mapping.rules = RulesOf(cfg) /\ mapping.blocked = BlockedOf(cfg)
      /\ mapping.combos = CombosOf(cfg) /\ mapping.split = IsSplit(cfg)
  BY DEF ToMapping
<1> HIDE DEF mapping
<1>2. \A b \in BlockedOf(cfg) : b \in Compiled(cfg) /\ RemapOf(cfg, b).kind = "block"
  BY CompiledSections DEF BlockedOf
<1>3. \A c \in CombosOf(cfg) :
        c.modifier \in Compiled(cfg) /\ RemapOf(cfg, c.modifier).kind = "combo"
  BY CompiledSections DEF CombosOf
<1>4. \A r \in RulesOf(cfg) : r.src \in Compiled(cfg) =>
        RemapOf(cfg, r.src).kind \notin {"block", "combo"}
  <2> SUFFICES ASSUME NEW r \in RulesOf(cfg), r.src \in Compiled(cfg)
               PROVE  RemapOf(cfg, r.src).kind \notin {"block", "combo"}
    OBVIOUS
  <2>1. ~(IsSplit(cfg) /\ r.src \in Halves)
    BY CompiledSections
  <2>2. IsMappingTarget(r.dst) /\ r.dst = RemapOf(cfg, r.src)
    <3>1. r = [src |-> r.src, dst |-> RemapOf(cfg, r.src)] /\ IsMappingTarget(r.dst)
      BY <2>1, Rules
    <3> QED  BY <3>1
  <2> QED  BY <2>2, Producible
<1>5. \A r, q \in RulesOf(cfg) : r.src = q.src => r = q
  <2> SUFFICES ASSUME NEW r \in RulesOf(cfg), NEW q \in RulesOf(cfg), r.src = q.src
               PROVE  r = q
    OBVIOUS
  <2>1. CASE IsSplit(cfg) /\ r.src \in Halves
    <3>1. r.src \notin Compiled(cfg)
      BY <2>1, CompiledSections
    <3> QED  BY <2>1, <3>1, Rules
  <2>2. CASE ~(IsSplit(cfg) /\ r.src \in Halves)
    BY <2>2, Rules
  <2> QED  BY <2>1, <2>2
<1>6. \A r \in RulesOf(cfg) : r.src \notin Compiled(cfg) => IsSplit(cfg) /\ r.src \in Halves
  BY Rules
<1>7. IsSplit(cfg) => Halves \subseteq {r.src : r \in RulesOf(cfg)}
  <2> SUFFICES ASSUME IsSplit(cfg), NEW half \in Halves
               PROVE  \E r \in RulesOf(cfg) : r.src = half
    OBVIOUS
  <2>1. [src |-> half, dst |-> HalfRemap(cfg, half)] \in RulesOf(cfg)
    BY DEF RulesOf
  <2> QED  BY <2>1
<1>8. ~IsSplit(cfg) => Halves \cap {r.src : r \in RulesOf(cfg)} = {}
  BY Rules, CompiledSections, SplitIsSplit
<1>9. "touchpad_left" \in Halves
  BY DEF Halves
<1>10. {r.src : r \in mapping.rules}
           \cap (BlockedOf(cfg) \cup {c.modifier : c \in CombosOf(cfg)}) = {}
  BY <1>1, <1>2, <1>3, <1>4
<1>11. BlockedOf(cfg) \cap {c.modifier : c \in CombosOf(cfg)} = {}
  BY <1>2, <1>3
<1>12. mapping.split <=> Halves \subseteq {r.src : r \in mapping.rules}
  BY <1>1, <1>7, <1>8, <1>9
<1>13. ~mapping.split => Halves \cap {r.src : r \in mapping.rules} = {}
  BY <1>1, <1>8
<1>14. HasOneOwner(mapping)
  BY <1>1, <1>5, <1>10, <1>11, <1>12, <1>13 DEF HasOneOwner
<1> QED  BY <1>14 DEF mapping

LEMMA Turbos ==
  ASSUME NEW cfg, Validate(cfg)
  PROVE  TurboRuns(ToMapping(cfg))
<1> DEFINE mapping == ToMapping(cfg)
<1>1. mapping.turbo = TurboOf(cfg) /\ mapping.split = IsSplit(cfg)
  BY DEF ToMapping
<1>2. ASSUME NEW t \in TurboOf(cfg)
      PROVE  t.interval > 0 \/ (IsSplit(cfg) /\ t.src = "touchpad")
  <2>1. PICK s \in Sections(cfg) :
          /\ cfg.buttons[s].turbo
          /\ t = [src |-> FromName(s), interval |-> cfg.buttons[s].interval]
    BY DEF TurboOf
  <2>2. t.src = s /\ t.interval = cfg.buttons[s].interval
    BY <2>1, NamesAreButtons
  <2>3. CASE IsSplitSection(cfg, s)
    BY <2>2, <2>3, SplitIsSplit
  <2>4. CASE ~IsSplitSection(cfg, s)
    BY <2>1, <2>2, <2>4, SectionsChecked DEF TurboOk
  <2> QED  BY <2>3, <2>4
<1> HIDE DEF mapping
<1>3. TurboRuns(mapping)
  BY <1>1, <1>2 DEF TurboRuns
<1> QED  BY <1>3 DEF mapping

LEMMA Combos ==
  ASSUME NEW cfg, Validate(cfg), NEW c \in CombosOf(cfg)
  PROVE  \E s \in Compiled(cfg) : \E i \in DOMAIN cfg.buttons[s].combos :
           /\ RemapOf(cfg, s).kind = "combo" /\ cfg.buttons[s].remap = "combo"
           /\ c = [modifier |-> s, key |-> FromName(cfg.buttons[s].combos[i].key),
                   output |-> ComboOutput(cfg, cfg.buttons[s].combos[i])]
           /\ ComboOk(cfg, s, cfg.buttons[s].combos[i])
<1>1. PICK s \in Compiled(cfg) : RemapOf(cfg, s).kind = "combo" /\
        \E i \in DOMAIN cfg.buttons[s].combos :
           c = [modifier |-> FromName(s), key |-> FromName(cfg.buttons[s].combos[i].key),
                output |-> ComboOutput(cfg, cfg.buttons[s].combos[i])]
  BY DEF CombosOf
<1>2. PICK i \in DOMAIN cfg.buttons[s].combos :
           c = [modifier |-> FromName(s), key |-> FromName(cfg.buttons[s].combos[i].key),
                output |-> ComboOutput(cfg, cfg.buttons[s].combos[i])]
  BY <1>1
<1>3. s \in Sections(cfg) /\ FromName(s) = s
  BY CompiledSections
<1>4. cfg.buttons[s].remap = "combo"
  BY <1>1, Remaps
<1>5. ComboOk(cfg, s, cfg.buttons[s].combos[i])
  BY <1>3, <1>4, SectionsChecked DEF CombosOk
<1> QED  BY <1>1, <1>2, <1>3, <1>4, <1>5

LEMMA CombosHeld ==
  ASSUME NEW cfg, Validate(cfg)
  PROVE  CombosRun(ToMapping(cfg))
<1>1. ASSUME NEW c \in CombosOf(cfg)
      PROVE  c.key \notin Halves \cup {c.modifier} /\ IsMappingTarget(c.output)
  <2>1. PICK s \in Compiled(cfg) : \E i \in DOMAIN cfg.buttons[s].combos :
           /\ c = [modifier |-> s, key |-> FromName(cfg.buttons[s].combos[i].key),
                   output |-> ComboOutput(cfg, cfg.buttons[s].combos[i])]
           /\ ComboOk(cfg, s, cfg.buttons[s].combos[i])
    BY Combos
  <2>2. PICK combo :
           /\ c = [modifier |-> s, key |-> FromName(combo.key),
                   output |-> ComboOutput(cfg, combo)]
           /\ ComboOk(cfg, s, combo)
    BY <2>1
  <2>3. c.modifier = s /\ c.key = FromName(combo.key) /\ c.output = ComboOutput(cfg, combo)
    BY <2>2
  <2> QED  BY <2>2, <2>3 DEF ComboOk
<1>2. ToMapping(cfg).combos = CombosOf(cfg)
  BY DEF ToMapping
<1> QED  BY <1>1, <1>2 DEF CombosRun

----------------------------------------------------------------------------
(* Macros.                                                                 *)

\* The steps of the macros of a file have instants.
StepsInv(cfg) ==
  \A name \in MacrosOf(cfg) : \A i \in DOMAIN cfg.macros[name].steps :
    cfg.macros[name].steps[i].press \in Nat /\ cfg.macros[name].steps[i].release \in Nat

LEMMA MacroParsed ==
  ASSUME NEW text, NEW macros, ParseTarget(text, macros).kind = "macro"
  PROVE  ParseTarget(text, macros) = [kind |-> "macro", of |-> text] /\ text \in macros
BY DEF ParseTarget, UnknownTarget, Keywords

\* A rule whose target is a macro has the macro, unless its name is empty and
\* it is under turbo.
LEMMA MacroOfRule ==
  ASSUME NEW cfg, Validate(cfg), NEW r \in RulesOf(cfg), r.dst.kind = "macro"
  PROVE  \/ [trigger |-> r.src, name |-> r.dst.of, source |-> "physical"] \in MacroRulesOf(cfg)
         \/ r.dst.of = "" /\ r.src \in Halves \cap {t.src : t \in TurboOf(cfg)}
<1>1. ASSUME NEW s \in Sections(cfg), r.src = s, ~cfg.buttons[s].turbo,
             cfg.buttons[s].remap # NoRemap,
             r.dst = ParseTarget(cfg.buttons[s].remap, MacrosOf(cfg))
      PROVE  [trigger |-> r.src, name |-> r.dst.of, source |-> "physical"] \in MacroRulesOf(cfg)
  <2>1. r.dst = [kind |-> "macro", of |-> cfg.buttons[s].remap]
    BY <1>1, MacroParsed
  <2>2. r.dst.of = cfg.buttons[s].remap /\ FromName(s) = s
    BY <2>1, NamesAreButtons
  <2>3. ParseTarget(cfg.buttons[s].remap, MacrosOf(cfg)).kind = "macro"
    BY <1>1
  <2> QED  BY <1>1, <2>2, <2>3 DEF MacroRulesOf
<1>2. CASE r.src \in Compiled(cfg) /\ r.dst = RemapOf(cfg, r.src)
  <2>1. r.src \in Sections(cfg) /\ RemapOf(cfg, r.src).kind = "macro"
    BY <1>2, CompiledSections
  <2>2. cfg.buttons[r.src].remap # NoRemap
        /\ r.dst = ParseTarget(cfg.buttons[r.src].remap, MacrosOf(cfg))
    BY <1>2, <2>1, Remaps
  <2>3. ~IsSplitSection(cfg, r.src)
    BY <2>1 DEF IsSplitSection
  <2>4. ~cfg.buttons[r.src].turbo
    BY <2>1, <2>3, SectionsChecked DEF TurboOk
  <2> QED  BY <1>1, <2>1, <2>2, <2>4
<1>3. CASE IsSplit(cfg) /\ r.src \in Halves /\ r.dst = HalfRemap(cfg, r.src)
  <2>1. /\ r.src \in Sections(cfg) /\ cfg.buttons[r.src].remap # NoRemap
        /\ r.dst = ParseTarget(cfg.buttons[r.src].remap, MacrosOf(cfg))
    <3>1. UnknownTarget.kind # "macro"
      BY DEF UnknownTarget
    <3>2. HalfRemap(cfg, r.src) # UnknownTarget
      BY <1>3, <3>1
    <3> QED  BY <1>3, <3>2 DEF HalfRemap
  <2>2. CASE ~cfg.buttons[r.src].turbo
    BY <1>1, <2>1, <2>2
  <2>3. CASE cfg.buttons[r.src].turbo
    <3>1. ~IsSplitSection(cfg, r.src)
      BY <1>3 DEF IsSplitSection, Halves
    <3>2. RemapOf(cfg, r.src).kind # "macro"
      BY <2>1, <2>3, <3>1, SectionsChecked DEF TurboOk
    <3>3. cfg.buttons[r.src].remap = ""
      BY <2>1, <3>2 DEF RemapOf
    <3>4. r.dst.of = ""
      <4>1. r.dst = [kind |-> "macro", of |-> cfg.buttons[r.src].remap]
        BY <2>1, MacroParsed
      <4>2. r.dst.of = cfg.buttons[r.src].remap
        BY ONLY <4>1
      <4> QED  BY ONLY <3>3, <4>2
    <3>5. \E t \in TurboOf(cfg) : t.src = r.src
      <4>1. [src |-> FromName(r.src), interval |-> cfg.buttons[r.src].interval] \in TurboOf(cfg)
        BY <2>1, <2>3 DEF TurboOf
      <4>2. FromName(r.src) = r.src
        BY <2>1, NamesAreButtons
      <4> QED  BY <4>1, <4>2
    <3> QED  BY <1>3, <3>4, <3>5
  <2> QED  BY <2>2, <2>3
<1>4. \/ r.src \in Compiled(cfg) /\ r.dst = RemapOf(cfg, r.src)
      \/ IsSplit(cfg) /\ r.src \in Halves /\ r.dst = HalfRemap(cfg, r.src)
  <2>1. CASE r.src \in Compiled(cfg) /\ r = [src |-> r.src, dst |-> RemapOf(cfg, r.src)]
    <3>1. r.dst = RemapOf(cfg, r.src)
      BY <2>1
    <3> QED  BY <2>1, <3>1
  <2>2. CASE IsSplit(cfg) /\ r.src \in Halves
             /\ r = [src |-> r.src, dst |-> HalfRemap(cfg, r.src)]
    <3>1. r.dst = HalfRemap(cfg, r.src)
      BY <2>2
    <3> QED  BY <2>2, <3>1
  <2> QED  BY <2>1, <2>2, Rules
<1> QED  BY <1>2, <1>3, <1>4

LEMMA MacroOfCombo ==
  ASSUME NEW cfg, Validate(cfg), NEW c \in CombosOf(cfg), c.output.kind = "macro"
  PROVE  \E m \in MacroRulesOf(cfg) : m.name = c.output.of /\ m.source = "combo"
<1>1. PICK s \in Compiled(cfg) : \E i \in DOMAIN cfg.buttons[s].combos :
         /\ cfg.buttons[s].remap = "combo"
         /\ c = [modifier |-> s, key |-> FromName(cfg.buttons[s].combos[i].key),
                 output |-> ComboOutput(cfg, cfg.buttons[s].combos[i])]
  BY Combos
<1>2. PICK combo :
         /\ combo \in {cfg.buttons[s].combos[i] : i \in DOMAIN cfg.buttons[s].combos}
         /\ c = [modifier |-> s, key |-> FromName(combo.key),
                 output |-> ComboOutput(cfg, combo)]
  BY <1>1
<1>3. c.output = ComboOutput(cfg, combo)
  BY <1>2
<1>4. c.output.of = combo.output
  <2>1. c.output = [kind |-> "macro", of |-> combo.output]
    BY <1>3, MacroParsed DEF ComboOutput
  <2> QED  BY <2>1
<1>5. s \in Sections(cfg) /\ cfg.buttons[s].remap = "combo"
  BY <1>1, CompiledSections
<1>6. [trigger |-> "cross", name |-> combo.output, source |-> "combo"] \in MacroRulesOf(cfg)
  BY <1>2, <1>3, <1>5 DEF MacroRulesOf
<1> QED  BY <1>4, <1>6

\* What a macro of the tables is started by.
LEMMA TargetOfMacro ==
  ASSUME NEW cfg, Validate(cfg), NEW m \in MacroRulesOf(cfg), m.name # ""
  PROVE  /\ m.name \in MacrosOf(cfg)
         /\ \/ \E r \in RulesOf(cfg) : r.dst = [kind |-> "macro", of |-> m.name]
            \/ \E c \in CombosOf(cfg) : c.output = [kind |-> "macro", of |-> m.name]
<1>1. ASSUME NEW s \in Sections(cfg), cfg.buttons[s].remap # NoRemap,
             ParseTarget(cfg.buttons[s].remap, MacrosOf(cfg)).kind = "macro",
             m = [trigger |-> FromName(s), name |-> cfg.buttons[s].remap, source |-> "physical"]
      PROVE  /\ m.name \in MacrosOf(cfg)
             /\ \E r \in RulesOf(cfg) : r.dst = [kind |-> "macro", of |-> m.name]
  <2>1. m.name = cfg.buttons[s].remap
    BY ONLY <1>1
  <2>2. /\ ParseTarget(cfg.buttons[s].remap, MacrosOf(cfg)) = [kind |-> "macro", of |-> m.name]
        /\ m.name \in MacrosOf(cfg)
    BY <1>1, <2>1, MacroParsed
  <2>3. RemapOf(cfg, s) = [kind |-> "macro", of |-> m.name]
    BY <1>1, <2>1, <2>2 DEF RemapOf
  <2>9. RemapOf(cfg, s).kind = "macro"
    BY ONLY <2>3
  <2>4. CASE s \in Compiled(cfg)
    <3>1. IsMappingTarget(RemapOf(cfg, s))
      BY <2>9 DEF IsMappingTarget
    <3>2. [src |-> FromName(s), dst |-> RemapOf(cfg, s)] \in RulesOf(cfg)
      BY <2>4, <3>1 DEF RulesOf
    <3> QED  BY <2>2, <2>3, <3>2
  <2>5. CASE s \notin Compiled(cfg)
    <3>1. IsSplit(cfg) /\ s \in Halves \cup {"touchpad"}
      BY <2>5, NamesAreButtons DEF Compiled
    <3>2. cfg.buttons[s].remap # "split"
      BY <2>9, Remaps
    <3>3. s \in Halves
      BY <3>1, <3>2, SplitIsSplit
    <3>4. HalfRemap(cfg, s) = [kind |-> "macro", of |-> m.name]
      BY <1>1, <2>2 DEF HalfRemap
    <3>5. [src |-> s, dst |-> HalfRemap(cfg, s)] \in RulesOf(cfg)
      BY <3>1, <3>3 DEF RulesOf
    <3> QED  BY <2>2, <3>4, <3>5
  <2> QED  BY <2>4, <2>5
<1>2. ASSUME NEW s \in Sections(cfg), cfg.buttons[s].remap = "combo",
             NEW i \in DOMAIN cfg.buttons[s].combos,
             ComboOutput(cfg, cfg.buttons[s].combos[i]).kind = "macro",
             m = [trigger |-> "cross", name |-> cfg.buttons[s].combos[i].output,
                  source |-> "combo"]
      PROVE  /\ m.name \in MacrosOf(cfg)
             /\ \E c \in CombosOf(cfg) : c.output = [kind |-> "macro", of |-> m.name]
  <2>1. m.name = cfg.buttons[s].combos[i].output
    BY ONLY <1>2
  <2>2. /\ ComboOutput(cfg, cfg.buttons[s].combos[i]) = [kind |-> "macro", of |-> m.name]
        /\ m.name \in MacrosOf(cfg)
    BY <1>2, <2>1, MacroParsed DEF ComboOutput
  <2>3. RemapOf(cfg, s).kind = "combo"
    BY <1>2, Remaps
  <2>4. s \in Compiled(cfg)
    <3>1. ~IsSplitSection(cfg, s)
      BY <2>3 DEF IsSplitSection
    <3>2. s \notin Halves
      BY <2>3, <3>1, SectionsChecked DEF CombosOk
    <3>3. IsSplit(cfg) => s # "touchpad"
      BY <1>2, SplitIsSplit
    <3> QED  BY <3>2, <3>3, NamesAreButtons DEF Compiled
  <2>5. [modifier |-> FromName(s), key |-> FromName(cfg.buttons[s].combos[i].key),
         output |-> ComboOutput(cfg, cfg.buttons[s].combos[i])] \in CombosOf(cfg)
    <3> DEFINE CombosAt(t) ==
            {[modifier |-> FromName(t), key |-> FromName(cfg.buttons[t].combos[j].key),
              output |-> ComboOutput(cfg, cfg.buttons[t].combos[j])] :
             j \in DOMAIN cfg.buttons[t].combos}
    <3>1. [modifier |-> FromName(s), key |-> FromName(cfg.buttons[s].combos[i].key),
           output |-> ComboOutput(cfg, cfg.buttons[s].combos[i])] \in CombosAt(s)
      BY <1>2
    <3>2. CombosOf(cfg)
            = UNION {CombosAt(t) : t \in {u \in Compiled(cfg) : RemapOf(cfg, u).kind = "combo"}}
      BY DEF CombosOf
    <3> HIDE DEF CombosAt
    <3> QED  BY <2>3, <2>4, <3>1, <3>2
  <2> QED  BY <2>2, <2>5
<1>3. \/ \E s \in Sections(cfg) :
            /\ cfg.buttons[s].remap # NoRemap
            /\ ParseTarget(cfg.buttons[s].remap, MacrosOf(cfg)).kind = "macro"
            /\ m = [trigger |-> FromName(s), name |-> cfg.buttons[s].remap,
                    source |-> "physical"]
      \/ \E s \in Sections(cfg) : cfg.buttons[s].remap = "combo" /\
            \E i \in DOMAIN cfg.buttons[s].combos :
              /\ ComboOutput(cfg, cfg.buttons[s].combos[i]).kind = "macro"
              /\ m = [trigger |-> "cross", name |-> cfg.buttons[s].combos[i].output,
                      source |-> "combo"]
  <2> DEFINE Physical ==
          {[trigger |-> FromName(s), name |-> cfg.buttons[s].remap, source |-> "physical"] :
             s \in {t \in Sections(cfg) :
                      /\ ~cfg.buttons[t].turbo
                      /\ cfg.buttons[t].remap # NoRemap
                      /\ ParseTarget(cfg.buttons[t].remap, MacrosOf(cfg)).kind = "macro"}}
        Begun(s) ==
          {[trigger |-> "cross", name |-> combo.output, source |-> "combo"] :
             combo \in {c \in {cfg.buttons[s].combos[i] : i \in DOMAIN cfg.buttons[s].combos} :
                          ComboOutput(cfg, c).kind = "macro"}}
        Held == {t \in Sections(cfg) : cfg.buttons[t].remap = "combo"}
  <2>1. MacroRulesOf(cfg) = Physical \cup UNION {Begun(s) : s \in Held}
    BY DEF MacroRulesOf
  <2>2. CASE m \in Physical
    BY <2>2
  <2>3. ASSUME NEW s \in Held, m \in Begun(s)
        PROVE  \E i \in DOMAIN cfg.buttons[s].combos :
                 /\ ComboOutput(cfg, cfg.buttons[s].combos[i]).kind = "macro"
                 /\ m = [trigger |-> "cross", name |-> cfg.buttons[s].combos[i].output,
                         source |-> "combo"]
    BY <2>3
  <2>4. m \in Physical \/ \E s \in Held : m \in Begun(s)
    <3> HIDE DEF Physical, Begun, Held
    <3> QED  BY <2>1
  <2> QED  BY <2>2, <2>3, <2>4
<1> QED  BY <1>1, <1>2, <1>3

LEMMA MacrosStart ==
  ASSUME NEW cfg, Validate(cfg), StepsInv(cfg)
  PROVE  MacrosRun(ToMapping(cfg))
<1> DEFINE mapping == ToMapping(cfg)
<1>1. /\ mapping.rules = RulesOf(cfg) /\ mapping.combos = CombosOf(cfg)
      /\ mapping.turbo = TurboOf(cfg) /\ mapping.macros = MacroRulesOf(cfg)
      /\ mapping.steps = [name \in MacrosOf(cfg) |-> cfg.macros[name].steps]
  BY DEF ToMapping
<1> HIDE DEF mapping
<1>2. ASSUME NEW m \in MacroRulesOf(cfg), m.name # ""
      PROVE  /\ \E target \in TargetsOf(mapping) : target = [kind |-> "macro", of |-> m.name]
             /\ mapping.steps[m.name] # <<>>
             /\ \A i \in DOMAIN mapping.steps[m.name] : mapping.steps[m.name][i].release > 0
  <2>1. m.name \in MacrosOf(cfg) /\ [kind |-> "macro", of |-> m.name] \in TargetsOf(mapping)
    <3>1. m.name \in MacrosOf(cfg)
      BY <1>2, TargetOfMacro
    <3>2. CASE \E r \in RulesOf(cfg) : r.dst = [kind |-> "macro", of |-> m.name]
      BY <1>1, <3>1, <3>2 DEF TargetsOf
    <3>3. CASE \E c \in CombosOf(cfg) : c.output = [kind |-> "macro", of |-> m.name]
      BY <1>1, <3>1, <3>3 DEF TargetsOf
    <3> QED  BY <1>2, <3>1, <3>2, <3>3, TargetOfMacro
  <2>2. mapping.steps[m.name] = cfg.macros[m.name].steps
    BY <1>1, <2>1
  <2>3. MacroOk(cfg, m.name)
    BY <2>1 DEF Validate
  <2>4. ASSUME NEW i \in DOMAIN cfg.macros[m.name].steps
        PROVE  cfg.macros[m.name].steps[i].release > 0
    <3>1. cfg.macros[m.name].steps[i].release > cfg.macros[m.name].steps[i].press
      BY <2>3 DEF MacroOk
    <3>2. /\ cfg.macros[m.name].steps[i].press \in Nat
          /\ cfg.macros[m.name].steps[i].release \in Nat
      BY <2>1 DEF StepsInv
    <3> QED  BY <3>1, <3>2
  <2> QED  BY <2>1, <2>2, <2>3, <2>4 DEF MacroOk
<1>3. \A r \in mapping.rules : r.dst.kind = "macro" =>
        \/ [trigger |-> r.src, name |-> r.dst.of, source |-> "physical"] \in mapping.macros
        \/ r.dst.of = "" /\ r.src \in Halves \cap {t.src : t \in mapping.turbo}
  BY <1>1, MacroOfRule
<1>4. \A c \in mapping.combos : c.output.kind = "macro" =>
        \E m \in mapping.macros : m.name = c.output.of /\ m.source = "combo"
  BY <1>1, MacroOfCombo
<1>5. \A m \in mapping.macros : m.name # "" =>
        /\ \E target \in TargetsOf(mapping) : target = [kind |-> "macro", of |-> m.name]
        /\ mapping.steps[m.name] # <<>>
        /\ \A i \in DOMAIN mapping.steps[m.name] : mapping.steps[m.name][i].release > 0
  BY <1>1, <1>2
<1>6. MacrosRun(mapping)
  BY <1>3, <1>4, <1>5 DEF MacrosRun
<1> QED  BY <1>6 DEF mapping

LEMMA ValidFilesRun ==
  ASSUME NEW cfg, Validate(cfg), StepsInv(cfg)
  PROVE  /\ HasOneOwner(ToMapping(cfg)) /\ TurboRuns(ToMapping(cfg))
         /\ MacrosRun(ToMapping(cfg)) /\ CombosRun(ToMapping(cfg))
BY OneOwner, Turbos, MacrosStart, CombosHeld

----------------------------------------------------------------------------
(* Files as they are edited and loaded.                                    *)

DraftInv ==
  /\ DOMAIN draft = {"device", "version", "buttons", "macros"} /\ StepsInv(draft)
LoadedInv ==
  outcome # <<>> =>
    \/ outcome = <<"error">>
    \/ Validate(draft) /\ outcome = <<"mapping", ToMapping(draft)>>
CompileInv == DraftInv /\ LoadedInv

LEMMA CompileStarts == CompileInit => CompileInv
BY CompileAssumption DEF CompileInit, CompileInv, DraftInv, LoadedInv, StepsInv, MacrosOf

\* An edit that leaves the macros alone.
LEMMA MacrosKept ==
  ASSUME CompileInv, NEW cfg, Edit(cfg), cfg.macros = draft.macros,
         DOMAIN cfg = DOMAIN draft
  PROVE  CompileInv'
<1>1. draft' = cfg /\ outcome' = <<>>
  BY DEF Edit
<1>2. StepsInv(cfg)
  BY DEF CompileInv, DraftInv, StepsInv, MacrosOf
<1>3. DraftInv'
  BY <1>1, <1>2 DEF CompileInv, DraftInv, StepsInv, MacrosOf
<1> QED  BY <1>1, <1>3 DEF CompileInv, LoadedInv

LEMMA ButtonKept ==
  ASSUME CompileInv, NEW s, NEW button, EditButton(s, button)
  PROVE  CompileInv'
<1> DEFINE buttons == [t \in Sections(draft) \cup {s} |->
                         IF t = s THEN button ELSE draft.buttons[t]]
           cfg == [draft EXCEPT !.buttons = buttons]
<1>1. Edit(cfg)
  BY DEF EditButton
<1> HIDE DEF buttons
<1>2. cfg.macros = draft.macros /\ DOMAIN cfg = DOMAIN draft
  BY DEF CompileInv, DraftInv
<1> HIDE DEF cfg
<1> QED  BY <1>1, <1>2, MacrosKept

LEMMA MacrosEdited ==
  ASSUME CompileInv, NEW macros, Edit([draft EXCEPT !.macros = macros]),
         \A name \in DOMAIN macros : \A i \in DOMAIN macros[name].steps :
           macros[name].steps[i].press \in Nat /\ macros[name].steps[i].release \in Nat
  PROVE  CompileInv'
<1>1. draft' = [draft EXCEPT !.macros = macros] /\ outcome' = <<>>
  BY DEF Edit
<1>2. draft'.macros = macros /\ DOMAIN draft' = DOMAIN draft
  BY <1>1 DEF CompileInv, DraftInv
<1>3. StepsInv(draft')
  BY <1>2 DEF StepsInv, MacrosOf
<1>4. DraftInv'
  BY <1>2, <1>3 DEF CompileInv, DraftInv, StepsInv, MacrosOf
<1> QED  BY <1>1, <1>4 DEF CompileInv, LoadedInv

LEMMA CompileSteps == CompileInv /\ [CompileNext]_compileVars => CompileInv'
<1> SUFFICES ASSUME CompileInv, [CompileNext]_compileVars PROVE CompileInv'
  OBVIOUS
<1>1. CASE EditRemap
  BY <1>1, ButtonKept DEF EditRemap
<1>2. CASE EditTurbo
  BY <1>2, ButtonKept DEF EditTurbo
<1>3. CASE EditCombos
  BY <1>3, ButtonKept DEF EditCombos
<1>4. CASE RemoveSection
  <2>1. PICK buttons : Edit([draft EXCEPT !.buttons = buttons])
    BY <1>4 DEF RemoveSection
  <2> DEFINE cfg == [draft EXCEPT !.buttons = buttons]
  <2>2. cfg.macros = draft.macros /\ DOMAIN cfg = DOMAIN draft
    BY DEF CompileInv, DraftInv
  <2>3. Edit(cfg)
    BY <2>1
  <2> HIDE DEF cfg
  <2> QED  BY <2>2, <2>3, MacrosKept
<1>5. CASE EditMacro
  <2>1. PICK name \in MacroNames, kind \in {"hold", "single", "twice"}, steps \in Steps :
          Edit([draft EXCEPT !.macros = [n \in MacrosOf(draft) \cup {name} |->
                  IF n = name THEN [mode |-> kind, steps |-> steps] ELSE draft.macros[n]]])
    BY <1>5 DEF EditMacro
  <2>2. \A i \in DOMAIN steps : steps[i].press \in Nat /\ steps[i].release \in Nat
    <3>1. CASE steps = <<>>
      BY <3>1
    <3>2. ASSUME NEW k \in StepKeys, NEW r \in 0 .. 1,
                 steps = <<[key |-> k, press |-> 0, release |-> r]>>
          PROVE  \A i \in DOMAIN steps : steps[i].press \in Nat /\ steps[i].release \in Nat
      BY <3>2
    <3> QED  BY <3>1, <3>2 DEF Steps
  <2> DEFINE macros == [n \in MacrosOf(draft) \cup {name} |->
                  IF n = name THEN [mode |-> kind, steps |-> steps] ELSE draft.macros[n]]
  <2>3. \A n \in DOMAIN macros : \A i \in DOMAIN macros[n].steps :
           macros[n].steps[i].press \in Nat /\ macros[n].steps[i].release \in Nat
    BY <2>2 DEF CompileInv, DraftInv, StepsInv
  <2>4. Edit([draft EXCEPT !.macros = macros])
    BY <2>1
  <2> HIDE DEF macros
  <2> QED  BY <2>3, <2>4, MacrosEdited
<1>6. CASE RemoveMacro
  <2>1. PICK name \in MacrosOf(draft) :
          Edit([draft EXCEPT !.macros = [n \in MacrosOf(draft) \ {name} |-> draft.macros[n]]])
    BY <1>6 DEF RemoveMacro
  <2> DEFINE macros == [n \in MacrosOf(draft) \ {name} |-> draft.macros[n]]
  <2>2. \A n \in DOMAIN macros : \A i \in DOMAIN macros[n].steps :
           macros[n].steps[i].press \in Nat /\ macros[n].steps[i].release \in Nat
    BY DEF CompileInv, DraftInv, StepsInv
  <2>3. Edit([draft EXCEPT !.macros = macros])
    BY <2>1
  <2> HIDE DEF macros
  <2> QED  BY <2>2, <2>3, MacrosEdited
<1>7. CASE EditHeader
  <2>1. PICK device, version : Edit([draft EXCEPT !.device = device, !.version = version])
    BY <1>7 DEF EditHeader
  <2> DEFINE cfg == [draft EXCEPT !.device = device, !.version = version]
  <2>2. cfg.macros = draft.macros /\ DOMAIN cfg = DOMAIN draft
    BY DEF CompileInv, DraftInv
  <2>3. Edit(cfg)
    BY <2>1
  <2> HIDE DEF cfg
  <2> QED  BY <2>2, <2>3, MacrosKept
<1>8. CASE LoadFails
  BY <1>8 DEF LoadFails, CompileInv, DraftInv, LoadedInv, StepsInv, MacrosOf
<1>9. CASE Load
  <2>1. draft' = draft
    BY <1>9 DEF Load
  <2>2. DraftInv'
    BY <2>1 DEF CompileInv, DraftInv, StepsInv, MacrosOf
  <2>3. \/ outcome' = <<"error">>
        \/ Validate(draft) /\ outcome' = <<"mapping", ToMapping(draft)>>
    BY <1>9 DEF Load
  <2>4. LoadedInv'
    BY <2>1, <2>3 DEF LoadedInv
  <2> QED  BY <2>2, <2>4 DEF CompileInv
<1>10. CASE UNCHANGED compileVars
  <2>1. draft' = draft /\ outcome' = outcome
    BY <1>10 DEF compileVars
  <2> QED  BY <2>1 DEF CompileInv, DraftInv, LoadedInv, StepsInv, MacrosOf
<1> QED  BY <1>1, <1>2, <1>3, <1>4, <1>5, <1>6, <1>7, <1>8, <1>9, <1>10 DEF CompileNext

LEMMA CompileInvariant == CompileSpec => []CompileInv
<1>1. CompileInit => CompileInv
  BY CompileStarts
<1>2. CompileInv /\ [CompileNext]_compileVars => CompileInv'
  BY CompileSteps
<1> QED  BY <1>1, <1>2, PTL DEF CompileSpec

----------------------------------------------------------------------------
(* Types of the file.                                                      *)

FileDevices == {"auto", "dualsense", "dualshock4", "xbox"}
ButtonTyped(button) ==
  /\ DOMAIN button = DOMAIN BlankButton
  /\ button.turbo \in BOOLEAN /\ button.interval \in Nat
ButtonsTyped(buttons) == \A s \in DOMAIN buttons : ButtonTyped(buttons[s])
FileTypes ==
  /\ draft.device \in FileDevices /\ draft.version \in Nat /\ ButtonsTyped(draft.buttons)
  /\ edits \in 0 .. MaxDraftEdits

LEMMA BlankTyped == ButtonTyped(BlankButton)
BY DEF ButtonTyped, BlankButton

LEMMA EditCounts == ASSUME FileTypes, NEW cfg, Edit(cfg) PROVE edits' \in 0 .. MaxDraftEdits
BY CompileAssumption DEF Edit, FileTypes

\* An edit of the buttons, of the macros and of the header.
LEMMA ButtonsEditTyped ==
  ASSUME CompileInv, FileTypes, NEW buttons, ButtonsTyped(buttons),
         Edit([draft EXCEPT !.buttons = buttons])
  PROVE  FileTypes'
<1>1. draft' = [draft EXCEPT !.buttons = buttons]
  BY DEF Edit
<1>2. draft'.device = draft.device /\ draft'.version = draft.version /\ draft'.buttons = buttons
  BY <1>1 DEF CompileInv, DraftInv
<1>3. edits' \in 0 .. MaxDraftEdits
  BY EditCounts
<1> QED  BY <1>2, <1>3 DEF FileTypes

LEMMA MacrosEditTyped ==
  ASSUME CompileInv, FileTypes, NEW macros, Edit([draft EXCEPT !.macros = macros])
  PROVE  FileTypes'
<1>1. draft' = [draft EXCEPT !.macros = macros]
  BY DEF Edit
<1>2. /\ draft'.device = draft.device /\ draft'.version = draft.version
      /\ draft'.buttons = draft.buttons
  BY <1>1 DEF CompileInv, DraftInv
<1>3. edits' \in 0 .. MaxDraftEdits
  BY EditCounts
<1> QED  BY <1>2, <1>3 DEF FileTypes

LEMMA ButtonEditTyped ==
  ASSUME CompileInv, FileTypes, NEW s, NEW button, ButtonTyped(button), EditButton(s, button)
  PROVE  FileTypes'
<1> DEFINE buttons == [t \in Sections(draft) \cup {s} |->
                         IF t = s THEN button ELSE draft.buttons[t]]
<1>1. ButtonsTyped(buttons)
  BY DEF ButtonsTyped, FileTypes, Sections
<1>2. Edit([draft EXCEPT !.buttons = buttons])
  BY DEF EditButton
<1> HIDE DEF buttons
<1> QED  BY <1>1, <1>2, ButtonsEditTyped

\* The section that is edited is one of the file or blank.
LEMMA SectionTyped == ASSUME FileTypes, NEW s PROVE ButtonTyped(Button(s))
BY BlankTyped DEF Button, FileTypes, ButtonsTyped, Sections

LEMMA FieldsTyped ==
  ASSUME NEW button, ButtonTyped(button), NEW text, NEW on \in BOOLEAN, NEW ms \in Nat
  PROVE  /\ ButtonTyped([button EXCEPT !.remap = text])
         /\ ButtonTyped([button EXCEPT !.combos = text])
         /\ ButtonTyped([button EXCEPT !.turbo = on, !.interval = ms])
<1>1. DOMAIN button = {"remap", "turbo", "interval", "combos"}
  BY DEF ButtonTyped, BlankButton
<1>2. ButtonTyped([button EXCEPT !.remap = text])
  BY <1>1 DEF ButtonTyped
<1>3. ButtonTyped([button EXCEPT !.combos = text])
  BY <1>1 DEF ButtonTyped
<1>4. ButtonTyped([button EXCEPT !.turbo = on, !.interval = ms])
  BY <1>1 DEF ButtonTyped
<1> QED  BY <1>2, <1>3, <1>4

LEMMA FileTypesStep ==
  ASSUME CompileInv, FileTypes, [CompileNext]_compileVars
  PROVE  FileTypes'
<1>1. CASE EditRemap
  <2>1. PICK s, text : EditButton(s, [Button(s) EXCEPT !.remap = text])
    BY <1>1 DEF EditRemap
  <2> QED  BY <2>1, SectionTyped, FieldsTyped, ButtonEditTyped
<1>2. CASE EditTurbo
  <2>1. PICK s \in SectionNames, on \in BOOLEAN, ms \in 0 .. 1 :
          EditButton(s, [Button(s) EXCEPT !.turbo = on, !.interval = ms])
    BY <1>2 DEF EditTurbo
  <2>2. ms \in Nat
    OBVIOUS
  <2>3. ButtonTyped([Button(s) EXCEPT !.turbo = on, !.interval = ms])
    BY <2>2, SectionTyped, FieldsTyped
  <2> QED  BY <2>1, <2>3, ButtonEditTyped
<1>3. CASE EditCombos
  <2>1. PICK s, k, o :
          EditButton(s, [Button(s) EXCEPT !.combos = Append(@, [key |-> k, output |-> o])])
    BY <1>3 DEF EditCombos
  <2>2. PICK combos : combos = Append(Button(s).combos, [key |-> k, output |-> o])
    OBVIOUS
  <2>3. EditButton(s, [Button(s) EXCEPT !.combos = combos])
    BY <2>1, <2>2
  <2> QED  BY <2>3, SectionTyped, FieldsTyped, ButtonEditTyped
<1>4. CASE RemoveSection
  <2>1. PICK s : Edit([draft EXCEPT !.buttons =
                         [t \in Sections(draft) \ {s} |-> draft.buttons[t]]])
    BY <1>4 DEF RemoveSection
  <2> DEFINE buttons == [t \in Sections(draft) \ {s} |-> draft.buttons[t]]
  <2>2. ButtonsTyped(buttons)
    BY DEF ButtonsTyped, FileTypes, Sections
  <2>3. Edit([draft EXCEPT !.buttons = buttons])
    BY <2>1
  <2> HIDE DEF buttons
  <2> QED  BY <2>2, <2>3, ButtonsEditTyped
<1>5. CASE EditMacro
  <2>1. PICK macros : Edit([draft EXCEPT !.macros = macros])
    BY <1>5 DEF EditMacro
  <2> QED  BY <2>1, MacrosEditTyped
<1>6. CASE RemoveMacro
  <2>1. PICK macros : Edit([draft EXCEPT !.macros = macros])
    BY <1>6 DEF RemoveMacro
  <2> QED  BY <2>1, MacrosEditTyped
<1>7. CASE EditHeader
  <2>1. PICK device \in {"auto", "xbox"}, version \in 1 .. 2 :
          Edit([draft EXCEPT !.device = device, !.version = version])
    BY <1>7 DEF EditHeader
  <2>2. draft' = [draft EXCEPT !.device = device, !.version = version]
    BY <2>1 DEF Edit
  <2>3. draft'.device = device /\ draft'.version = version /\ draft'.buttons = draft.buttons
    BY <2>2 DEF CompileInv, DraftInv
  <2>4. edits' \in 0 .. MaxDraftEdits
    BY <2>1, EditCounts
  <2> QED  BY <2>3, <2>4 DEF FileTypes, FileDevices
<1>8. CASE LoadFails \/ Load \/ UNCHANGED compileVars
  BY <1>8 DEF LoadFails, Load, compileVars, FileTypes
<1> QED  BY <1>1, <1>2, <1>3, <1>4, <1>5, <1>6, <1>7, <1>8 DEF CompileNext

LEMMA TypesOfFile == CompileInv /\ FileTypes => CompileTypeOK
<1>1. CompileInv => (outcome = <<>> \/ outcome[1] \in {"error", "mapping"})
  BY DEF CompileInv, LoadedInv
<1> QED  BY <1>1 DEF FileTypes, ButtonsTyped, ButtonTyped, Sections, FileDevices, CompileTypeOK

\* Whatever is edited, the draft keeps the types serde gives its fields.
THEOREM CompileTypes == CompileSpec => []CompileTypeOK
<1>1. CompileInit => FileTypes
  <2> SUFFICES ASSUME CompileInit PROVE FileTypes
    OBVIOUS
  <2>1. ButtonsTyped(Example.buttons)
    BY CompileAssumption DEF ButtonsTyped, ButtonTyped, BlankButton
  <2> QED  BY <2>1, CompileAssumption DEF CompileInit, FileTypes, FileDevices
<1>2. CompileInv /\ FileTypes /\ [CompileNext]_compileVars => FileTypes'
  BY FileTypesStep
<1> QED  BY <1>1, <1>2, CompileInvariant, TypesOfFile, PTL DEF CompileSpec

----------------------------------------------------------------------------
(* Files that load.                                                        *)

\* For every file that can be written with the texts: if it loads, a button has
\* one owner in its tables, no timer divides by zero and what names a macro finds
\* it, though validate and the compiler walk the sections separately.
THEOREM AcceptedCorrect == CompileSpec => []AcceptedRuns
<1>1. CompileInv => AcceptedRuns
  <2> SUFFICES ASSUME CompileInv, outcome # <<>>, outcome[1] = "mapping"
               PROVE  /\ HasOneOwner(outcome[2]) /\ TurboRuns(outcome[2])
                      /\ MacrosRun(outcome[2]) /\ CombosRun(outcome[2])
    BY DEF AcceptedRuns
  <2>1. Validate(draft) /\ outcome[2] = ToMapping(draft) /\ StepsInv(draft)
    BY DEF CompileInv, DraftInv, LoadedInv
  <2> QED  BY <2>1, ValidFilesRun
<1> QED  BY <1>1, CompileInvariant, PTL
=============================================================================
