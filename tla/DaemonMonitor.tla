---------------------------- MODULE DaemonMonitor ----------------------------
(***************************************************************************)
(* The inotify watches of the edgemap daemon (bin/edgemap/daemon/          *)
(* monitor.rs) on the directory of edgemap.toml and on the runtime         *)
(* directory of dseuhid.  Either may be deleted and created again, or      *)
(* moved away and back; while it is missing its parent is watched for it.  *)
(* Checking that a directory exists and watching it are two system calls,  *)
(* and every step below lies between two of them.  The queue of events is  *)
(* bounded; what it has no room for is dropped.                            *)
(*                                                                         *)
(* A watch is named by the directory it is on (an inode); a directory that *)
(* is created again is another one.                                        *)
(***************************************************************************)
EXTENDS Naturals, Sequences

CONSTANTS
  MaxDirs,   \* bound: directories that exist one after the other, per side
  MaxFileEdits,  \* bound: versions of edgemap.toml
  MaxQueue,  \* events the queue holds (fs.inotify.max_queued_events)
  Movable    \* bound: the sides whose directory is moved away

ASSUME DirsAssumption ==
  /\ MaxDirs \in Nat \ {0} /\ MaxFileEdits \in Nat /\ MaxQueue \in Nat
  /\ Movable \subseteq {"config", "runtime"}

VARIABLES
  dir,      \* per side: the directory that exists, or NoDir
  dirs,     \* per side: directories so far
  away,     \* sides whose last directory has been moved away
  homeless, \* the parent of the configuration directory is gone
  content,  \* version of edgemap.toml
  socketPath, \* control.sock exists in the runtime directory
  inotify,  \* events queued
  watched,  \* per side: directories the kernel watches
  watch,    \* per side: config_watch and runtime_watch
  parent,   \* per side: config_parent_watch and run_watch are set
  snapshot, \* runtime_snapshot
  readEvents, \* events read and not handled
  side, mode, \* the directory being looked after; "brief": no parent watch
  changed,  \* wake.config_changed
  configRead, \* version of edgemap.toml the daemon has
  watcherAt,\* where the daemon is
  dropped   \* (model only) sides whose watch ended without an event, for want
            \* of room in the queue

fsVars == <<dir, dirs, away, homeless, content, socketPath>>
watchVars == <<watched, watch, parent>>
watcherVars == <<fsVars, inotify, watchVars, snapshot, readEvents, side, mode, changed,
                 configRead, watcherAt, dropped>>

Sides == {"config", "runtime"}
NoDir == 0
Dirs == 1 .. MaxDirs
Overflow == [side |-> "none", on |-> NoDir, gone |-> FALSE]
Events == [side : Sides, on : Dirs \cup {NoDir}, gone : BOOLEAN] \cup {Overflow}
RuntimeSnapshot == [directory_exists : BOOLEAN, socket_exists : BOOLEAN]
Exists(s) == dir[s] # NoDir
Capture == [directory_exists |-> Exists("runtime"), socket_exists |-> socketPath]

WatcherTypeOK ==
  /\ dir \in [Sides -> Dirs \cup {NoDir}]
  /\ dirs \in [Sides -> Dirs \cup {NoDir}]
  /\ away \subseteq Sides /\ homeless \in BOOLEAN
  /\ content \in 0 .. MaxFileEdits
  /\ socketPath \in BOOLEAN
  /\ inotify \in Seq(Events)
  /\ watched \in [Sides -> SUBSET Dirs]
  /\ watch \in [Sides -> Dirs \cup {NoDir}]
  /\ parent \in [Sides -> BOOLEAN]
  /\ snapshot \in RuntimeSnapshot
  /\ readEvents \in Seq(Events)
  /\ side \in Sides /\ mode \in {"full", "brief", "event"}
  /\ changed \in BOOLEAN
  /\ configRead \in 0 .. MaxFileEdits
  /\ watcherAt \in {"asleep", "events", "check", "look", "install", "parent", "recheck",
                   "capture", "failed"}
  /\ dropped \subseteq Sides

\* A daemon that has just started, before dseuhid made its directory.
WatcherInit ==
  /\ dirs = [s \in Sides |-> IF s = "config" THEN 1 ELSE 0]
  /\ dir = dirs
  /\ away = {} /\ homeless = FALSE
  /\ content = 0 /\ configRead = 0
  /\ socketPath = FALSE
  /\ inotify = <<>>
  /\ watched = [s \in Sides |-> {dir[s]} \ {NoDir}]
  /\ watch = dir
  /\ parent = [s \in Sides |-> dir[s] = NoDir]
  /\ snapshot = Capture
  /\ readEvents = <<>>
  /\ side = "runtime" /\ mode = "full"
  /\ changed = FALSE
  /\ watcherAt = "asleep"
  /\ dropped = {}

----------------------------------------------------------------------------
(* The file system.                                                        *)

Named(s, d) == [side |-> s, on |-> d, gone |-> FALSE]
Gone(s, d) == [side |-> s, on |-> d, gone |-> TRUE]
\* Without room an event is dropped, of which one event tells.
Enqueued(q, e) ==
  IF Len(q) < MaxQueue THEN Append(q, e)
  ELSE IF Overflow \in {q[i] : i \in 1 .. Len(q)} THEN q
  ELSE Append(q, Overflow)
\* An event inside or of a directory is queued if that directory is watched.
Inside(s) == IF dir[s] \in watched[s] THEN Enqueued(inotify, Named(s, dir[s])) ELSE inotify
Of(q, s, d) == IF d \in watched[s] THEN Enqueued(q, Gone(s, d)) ELSE q
InParent(s) == IF parent[s] THEN Enqueued(inotify, Named(s, NoDir)) ELSE inotify

processState ==
  <<watch, parent, snapshot, readEvents, side, mode, changed, configRead, watcherAt>>

EditConfig ==
  /\ Exists("config") /\ content < MaxFileEdits
  /\ content' = content + 1
  /\ inotify' = Inside("config")
  /\ UNCHANGED <<dir, dirs, away, homeless, socketPath, watched, dropped, processState>>

ToggleSocket ==
  /\ Exists("runtime")
  /\ socketPath' = ~socketPath
  /\ inotify' = Inside("runtime")
  /\ UNCHANGED <<dir, dirs, away, homeless, content, watched, dropped, processState>>

\* The directory is no longer where it was: the event may be dropped.
Leaves(s) ==
  /\ dir' = [dir EXCEPT ![s] = NoDir]
  /\ socketPath' = (socketPath /\ s # "runtime")
  /\ inotify' = Of(inotify, s, dir[s])
  /\ dropped' = IF Len(inotify) < MaxQueue \/ dir[s] \notin watched[s] THEN dropped
                ELSE dropped \cup {s}
  /\ UNCHANGED <<dirs, homeless, content, processState>>

\* Deleted, with its watch.
DeleteDir(s) ==
  /\ Exists(s) /\ dirs[s] < MaxDirs
  /\ Leaves(s)
  /\ watched' = [watched EXCEPT ![s] = @ \ {dir[s]}]
  /\ UNCHANGED away

\* Moved away, with its watch still on it.
MoveAway(s) ==
  /\ Exists(s) /\ dirs[s] < MaxDirs /\ s \in Movable
  /\ Leaves(s)
  /\ away' = away \cup {s}
  /\ UNCHANGED watched

\* A directory comes.
Comes(s) ==
  /\ ~Exists(s) /\ (s = "config" => ~homeless)
  /\ away' = away \ {s}
  /\ socketPath' \in IF s = "runtime" THEN BOOLEAN ELSE {socketPath}
  /\ UNCHANGED <<homeless, watched, dropped, processState>>

\* Moved into place, with what is in it.
CreateDir(s) ==
  /\ Comes(s) /\ dirs[s] < MaxDirs
  /\ s = "config" => content < MaxFileEdits
  /\ inotify' = InParent(s)
  /\ dirs' = [dirs EXCEPT ![s] = @ + 1]
  /\ dir' = [dir EXCEPT ![s] = dirs[s] + 1]
  /\ content' = IF s = "config" THEN content + 1 ELSE content

\* The directory that was moved away is moved back: an event of its parent and
\* one of its own.
MoveBack(s) ==
  /\ Comes(s) /\ s \in away
  /\ inotify' = Of(InParent(s), s, dirs[s])
  /\ dir' = [dir EXCEPT ![s] = dirs[s]]
  /\ UNCHANGED <<dirs, content>>

\* The parent of the configuration directory goes too, for good.
LoseParent ==
  /\ ~Exists("config") /\ ~homeless
  /\ homeless' = TRUE
  /\ inotify' = IF parent["config"] THEN Enqueued(inotify, Gone("config", NoDir)) ELSE inotify
  /\ UNCHANGED <<dir, dirs, away, content, socketPath, watched, dropped, processState>>

----------------------------------------------------------------------------
(* DaemonMonitor::wait.                                                    *)

\* After an inotify event the watch of the configuration is looked after, then
\* the runtime directory; after any other wake-up only the latter.
LookAfter(s, m) == side' = s /\ mode' = m /\ watcherAt' = "check"

WakeOnEvents ==
  /\ watcherAt = "asleep" /\ inotify # <<>>
  /\ readEvents' = inotify /\ inotify' = <<>>
  /\ watcherAt' = "events"
  /\ UNCHANGED <<fsVars, watchVars, snapshot, side, mode, changed, configRead, dropped>>

\* The timeout, the control socket, EINTR.
WakeOtherwise ==
  /\ watcherAt = "asleep" /\ inotify = <<>>
  /\ LookAfter("runtime", "full")
  /\ UNCHANGED <<fsVars, inotify, watchVars, snapshot, readEvents, changed, configRead, dropped>>

\* poll or read fails: an error, which ends the daemon.
WaitFails ==
  /\ watcherAt = "asleep"
  /\ watcherAt' = "failed"
  /\ UNCHANGED <<fsVars, inotify, watchVars, snapshot, readEvents, side, mode, changed,
                 configRead, dropped>>

\* An event counts if its watch still is the one in use; that of the parent
\* being gone is an error.
HandleEvent ==
  /\ watcherAt = "events" /\ readEvents # <<>>
  /\ Head(readEvents) # Overflow
  /\ readEvents' = Tail(readEvents)
  /\ LET e == Head(readEvents)
         ofWatch == e.on # NoDir /\ e.on = watch[e.side]
         ofParent == e.on = NoDir /\ parent[e.side]
     IN /\ changed' = (changed \/ (e.side = "config" /\ (ofWatch \/ ofParent)))
        /\ IF ofWatch /\ e.gone
           THEN watch' = [watch EXCEPT ![e.side] = NoDir] /\ dropped' = dropped \ {e.side}
           ELSE UNCHANGED <<watch, dropped>>
        /\ IF ~ofParent THEN UNCHANGED <<side, mode, watcherAt>>
           ELSE IF e.gone THEN watcherAt' = "failed" /\ UNCHANGED <<side, mode>>
           ELSE LookAfter(e.side, "event")
  /\ UNCHANGED <<fsVars, inotify, watched, parent, snapshot, configRead>>

\* The configuration may have changed; the watches are not looked at for that.
HandleOverflow ==
  /\ watcherAt = "events" /\ readEvents # <<>>
  /\ Head(readEvents) = Overflow
  /\ readEvents' = Tail(readEvents)
  /\ changed' = TRUE
  /\ UNCHANGED <<fsVars, inotify, watchVars, snapshot, side, mode, configRead, watcherAt,
                 dropped>>

EventsHandled ==
  /\ watcherAt = "events" /\ readEvents = <<>>
  /\ LookAfter("config", "full")
  /\ UNCHANGED <<fsVars, inotify, watchVars, snapshot, readEvents, changed, configRead, dropped>>

\* What follows when a directory is looked after.  resync_runtime ends with a
\* second ensure_runtime_watch, which sets no watch on the parent.
Finished ==
  \/ mode = "event" /\ watcherAt' = "events" /\ UNCHANGED <<side, mode>>
  \/ mode = "full" /\ side = "config" /\ LookAfter("runtime", "full")
  \/ mode = "full" /\ side = "runtime" /\ LookAfter("runtime", "brief")
  \/ mode = "brief" /\ watcherAt' = "capture" /\ UNCHANGED <<side, mode>>

\* A watch whose directory is missing is forgotten, whatever is queued for it.
Check ==
  /\ watcherAt = "check"
  /\ IF watch[side] # NoDir /\ Exists(side)
     THEN Finished /\ UNCHANGED <<watch, dropped>>
     ELSE /\ watch' = [watch EXCEPT ![side] = NoDir]
          /\ dropped' = IF mode = "full" THEN dropped \ {side} ELSE dropped
          /\ watcherAt' = "look" /\ UNCHANGED <<side, mode>>
  /\ UNCHANGED <<fsVars, inotify, watched, parent, snapshot, readEvents, changed, configRead>>

\* Is there a directory to watch?
Look ==
  /\ watcherAt = "look"
  /\ \/ Exists(side) /\ watcherAt' = "install" /\ UNCHANGED <<side, mode>>
     \/ ~Exists(side) /\ (mode = "full" \/ side = "config") /\ watcherAt' = "parent"
        /\ UNCHANGED <<side, mode>>
     \/ ~Exists(side) /\ mode # "full" /\ side = "runtime" /\ Finished
  /\ UNCHANGED <<fsVars, inotify, watchVars, snapshot, readEvents, changed, configRead, dropped>>

Install ==
  /\ watcherAt = "install" /\ Exists(side)
  /\ watch' = [watch EXCEPT ![side] = dir[side]]
  /\ watched' = [watched EXCEPT ![side] = @ \cup {dir[side]}]
  /\ parent' = [parent EXCEPT ![side] = FALSE]
  /\ Finished
  /\ UNCHANGED <<fsVars, inotify, snapshot, readEvents, changed, configRead, dropped>>

\* What is to be watched has gone since: an error, which ends the daemon.
InstallFails ==
  /\ \/ watcherAt = "install" /\ ~Exists(side)
     \/ watcherAt = "parent" /\ side = "config" /\ homeless /\ ~parent[side]
  /\ watcherAt' = "failed"
  /\ UNCHANGED <<fsVars, inotify, watchVars, snapshot, readEvents, side, mode, changed,
                 configRead, dropped>>

\* Mutant: the directory is not looked for again once its parent is watched.
WatchParentOnly ==
  /\ watcherAt = "parent"
  /\ parent' = [parent EXCEPT ![side] = TRUE]
  /\ Finished
  /\ UNCHANGED <<fsVars, inotify, watched, watch, snapshot, readEvents, changed, configRead, dropped>>

WatchParent ==
  /\ watcherAt = "parent" /\ ~(side = "config" /\ homeless /\ ~parent[side])
  /\ parent' = [parent EXCEPT ![side] = TRUE]
  /\ IF parent[side] THEN Finished ELSE watcherAt' = "recheck" /\ UNCHANGED <<side, mode>>
  /\ UNCHANGED <<fsVars, inotify, watched, watch, snapshot, readEvents, changed, configRead, dropped>>

Recheck ==
  /\ watcherAt = "recheck"
  /\ IF Exists(side) THEN watcherAt' = "check" /\ UNCHANGED <<side, mode>> ELSE Finished
  /\ UNCHANGED <<fsVars, inotify, watchVars, snapshot, readEvents, changed, configRead, dropped>>

\* The end of resync_runtime and of the wake-up: the daemon reloads a changed
\* configuration, if it is there, and reports a changed runtime directory.
EndWake ==
  /\ watcherAt = "capture"
  /\ snapshot' = Capture
  /\ configRead' = IF changed /\ Exists("config") THEN content ELSE configRead
  /\ changed' = FALSE
  /\ watcherAt' = "asleep"
  /\ side' = "runtime" /\ mode' = "full"
  /\ UNCHANGED <<fsVars, inotify, watchVars, readEvents, dropped>>

WatcherNext ==
  \/ EditConfig \/ ToggleSocket \/ LoseParent
  \/ \E s \in Sides : DeleteDir(s) \/ CreateDir(s) \/ MoveAway(s) \/ MoveBack(s)
  \/ WakeOnEvents \/ WakeOtherwise \/ WaitFails
  \/ HandleEvent \/ HandleOverflow \/ EventsHandled
  \/ Check \/ Look \/ Install \/ InstallFails \/ WatchParent \/ Recheck \/ EndWake

WatcherSpec == WatcherInit /\ [][WatcherNext]_watcherVars

----------------------------------------------------------------------------
(* Properties.                                                             *)

\* Asleep with no event queued, the daemon watches each directory that exists
\* and the parent of each that does not, and what it last saw of the runtime
\* directory is how it is: a dseuhid that starts is noticed, whatever happened
\* between the system calls of the last wake-up and although events were dropped
\* (ensure_config_watch, ensure_runtime_watch, ensure_run_watch, resync_runtime).
\* Not so if the end of a watch was among those dropped and the directory was
\* there again when the daemon looked: it takes the watch for that of the new one.
WatchesAreInPlace ==
  watcherAt = "asleep" /\ inotify = <<>> =>
    /\ \A s \in Sides \ dropped :
         IF Exists(s) THEN watch[s] = dir[s] /\ dir[s] \in watched[s] ELSE parent[s]
    /\ snapshot = Capture \/ "runtime" \in dropped

\* Asleep with no event queued, the daemon has loaded the edgemap.toml there is
\* (DEVELOPMENT_REFERENCE.md: resynchronization closes watch replacement races).
NoChangeIsMissed ==
  watcherAt = "asleep" /\ inotify = <<>> /\ Exists("config") => configRead = content
=============================================================================
