SPECIFICATION WatcherSpec
CONSTANTS
  MaxDirs = 2
  MaxFileEdits = 1
  MaxQueue = 3
  Movable = {}
INVARIANT NoChangeIsMissed
CHECK_DEADLOCK FALSE
