SPECIFICATION PartsSpec
CONSTANTS
  Controllers = {c1, c2}
  NoController = NoController
  MaxPlugEvents = 2
  MaxDirs = 2
  MaxFileEdits = 1
  MaxQueue = 1
  Movable = {"config"}
  SeqSize = 4
  Ds4SeqSize = 2
  Reports <- MCReports
  Mapped <- MCMapped
  TimeSize = 4
  TimeDelta = 1
  ReportIds = {5, 2}
  OutputReports <- MCOutputs
  MaxUhidEvents = 2
  MaxRequests = 2
  Example <- MCExample
  SectionNames = {"touchpad", "touchpad_left", "l1", "l2", "Cross", "left_fn"}
  RemapTexts = {"none", "", "passthrough", "block", "split", "combo", "l2", "L2", "left_paddle", "l2_full", "key:a", "key:no", "dash"}
  ComboTexts = {"Cross", "l1", "touchpad_left", "dash", "key:a"}
  MacroNames = {"dash", "", "macro"}
  StepKeys = {"square", "ghost"}
  Capitals <- MCCapitals
  KeyTexts = {"key:a", "key:no"}
  KnownKeys = {"key:a"}
  MaxDraftEdits = 2
  AudioDevices = {ds, edge}
  NoAudio = NoAudio
  MaxSessions = 3
  WireSize = 3
  MaxPeers = 3
  MaxControlClients = 2
  MaxAcceptsPerWake = 1
  InboxSize = 1
  OutboxSize = 1
INVARIANTS
  PartsTypeOK
  NoWakeUpIsLost
  WatchesAreInPlace
  HostSeesTheController
  HostIsServed
  AcceptedRuns
  CaptureFollowsSession
PROPERTIES
  ServerPromise
CHECK_DEADLOCK FALSE
