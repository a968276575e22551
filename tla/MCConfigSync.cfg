CONSTANTS
  cli = cli
  daemon = daemon
  default = default
  game = game
  NoConfig = NoConfig
  NoUhid = NoUhid
  NoView = NoView
  NoPath = NoConfig
  Clients <- MCWithCli
  Edgemap = daemon
  Base = default
  Configs <- MCConfigs
  Paths <- MCConfigs
  Parses <- MCConfigs
  Valid <- MCConfigs
  Compiles <- MCConfigs
  Startup = NoConfig
  OutputOf <- MCOutputOf
  RspCap = 2
  ReqCap = 1
  MaxReplugs = 1
  MaxRestarts = 1
  MaxTimeouts = 1
  MaxSwitches = 1
  MaxReloads = 1
  MaxEdits = 1
  MaxManual = 1
  MaxKills = 1
  MaxEvents = 2
SPECIFICATION SyncSpec
INVARIANTS
  SyncTypeOK
  BeliefIsTrue
  ViewConverges
PROPERTIES
  AckIsForPending
  HealthyConnectionIsKept
