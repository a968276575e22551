CONSTANTS
  cli = cli
  daemon = daemon
  default = default
  game = game
  NoConfig = NoConfig
  NoUhid = NoUhid
  NoView = NoView
  NoPath = NoConfig
  Clients <- MCAlone
  Edgemap = daemon
  Base = default
  Configs <- MCConfigs
  Paths <- MCConfigs
  Parses <- MCConfigs
  Valid <- MCConfigs
  Compiles <- MCConfigs
  Startup = NoConfig
  OutputOf <- MCOutputOf
  RspCap = 4
  ReqCap = 1
  MaxReplugs = 1
  MaxRestarts = 1
  MaxTimeouts = 1
  MaxSwitches = 1
  MaxReloads = 1
  MaxEdits = 2
  MaxManual = 0
  MaxKills = 0
  MaxEvents = 3
SPECIFICATION SyncFairSpec
PROPERTIES
  UnknownIsResolved
  RequestEnds
  SelectionPrevails
