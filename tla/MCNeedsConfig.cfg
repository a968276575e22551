CONSTANTS
  cli = cli
  daemon = daemon
  default = default
  game = game
  NoConfig = NoConfig
  NoUhid = NoUhid
  NoView = NoView
  NoPath = NoConfig
  Clients <- MCAlone
  Edgemap = daemon
  Base = default
  Configs <- MCConfigs
  Paths <- MCConfigs
  Parses <- MCConfigs
  Valid <- MCConfigs
  Compiles <- MCConfigs
  Startup = NoConfig
  OutputOf <- MCOutputOf
  RspCap = 8
  ReqCap = 1
  MaxReplugs = 1
  MaxRestarts = 0
  MaxTimeouts = 0
  MaxSwitches = 0
  MaxReloads = 0
  MaxEdits = 0
  MaxManual = 0
  MaxKills = 0
  MaxEvents = 3
SPECIFICATION SyncFairSpec
PROPERTY NeedsConfigIsAnswered
