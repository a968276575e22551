CONSTANTS
  cli = cli
  daemon = daemon
  default = default
  game = game
  NoConfig = NoConfig
  NoUhid = NoUhid
  NoView = NoView
  NoPath = NoConfig
  Clients <- MCAlone
  Edgemap = daemon
  Base = default
  Configs <- MCConfigs
  Paths <- MCConfigs
  Parses <- MCConfigs
  Valid <- MCConfigs
  Compiles <- MCConfigs
  Startup = NoConfig
  OutputOf <- MCOutputOf
  RspCap = 8
  ReqCap = 1
  MaxReplugs = 0
  MaxRestarts = 0
  MaxTimeouts = 1
  MaxSwitches = 1
  MaxReloads = 0
  MaxEdits = 0
  MaxManual = 0
  MaxKills = 0
  MaxEvents = 3
SPECIFICATION SyncSpec
PROPERTY DecisionsAdvanceOnlyWhenAcknowledged
