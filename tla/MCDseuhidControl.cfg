CONSTANTS
  cli = cli
  edgemap = edgemap
  default = default
  game = game
  broken = broken
  NoConfig = NoConfig
  NoUhid = NoUhid
  Clients <- MCClients
  Configs <- MCConfigs
  Parses <- MCParses
  Valid <- MCValid
  Compiles <- MCParses
  Startup = default
  OutputOf <- MCOutputOf
  RspCap = 2
  ReqCap = 1
  MaxReplugs = 1
  MaxRestarts = 1
  Nodes = {h, e}
  Grants = {g1, g2}
  NoAccess = NoAccess
  NoAcl = NoAcl
  NoDump = NoDump
  Lost = Lost
  NoNode = NoNode
SYMMETRY DaemonSymmetry
SPECIFICATION DaemonSpec
INVARIANTS
  DaemonTypeOK
  NodesAreHiddenThenRestored
  NeedsConfigIffPassthrough
  ReadyUhidMatchesConfig
  LiveIsAcceptable
  NewestQueuedStateIsCurrent
PROPERTY ServiceSpec
