CONSTANTS
  TicksPerMs = 1
  NoFrame = NoFrame
  Mappings <- MCMappings
  Frames <- MCFrames
  RepeatTicks = 0
  MaxNow = 10
  MaxReports = 3
  MaxSwitches = 0
  MaxFailures = 0
SPECIFICATION ReportSpec
PROPERTY SingleRunsOnce
CHECK_DEADLOCK FALSE
