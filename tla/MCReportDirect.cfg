CONSTANTS
  TicksPerMs = 2
  NoFrame = NoFrame
  Mappings <- MCMappings
  Frames <- MCFrames
  RepeatTicks = 0
  MaxNow = 10
  MaxReports = 3
  MaxSwitches = 1
  MaxFailures = 1
SPECIFICATION ReportSpec
INVARIANTS
  ReportTypeOK
  OutputIsCurrent
  KeyboardFollows
  TriggerLeavesNoAnalog
PROPERTIES
  TimersStartNothing
  SingleRunsToItsEnd
CHECK_DEADLOCK FALSE
