CONSTANTS
  TicksPerMs = 1
  NoFrame = NoFrame
  Mappings <- MCMappings
  Frames <- MCFrames
  RepeatTicks = 3
  MaxNow = 6
  MaxReports = 3
  MaxSwitches = 1
  MaxFailures = 1
SPECIFICATION ReportSpec
INVARIANTS
  EveryReportIsCurrent
  NoDeadlineIsForgotten
  TimingIsNeverFatal
PROPERTIES
  RepeatKeepsItsCadence
  TickMakesProgress
CHECK_DEADLOCK FALSE
