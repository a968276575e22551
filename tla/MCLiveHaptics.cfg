CONSTANTS
  Period = 2
  MaxAge = 2
  Blocks = {"silence", "audio"}
  MaxInbox = 2
  MaxLate = 6
  MaxFaults = 2
SPECIFICATION HapticsSpec
INVARIANTS
  LiveTypeOK
  DeadlineBelongsToHead
  PlayedOnTime
  QuietWhenIdle
  OneFailureStillMutes
PROPERTIES
  FutureBlocksSurvive
CHECK_DEADLOCK FALSE
