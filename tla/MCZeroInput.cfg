CONSTANTS
  Period = 1
  MaxAge = 4
  Blocks = {"silence", "pcm"}
  MaxInbox = 4
  MaxLate = 1
  MaxFaults = 0
SPECIFICATION FairHapticsSpec
PROPERTY ZeroInputEndsPlayback
CHECK_DEADLOCK FALSE
