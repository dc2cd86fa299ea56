SPECIFICATION FairSpec
CONSTANTS
  Captures = {c1}
  NoCapture = NoCapture
  Requests <- CaptureRequests
  MaxInbox = 1
  Patient = TRUE
PROPERTY Reclaims
PROPERTY WatchdogEnds
PROPERTY StopEnds
PROPERTY TeardownTerminates
