SPECIFICATION Spec
CONSTANTS
  Captures = {c1, c2}
  NoCapture = NoCapture
  Requests <- CaptureRequests
  MaxInbox = 1
  Patient = FALSE
SYMMETRY Symmetry
INVARIANT RunningIsRaised
INVARIANT ActiveIsAlive
INVARIANT WatchdogJoined
