SPECIFICATION FairSpec
CONSTANTS
  Captures = {c1, c2}
  NoCapture = NoCapture
  Requests <- ContinuousRequests
  MaxInbox = 1
  Patient = TRUE
PROPERTY StopEndsCapture
