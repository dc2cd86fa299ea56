SPECIFICATION Spec
CONSTANTS
  Captures = {c1, c2}
  NoCapture = NoCapture
  Requests <- AllRequests
  MaxInbox = 1
  Patient = TRUE
INVARIANT DeviceInUse
