SPECIFICATION Spec
CONSTANTS
  Captures = {c1, c2}
  NoCapture = NoCapture
  Requests <- CaptureRequests
  MaxInbox = 1
  Patient = TRUE
PROPERTY FreshAfterDetach
