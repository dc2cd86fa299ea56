SPECIFICATION Spec
CONSTANTS
  Captures = {c1, c2}
  NoCapture = NoCapture
  Requests <- AllRequests
  MaxInbox = 1
  Patient = TRUE
SYMMETRY Symmetry
INVARIANT TypeOK
INVARIANT AtMostOneCapture
INVARIANT ReclaimedAtAccept
INVARIANT ReasonHonest
PROPERTY RescanSpares
