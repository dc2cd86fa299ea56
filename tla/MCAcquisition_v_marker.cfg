CONSTANTS
    MaxAcq = 2
    MaxFrames = 1
    MaxRedecode = 0
    MaxQueue = 1
    RecordCap = 4
    Kinds = {"logic"}
    Acts = {"trigger"}
    Calm = TRUE
SPECIFICATION Spec
INVARIANT MarkerOnScreen
