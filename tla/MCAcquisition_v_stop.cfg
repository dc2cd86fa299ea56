CONSTANTS
    MaxAcq = 1
    MaxFrames = 1
    MaxRedecode = 0
    MaxQueue = 1
    RecordCap = 4
    Kinds = {"logic"}
    Acts = {}
    Calm = TRUE
SPECIFICATION Spec
PROPERTY StopEndsRun
