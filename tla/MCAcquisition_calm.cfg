CONSTANTS
    MaxAcq = 3
    MaxFrames = 2
    MaxRedecode = 0
    MaxQueue = 1
    RecordCap = 4
    Kinds = {"logic", "analog"}
    Acts = {"repeat", "trigger"}
    Calm = TRUE
SPECIFICATION Spec
INVARIANT RecordMatches
