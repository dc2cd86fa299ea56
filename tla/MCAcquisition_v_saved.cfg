CONSTANTS
    MaxAcq = 1
    MaxFrames = 1
    MaxRedecode = 1
    MaxQueue = 1
    RecordCap = 8
    Kinds = {"logic"}
    Acts = {"redecode"}
    Calm = TRUE
SPECIFICATION Spec
INVARIANT AnnsSaved
