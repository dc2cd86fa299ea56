CONSTANTS
    MaxAcq = 2
    MaxFrames = 1
    MaxRedecode = 1
    MaxQueue = 2
    RecordCap = 8
    Kinds = {"logic"}
    Acts = {"redecode"}
    Calm = FALSE
SPECIFICATION Spec
INVARIANT AnnsBelong
