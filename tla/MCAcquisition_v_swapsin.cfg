CONSTANTS
    MaxAcq = 2
    MaxFrames = 1
    MaxRedecode = 0
    MaxQueue = 1
    RecordCap = 8
    Kinds = {"logic", "analog"}
    Acts = {"repeat"}
    Calm = TRUE
SPECIFICATION Spec
PROPERTY SwapsIn
