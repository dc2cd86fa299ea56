CONSTANTS
    MaxAcq = 1
    MaxFrames = 1
    MaxRedecode = 1
    MaxQueue = 1
    RecordCap = 4
    Kinds = {"logic"}
    Acts = {"redecode", "disconnect"}
    Calm = TRUE
SPECIFICATION FairSpec
PROPERTY RedecodeEnds
