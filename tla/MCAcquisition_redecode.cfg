CONSTANTS
    MaxAcq = 2
    MaxFrames = 1
    MaxRedecode = 2
    MaxQueue = 2
    RecordCap = 2
    Kinds = {"logic"}
    Acts = {"redecode", "continuous", "slow"}
    Calm = TRUE
SPECIFICATION FairSpec
INVARIANT AnnsBelong
PROPERTY RedecodeEnds
