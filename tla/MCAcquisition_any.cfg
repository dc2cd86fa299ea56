CONSTANTS
    MaxAcq = 3
    MaxFrames = 2
    MaxRedecode = 1
    MaxQueue = 2
    RecordCap = 3
    Kinds = {"logic", "analog"}
    Acts = {"repeat", "continuous", "lose", "disconnect", "slow"}
    Calm = FALSE
SPECIFICATION Spec
INVARIANT TypeOK
INVARIANT RunIsLive
PROPERTY ShowsOneAtATime
PROPERTY NoBlink
