CONSTANTS
    MaxAcq = 3
    MaxFrames = 1
    MaxRedecode = 0
    MaxQueue = 1
    RecordCap = 8
    Kinds = {"logic"}
    Acts = {"repeat", "disconnect"}
    Calm = TRUE
SPECIFICATION Spec
PROPERTY PublishesOwn
