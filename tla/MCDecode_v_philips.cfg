SPECIFICATION MCSpec
CONSTANTS
    Total = 3
    Chunk = 2
    Pipe = 1
    BatchMax = 1
    MaxPerFeed = 2
    MaxRequests = 2
    MaxStacks = 1
    Classes = {1, 2}
    RowOf <- MCRowOf
    Acts = {"lose", "error"}
    Senders = {"i2s", "left", "right", "pcm", "philips"}
    WordSize = 2
    MaxPad = 1
    PhilipsPad = 0
    MaxSlots = 3
CHECK_DEADLOCK FALSE
INVARIANT WordsRoundTrip
