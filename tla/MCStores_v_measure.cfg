SPECIFICATION MCSpec
CONSTANTS
    SPC = 2
    SLOTS = 3
    LEVELS = 2
    BlockSize <- MCBlockSize
    PCHUNK = 1
    Windows = {0, 2}
    MaxFrame = 2
    MaxResets = 1
    Beyond = 1
    Lossy = TRUE
    MaxAnalog = 2
    ASize = 5
    AFactor = 2
    ALevels = 2
    Volts = {1, 2}
    RowKeys = {k1}
    Times = {0, 1, 2, 3}
    MaxAdds = 3
    Amortise = 2
    Wires = {1, 2}
    Ends = 4
    Second = 1000
    VcdRates = {3, 10}
    MaxSamples = 3
    MaxAcqs = 1
    MaxMarkers = 2
    Positions = {0, 1, 4}
    NoLines = NoLines
CHECK_DEADLOCK FALSE
INVARIANT MeasFresh
