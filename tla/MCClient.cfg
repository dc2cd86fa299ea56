SPECIFICATION MCSpec
CONSTANTS
    Devs = {d1, d2}
    Setups = {def, other}
    Default = def
    Rates = {0, 1}
    None = None
    Texts = {x, y}
    Filters <- MCFilters
    Cooldown = 2
    MaxAnns = 3
    MaxRuns = 1
    Unseen = Unseen
INVARIANTS
    SetupKept
    OneRxThread
    StaysOffline
    StatusHonest
PROPERTIES
    QuitRestores
    Reconnects
    JoinEnds
    TableSettles
