SPECIFICATION MCSpec
CONSTANTS
    Universe <- MCUniverse
    Candles <- MCCandles
    MaxDays <- MCMaxDays
    Families <- MCFamilies
    NoBar = NoBar
    MaxPositions = 1
    MaxHold = 2
    StopTenths = 3
    AllocTenths = 9
    Slots = 5
    HalfSlots = 2
    EntryWindow = 3
    InitialCash = 100
    Slip = 1
    Commission = 2
    p1 = p1
    w1 = w1
    Singles = {p1}
    Workers = {w1, w2}
    Screened <- TwoStrategies
    Strategies = {"x", "y"}
    Totals = {1, 3}
    Windows = 2
    BatchSize = 2
    MaxSignals = 2
    MaxCompactions = 2
INVARIANTS
    NoBorrowing
    FlatAtClose
    OneEntryPerSession
    OrdersAccounted
    CompletedIsExplained
    ResultIsOnRecord
CHECK_DEADLOCK FALSE
