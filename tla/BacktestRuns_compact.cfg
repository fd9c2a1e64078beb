SPECIFICATION RunsSpec
CONSTANTS
    Singles = {p1}
    Workers = {w1}
    Screened <- OneStrategy
    Strategies = {"x"}
    Totals = {1, 3}
    Windows = 2
    BatchSize = 2
    MaxSignals = 1
    MaxCompactions = 1
INVARIANTS
    PruneSparesTrades
CHECK_DEADLOCK FALSE
