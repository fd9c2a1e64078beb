SPECIFICATION BenchSpec
CONSTANTS
    c1 = c1
    c2 = c2
    gui = gui
    Operators = {c1, c2, gui}
    Awaited = {gui}
    Crews <- Rosters
    Params = {p1, p2}
    Proposals = {q1}
    Scoped = TRUE
    Verdicts <- GoodOrCovered
    None = None
    MaxRows = 2
    MaxEdits = 1
INVARIANTS
    PromotionsAreEarned
    DurableFirst
    JobsTellTheTruth
CHECK_DEADLOCK FALSE
