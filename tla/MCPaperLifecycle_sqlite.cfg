\* SQLite: one writer lock, no row locks.
SPECIFICATION Spec
CONSTANTS
    One = 4
    Den = 20
    TradeNum = 2
    ExposureNum = 4
    LossNum = 2
    StartBalance = 40
    None = None
    s1 = s1
    s2 = s2
    Signals = {s1, s2}
    Requests = {r1, r2}
    Procs = {p1, p2}
    Terms <- MCMinimumTerms
    Dialect = "sqlite"
    Sizes <- MCTwoSizes
    MarkPrices <- MCMarks
    DayLength = 1
    MaxClock = 2
    MaxCalls = 4
SYMMETRY Symmetric
INVARIANTS Conservation
PROPERTIES LossStop EntriesAllowed
CHECK_DEADLOCK FALSE
