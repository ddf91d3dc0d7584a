\* Liveness of calls under row locks; no symmetry.
SPECIFICATION FairSpec
CONSTANTS
    One = 4
    Den = 20
    TradeNum = 2
    ExposureNum = 4
    LossNum = 2
    StartBalance = 40
    None = None
    s1 = s1
    s2 = s2
    Signals = {s1, s2}
    Requests = {r1, r2}
    Procs = {p1, p2}
    Terms <- MCTerms
    Dialect = "postgresql"
    Sizes <- MCSizes
    MarkPrices <- MCMarks
    DayLength = 1
    MaxClock = 1
    MaxCalls = 3


PROPERTIES CallsReturn
CHECK_DEADLOCK FALSE
