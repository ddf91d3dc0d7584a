\* Three tasks share the breaker and the pacing lock.
SPECIFICATION FairSpec
CONSTANTS
    None = None
    Tasks = {t1, t2, t3}
    Threshold = 2
    Reset = 2
    MaxRetries = 1
    Interval = 2
    RetryAfters <- PastAndLater
INVARIANTS TypeOK BreakerConsistent
PROPERTIES Spacing RequestsEnd OpenEnds
