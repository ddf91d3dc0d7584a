\* Two scanners, either database.
SPECIFICATION Spec
CONSTANTS
    Scanners = {p1, p2}
    Dialects = {"sqlite", "postgresql"}
    Missing = Missing
    None = None
    warm = warm
    cold = cold
    gfs = gfs
    ecmwf = ecmwf
    Models = {gfs, ecmwf}
    Buckets <- MCBuckets
    One = 10
    Unit = 100
    Rounding = "half_up"
    MinSamples = 1
    MinGain = 1
    Policy <- MCPolicy
    Discovered <- MCDiscovered
    EventOf <- MCEventOf
    MarketOf <- MCMarketOf
    Asks <- MCAsks
    Forecasts <- MCForecasts
    Samples <- MCSamples
    Balance = 100
    BlendHours = 2
    MinObservations = 1
    Telegram = TRUE
    MaxRetries = 1
    Crashes = TRUE
    MaxScans = 2
    MaxClock = 1
SYMMETRY Symmetric
INVARIANTS TypeOK AlertsBounded FollowThrough DecisionsComplete ScansGoOn
PROPERTIES JournalSpec
CHECK_DEADLOCK FALSE
