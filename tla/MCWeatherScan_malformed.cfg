\* A malformed event before a good one.
SPECIFICATION Spec
CONSTANTS
    Scanners = {p1}
    Dialects = {"sqlite", "postgresql"}
    Missing = Missing
    None = None
    warm = warm
    cold = cold
    gfs = gfs
    ecmwf = ecmwf
    Models = {gfs, ecmwf}
    Buckets <- MCBuckets
    One = 10
    Unit = 100
    Rounding = "half_up"
    MinSamples = 1
    MinGain = 1
    Policy <- MCPolicy
    Discovered <- MCMalformed
    EventOf <- MCEventOf
    MarketOf <- MCMarketOf
    Asks <- MCAsks
    Forecasts <- MCForecasts
    Samples <- MCSamples
    Balance = 100
    BlendHours = 1
    MinObservations = 1
    Telegram = TRUE
    MaxRetries = 1
    Crashes = FALSE
    MaxScans = 1
    MaxClock = 1
PROPERTIES EventsIsolated
CHECK_DEADLOCK FALSE
