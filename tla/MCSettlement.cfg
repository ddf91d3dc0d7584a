\* One settlement job beside the ingest jobs of two processes.
SPECIFICATION Spec
CONSTANTS
    Settlers = {w1}
    Ingesters = {w1, w2}
    None = None
    Refused = Refused
    oslo = oslo
    boston = boston
    btc = btc
    eth = eth
    Portfolios <- MCPortfolios
    ContractOf <- MCContractOf
    Edited = {oslo, btc}
    Prices <- MCPrices
    Moves <- MCMoves
    Readings <- MCReadings
    Late <- MCLate
    Interval = 2
    MinHistory = 1
    Freshness = 4
    Limit = 3
    CacheTtl = 2
    MinRows = 2
    EdgeGap = 1
    MaxGap = 2
    BlendHours = 1
    MinObservations = 2
    MaxClock = 6
    MaxCrashes = 1
INVARIANTS TypeOK FinalClose BlendsSettled
PROPERTY DueSettles
CHECK_DEADLOCK FALSE
