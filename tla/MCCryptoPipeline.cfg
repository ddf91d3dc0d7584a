\* Two scans, two dialects, late answers, failures and a crash.
SPECIFICATION Spec
CONSTANTS
    p1 = p1
    p2 = p2
    Scanners = {p1, p2}
    Dialects = {"sqlite", "postgresql"}
    None = None
    Refused = Refused
    Interval = 2
    MinHistory = 3
    Freshness = 4
    Discovered <- MCDiscovered
    MarketOf <- MCMarketOf
    Listings <- MCListings
    Closes <- MCCloses
    Paths <- MCPaths
    BookPairs <- MCBookPairs
    MaxHorizon = 3
    Costs = 300
    Uncertainty = 400
    MinEdge = 500
    MaxSpread = 500
    MinLiquidity = 50
    BookFreshness = 1
    CacheTtl = 2
    MaxClock = 2
    MaxScans = 2
    MaxFailures = 1
    MaxCrashes = 1
SYMMETRY Symmetry
CHECK_DEADLOCK FALSE
INVARIANTS
    TypeOK
    Provenance
    EntryJustified
    ScansGoOn
