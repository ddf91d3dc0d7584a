\* Live and simulating executors.
SPECIFICATION Spec
CONSTANTS
    None = None
    Procs = {p1, p2, p3}
    LiveProcs = {p1, p2}
    Intents = {i1}
    Reports = {}
    Crashes = TRUE
    MaxTransitions = 3
    MaxOrders = 2
SYMMETRY Symmetric
INVARIANTS TypeOK EntriesAudited StatusAudited
PROPERTIES RecordKept MismatchPauses
CHECK_DEADLOCK FALSE
