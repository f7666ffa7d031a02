\* Three callers of one request: shared futures, duplicate commands, retries.
CONSTANTS
    Calls = {c1, c2, c3}
    Requests = {r1}
    MaxConns = 2
    MaxCrashes = 1
    None = None
SPECIFICATION Spec
SYMMETRY CallSymmetry
INVARIANTS TypeOK WaiterIsReachable CallersAgree PublishedOnce NoRunAfterSuccess ResultHasRun
CHECK_DEADLOCK FALSE
