\* Two callers of one request, a stable agent process.
CONSTANTS
    Calls = {c1, c2}
    Requests = {r1}
    MaxConns = 1
    MaxCrashes = 0
    None = None
SPECIFICATION Spec
INVARIANTS NotExecutedTwice
CHECK_DEADLOCK FALSE
