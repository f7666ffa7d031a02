SPECIFICATION Spec
CONSTANTS
    Devices = {d1, d2}
    Seeders = {}
    Requests = {"pause"}
    MaxConns = 2
    MaxWrites = 1
    MaxRefusals = 1
    MaxRestarts = 0
    None = None
INVARIANT VersionMeansState
CHECK_DEADLOCK FALSE
