SPECIFICATION Spec
CONSTANTS
    Devices = {d1}
    Seeders = {}
    Requests = {"pause"}
    MaxConns = 2
    MaxWrites = 1
    MaxRefusals = 0
    MaxRestarts = 0
    None = None
PROPERTY SnapshotIsSent
CHECK_DEADLOCK FALSE
