SPECIFICATION Spec
CONSTANTS
    Devices = {d1, d2}
    Seeders = {}
    Requests = {"pause", "associate", "detected", "presence"}
    MaxConns = 2
    MaxWrites = 2
    MaxRefusals = 1
    MaxRestarts = 0
    None = None
SYMMETRY DeviceSymmetry
INVARIANTS TypeOK ContextAtVersion QuietAgreement
PROPERTY VersionNeverFalls
CHECK_DEADLOCK FALSE
