SPECIFICATION Spec
CONSTANTS
    Devices = {d1}
    Seeders = {d1}
    Requests = {"device", "issue", "pause", "resume", "core", "tests", "chat", "associate",
                "detected", "rest", "tool", "presence"}
    MaxConns = 2
    MaxWrites = 2
    MaxRefusals = 0
    MaxRestarts = 1
    None = None
INVARIANTS AckedIsDurable QuietAgreement
PROPERTY UpdateArrives
CHECK_DEADLOCK FALSE
