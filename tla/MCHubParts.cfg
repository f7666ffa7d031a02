SPECIFICATION PartsSpec
CONSTANTS
    Phones = {f1}
    Codes = {k1}
    Requests = {q1, q2}
    MaxStarts = 2
    MaxTokens = 2
    MaxReconnect = 1
    Serials = {s1, s2}
    MaxReport = 1
    MaxChanges = 1
    MaxFails = 1
    MaxConns = 2
    Names = {n1}
    Window = 1
    MaxRepeats = 2
    MaxRetries = 3
    MaxTests = 2
    MaxTime = 4
    Launches = {p1, p2}
    Other = Other
    None = None
    Users = {u1, u2}
    Devices = {d1, d2}
    Sessions = {r1, r2}
    NoSession = NoSession
    MaxSaves = 4
    a1 = a1
INVARIANTS PartsTypeOK OneClientPerCode TokenCurrent ListIsLastSeen NoLoop AgentHasItsHub ResumesOwn
PROPERTIES RejectedStaysAway CompletedNotProposed ListSettles AnnouncedIsServed DeadIsForgotten ConnectingSettles
CHECK_DEADLOCK FALSE
