SPECIFICATION Spec
CONSTANTS
    Agents = {a1}
    MaxConns = 2
    MaxAttempts = 1
    None = None
INVARIANT DisconnectedIsOffline
CHECK_DEADLOCK FALSE
