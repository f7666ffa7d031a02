\* Two callers of one request, over two connections.
CONSTANTS
    Calls = {c1, c2}
    Requests = {r1}
    MaxConns = 2
    MaxCrashes = 0
    None = None
SPECIFICATION Spec
PROPERTIES ImplementsService EveryCallEnds StoredIsPublished
CHECK_DEADLOCK FALSE
