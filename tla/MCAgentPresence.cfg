SPECIFICATION Spec
CONSTANTS
    Agents = {a1, a2}
    MaxConns = 3
    MaxAttempts = 1
    None = None
SYMMETRY AgentSymmetry
INVARIANTS TypeOK SlotIsRegistered RegisteredIsServed
CHECK_DEADLOCK FALSE
