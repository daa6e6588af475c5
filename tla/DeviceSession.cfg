SPECIFICATION Spec
CONSTANTS
    Procs = {p1, p2}
    MaxTokens = 2
    MaxLate = 1
    Faults = {"heartbeatLost", "rotationLost", "killed", "commandFails"}
    UserOps = {"connect"}
    None = None
SYMMETRY Symmetry
INVARIANTS TypeOK ActiveStaysConfigured
CHECK_DEADLOCK FALSE
