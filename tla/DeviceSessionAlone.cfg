SPECIFICATION FairSpec
CONSTANTS
    Procs = {p1}
    MaxTokens = 3
    MaxLate = 1
    Faults = {"heartbeatLost"}
    UserOps = {"connect", "disconnect", "remove"}
    None = None
INVARIANT FirewallHoldsToken
PROPERTY RevokedCleansUp
CHECK_DEADLOCK FALSE
