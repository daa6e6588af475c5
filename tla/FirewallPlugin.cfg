SPECIFICATION FairSpec
CONSTANTS
    Procs = {p1, p2}
    MaxOtps = 2
    MaxKeys = 2
    MaxFaults = 2
    MaxOverlapFaults = 0
    None = None
INVARIANTS TypeOK KeyIsRegistered
PROPERTIES LockedEditsKept ConnectCompletes
CHECK_DEADLOCK FALSE
