SPECIFICATION Spec
CONSTANTS
    Hubs = {h1, h2}
    Devices = {d1}
    WarningMisses = 3
    CriticalMisses = 5
    WarningRecovery = 1
    CriticalRecovery = 2
    Faults <- MCFaults
    None = None
INVARIANTS OneLeader MailsAreNews StatusExplained
PROPERTY WatchedAtomically
