SPECIFICATION BackupFairSpec
CONSTANTS
    Procs = {p1, p2}
    Retentions = {1}
    MaxEvents = 2
    Nobody = Nobody
INVARIANTS
    BackupTypeOK
    RequestKept
PROPERTIES
    RetentionKept
    BackupsArrive
CHECK_DEADLOCK FALSE
