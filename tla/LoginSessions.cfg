SPECIFICATION FairSpec
CONSTANTS
    Reqs = {r1, r2}
    Pendings = {p1}
    Sessions = {s1, s2}
    Secrets = {x1}
    MaxUid = 2
    MfaAttempts = 2
    None = None
INVARIANTS TypeOK PendingSingleUse AttemptsBounded SignedInAsLinked MfaUsable
PROPERTY RequestsEnd
