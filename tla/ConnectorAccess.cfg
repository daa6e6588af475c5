SPECIFICATION FairSpec
CONSTANTS
    Streams = {h1, h2}
    Sessions = {s1}
    d1 = d1
    Devices = {d1}
    SessionDevice <- OneDevice
    MaxConnections = 1
    None = None
INVARIANTS TypeOK LimitEnforced RevokedIsClosed
PROPERTY UnauthorizedStreamsEnd
