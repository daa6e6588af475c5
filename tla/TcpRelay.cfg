SPECIFICATION FairSpec
CONSTANTS
    Opens = {o1, o2}
    d1 = d1
    Devices = {d1}
    OpenDevice <- OneDevice
    Ports = {p1, p2}
    Clients = {c1, c2}
    MaxConnections = 1
    None = None
INVARIANTS TypeOK OneRelayPerDevice RevokedHasNoRelay ClosedRelayIsSilent
PROPERTY RelaysEnd
CHECK_DEADLOCK FALSE
