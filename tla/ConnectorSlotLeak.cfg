SPECIFICATION Spec
CONSTANTS
    Streams = {h1, h2, h3}
    Sessions = {s1}
    d1 = d1
    Devices = {d1}
    SessionDevice <- OneDevice
    MaxConnections = 2
    None = None
INVARIANT CountedAreStreams
