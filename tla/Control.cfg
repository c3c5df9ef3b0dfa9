CONSTANTS
    Servers = {s1, s2}
    Conns = {c1}
    Hosts = {h1}
    MaxLines = 2
    None = None
    Blank = Blank
SPECIFICATION FairSpec
INVARIANTS
    ReturnsAfterHandlers
    AddressIsPublished
    ToldIsConnected
PROPERTIES
    ServerStops
CHECK_DEADLOCK FALSE
