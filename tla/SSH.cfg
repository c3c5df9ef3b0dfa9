CONSTANTS
    Callers = {c1, c2}
    Hosts = {h1}
    Clients = {k1, k2, k3}
    Keys = {key1, key2}
    Retries = 1
    None = None
SPECIFICATION SpecWithLivePeers
INVARIANTS
    NoLeakedClient
    EntriesAreUnclosed
    BoundedResend
    KeyIsOnRecord
PROPERTIES
    CallsReturn
