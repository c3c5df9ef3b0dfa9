CONSTANTS
    Callers = {c1}
    Hosts = {h1}
    Clients = {k1, k2}
    Keys = {key1, key2}
    Retries = 1
    None = None
SPECIFICATION Spec
PROPERTIES
    DialEnds
