CONSTANTS
    Callers = {c1}
    Hosts = {h1}
    Sessions = {s1}
    MaxCommands = 2
    MaxOut = 1
    ChanCap = 1
    None = None
SPECIFICATION Spec
PROPERTIES
    ReaderExits
