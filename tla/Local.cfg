CONSTANTS
    Callers = {c1, c2}
    Hosts = {h1}
    Sessions = {s1}
    MaxCommands = 2
    MaxOut = 1
    ChanCap = 1
    None = None
SPECIFICATION Spec
INVARIANTS
    TypeOK
    OutputIsOwn
PROPERTIES
    CallsReturn
