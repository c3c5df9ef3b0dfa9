CONSTANTS
    Callers = {c1, c2}
    Hosts = {h1, h2}
    Sessions = {s1, s2}
    MaxCommands = 1
    MaxOut = 0
    ChanCap = 1
    None = None
SPECIFICATION Spec
SYMMETRY Symmetry
INVARIANTS
    NoOrphanProgram
