CONSTANTS
    Calls = {c1}
    Hosts = {h1, h2}
    NoHost = NoHost
    NoProbe = NoProbe
    Tools = {rg}
    Ops = {"connect", "disconnectAll"}
    HasWinRM = TRUE
SPECIFICATION Spec
SYMMETRY Symmetry
INVARIANTS
    AllDisconnected
