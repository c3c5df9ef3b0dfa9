CONSTANTS
    Calls = {c1, c2}
    Hosts = {h1}
    NoHost = NoHost
    NoProbe = NoProbe
    Tools = {rg, jq}
    Ops = {"connect", "execute", "provision", "disconnect", "disconnectAll", "close"}
    HasWinRM = TRUE
SPECIFICATION Spec
SYMMETRY Symmetry
INVARIANTS
    RegisteredIsConnected
    NoStateWithoutEntry
    DialectMatchesRunner
    ClosedIsClean
    ToolkitPathExists
    ProbeCoversMissing
    ClaimFromProbeIsTrue
