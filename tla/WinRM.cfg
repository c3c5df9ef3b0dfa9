CONSTANTS
    Callers = {c1, c2, c3}
    Hosts = {h1}
    Attempts = {a1, a2}
    None = None
SPECIFICATION Spec
INVARIANTS
    OneDialPerHost
    NoAbandonedDial
    JoinersShareOutcome
    TurnsExclusive
    NoLostTurn
PROPERTIES
    ConnectReturns
    WaitersProceed
    SessionSpec
