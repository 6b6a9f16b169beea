SPECIFICATION Spec
CONSTANTS
    local = local
    joined = joined
    r1 = r1
    Clients = {local, joined}
    Runners = {r1}
    AllRuntimes = AllRuntimes
    Scope <- MCScope
    None = None
    TornSaves = FALSE
    MaxOps = 1
    MaxTokens = 2
    MaxProcs = 2
    MaxLoad = 1
    MaxCalls = 1
    MaxCrashes = 1
INVARIANTS
    TypeOK
    FenceIsKept
    QuietRunner
CHECK_DEADLOCK FALSE
