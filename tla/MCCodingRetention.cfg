SPECIFICATION RunnerSpec
CONSTANTS
    Runs = {r1}
    MaxEntries = 2
    None = None
    Unreadable = Unreadable
    MaxConcurrent = 2
    MaxProcs = 1
    MaxRev = 0
    Expires = TRUE
    SweepRaces = TRUE
    RemovalFails = TRUE
INVARIANT
    OneTurnPerRun
CHECK_DEADLOCK FALSE
