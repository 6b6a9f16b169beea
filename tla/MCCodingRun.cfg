SPECIFICATION RunnerSpec
CONSTANTS
    Runs = {r1}
    MaxEntries = 2
    None = None
    Unreadable = Unreadable
    MaxConcurrent = 1
    MaxProcs = 3
    MaxRev = 3
    Expires = TRUE
    SweepRaces = FALSE
    RemovalFails = FALSE
INVARIANTS
    RunnerTypeOK
    PromptedAtMostOnce
    ReportsAreTrue
    BarrierBeforePrompt
    AnswerIsDurable
PROPERTIES
    NoPromptAfterStop
    RunEnds
    KeepsPromise
CHECK_DEADLOCK FALSE
