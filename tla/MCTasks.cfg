SPECIFICATION Spec
CONSTANTS
    Runs <- MCRuns
    None = None
    Endings = {"completed", "failed"}
    MaxProcs = 2
    MaxRev = 0
    Callers = {c1, c2}
    MaxAttempts = 2
    MaxCalls = 2
SYMMETRY CallerSymmetry
INVARIANTS
    TypeOK
    OneExecution
    DispatchableIsUntouched
    BeliefsAreTrue
    OutcomeIsReal
PROPERTY ObservationsAdvance
CHECK_DEADLOCK FALSE
