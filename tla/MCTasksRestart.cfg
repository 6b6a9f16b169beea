SPECIFICATION Spec
CONSTANTS
    Runs <- MCRuns
    None = None
    Endings = {"completed", "failed"}
    MaxProcs = 2
    MaxRev = 0
    Callers = {c1}
    MaxAttempts = 1
    MaxCalls = 2
PROPERTY EndIsNotPassedOver
CHECK_DEADLOCK FALSE
