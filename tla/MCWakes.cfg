SPECIFICATION Spec
CONSTANTS
    Sources = {s1, s2}
    Modes = {"any", "all"}
    MaxWakes = 2
    MaxMsgs = 2
    MaxTries = 2
    MaxTasks = 2
    Loads = {{"task"}, {"wait"}}
    MaxLosses = 2
SYMMETRY SourceSymmetry
INVARIANTS
    TypeOK
    SentAtMostOnce
    RetiredIsNotSent
    CarrierMatchesClaim
    DeliveryIsAnnounced
    WaitNotMissed
CHECK_DEADLOCK FALSE
