SPECIFICATION Spec
CONSTANTS
    Sources = {s1}
    Modes = {"any"}
    MaxWakes = 1
    MaxMsgs = 1
    MaxTries = 1
    MaxTasks = 1
    Loads = {{"task"}}
    MaxLosses = 2
INVARIANTS
    UnknownStaysConsumable
CHECK_DEADLOCK FALSE
