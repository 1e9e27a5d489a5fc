SPECIFICATION Spec
CONSTANTS
    Sessions = {s1}
    HealthTasks = {}
    ReconnectAttempts = 2
    MaxDials = 2
INVARIANTS GivesUpOnlyWhenExhausted
CHECK_DEADLOCK FALSE
