SPECIFICATION FairSpec
CONSTANTS
    Sessions = {s1, s2}
    HealthTasks = {h}
    ReconnectAttempts = 1
    MaxDials = 2
PROPERTIES DeadConnectionIsDropped AnswersLikeSharedTunnel
CHECK_DEADLOCK FALSE
