SPECIFICATION Spec
CONSTANTS
    Sessions = {s1, s2}
    HealthTasks = {h}
    ReconnectAttempts = 2
    MaxDials = 3
SYMMETRY SessionSymmetry
INVARIANTS TypeOK NoOrphanedConnection IdsIdentifyConnections
PROPERTIES ClearedByOwner RetriesGoForward ImplementsSharedTunnel
CHECK_DEADLOCK FALSE
