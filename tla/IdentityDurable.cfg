SPECIFICATION Spec
CONSTANTS
    MaxRuns = 2
    MaxAlive = 1
    MaxOverlooked = 0
    MaxPowerLosses = 1
INVARIANTS StableIdentity
CHECK_DEADLOCK FALSE
