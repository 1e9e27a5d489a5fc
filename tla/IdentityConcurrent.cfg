SPECIFICATION Spec
CONSTANTS
    MaxRuns = 2
    MaxAlive = 2
    MaxOverlooked = 0
    MaxPowerLosses = 0
INVARIANTS StableIdentity
CHECK_DEADLOCK FALSE
