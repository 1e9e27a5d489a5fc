SPECIFICATION Spec
CONSTANTS
    MaxRuns = 5
    MaxAlive = 1
    MaxOverlooked = 2
    MaxPowerLosses = 2
INVARIANTS TypeOK StableUnlessOverlooked FailsOnlyAfterAFailure InstalledKeyIsComplete
CHECK_DEADLOCK FALSE
