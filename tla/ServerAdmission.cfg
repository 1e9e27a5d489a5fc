SPECIFICATION FairSpec
CONSTANTS
    Connections = {c1, c2, c3}
    MaxConnections = 2
    MaxStreams = 1
    MaxArrivals = 2
INVARIANTS TypeOK PermitsAreAccountedFor
PROPERTIES RefusesOnlyWhenFull EverythingIsDecided ShutdownDrains
CHECK_DEADLOCK FALSE
