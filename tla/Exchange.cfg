SPECIFICATION FairSpec
CONSTANTS
    MaxChunks = 4
    Window = 3
INVARIANTS TypeOK SingleResponse CompleteMeansComplete WholeRequestsOnly RefusedMeansNotAsked SilentOnlyWhenTunnelFails
PROPERTIES ClientFinishes ServerWaitsOnlyForBody ImplementsAbstractExchange
CHECK_DEADLOCK FALSE
