SPECIFICATION FairSpec
CONSTANTS
    MaxUnits = 2
    Window = 1
INVARIANTS TypeOK RequestIsAnswered HalfCloseIsKept
PROPERTIES ImplementsAbstractSession HandshakesEnd SessionEnds
CHECK_DEADLOCK FALSE
