SPECIFICATION FairSpec
CONSTANTS
    Requests <- MCRequests
    Segments <- MCSegments
    Base <- MCBase
    Empty = ""
    Host = "provider"
    DotSegments = {".."}
    Parents = {".."}
    Undecodable = {"%2F"}
    Schemes = {"models:list"}
    BehindOwn <- MCBehindOwn
    Capacity = 3
    MAX_REQUEST_LINE_BYTES = 2
    MAX_HEADER_BYTES = 5
    MAX_HEADER_COUNT = 2
    MAX_BODY_BYTES = 4
INVARIANTS TypeOK VerdictIsJustified ServerReadsTheSame BaseMayBeLeftOut
PROPERTIES DecidesWithoutMore
CHECK_DEADLOCK FALSE
