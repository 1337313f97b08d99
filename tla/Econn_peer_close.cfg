\* A reliable FIFO transport that never fails a send: does the peer of a
\* record that closed always close too?
CONSTANTS
    a = a
    b = b
    NoId = NoId
    Endpoints <- MCEndpoints
    Ident <- MCIdent
    TimeoutSetup = 30000
    FailingSends = {}
    AppErrors = {"OK", "EAPP"}
    AppAfterClose = FALSE
    UpdateAnyState = FALSE
    Reorder = FALSE
    Lossy = FALSE
    MaxInFlight = 2
    Duplicating = FALSE
    MaxOffers = 2
    MaxCalls = 1
SPECIFICATION Spec
PROPERTY PeerCloses
\* Both records closed with nothing in flight is the end of the call.
CHECK_DEADLOCK FALSE
