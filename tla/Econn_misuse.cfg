\* The application keeps calling the API after closeh and outside the
\* documented preconditions, over a duplicating transport: closeh still
\* fires at most once.
CONSTANTS
    a = a
    b = b
    NoId = NoId
    Endpoints <- MCEndpoints
    Ident <- MCIdent
    TimeoutSetup = 30000
    FailingSends = {"CANCEL", "HANGUP", "PROPSYNC"}
    AppErrors = {"OK"}
    AppAfterClose = TRUE
    UpdateAnyState = TRUE
    Reorder = FALSE
    Lossy = FALSE
    MaxInFlight = 1
    Duplicating = TRUE
    MaxOffers = 2
    MaxCalls = 1
SPECIFICATION Spec
INVARIANT CloseAtMostOnce
\* Both records closed with nothing in flight is the end of the call.
CHECK_DEADLOCK FALSE
