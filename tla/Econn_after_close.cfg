\* The application keeps calling the API on a record after closeh (it
\* should destroy it there); econn_update_req still works on it.
CONSTANTS
    a = a
    b = b
    NoId = NoId
    Endpoints <- MCEndpoints
    Ident <- MCIdent
    TimeoutSetup = 30000
    FailingSends = {"CANCEL", "HANGUP", "PROPSYNC"}
    AppErrors = {"OK", "EAPP"}
    AppAfterClose = TRUE
    UpdateAnyState = TRUE
    Reorder = FALSE
    Lossy = FALSE
    MaxInFlight = 2
    Duplicating = FALSE
    MaxOffers = 2
    MaxCalls = 1
SPECIFICATION Spec
INVARIANT NoCallbackAfterClose
\* Both records closed with nothing in flight is the end of the call.
CHECK_DEADLOCK FALSE
