\* transp_send of a SETUP or UPDATE may fail: econn_send_setup leaves the
\* record in TERMINATING without arming a timer or calling closeh.
CONSTANTS
    a = a
    b = b
    NoId = NoId
    Endpoints <- MCEndpoints
    Ident <- MCIdent
    TimeoutSetup = 30000
    FailingSends = {"SETUP", "UPDATE", "CANCEL", "HANGUP", "PROPSYNC"}
    AppErrors = {"OK", "EAPP"}
    AppAfterClose = FALSE
    UpdateAnyState = FALSE
    Reorder = FALSE
    Lossy = FALSE
    MaxInFlight = 2
    Duplicating = FALSE
    MaxOffers = 2
    MaxCalls = 1
SPECIFICATION Spec
PROPERTY TerminatingCloses
\* Both records closed with nothing in flight is the end of the call.
CHECK_DEADLOCK FALSE
