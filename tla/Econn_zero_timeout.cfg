\* conf.timeout_setup = 0: econn_start sends SETUP and moves to
\* PENDING_OUTGOING before it returns EPROTO without arming a timer.
CONSTANTS
    a = a
    b = b
    NoId = NoId
    Endpoints <- MCEndpoints
    Ident <- MCIdent
    TimeoutSetup = 0
    FailingSends = {"CANCEL", "HANGUP", "PROPSYNC"}
    AppErrors = {"OK", "EAPP"}
    AppAfterClose = FALSE
    UpdateAnyState = FALSE
    Reorder = FALSE
    Lossy = FALSE
    MaxInFlight = 2
    Duplicating = FALSE
    MaxOffers = 2
    MaxCalls = 1
SPECIFICATION Spec
PROPERTY WaitingEnds
\* Both records closed with nothing in flight is the end of the call.
CHECK_DEADLOCK FALSE
