\* A reliable transport that may reorder: the glare loser's stale
\* UPDATE(req) reaches the winner after the glare is resolved.
CONSTANTS
    a = a
    b = b
    NoId = NoId
    Endpoints <- MCEndpoints
    Ident <- MCIdent
    TimeoutSetup = 30000
    FailingSends = {"CANCEL", "HANGUP", "PROPSYNC"}
    AppErrors = {"OK", "EAPP"}
    AppAfterClose = FALSE
    UpdateAnyState = FALSE
    Reorder = TRUE
    Lossy = FALSE
    MaxInFlight = 2
    Duplicating = FALSE
    MaxOffers = 2
    MaxCalls = 1
SPECIFICATION Spec
INVARIANT OfferAnswerAgreement
\* Both records closed with nothing in flight is the end of the call.
CHECK_DEADLOCK FALSE
