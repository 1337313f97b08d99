\* Two endpoints over a reliable FIFO transport; only CANCEL, HANGUP and
\* PROPSYNC sends may fail (their errors are only logged by econn.c).
CONSTANTS
    a = a
    b = b
    NoId = NoId
    Endpoints <- MCEndpoints
    Ident <- MCIdent
    TimeoutSetup = 30000
    FailingSends = {"CANCEL", "HANGUP", "PROPSYNC"}
    AppErrors = {"OK", "EAPP"}
    AppAfterClose = FALSE
    UpdateAnyState = FALSE
    Reorder = FALSE
    Lossy = FALSE
    MaxInFlight = 2
    Duplicating = FALSE
    MaxOffers = 2
    MaxCalls = 1
SPECIFICATION Spec
INVARIANTS
    TypeOK
    NoCallbackAfterClose
    ClosedIsQuiet
    OfferAnswerAgreement
    AnswerMatchesOffer
PROPERTIES
    WaitingEnds
    CallRefinement
\* Both records closed with nothing in flight is the end of the call.
CHECK_DEADLOCK FALSE
