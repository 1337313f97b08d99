\* A record whose setup timed out is destroyed and the endpoint calls
\* again, over a reliable FIFO transport whose sends never fail: the peer's
\* answer to the first record's offer reaches the second record, and
\* handle_setup_response takes it for the answer to the new offer.
CONSTANTS
    a = a
    b = b
    NoId = NoId
    Endpoints <- MCEndpoints
    Ident <- MCIdent
    TimeoutSetup = 30000
    FailingSends = {}
    AppErrors = {"OK"}
    AppAfterClose = FALSE
    UpdateAnyState = FALSE
    Reorder = FALSE
    Lossy = FALSE
    MaxInFlight = 2
    Duplicating = FALSE
    MaxOffers = 1
    MaxCalls = 2
SPECIFICATION Spec
INVARIANTS
    AnswerMatchesOffer
\* Both records closed with nothing in flight is the end of the call.
CHECK_DEADLOCK FALSE
