\* Each endpoint may destroy its record after closeh and allocate a second
\* one for a new call, over a transport that reorders and loses messages:
\* what is left of the first call never ends or feeds the second.
CONSTANTS
    a = a
    b = b
    NoId = NoId
    Endpoints <- MCEndpoints
    Ident <- MCIdent
    TimeoutSetup = 30000
    FailingSends = {}
    AppErrors = {"OK"}
    AppAfterClose = FALSE
    UpdateAnyState = FALSE
    Reorder = TRUE
    Lossy = TRUE
    MaxInFlight = 2
    Duplicating = FALSE
    MaxOffers = 1
    MaxCalls = 2
SPECIFICATION Spec
INVARIANTS
    TypeOK
    NoCallbackAfterClose
    ClosedIsQuiet
    CancelFromAdoptedSession
    OfferFromAdoptedSession
    HangupFromEndedCall
\* Both records closed with nothing in flight is the end of the call.
CHECK_DEADLOCK FALSE
