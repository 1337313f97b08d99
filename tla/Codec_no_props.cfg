\* SETUP and UPDATE sent without props: does the peer decode them?
CONSTANTS
    Absent = Absent
    NotJson = NotJson
    ZeroType = ZeroType
    NoMsg = NoMsg
    NoStr = NoStr
    NoResult = NoResult
    Times <- MCTimes
    WithoutProps = TRUE
    UintWidth <- MCUintWidth
SPECIFICATION Spec
\* One conversion per behaviour: the system stops after the decode.
CHECK_DEADLOCK FALSE
INVARIANT
    RoundTrip
