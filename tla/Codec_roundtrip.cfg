\* Encode then decode, every message carrying the fields its type needs.
CONSTANTS
    Absent = Absent
    NotJson = NotJson
    ZeroType = ZeroType
    NoMsg = NoMsg
    NoStr = NoStr
    NoResult = NoResult
    Times <- MCTimes
    WithoutProps = FALSE
    UintWidth <- MCUintWidth
SPECIFICATION Spec
\* One conversion per behaviour: the system stops after the decode.
CHECK_DEADLOCK FALSE
INVARIANTS
    TypeOK
    RoundTrip
    VersionRejected
    AgeWithinClock
