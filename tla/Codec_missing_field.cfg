\* Arbitrary JSON objects from the network: is every incomplete one rejected?
CONSTANTS
    Absent = Absent
    NotJson = NotJson
    ZeroType = ZeroType
    NoMsg = NoMsg
    NoStr = NoStr
    NoResult = NoResult
    Times <- MCTimes
    WithoutProps = FALSE
    UintWidth <- MCUintWidth
SPECIFICATION Spec
\* One conversion per behaviour: the system stops after the decode.
CHECK_DEADLOCK FALSE
INVARIANT
    MissingFieldRejected
