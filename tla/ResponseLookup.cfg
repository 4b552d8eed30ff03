SPECIFICATION Spec
CONSTANTS
    NULL = NULL
    Calls <- MCLookup
    U32Max = 175
    GrowBy = {1, 4}
    WriteErrnos = {"EINTR", "EINVAL"}
    ShortWrites = {0, 17}
INVARIANTS TypeOK FrameIsWhole NoAbort SuccessMeansDelivered FrameReadsBack HelpersDecide
PROPERTY KeepsContract
CHECK_DEADLOCK FALSE
