SPECIFICATION Spec
CONSTANTS
    NULL = NULL
    Calls <- MCEnum
    U32Max = 175
    GrowBy = {1, 4}
    WriteErrnos = {"EINTR", "EINVAL"}
    ShortWrites = {0, 17}
INVARIANTS FrameReadsBack HelpersDecide
PROPERTY KeepsContract
CHECK_DEADLOCK FALSE
