SPECIFICATION Spec
CONSTANTS
    NULL = NULL
    Slots = {s1}
    Requests <- MCRequests
    ForgedOps = {"FLUSH"}
    BufSize = 24
    Caps = {8, 24}
    U32Max = 255
    MaxReads = 2
INVARIANTS TypeOK DecodedIsSent ViewsStayInFrame IdentifiesRequest BadMsgMeansMalformed
PROPERTY FailureLeavesStructs
