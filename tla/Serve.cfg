SPECIFICATION Spec
CONSTANTS
    NULL = NULL
    Threads = {t1, t2}
    Ids <- MCIds
    Ops = {"DELETE_LAYER", "SET_VALUE"}
    MaxCrashes = 2
INVARIANTS TypeOK AnswerIsForRequest OkMeansStored SequencesUnique AnsweredOnce
PROPERTY ServesClients
