SPECIFICATION LiveSpec
CONSTANTS
    Messages <- AllMessages
    Text <- Texts
    News <- TwoStatuses
    Ids = {"pack"}
    MAX_TRY = 1
    WORD = 2
    MAX_CALLS = 2
    NDEBUG = TRUE
INVARIANTS TypeOK TrueIsEarned AnsweredIsOver 
PROPERTIES NewsInOrder DmcReturns
CHECK_DEADLOCK FALSE
