SPECIFICATION LiveSpec
CONSTANTS
    Messages <- OneMessage
    Text <- Texts
    News <- NoNews
    Ids = {"pack"}
    MAX_TRY = 2
    WORD = 4
    MAX_CALLS = 1
    NDEBUG = TRUE
PROPERTIES DlcWaitEnds
CHECK_DEADLOCK FALSE
