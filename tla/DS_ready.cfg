SPECIFICATION Spec
CONSTANTS
    Messages <- OneMessage
    Text <- Texts
    News <- NoNews
    Ids = {"pack"}
    MAX_TRY = 2
    WORD = 4
    MAX_CALLS = 2
    NDEBUG = TRUE
PROPERTIES PackageReadyArrives
CHECK_DEADLOCK FALSE
