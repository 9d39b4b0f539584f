SPECIFICATION LiveSpec
CONSTANTS
    PC_SIMULATION = FALSE
    ScriptNodes = {"IDCM", "IEM/DVR"}
    Script <- Tasks
    Choices = {"Rollback", "Distribute"}
    MAX_TRY = 2
    MAX_TURNS = 2
    MAX_NEWS = 1
    MAX_THREADS = 2
    PARTITIONS = 1
    NDEBUG = TRUE
INVARIANTS TypeOK ErrorsAreHonest PhasesInOrder NewsNamesItsBox NewsIsTrue AnsweredIsOver
PROPERTIES SessionReturns
CHECK_DEADLOCK FALSE
