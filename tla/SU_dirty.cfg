SPECIFICATION LiveSpec
CONSTANTS
    p1 = p1
    p2 = p2
    f1 = f1
    f2 = f2
    w1 = w1
    w2 = w2
    w3 = w3
    Garbage = Garbage
    Packages = {p1}
    Files = {f1}
    Workers = {w1, w2}
    Size <- OneSize
    LocalFile <- OneFile
    Request <- TwoRequests
    Leftovers <- AnyLeftovers
    Damaged = {}
    ErrorBodies = {0, 1, 4}
    RANGES = FALSE
    NDEBUG = TRUE
    STEP = 2
    MAX_REPEAT_COUNT = 2
    OnePerFile = TRUE
PROPERTIES GoodFileIsKept Answered
