SPECIFICATION Spec
CONSTANTS
    p1 = p1
    p2 = p2
    f1 = f1
    f2 = f2
    w1 = w1
    w2 = w2
    w3 = w3
    Garbage = Garbage
    Packages = {p1}
    Files = {f1}
    Workers = {w1, w2}
    Size <- OneSize
    LocalFile <- OneFile
    Request <- TwoRequests
    Leftovers <- NoLeftovers
    Damaged = {p1}
    ErrorBodies = {0}
    RANGES = TRUE
    NDEBUG = TRUE
    STEP = 1
    MAX_REPEAT_COUNT = 2
    OnePerFile = TRUE
PROPERTIES DoneIsVerified
