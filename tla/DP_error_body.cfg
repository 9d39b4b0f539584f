SPECIFICATION Spec
CONSTANTS
    p1 = p1
    p2 = p2
    f1 = f1
    f2 = f2
    w1 = w1
    w2 = w2
    w3 = w3
    Garbage = Garbage
    Packages = {p1, p2}
    Files = {f1, f2}
    Workers = {w1}
    Size <- TwoSizes
    LocalFile <- OwnFiles
    Request <- OneRequest
    Leftovers <- NewFiles
    Damaged = {}
    ErrorBodies = {0, 1}
    RANGES = TRUE
    NDEBUG = TRUE
    STEP = 1
    OnePerFile = TRUE
    LONGEST = 4
PROPERTIES TrueMeansGood
