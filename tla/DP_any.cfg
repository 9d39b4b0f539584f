SPECIFICATION Spec
CONSTANTS
    p1 = p1
    p2 = p2
    f1 = f1
    f2 = f2
    w1 = w1
    w2 = w2
    w3 = w3
    Garbage = Garbage
    Packages = {p1, p2}
    Files = {f1, f2}
    Workers = {w1, w2, w3}
    Size <- TwoSizes
    LocalFile <- OwnFiles
    Request <- ThreeRequests
    Leftovers <- AnyLeftovers
    Damaged = {}
    ErrorBodies = {0, 1, 4}
    RANGES = FALSE
    NDEBUG = TRUE
    STEP = 1
    OnePerFile = TRUE
    LONGEST = 4
INVARIANTS TypeOK
PROPERTIES FreshTrueMeansGood
