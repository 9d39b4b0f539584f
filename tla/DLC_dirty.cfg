SPECIFICATION LiveSpec
CONSTANTS
    p1 = p1
    p2 = p2
    p3 = p3
    f1 = f1
    f2 = f2
    f3 = f3
    w1 = w1
    w2 = w2
    Garbage = Garbage
    None = None
    Packages = {p1, p2, p3}
    Files = {f1, f2, f3}
    Workers = {w1, w2}
    Size <- ThreeSizes
    LocalFile <- ThreeFiles
    Manifest <- BothAndThird
    Leftovers <- AnyLeftovers
    Damaged = {}
    ErrorBodies = {0, 2}
    RANGES = FALSE
    NDEBUG = TRUE
    STEP = 1
    MAX_REPEAT_DOWNLOAD_COUNT = 2
    OnePerFile = TRUE
INVARIANTS TypeOK EarlierPackagesStayGood LoopAssertionsHold
PROPERTIES PackageReadyIsTrue Delivers Concluded
