SPECIFICATION SplitSpec
CONSTANTS
    c1 = c1
    c2 = c2
    d1 = d1
    w1 = w1
    fa = fa
    fb = fb
    fc = fc
    fd = fd
    Jobs <- TwoChildren
    Dirs <- OneDir
    DirOf <- SameDir
    PartOf <- PartNumbers
    InitialRepo <- ChildRepo
    UpdatedRepo <- ChildRepo
    Repo <- ThreeFiles
    Workers = {w1}
    Sizes = {1}
    BatchSize = 2
    MaxBatchAttempts = 3
    MaxRuns = 1
    Faults = {}
INVARIANTS ChildDoneIsStored
CHECK_DEADLOCK FALSE
