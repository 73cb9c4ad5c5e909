SPECIFICATION SplitSpec
CONSTANTS
    c1 = c1
    c2 = c2
    d1 = d1
    w1 = w1
    fa = fa
    fb = fb
    fc = fc
    fd = fd
    Jobs <- TwoChildren
    Dirs <- OneDir
    DirOf <- SameDir
    PartOf <- PartNumbers
    InitialRepo <- ChildRepo
    UpdatedRepo <- ChildRepo
    Repo <- ThreeFiles
    Workers = {w1}
    Sizes = {1, 2, 4}
    BatchSize = 1
    MaxBatchAttempts = 1
    MaxRuns = 1
    Faults = {"list"}
INVARIANTS PartitionExact SumsExact PartitionBalanced ChildStaysInPart
PROPERTIES SplitEnds
CHECK_DEADLOCK FALSE
