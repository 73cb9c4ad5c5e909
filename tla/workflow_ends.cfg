SPECIFICATION FairSpec
CONSTANTS
    j1 = j1
    j2 = j2
    j3 = j3
    d1 = d1
    w1 = w1
    w2 = w2
    fa = fa
    fb = fb
    fc = fc
    fd = fd
    fe = fe
    Jobs <- ThreeJobs
    Dirs <- OneDir
    DirOf <- OneName
    PartOf <- OneChild
    Workers = {w1}
    InitialRepo <- Repos
    UpdatedRepo <- Grown
    BatchSize = 1
    MaxBatchAttempts = 1
    MaxRuns = 1
    Faults <- FaultKinds
INVARIANTS TypeOK
PROPERTIES WorkflowEnds
CHECK_DEADLOCK FALSE
