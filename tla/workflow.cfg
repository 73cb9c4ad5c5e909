SPECIFICATION Spec
CONSTANTS
    j1 = j1
    j2 = j2
    j3 = j3
    d1 = d1
    w1 = w1
    w2 = w2
    fa = fa
    fb = fb
    fc = fc
    fd = fd
    fe = fe
    Jobs <- OneJob
    Dirs <- OneDir
    DirOf <- OneJobDir
    PartOf <- NoPart
    Workers <- TwoWorkers
    InitialRepo <- ThreeFiles
    UpdatedRepo <- ThreeFiles
    BatchSize = 2
    MaxBatchAttempts = 2
    MaxRuns = 3
    Faults <- AnyButUpdate
INVARIANTS DoneIsStored ProgressSound
PROPERTIES NeverForgets
CHECK_DEADLOCK FALSE
