SPECIFICATION FairSpec
CONSTANTS
    f1 = f1
    f2 = f2
    f3 = f3
    f4 = f4
    QueueMaxSize = 1
    UploadConcurrency = 2
    PipeCapacity = 2
    Batch <- FourFiles
    Size <- Sizes
    ChunkMaxBytes = 2
    ChunkMaxFiles = 2
    DiskCapacity = 4
    DiskFreeMin = 2
    OtherMax = 1
    MaxAttempts = 2
    Faults <- FaultKinds
INVARIANTS IInv Accounted NoLoss ProcessReaped DownloadFits NeverStuck
PROPERTIES StagedCopySpec EndsOrStarves
CHECK_DEADLOCK FALSE
