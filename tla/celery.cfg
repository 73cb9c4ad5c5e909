SPECIFICATION FairSpec
CONSTANTS
    t1 = t1
    w1 = w1
    w2 = w2
    Ids = {t1}
    Workers = {w1, w2}
    Slots = {1, 2, 3}
    MaxDownloadRetries = 1
    MaxTransferRetries = 1
    Bounds <- MCBounds
INVARIANTS TypeOK OneDownload NotForgotten DoneIsStored
PROPERTIES DeletedForGood Settles
CHECK_DEADLOCK FALSE
