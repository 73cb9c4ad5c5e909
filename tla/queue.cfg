SPECIFICATION FairSpec
CONSTANTS
    t1 = t1
    t2 = t2
    q1 = q1
    q2 = q2
    Tasks <- OneTask
    RepoOf <- SameRepo
    Requests <- OneRequest
    SharedDb = FALSE
    Ops <- AllOps
    Faults = {"start", "cancel"}
INVARIANTS TypeOK
PROPERTIES DeletedForGood PauseSettles OrphanHealed
CHECK_DEADLOCK FALSE
