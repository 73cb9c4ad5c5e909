SPECIFICATION Spec
CONSTANTS
    t1 = t1
    t2 = t2
    q1 = q1
    q2 = q2
    Tasks <- OneTask
    RepoOf <- SameRepo
    Requests <- OneRequest
    SharedDb = FALSE
    Ops <- Restarts
    Faults = {}
INVARIANTS PausedStaysPaused
CHECK_DEADLOCK FALSE
