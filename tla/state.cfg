SPECIFICATION Spec
CONSTANTS
    w1 = w1
    w2 = w2
    alice = alice
    r1 = r1
    r2 = r2
    None = None
    Whole = Whole
    Daemons <- TwoDaemons
    Operators <- OneOperator
    Clients <- AllClients
    Repos <- TwoRepos
    InitialTasks <- StateTasks
    MaxTasks = 2
    MaxTries = 2
    Pids <- TwoPids
    FirstPid = 1
    Classes <- OneClass
    Bounds <- StateBounds
INVARIANTS TypeOK NoOrphan LastLook OneRunner
PROPERTIES AtomicStoreSpec DoneIsFinal
CHECK_DEADLOCK FALSE
