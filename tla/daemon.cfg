SPECIFICATION FairSpec
CONSTANTS
    w1 = w1
    w2 = w2
    alice = alice
    r1 = r1
    r2 = r2
    None = None
    Whole = Whole
    Daemons <- OneDaemon
    Operators <- OneOperator
    Clients <- OneDaemonClients
    Repos <- TwoRepos
    InitialTasks <- DaemonTasks
    MaxTasks = 1
    MaxTries = 2
    Pids <- TwoPids
    FirstPid = 1
    Classes <- TwoClasses
    Bounds <- DaemonBounds
PROPERTIES Settles
CHECK_DEADLOCK FALSE
