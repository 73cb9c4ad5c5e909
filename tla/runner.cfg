SPECIFICATION FairSpec
CONSTANTS
    a = a
    b = b
    c = c
    hidden = hidden
    dir = dir
    Root = Root
    Files = {a, b, c, hidden}
    Hidden = {hidden}
    Empty = {c}
    DirOf <- MCDirOf
    MinFilesForTar = 2
    Bounds <- MCBounds
INVARIANTS TypeOK DoneIsStored ProgressSound
PROPERTIES StagedUntilStored EventuallyDone
CHECK_DEADLOCK FALSE
