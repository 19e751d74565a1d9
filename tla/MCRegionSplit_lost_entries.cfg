CONSTANTS
    da = da
    db = db
    dc = dc
    n1 = n1
    NumWorkers = 2
    H = 4
    Dirs <- MCDirs
    Names <- MCNames
    DirHash <- MCDirHash
    DirOf <- MCDirOf
    JCH <- MCJCH2
    MaxRegionId = 11
    Threshold = 1
    LogAlmostDone = 2
    BatchMax = 1
    Ops = {"mknod", "unlink", "mkdir", "rmdir", "stat", "readdir"}
    MaxOps = 4
SPECIFICATION Spec
INVARIANT SplitPreservesEntries
CHECK_DEADLOCK FALSE
