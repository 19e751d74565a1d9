\* One client: resolve /a/a, remove /a, make /a again, create /a/a.
CONSTANTS
    a = a
    b = b
    c1 = c1
    c2 = c2
    Names <- MCOneName
    Clients <- MCOneClient
    DirBit = 100
    FdStart = 3
    MaxRetries = 0
    RetryKinds = {}
    MaxOps = 5
    MaxFds = 2
    Counts = {23, 48}
    RegVals <- MCRegVals
SPECIFICATION Spec
INVARIANT CreatedFileReachable
CHECK_DEADLOCK FALSE
