\* Two clients, one name (paths /a and /a/a), four syscalls, two busy or
\* stale answers; getdents buffers of less than one record and of two.
CONSTANTS
    a = a
    b = b
    c1 = c1
    c2 = c2
    Names <- MCOneName
    Clients <- MCClients
    DirBit = 100
    FdStart = 3
    MaxRetries = 2
    RetryKinds = {"busy", "stale"}
    MaxOps = 4
    MaxFds = 2
    Counts = {23, 48}
    RegVals <- MCRegVals
SPECIFICATION Spec
INVARIANT TypeOK
INVARIANT GetdentsWithinBuffer
SYMMETRY ClientSymmetry
CHECK_DEADLOCK FALSE
