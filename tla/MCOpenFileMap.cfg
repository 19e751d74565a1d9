\* One caller thread, three descriptors, five adds: fd_idx wraps at least
\* once while descriptors are still open and once after the table empties.
CONSTANTS
    Threads = {t1}
    FdStart = 3
    FdMax = 6
    MaxAdds = 5
SPECIFICATION Spec
INVARIANT TypeOK
INVARIANT HandedFdsMapped
INVARIANT UncheckedBelowIdx
CHECK_DEADLOCK FALSE
