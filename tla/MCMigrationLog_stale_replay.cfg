\* A region splits twice: the second split's log starts again at id 0 over the first one's.
CONSTANTS
    n1 = n1
    n2 = n2
    Names <- MCNames
    Regions = {0}
    Threshold = 1
    LogAlmostDone = 2
    BatchMax = 2
    MaxOps = 7
    MaxSplits = 2
SPECIFICATION Spec
PROPERTY LogRefinement
CHECK_DEADLOCK FALSE
