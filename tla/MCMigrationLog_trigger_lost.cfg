\* One region that splits once; the split thread may run a whole log round
\* between a handler's body and its log_op.
CONSTANTS
    n1 = n1
    n2 = n2
    Names <- MCNames
    Regions = {0}
    Threshold = 1
    LogAlmostDone = 2
    BatchMax = 1
    MaxOps = 4
    MaxSplits = 1
SPECIFICATION Spec
INVARIANT NoOpBehindFinalBatch
CHECK_DEADLOCK FALSE
