\* One region that splits once: several log rounds, publication at
\* AlmostDone, and requests in flight across every round.
CONSTANTS
    n1 = n1
    n2 = n2
    Names <- MCNames
    Regions = {0}
    Threshold = 1
    LogAlmostDone = 2
    BatchMax = 1
    MaxOps = 6
    MaxSplits = 1
SPECIFICATION Spec
INVARIANT TypeOK
PROPERTY LogRefinement
\* the client's requests are bounded, so the system stops
CHECK_DEADLOCK FALSE
