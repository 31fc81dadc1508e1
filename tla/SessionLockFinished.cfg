SPECIFICATION Spec
CONSTANTS
    Locks = {l1}
    Objs = {o1}
    NULL = NULL
    Other = Other
INVARIANT FinishedMeansLockFailed
