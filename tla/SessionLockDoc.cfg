SPECIFICATION FairSpec
CONSTANTS
    Locks = {l1, l2}
    Objs = {o1, o2}
    NULL = NULL
    Other = Other
INVARIANTS NoProtocolError ListenerIsAlive LockedIsTrue Unlockable StrandedOnlyByCrash AnswerIsDue ServiceInvariant
PROPERTIES FinishedIsLast ImplementsService LockIsAnswered UnlockTakesEffect SyncReturns
