SPECIFICATION FairSpec
CONSTANTS
    a = a
    b = b
    Tx <- MCTx
    Watched = {a}
    Scopes <- MCScopes
INVARIANTS AdditionNotForgotten RepeatedOnlyFromStaleSnapshot CachedIsPending
PROPERTY SettledLeavesPool
CHECK_DEADLOCK FALSE
