SPECIFICATION Spec
CONSTANTS
    t1 = t1
    t2 = t2
    Marks = {1}
    Tx <- MCTx
    txs <- MCTxs
    MaxNumber = 2
    MaxCrashes = 1
    MaxFailures = 0
    MaxExecuted = 4
    AppKeeps = FALSE
CHECK_DEADLOCK FALSE
INVARIANT AppSynced
