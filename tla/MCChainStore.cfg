SPECIFICATION StoreSpec
CONSTANTS
    t1 = t1
    t2 = t2
    Marks = {1, 2}
    Tx <- MCTx
    txs <- MCTxs
    MaxNumber = 3
    MaxCrashes = 1
    MaxFailures = 1
CHECK_DEADLOCK FALSE
INVARIANTS ValidatorSetsFirst StoredClosed BestIsPreferred ForkIsExact
PROPERTY BestNeverGoesBack
