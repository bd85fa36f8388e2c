SPECIFICATION Spec
CONSTANTS
    t1 = t1
    t2 = t2
    Marks = {1, 2}
    Tx <- MCTx
    txs <- MCTxs
    MaxNumber = 3
    MaxCrashes = 1
    MaxFailures = 1
    MaxExecuted = 4
    AppKeeps = TRUE
CHECK_DEADLOCK FALSE
INVARIANTS TrunkIndexed TxLookupExact StoredWasExecuted AppFollowsChain
PROPERTY ReadersSeeLog
