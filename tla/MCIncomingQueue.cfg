SPECIFICATION FairSpec
CONSTANTS
    Msgs <- MCMsgs
    Copy <- MCCopy
    Msg <- MCMsg
    EpochOf <- MCEpochOf
    Signed <- MCSigned
    Decodable <- MCMsgs
    Members = {1}
    QueueCap = 2
    CacheSize = 1
    MaxEpoch = 1
    MaxDelays = 1
INVARIANTS SendHasRoom DropWaitsOnlyAfterDrain FirstSeenInOrder AcceptedOnceWhileCached
           AcceptedWasChecked
PROPERTIES AcceptedIsSeenOrDropped EarlyMessageReconsidered
CHECK_DEADLOCK FALSE
