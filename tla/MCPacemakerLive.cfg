\* Partial synchrony, at most one member of three is down, either kind of genesis.
SPECIFICATION SyncSpec
CONSTANTS
    N = 3
    Setups <- AnySetup
    MaxRound = 8
    MaxTimeouts = 20
    MaxRestarts = 0
PROPERTY EveryoneCommits
CHECK_DEADLOCK FALSE
