\* Violated: see the README, "What the runs show".
SPECIFICATION ForkSpec
CONSTANTS
    N = 3
    Setups <- AllUp
    MaxRound = 5
    MaxTimeouts = 8
    MaxRestarts = 0
INVARIANT Agreement
CHECK_DEADLOCK FALSE
