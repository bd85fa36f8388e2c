\* Two members, one of which restarts once, at any point.
SPECIFICATION Spec
CONSTANTS
    N = 2
    Setups <- AllUp
    MaxRound = 4
    MaxTimeouts = 0
    MaxRestarts = 1
INVARIANTS
    CertificatesBacked
    CommittedHasCertifiedChild
PROPERTY CommitsOnlyExtend
CHECK_DEADLOCK FALSE
