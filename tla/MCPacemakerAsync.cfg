\* Two live members of any three: full asynchrony, five rounds, five timeouts.
SPECIFICATION Spec
CONSTANTS
    N = 3
    Setups <- OneDown
    MaxRound = 5
    MaxTimeouts = 5
    MaxRestarts = 0
INVARIANTS
    CertificatesBacked
    TimeoutCertsBacked
    CommittedHasCertifiedChild
    ForkNeedsDoubleVotes
    OneProposalPerRound
    RoundsJustified
PROPERTY QCHighMonotone
CHECK_DEADLOCK FALSE
