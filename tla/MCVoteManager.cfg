SPECIFICATION Spec
CONSTANTS
    N = 4
    Keys = {k1, k2}
    MaxEra = 1
INVARIANTS CertBacked OneCertPerKey SealMatchesVotes CertsIntersect
SYMMETRY KeySymmetry
CHECK_DEADLOCK FALSE
