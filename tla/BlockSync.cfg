SPECIFICATION FairSpec
CONSTANTS
    Outcomes = {"answer", "error"}
    MaxBatch = 2
    StreamCap = 1
    MaxBlock = 3
    MaxDownloads = 2
INVARIANTS InOrderUnlessOverlap ExecutedOncePerCaller CertificateNotOlder
PROPERTY DownloadEnds
CHECK_DEADLOCK FALSE
