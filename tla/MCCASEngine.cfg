SPECIFICATION FairSpec
CONSTANTS
    daemon = daemon
    proxy = proxy
    x = x
    y = y
    Writers <- MCWriters
    Blobs <- MCBlobs
    K = 2
INVARIANTS
    TypeOK
    QuiescentIsWhole
PROPERTIES
    StoredStays
    AckedBecomesWhole
