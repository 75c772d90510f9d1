SPECIFICATION Spec
CONSTANTS
    m1 = m1
    m2 = m2
    m3 = m3
    m4 = m4
    m5 = m5
    Mails <- MCMails
    Pairs <- MCPairs
    PairOf <- MCPairOf
    QuotaLimit = 2
    Hour = 2
    MaxTime = 4
    MaxBoots = 1
CHECK_DEADLOCK FALSE
SYMMETRY Symmetry
INVARIANTS
    TypeOK
    WindowQuota
PROPERTIES
    RefusedOnlyWhenFull
    QuotaSpec
