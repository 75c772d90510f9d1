SPECIFICATION Spec
CONSTANTS
    web = web
    mx2 = mx2
    daemon = daemon
    proxy = proxy
    tool = tool
    Dids = {web, mx2}
    Method <- MCMethod
    Ttl = 2
    Local = Local
    Fallback = Fallback
    Empty = Empty
    NoDoc = NoDoc
    NoEntry = NoEntry
    NoCall = NoCall
    MaxTime = 3
    MaxVersions = 2
    Procs = {daemon, proxy, tool}
    Absent = Absent
    Broken = Broken
    MaxKeys = 3
CHECK_DEADLOCK FALSE
INVARIANTS
    DRTypeOK
    AnswerIsRecent
    TMTypeOK
    PairMatches
    OneIdentity
