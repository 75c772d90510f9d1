SPECIFICATION Spec
CONSTANTS
    daemon = daemon
    proxy = proxy
    x = x
    y = y
    Writers <- MCDaemonOnly
    Blobs <- MCOneBlob
    K = 2
INVARIANT
    AckedIsWhole
