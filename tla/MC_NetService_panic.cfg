CONSTANTS
    c1 = c1
    c2 = c2
    Protos = {"tcp"}
    Conns <- MCConns
    Formats = {"auto"}
    Bytes <- MCSignedBytes
    MaxBytes = 3
    MaxStarts = 2
    Timeout = TRUE
    ListenFails = TRUE
    ReadFails = TRUE
    RefMsgs <- MCRefMsgs
    IntBits = 8
SPECIFICATION Spec

INVARIANT NoPanic
CHECK_DEADLOCK FALSE
