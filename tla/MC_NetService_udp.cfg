CONSTANTS
    c1 = c1
    c2 = c2
    Protos = {"udp"}
    Conns <- MCConns
    Formats = {"lf"}
    Bytes <- MCBytes
    MaxBytes = 2
    MaxStarts = 2
    Timeout = TRUE
    ListenFails = TRUE
    ReadFails = TRUE
    RefMsgs <- MCRefMsgs
    IntBits = 8
SPECIFICATION Spec

PROPERTY StopReturns
