CONSTANTS
    c1 = c1
    c2 = c2
    Protos = {"tcp", "udp"}
    Conns <- MCConns
    Formats = {"lf"}
    Bytes <- MCBytes
    MaxBytes = 2
    MaxStarts = 2
    Timeout = TRUE
    ListenFails = TRUE
    ReadFails = TRUE
    RefMsgs <- MCRefMsgs
    IntBits = 8
SPECIFICATION Spec

INVARIANT StoppedClean SplitMatchesFraming
PROPERTY TcpStopReturns
