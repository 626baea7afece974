\* One stream and one packet address; every failure the code handles.
SPECIFICATION Spec
CONSTANTS
    SAddrs = {s1}
    PAddrs = {p1}
    MaxListens = 2
    MaxUids = 3
    MaxCmds = 4
    FileFails = TRUE
    WriteFails = TRUE
    AcceptFails = TRUE
    NoAddr = NoAddr
INVARIANTS TypeOK FileOnlyWithConn ListenerDisposable
PROPERTIES ClosedOnRequest
