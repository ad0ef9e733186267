\* Violation run: ShutdownIsQuiet.
CONSTANTS
    c1 = c1
    Ids <- MCIds
    Window = 2
    MaxPayload = 2
    MaxChunk = 2
    MethodLen = 1
    ConnectHdrLen = 1
    ConnectLen = 2
    MaxOpens = 1
    MaxData = 1
    MaxReads = 1
SPECIFICATION Spec
CHECK_DEADLOCK FALSE
INVARIANT ShutdownIsQuiet
