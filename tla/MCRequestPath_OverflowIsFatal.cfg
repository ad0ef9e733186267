CONSTANTS
    MaxPayload = 10
    Id = 258
    Scripts <- MCScripts
    MaxPieces = 3
    RecordSizes = {5, 12}
    MaxInFlight = 2
    FinalKinds = {"close_notify", "corrupt"}
    PostResults = {"pending", "failed"}
    Overhead = 2
    RecvBufSize = 8
    InitialDecryptBuf = 32
    MaxDecryptBuf = 256
    GrowSlack = 4
    MaxMessage = 6
    Oversized = TRUE
    ImmediateResults = {"Success", "DnsResolutionFailed"}
    CompletionResults = {"Success", "ConnectionRefused", "ConnectionTimeout"}
SPECIFICATION Spec
INVARIANT OverflowIsFatal
CHECK_DEADLOCK FALSE
