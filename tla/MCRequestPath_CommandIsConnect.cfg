\* Violation run: a well-formed SOCKS5 request for BIND or UDP ASSOCIATE,
\* in one CHANNEL_REQUEST, delivered in whole records.
CONSTANTS
    MaxPayload = 10
    Id = 258
    Scripts <- MCOtherCommands
    MaxPieces = 2
    RecordSizes = {12}
    MaxInFlight = 2
    FinalKinds = {"close_notify"}
    PostResults = {"pending"}
    Overhead = 2
    RecvBufSize = 8
    InitialDecryptBuf = 32
    MaxDecryptBuf = 256
    GrowSlack = 4
    MaxMessage = 6
    Oversized = FALSE
    ImmediateResults = {"Success", "DnsResolutionFailed"}
    CompletionResults = {"Success", "ConnectionRefused"}
SPECIFICATION Spec
INVARIANT CommandIsConnect
CHECK_DEADLOCK FALSE
