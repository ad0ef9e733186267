\* Passing run: one channel id opened twice (a new TcpConnection per
\* incarnation), window 4 with DATA both ways split below and above the
\* half-window threshold and two target reads; the safety invariants, the
\* close liveness and the refinement of ChannelLifecycle.
CONSTANTS
    c1 = c1
    Ids <- MCIds
    Window = 4
    MaxPayload = 2
    MaxChunk = 2
    MethodLen = 2
    ConnectHdrLen = 1
    ConnectLen = 2
    MaxOpens = 2
    MaxData = 3
    MaxReads = 2
SPECIFICATION Spec
INVARIANT TypeOK
INVARIANT TargetMatchesChannelState
INVARIANT OverlappedContextNotReused
INVARIANT RecvCreditConserved
INVARIANT NoOrphanChannel
PROPERTY ChannelEventuallyReleased
CHECK_DEADLOCK FALSE
PROPERTY ImplementsChannelLifecycle
