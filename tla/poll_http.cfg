SPECIFICATION FairSpec
CONSTANTS
    Clients = 2
    MaxConnections = 2
    Https = FALSE
    Forced = FALSE
    ProxyHost = FALSE
    ProxyPort = 8080
    TargetHost = TRUE
    TargetPort = 80
    RequestLen = 1
    ConnectLen = 1
    BufferSize = 2
    LowestPort = 1
    HighestProxy = 65535
    Fds = {3, 4}
    MaxAttempts = 2
    CharBits = 8
    PointerBytes = 8
INVARIANT DescriptorOwnership
INVARIANT PollPairing
INVARIANT WaitersPolled
PROPERTY RoundsPolled
PROPERTY ImplementsClients
PROPERTY Termination
PROPERTY BrokenIsSettled
