SPECIFICATION FairSpec
CONSTANTS
    Clients = 2
    MaxConnections = 2
    Https = TRUE
    Forced = TRUE
    ProxyHost = TRUE
    ProxyPort = 8080
    TargetHost = TRUE
    TargetPort = 443
    RequestLen = 1
    ConnectLen = 2
    BufferSize = 3
    LowestPort = 1
    HighestProxy = 65535
    Fds = {3, 4}
    MaxAttempts = 1
    CharBits = 1
    PointerBytes = 1
INVARIANT Inductive
INVARIANT RequestOnWire
INVARIANT TlsLifecycle
INVARIANT TunnelRequestWhole
PROPERTY BrokenIsSettled
