SPECIFICATION FairSpec
CONSTANTS
    Clients = 3
    MaxConnections = 2
    Https = TRUE
    Forced = FALSE
    ProxyHost = TRUE
    ProxyPort = 8080
    TargetHost = TRUE
    TargetPort = 443
    RequestLen = 2
    ConnectLen = 2
    BufferSize = 3
    Fds = {3}
    SizeMod = 16
    MaxAttempts = 2
    MaxWire = 3
    LowestPort = 2
    HighestProxy = 65535
INVARIANT Inductive
INVARIANT RequestOnWire
INVARIANT AnswersFitBuffer
INVARIANT TlsLifecycle
PROPERTY BrokenIsSettled
