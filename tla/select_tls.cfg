SPECIFICATION Spec
CONSTANTS
    Clients = 2
    MaxConnections = 3
    Https = TRUE
    Forced = FALSE
    ProxyHost = TRUE
    ProxyPort = 8080
    TargetHost = TRUE
    TargetPort = 443
    RequestLen = 1
    ConnectLen = 1
    BufferSize = 2
    LowestPort = 1
    HighestProxy = 65534
    Fds = {3, 4}
    MaxAttempts = 1
INVARIANT Inductive
PROPERTY UncountedWithoutContext
