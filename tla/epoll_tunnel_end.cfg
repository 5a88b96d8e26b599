SPECIFICATION Spec
CONSTANTS
    Clients = 1
    MaxConnections = 2
    Https = TRUE
    Forced = FALSE
    ProxyHost = TRUE
    ProxyPort = 8080
    TargetHost = TRUE
    TargetPort = 443
    RequestLen = 1
    ConnectLen = 1
    BufferSize = 2
    Fds = {3, 4}
    SizeMod = 16
    MaxAttempts = 1
    MaxWire = 2
    LowestPort = 2
    HighestProxy = 65535
INVARIANT TunnelEndSettled
