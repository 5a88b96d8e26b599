SPECIFICATION Spec
CONSTANTS
    Clients = 2
    MaxConnections = 2
    Https = TRUE
    Forced = FALSE
    ProxyHost = FALSE
    ProxyPort = 8080
    TargetHost = TRUE
    TargetPort = 443
    RequestLen = 1
    ConnectLen = 1
    BufferSize = 2
    LowestPort = 1
    HighestProxy = 65535
    Fds = {3, 4}
    MaxAttempts = 1
    CharBits = 1
    PointerBytes = 1
PROPERTY RoundNotGivenUp
