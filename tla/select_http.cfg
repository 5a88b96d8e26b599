SPECIFICATION SelectSpec
CONSTANTS
    Clients = 2
    MaxConnections = 1023
    Https = FALSE
    Forced = FALSE
    ProxyHost = FALSE
    ProxyPort = 8080
    TargetHost = TRUE
    TargetPort = 80
    RequestLen = 1
    ConnectLen = 1
    BufferSize = 2
    LowestPort = 1
    HighestProxy = 65534
    Fds = {3, 4}
    MaxAttempts = 2
INVARIANT Consistent
PROPERTY ImplementsClients
PROPERTY Termination
PROPERTY BrokenIsSettled
