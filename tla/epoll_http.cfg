SPECIFICATION FairSpec
CONSTANTS
    Clients = 2
    MaxConnections = 2
    Https = FALSE
    Forced = FALSE
    ProxyHost = FALSE
    ProxyPort = 8080
    TargetHost = TRUE
    TargetPort = 80
    RequestLen = 1
    ConnectLen = 1
    BufferSize = 2
    Fds = {3, 4}
    SizeMod = 16
    MaxAttempts = 2
    MaxWire = 3
    LowestPort = 2
    HighestProxy = 65535
INVARIANT InterestMatchesState
INVARIANT EventsCurrent
INVARIANT NoLostWakeup
PROPERTY ImplementsClients
PROPERTY Termination
PROPERTY BrokenIsSettled
