SPECIFICATION FairSpec
CONSTANTS
    Clients = 2
    Commands <- Several
    Addresses = 2
    BufferSize = 3
    Fds = {3}
    MaxExchanges = 2
INVARIANT Inductive
INVARIANT SocketsOwned
INVARIANT SendsConnected
INVARIANT NoLostAddition
INVARIANT ReportComplete
PROPERTY Termination
