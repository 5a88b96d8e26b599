SPECIFICATION FairSpec
CONSTANTS
    Clients = 2
    Commands <- PlainOnly
    Addresses = 2
    BufferSize = 2
    Fds = {3}
    MaxExchanges = 1
PROPERTY NextAddressTried
