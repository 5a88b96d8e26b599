SPECIFICATION Spec
CONSTANTS
    CommandLines <- Lines
    IntLimit = 1048576
    LongLimit = 16777216
    MaxUrlLen = 1024
    Hosts <- Names
    NoHost <- Empty
    Loopback <- Local
INVARIANT Inductive
INVARIANT OptionsAsAsked
INVARIANT RefusedForCause
INVARIANT RequestAsAsked
INVARIANT HandedOver
