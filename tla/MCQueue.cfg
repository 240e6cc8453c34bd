SPECIFICATION FairSpec
CONSTANTS
    Producers = {p1, p2}
    Consumers = {c1, c2}
    Items = {i1, i2, i3}
    NoItem = NoItem
    capacity = 2
INVARIANTS
    TypeOK
    NoLostWakeup
    EndOfStreamIsFinal
PROPERTIES
    ImplementsFifo
    ShutdownReleases
    NoStall
