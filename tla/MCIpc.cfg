CONSTANTS
    Conns = {c1, c2}
    Servers = {s1, s2}
    Messages <- MCMessages
    kIpcMaxMessageSize = 1
    SocketBuffer = 4
    MaxEvents = 3
    MaxAttempts = 1
SPECIFICATION FairSpec
CHECK_DEADLOCK FALSE
INVARIANTS LockGuardsPath NoOrphans WholeMessages
PROPERTIES CallsReturn
