CONSTANTS
    Conns = {c1}
    None = None
    MaxStarts = 2
    MaxQueue = 1
SPECIFICATION FairSpec
CHECK_DEADLOCK FALSE
PROPERTIES StopEnds SendersEnd
