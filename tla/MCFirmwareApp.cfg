CONSTANTS
    Threads = {"main", h1, h2}
    Helpers = {h1, h2}
    MaxApps = 2
SPECIFICATION FairSpec
CHECK_DEADLOCK FALSE
INVARIANTS OneCleanup EndsAsItBegan
PROPERTIES RunEnds
