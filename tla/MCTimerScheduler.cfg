SPECIFICATION FairSpec
CONSTANTS
    kMaxTimers = 2
    MaxIds = 3
    MaxTime = 3
    Periods = {1}
INVARIANTS
    BatchOwnsActive
    CancelIsFinal
PROPERTIES
    NoBurst
    DueTimersFire
    StopEndsLoop
