SPECIFICATION FairSpec
CONSTANTS
    Callers = {c1, c2}
    MaxStarts = 3
INVARIANTS
    HandleMatchesRunning
    WorkerIsHeld
    StopIsNotLost
    JoinsAreBrief
PROPERTIES
    JoinersReleased
