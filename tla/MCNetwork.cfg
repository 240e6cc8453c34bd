CONSTANTS
    Conns = {c1, c2}
    None = None
    MaxStarts = 1
    MaxQueue = 1
SPECIFICATION Spec
SYMMETRY Symmetry
CHECK_DEADLOCK FALSE
INVARIANTS ClosesOwnSocket OneDisconnect EndIsPublished ClosedIsForgotten StopClosesAll NoUseAfterFree
