CONSTANTS
    Checkers = {k1, k2}
    Timeouts = {2, 3, 5}
    Second = 5
    MaxLag = 1
SPECIFICATION FairSpec
CHECK_DEADLOCK FALSE
INVARIANTS FiresForCause QuietWhenDown
PROPERTIES SickSystemResets
