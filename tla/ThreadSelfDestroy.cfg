SPECIFICATION SpecDestroy
CONSTANTS
    Callers = {c1}
    MaxStarts = 1
INVARIANTS
    NoUseAfterDestroy
CHECK_DEADLOCK FALSE
