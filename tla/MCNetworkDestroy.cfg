CONSTANTS
    Conns = {c1}
    None = None
    MaxStarts = 1
    MaxQueue = 1
SPECIFICATION Spec
CHECK_DEADLOCK FALSE
INVARIANT NoCallbackAfterDestroy
