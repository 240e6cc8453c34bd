CONSTANTS
    Threads = {t1, t2}
    Types = {"E1", "E2"}
    Slots = {s1, s2}
    kMaxSubscribers = 3
    MaxIds = 4
SPECIFICATION Spec
CHECK_DEADLOCK FALSE
INVARIANTS HandlesOwnEntries NobodyIsSkipped DeliveryInOrder RejectsOnlyNested
