CONSTANTS
    FirstUid = 1
    LastUid = 3
    Limit = 2
    Unreadable = {1, 2, 3, 4, 5}
    MaxFaults = 1
SPECIFICATION Spec
INVARIANTS NewestNotSkipped
