CONSTANTS
    FirstUid = 2
    LastUid = 5
    Limit = 2
    Unreadable = {3}
    MaxFaults = 1
SPECIFICATION FairSpec
INVARIANTS TypeOK NothingPassedSilently
PROPERTIES CursorAdvances ImplementsStore EventuallyCaughtUp
