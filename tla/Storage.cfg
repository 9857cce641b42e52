CONSTANTS
    p1 = p1  p2 = p2
    Nothing = Nothing  NoLocation = NoLocation
    Puts = {p1, p2}
    Size <- MCSize
    MaxSize = 2
    Bases = {inbox}
    Seconds = 2
SPECIFICATION FairSpec
INVARIANTS TypeOK SavedIntact
PROPERTIES PutEnds
CHECK_DEADLOCK FALSE
