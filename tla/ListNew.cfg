CONSTANTS
    Keys = {1, 2, 3, 4, 5, 6}
    Emails = {1, 2, 4, 5, 6}
    PageSize = 2
    Limit = 3
    MaxFaults = 1
SPECIFICATION FairSpec
INVARIANTS NoGap ToldOnce
PROPERTIES EventuallyTold
