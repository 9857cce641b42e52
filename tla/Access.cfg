CONSTANTS
    Timeout = 2
    Margin = 3
    Lives = {5}
    DefaultLife = 12
    Horizon = 4
    MaxTokens = 2
    MaxFaults = 1
    MaxMails = 2
    MaxSessions = 2
SPECIFICATION FairSpec
INVARIANTS TypeOK SentFresh ExpiryHealed RefreshKept SessionsClosed ResultAwaited
PROPERTIES EndsUnlessHung
CHECK_DEADLOCK FALSE
