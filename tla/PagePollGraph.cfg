CONSTANTS
    Mails = {a, b, c}
    Provider = "graph"
    MS = 2
    SEC = 4
    Grain = 4
    Batch = 2
    Horizon = 13
    MaxFaults = 1
SPECIFICATION FairSpec
INVARIANTS LossExplained KnownBehind GraphNeverBumps
PROPERTIES ImplementsStore EventuallyQuiet
