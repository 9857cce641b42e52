CONSTANTS
    Mails = {a, b, c}
    Provider = "gmail"
    MS = 1
    SEC = 2
    Grain = 1
    Batch = 2
    Horizon = 5
    MaxFaults = 1
SPECIFICATION FairSpec
INVARIANTS LossExplained
PROPERTIES WatermarkAdvances EventuallyQuiet
