CONSTANTS
    NoRule = NoRule  NoSet = NoSet
    RuleSets = {main, other}
    Names = {box1, foreign}
    Managed = {box1}
    Rcpts = {r1, r2}
    Workers = {w1}
    Faulty = TRUE
SPECIFICATION FairSpec
INVARIANTS TypeOK ErrorsTellAll RemovedIsTold
PROPERTIES ForeignRulesKept SyncEnds
