CONSTANTS
    NoRule = NoRule  NoSet = NoSet
    RuleSets = {main}
    Names = {box1, foreign}
    Managed = {box1}
    Rcpts = {r1}
    Workers = {w1, w2}
    Faulty = FALSE
SPECIFICATION Spec
INVARIANTS CleanupSparesDesired
