SPECIFICATION FairSpec
CONSTANTS
    Shared = {r1}
    Exclusive = {w1}
    NoOne = NoOne
    Wait = TRUE
    WaitSecEnv = 3600
PROPERTY WriterGetsIn
CHECK_DEADLOCK FALSE
