SPECIFICATION Spec
CONSTANTS
    Shared = {r1, r2}
    Exclusive = {w1}
    NoOne = NoOne
    Wait = TRUE
    WaitSecEnv = 3600
SYMMETRY Symmetry
INVARIANTS ReadersOrWriter HoldersKeepOthers
PROPERTIES FencePassesHolder
CHECK_DEADLOCK FALSE
