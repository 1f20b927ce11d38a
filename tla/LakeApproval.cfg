SPECIFICATION Spec
CONSTANTS
    Run = {r1, r2, r3}
    Task = {t1}
    Operator = {o1, o2}
    NoOne = NoOne
SYMMETRY Symmetry
INVARIANTS WritersExclude OneUse ConflictIsForeign
PROPERTIES KeepsApprovalContract
CHECK_DEADLOCK FALSE
