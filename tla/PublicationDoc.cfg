SPECIFICATION Spec
CONSTANTS
    Worker = {w1, w2}
    Part = {p1}
    MaxTs = 1
    Keep = 1
    Past = Past
    NoOne = NoOne
SYMMETRY Symmetry
INVARIANT SerializedByLease
CHECK_DEADLOCK FALSE
