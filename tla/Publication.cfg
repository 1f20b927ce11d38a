SPECIFICATION Spec
CONSTANTS
    Worker = {w1, w2, w3}
    Part = {p1}
    MaxTs = 2
    Keep = 1
    Past = Past
    NoOne = NoOne
SYMMETRY Symmetry
CONSTRAINT CalmAfterClash
  
PROPERTIES   NewestStays
CHECK_DEADLOCK FALSE
