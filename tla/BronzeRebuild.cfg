SPECIFICATION Spec
CONSTANTS
    Worker = {w1, w2}
    NoOne = NoOne
    NoTable = NoTable
    Interval <- DayAndBoth
    Scopes <- AllDays
    MaxRun = 1
    Jobs <- Commands
    Deployments <- Deployed
SYMMETRY Symmetry
INVARIANTS ReadersOrWriter RebuildIsWhole LoadedStays
PROPERTIES StampedByHolder
