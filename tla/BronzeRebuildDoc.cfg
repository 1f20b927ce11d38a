SPECIFICATION Spec
CONSTANTS
    Worker = {w1, w2}
    NoOne = NoOne
    NoTable = NoTable
    Interval <- TwoDays
    Scopes <- AllDays
    MaxRun = 1
    Jobs <- AllCommands
    Deployments <- DefaultDeployment
INVARIANT CommitsAreKept
