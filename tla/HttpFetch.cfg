SPECIFICATION Spec
CONSTANTS
  None = None
  MaxAttempts = 3
  MaxPages = 2
  Deployments <- MCDeployments
  Plugins <- MCPlugins
  Intervals <- MCIntervals
  MaxClock = 2
  MaxRotations = 2
INVARIANT NothingHalfFetched
INVARIANT ExtractIsComplete
INVARIANT RotationIsSurvived
INVARIANT PinnedToEnvironment
PROPERTY ExtractEnds
PROPERTY CredentialsAge
CHECK_DEADLOCK FALSE
