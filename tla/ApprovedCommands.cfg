SPECIFICATION CommandsSpec
CONSTANTS
  None = None
  Scenes <- MCScenes
  Lines <- MCLines
  MaxCalls = 2
INVARIANT EffectIsApproved
INVARIANT RequiredMeansApproved
INVARIANT SpelledOutPlansAgree
CHECK_DEADLOCK FALSE
