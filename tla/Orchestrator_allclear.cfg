SPECIFICATION Spec
CONSTANTS
  None = None
  Threshold = 50
  Planners <- WithoutLLM
  MaxIterations = 10
  Topics <- TwoTopics
  Named <- NoNames
  MaxSteps = 0
  Outcome <- OkOrError
INVARIANT NoFalseAllClear
CHECK_DEADLOCK FALSE
