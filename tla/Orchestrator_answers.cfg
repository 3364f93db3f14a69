SPECIFICATION FairSpec
CONSTANTS
  None = None
  Threshold = 50
  Planners <- Both
  MaxIterations = 10
  Topics <- FiveTopics
  Named <- TwoNames
  MaxSteps = 2
  Outcome <- Judged
INVARIANTS
  TypeOK
  TopicsSettled
  NodesBounded
PROPERTIES
  CarriedOut
CHECK_DEADLOCK FALSE
