SPECIFICATION FairSpec
CONSTANTS
  IntMin <- Lowest
  IntMax = 7
  MaxSteps = 2
  Code <- FlowCode
  StackMap <- FlowMap
  Flows <- FlowsOf
  Layout <- LayoutsOf
  BuiltinResults <- FlowResults
  FailingBuiltins <- FlowRaising
INVARIANTS
  FailureIsCompensated
