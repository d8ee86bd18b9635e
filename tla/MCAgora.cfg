SPECIFICATION Spec
CONSTANTS
  Namespaces <- TwoNamespaces
  Sources <- AllSources
  Verified <- GoodSources
  ConstraintCount <- Clauses
  Seeded <- OneSeeded
  NumberIds <- Numbers
  NoId <- nothing
  ClientProposals <- WrittenProposals
  ClientBlobs <- WrittenBlobs
  ClientClauses <- WrittenClauses
  ClientMessages <- WrittenMessages
  MaxTime = 1
  MaxRequests = 3
  MaxFaults = 2
INVARIANTS
  MergedWasVerified
  PendingOnlyUnderWay
  AnswersHold
  MergedIsBacked
  ChatAgrees
PROPERTIES
  DecidedForGood
