SPECIFICATION RunSpec
CONSTANTS
  IntMin <- Lowest
  IntMax = 7
  Sample <- SmallInts
  MachineSteps = 3
  Programs <- SmallPrograms
  RequireVerdict <- SolveRequire
  ContractVerdict <- SolveContract
  LiteralFalse <- IsFalse
  UsesPrimed <- HasPrimed
  InlineRequires <- RequiresOfSteps
  Code <- AllCode
  StackMap <- AllMaps
  Meanings <- AllMeanings
INVARIANTS
  UnreachableExact
  StuckExact
  RunsAsMeant
  VerifiedHolds
PROPERTIES
  EveryClauseCounted
  Terminates
