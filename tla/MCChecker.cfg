SPECIFICATION FairSpec
CONSTANTS
  Programs <- SmallPrograms
  Builtin <- Types
  Numeric <- Numbers
  OkType <- Results
INVARIANTS
  EffectsExact
  UnreachableExact
  AcceptedAgree
PROPERTIES
  Terminates
