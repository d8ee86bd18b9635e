SPECIFICATION FairSpec
CONSTANTS
  Projects <- SmallProjects
INVARIANTS
  LoadedOnce
  DependenciesFirst
  LoadedAllNeeded
PROPERTIES
  Terminates
