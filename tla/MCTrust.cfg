SPECIFICATION Spec
CONSTANTS
  Fns = {f, g, h}
  Builtins = {print}
  Printer = f
  Graphs <- AllGraphs
  Declarable = {"proved", "observed", "assumed"}
  MaxSweeps = 3
INVARIANTS
  WeakestLink
  WitnessesLeadToTheSource
  ConvergesWithinCap
PROPERTIES
  NeverStrengthened
