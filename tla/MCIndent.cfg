SPECIFICATION Spec
CONSTANTS
  MaxLines = 5
  Sources <- SmallSources
INVARIANTS
  Nested
  Bracketed
  OffSide
  OnlyMisfitsRefused
