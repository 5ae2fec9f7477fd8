SPECIFICATION Spec
CONSTANTS
  Node = {n1, n2}
  Undecodable = {2}
  MaxPoll = 3
  Expires = TRUE
  MaxOffset = 3
  MaxCalls = 1
  MaxLookups = 1
  MaxFailures = 1
INVARIANT NoGap
PROPERTY ImplementsStream
SYMMETRY NodeSymmetry
