SPECIFICATION FairSpec
CONSTANTS
  Partition = {p1, p2}
  MaxEpoch = 2
  MaxOffset = 1
  MaxSession = 2
  MaxFaults = 2
INVARIANT ReadFromPosition
PROPERTY Recovers
