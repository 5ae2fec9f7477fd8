SPECIFICATION FairSpec
CONSTANTS
  Member = {a, b}
  Partition = {p}
  MaxOffset = 1
  MaxInFlight = 2
  MaxFaults = 1
  Gap = FALSE
  Busy = a
  Troubled = {a}
  Calls <- NoCalls
PROPERTY EventuallySettled
CHECK_DEADLOCK FALSE
