SPECIFICATION FairSpec
CONSTANTS
  Node = {n1}
  Undecodable = {}
  MaxPoll = 1
  Expires = TRUE
  MaxOffset = 2
  MaxCalls = 1
  MaxLookups = 2
  MaxFailures = 1
PROPERTY PollReturns
PROPERTY ReachesEnd
