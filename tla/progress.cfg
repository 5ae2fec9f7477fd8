SPECIFICATION FairSpec
CONSTANTS
  Slot = {s1, s2}
  Kind = {metrics}
  Undecodable = {}
  Skipped = {}
  Poison = {}
  MaxMessages = 1
  SharedMs = TRUE
  Expires = FALSE
  MaxOffset = 3
  MaxId = 1
  MaxDelivery = 1
  MaxFaults = 1
PROPERTY EventuallyCommitted
