SPECIFICATION FairSpec
CONSTANTS
  Partition = {p}
  Mode = {"plain", "ordered", "idempotent"}
  BatchSize = 2
  MaxInFlight = 2
  Retries = 1
  MaxRecords = 3
  MaxFaults = 2
  Gap = FALSE
INVARIANT TypeOK
 
INVARIANT AtMostOnce
INVARIANT OrderKept
PROPERTY FlushKeepsPromise
 
CHECK_DEADLOCK FALSE
