SPECIFICATION FairSpec
CONSTANTS
  Partition = {p, q}
  Retries = 1
  MaxTxns = 2
  MaxRecords = 2
  MaxFaults = 1
  Gap = FALSE
INVARIANT TypeOK
 
INVARIANT NoHangingTransaction
 
 
CHECK_DEADLOCK FALSE
