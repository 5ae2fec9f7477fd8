SPECIFICATION FairSpec
CONSTANTS
  Member = {1, 2, 3}
  Topic = {1, 2}
  Static = {2}
  Strategy = {"range", "roundrobin", "sticky"}
  MaxPartitions = 2
  MaxGeneration = 3
  MaxChanges = 1
  MaxMissed = 1
  Gap = FALSE
 
 
 
PROPERTY Returning
CHECK_DEADLOCK FALSE
