SPECIFICATION Spec
CONSTANTS
  Slot = {s1, s2}
  Kind = {metrics, junk, binary, poison}
  Undecodable = {binary}
  Skipped = {junk}
  Poison = {poison}
  MaxMessages = 2
  SharedMs = FALSE
  Expires = TRUE
  MaxOffset = 3
  MaxId = 2
  MaxDelivery = 2
  MaxFaults = 1
SYMMETRY SlotSymmetry
INVARIANT CommittedIsCovered
INVARIANT AuditComplete
INVARIANT AtMostOnceAlone
PROPERTY SavedNeverFallsAlone
PROPERTY ImplementsLedger
CHECK_DEADLOCK FALSE
