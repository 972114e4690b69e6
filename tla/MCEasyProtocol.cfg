\* Packages that arrive in pieces, damaged, or more of them than the queue holds.
SPECIFICATION Spec
CONSTANTS
  iDS = 1
  MAX_PAYLOAD_SIZE_ = 8
  QueueSize = 10
  ReadSize = 12
  MaxPackages = 4
  MaxDamaged = 1
INVARIANTS InBufHolds NoneOmittedAfterDelivered ResynchronizesWithinReach
CHECK_DEADLOCK FALSE
