\* A connection that is lost while the node spins.
SPECIFICATION Spec
CONSTANTS
  MaxMessages = 1
  MaxStarts = 1
PROPERTIES Reconnects
CHECK_DEADLOCK FALSE
