\* Any split angle, the one just before 0 among them.
SPECIFICATION MCSpec
CONSTANTS
  PktsPerFrame = 7
  RANGE = 3
  SeqLimit = 16
  Late = 4
  Ahead = 3
  MaxFrames = 1
  MaxClouds = 1
  Round = 12
  Step = 4
  MaxCovered = 36
INVARIANT SplitsAtEveryCrossing
CHECK_DEADLOCK FALSE
