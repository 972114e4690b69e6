\* Packets displaced as far as the range permits, with both kinds of decoder;
\* any split angle, blocks of any width up to a third of a turn.
SPECIFICATION MCSpec
CONSTANTS
  PktsPerFrame = 7
  RANGE = 3
  SeqLimit = 16
  Late = 4
  Ahead = 3
  MaxFrames = 6
  MaxClouds = 12
  Round = 12
  Step = 4
  MaxCovered = 36
INVARIANTS TypeOK TracksNewest SplitsOnlyAtSplitAngle SplitsAtEverySafeCrossing
PROPERTIES ImplementsFrameAssembler FramesNotTorn FramesAreRounds
CHECK_DEADLOCK FALSE
