\* The whole life of a node with three LiDARs, the first with four frames.
SPECIFICATION SdkSpec
CONSTANTS
  NSources = 3
  MaxSignals = 2
  Cloud = {1, 2, 3, 4, 5, 6, 7}
  NoCloud = NoCloud
  MaxDest = 2
  MaxFrames = 4
INVARIANTS CloudsExclusive AllocationFollowsBacklog StoppedBeforeDestroyed StoppedAsSeen
PROPERTIES QuietAfterStop StopReturns ImplementsFrameChannel SignalStopsSources
CHECK_DEADLOCK FALSE
