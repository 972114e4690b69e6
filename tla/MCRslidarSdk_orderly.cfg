\* The destructor stops the source a second time.
SPECIFICATION SdkSafeSpec
CONSTANTS
  NSources = 1
  MaxSignals = 1
  Cloud = {1, 2, 3, 4}
  NoCloud = NoCloud
  MaxDest = 1
  MaxFrames = 1
INVARIANT StopsOrderly
CHECK_DEADLOCK FALSE
