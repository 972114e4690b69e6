\* A node that is started, stopped and started again, on TCP and on a serial line.
SPECIFICATION Spec
CONSTANTS
  MaxMessages = 3
  MaxStarts = 2
INVARIANTS OneUserOfConnection PublishersOutliveObservers JoinedBeforeDestroyed StopIsPrompt
PROPERTIES StopReturns
CHECK_DEADLOCK FALSE
