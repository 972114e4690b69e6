\* Both builds.  Nothing promises a timeout: delivery rests on notify_one().
SPECIFICATION Spec
CONSTANTS
  p1 = p1
  p2 = p2
  Producer = {p1, p2}
  MaxPush = 5
INVARIANT NoLostWakeup
PROPERTY ImplementsBlockingFifo
CHECK_DEADLOCK FALSE
