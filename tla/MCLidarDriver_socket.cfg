\* One receive thread, two sessions, every second packet may overflow the queue.
SPECIFICATION Spec
CONSTANTS
  Producer = {recv}
  recv = recv
  Raw = FALSE
  Sockets = 2
  PoolMax = 1
  Kind = {"msop"}
  MaxPackets = 4
  MaxSessions = 2
  NoBuffer = NoBuffer
  Buffer = {1, 2, 3, 4}
INVARIANTS ThreadsEndWithSession BuffersExclusive QueueBounded MemoryBounded
PROPERTIES QuietWhenStopped ImplementsPacketChannel StopReturns QueueIsServed
CHECK_DEADLOCK FALSE
