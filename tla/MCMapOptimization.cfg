\* Scans with stamps up to MaxStamp, every second processed, loops between key
\* frames more than one stamp apart.
SPECIFICATION Spec
CONSTANTS
  MaxStamp = 9
  MappingProcessInterval = 2
  SearchTimeDiff = 2
  ContainerMax = 2
INVARIANTS SnapshotOfOneMap MapCacheFresh LoopFactorsSound
CHECK_DEADLOCK FALSE
