\* Corrections newer than every measurement that has arrived.
SPECIFICATION OdometrySpec
CONSTANTS
  ResetKey = 3
  MaxStamp = 6
INVARIANT IntegratesFromOptimization
CHECK_DEADLOCK FALSE
