\* Measurements, corrections and LiDAR odometry with stamps up to MaxStamp, in
\* any order; IMU odometry delivered late, LiDAR odometry lost to either.
SPECIFICATION OdometrySpec
CONSTANTS
  ResetKey = 3
  MaxStamp = 6
INVARIANTS GraphIsAChain EachMeasurementInOneFactor PredictsSinceCorrection
PROPERTY FusesSinceLidarOdometry
CHECK_DEADLOCK FALSE
