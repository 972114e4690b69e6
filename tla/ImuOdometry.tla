---------------------------- MODULE ImuOdometry ----------------------------
(***************************************************************************)
(* The process of imuPreintegration.cpp: IMUPreintegration and             *)
(* TransformFusion on one multi-threaded executor, joined by the topic     *)
(* odomTopic + "_incremental", which within a process keeps the order and  *)
(* up to 2000 messages.  LiDAR odometry comes to the two from another      *)
(* process, on two topics that keep one message and may lose any: each     *)
(* gets some of it, at any time.                                           *)
(***************************************************************************)
EXTENDS ImuPreintegration

VARIABLES incremental,      \* IMU odometry published and not yet delivered
          lidarOdomTime, imuOdomQueue, heard, fused

Fusion == INSTANCE TransformFusion

fusionVars == <<lidarOdomTime, imuOdomQueue, heard, fused>>
odometryVars == <<vars, incremental, fusionVars>>

OdometryInit ==
    /\ Init
    /\ incremental = <<>>
    /\ Fusion!Init

(* imuHandler() publishes what it predicts *)
Measured(t) ==
    /\ ImuHandler(t)
    /\ incremental' = IF doneFirstOpt THEN Append(incremental, t) ELSE incremental
    /\ UNCHANGED fusionVars

Corrected(t) ==
    /\ OdometryHandler(t)
    /\ UNCHANGED <<incremental, fusionVars>>

DeliverIncremental ==
    /\ incremental # <<>>
    /\ Fusion!ImuOdometryHandler(Head(incremental))
    /\ incremental' = Tail(incremental)
    /\ UNCHANGED vars

DeliverLidarOdometry(t) ==
    /\ Fusion!LidarOdometryHandler(t)
    /\ UNCHANGED <<vars, incremental>>

OdometryNext ==
    \/ DeliverIncremental
    \/ \E t \in Stamp : Measured(t) \/ Corrected(t) \/ DeliverLidarOdometry(t)

OdometrySpec == OdometryInit /\ [][OdometryNext]_odometryVars

-----------------------------------------------------------------------------
(* What TransformFusion promises holds of what IMUPreintegration sends it.   *)
FusesSinceLidarOdometry == Fusion!FusesSinceLidarOdometry
=============================================================================
