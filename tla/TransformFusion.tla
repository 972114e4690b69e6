-------------------------- MODULE TransformFusion --------------------------
(***************************************************************************)
(* TransformFusion (lio_sam/src/imuPreintegration.cpp): it puts what the   *)
(* IMU odometry has moved since the newest LiDAR odometry on top of that.  *)
(*                                                                         *)
(* Its two topics come in callback groups of their own: each is in order,  *)
(* between the two there is none.  An odometry is its stamp.               *)
(***************************************************************************)
EXTENDS Integers, Sequences, SequencesExt

CONSTANTS MaxStamp      \* bound: the newest stamp of a message

Stamp == 1..MaxStamp
None == -1
Undefined == 0          \* what front() and back() of an empty queue are

VARIABLES
    lidarOdomTime,      \* stamp of the last LiDAR odometry, or None
    imuOdomQueue,       \* stamps of the IMU odometry, oldest first
    heard,              \* history: all of it, in order
    fused               \* the IMU odometry the last result was made of

Init ==
    /\ lidarOdomTime = None
    /\ imuOdomQueue = <<>> /\ heard = <<>>
    /\ fused = [front |-> None, back |-> None]

LidarOdometryHandler(t) ==
    /\ t > lidarOdomTime
    /\ lidarOdomTime' = t
    /\ UNCHANGED <<imuOdomQueue, heard, fused>>

(* mutation: odometry of the time of the LiDAR's is kept *)
Outdated_Older(t) == t < lidarOdomTime
Outdated(t) == t <= lidarOdomTime

(* The queue without what the loop pops from its front *)
PopOutdated(q) ==
    LET first == SelectInSeq(q, LAMBDA t : ~Outdated(t))
    IN IF first = 0 THEN <<>> ELSE SubSeq(q, first, Len(q))

(* There is no LiDAR odometry yet *)
Collect(t) ==
    /\ lidarOdomTime = None
    /\ imuOdomQueue' = Append(imuOdomQueue, t)
    /\ UNCHANGED fused

(* front() and back() are called on the queue even when nothing is left      *)
Fuse(t) ==
    /\ lidarOdomTime # None
    /\ imuOdomQueue' = PopOutdated(Append(imuOdomQueue, t))
    /\ fused' = IF imuOdomQueue' = <<>>
                   THEN [front |-> Undefined, back |-> Undefined]
                   ELSE [front |-> Head(imuOdomQueue'), back |-> Last(imuOdomQueue')]

ImuOdometryHandler(t) ==
    /\ heard' = Append(heard, t)
    /\ Collect(t) \/ Fuse(t)
    /\ UNCHANGED lidarOdomTime

-----------------------------------------------------------------------------
(* The result reaches from the first IMU odometry after the LiDAR's to the   *)
(* newest, however late the LiDAR's was and however often it was replaced:   *)
(* nothing in between was popped, nothing older is left.  The queue is read  *)
(* empty only when LiDAR odometry has overtaken the newest IMU odometry.     *)
FusesSinceLidarOdometry ==
    [][heard' # heard /\ lidarOdomTime # None =>
         LET since == {i \in DOMAIN heard' : heard'[i] > lidarOdomTime}
         IN IF since # {}
               THEN fused' = [front |-> heard'[Min(since)], back |-> heard'[Max(since)]]
               ELSE fused'.front = Undefined]_<<lidarOdomTime, imuOdomQueue, heard, fused>>
=============================================================================
