--------------------------- MODULE MapOptimization ---------------------------
(***************************************************************************)
(* mapOptimization (lio_sam/src/mapOptmization.cpp): key frames, the map   *)
(* around the sensor and loop closure.                                     *)
(*                                                                         *)
(*   handler   laserCloudInfoHandler() on the single-threaded executor:    *)
(*             extracts the surrounding map, saves a key frame, corrects   *)
(*             the poses when a loop was closed; all of it under mtx       *)
(*   loop      loopClosureThread(): copies the poses under mtx, looks for  *)
(*             an old key frame at the same place and aligns the two, both *)
(*             without mtx, and leaves a constraint for the handler        *)
(*                                                                         *)
(* A pose is the version of the estimate it was taken from: the version    *)
(* goes up when a loop or a GPS position is taken into the factor graph,   *)
(* which moves the poses there are.  Key frames are numbered from 1.       *)
(***************************************************************************)
EXTENDS Integers, Sequences, FiniteSets

CONSTANTS MaxStamp,                 \* bound: the newest stamp of a scan
          MappingProcessInterval,   \* 0.15 s in params.yaml
          SearchTimeDiff,           \* historyKeyframeSearchTimeDiff, 30 s
          ContainerMax              \* 1000 in extractCloud()

ASSUME ConstantsAssumption ==
    /\ MaxStamp \in Nat
    /\ MappingProcessInterval \in Nat \ {0}
    /\ SearchTimeDiff \in Nat
    /\ ContainerMax \in Nat

Stamp == 1..MaxStamp

VARIABLES
    mtx,                    \* who holds it
    handler,                \* where the handler is
    timeLaserInfoCur,       \* stamp of the scan being handled; without a lock
    timeLastProcessing,
    keyPoses3D, keyPoses6D, \* cloudKeyPoses3D, cloudKeyPoses6D
    clouds,                 \* how many clouds there are in corner- and surfCloudKeyFrames
    mapContainer,           \* laserCloudMapContainer: the pose each cloud is transformed by
    aLoopIsClosed,
    estimate,               \* version of isamCurrentEstimate
    graph,                  \* loop factors in the factor graph
    loop,                   \* where the loop thread is
    copy3D, copy6D,         \* copy_cloudKeyPoses3D, copy_cloudKeyPoses6D
    loopKeyCur, loopKeyPre,
    loopQueue,              \* loopIndexQueue with loopPoseQueue and loopNoiseQueue
    loopIndexContainer      \* the keys a loop was found for

handlerVars == <<handler, timeLaserInfoCur, timeLastProcessing>>
mapVars == <<keyPoses3D, keyPoses6D, clouds, mapContainer, aLoopIsClosed, estimate, graph>>
loopVars == <<loop, copy3D, copy6D, loopKeyCur, loopKeyPre, loopIndexContainer>>
vars == <<mtx, handlerVars, mapVars, loopVars, loopQueue>>

Init ==
    /\ mtx = "free"
    /\ handler = "idle" /\ timeLaserInfoCur = 0 /\ timeLastProcessing = -1
    /\ keyPoses3D = <<>> /\ keyPoses6D = <<>> /\ clouds = 0
    /\ mapContainer = <<>>
    /\ aLoopIsClosed = FALSE /\ estimate = 0 /\ graph = <<>>
    /\ loop = "idle" /\ copy3D = <<>> /\ copy6D = <<>>
    /\ loopKeyCur = 0 /\ loopKeyPre = 0
    /\ loopQueue = <<>> /\ loopIndexContainer = {}

-----------------------------------------------------------------------------
(* laserCloudInfoHandler() *)

Receive ==
    /\ handler = "idle"
    /\ \E t \in Stamp : t > timeLaserInfoCur /\ timeLaserInfoCur' = t
    /\ handler' = "waiting"
    /\ UNCHANGED <<mtx, timeLastProcessing, mapVars, loopVars, loopQueue>>

(* A scan soon after the last one only takes the lock and releases it *)
SkipScan ==
    /\ handler = "waiting" /\ mtx = "free"
    /\ timeLaserInfoCur - timeLastProcessing < MappingProcessInterval
    /\ handler' = "idle"
    /\ UNCHANGED <<mtx, timeLaserInfoCur, timeLastProcessing, mapVars, loopVars, loopQueue>>

ProcessScan ==
    /\ handler = "waiting" /\ mtx = "free"
    /\ timeLaserInfoCur - timeLastProcessing >= MappingProcessInterval
    /\ timeLastProcessing' = timeLaserInfoCur
    /\ mtx' = "handler"
    /\ handler' = "extract"
    /\ UNCHANGED <<timeLaserInfoCur, mapVars, loopVars, loopQueue>>

(* extractSurroundingKeyFrames(): clouds of key frames nearby, transformed   *)
(* once and kept                                                             *)
Extracted(near) ==
    [k \in DOMAIN mapContainer \union near |->
        IF k \in DOMAIN mapContainer THEN mapContainer[k] ELSE keyPoses6D[k].pose]

ExtractSurroundingKeyFrames ==
    /\ handler = "extract"
    /\ \E near \in SUBSET DOMAIN keyPoses3D :
          mapContainer' = IF Cardinality(DOMAIN Extracted(near)) > ContainerMax
                             THEN <<>> ELSE Extracted(near)
    /\ handler' = "save"
    /\ UNCHANGED <<mtx, timeLaserInfoCur, timeLastProcessing, keyPoses3D, keyPoses6D, clouds,
                   aLoopIsClosed, estimate, graph, loopVars, loopQueue>>

(* saveKeyFramesAndFactor(): the sensor has not moved enough; the loops wait *)
KeepFrame ==
    /\ handler = "save" /\ keyPoses3D # <<>>
    /\ handler' = "correct"
    /\ UNCHANGED <<mtx, timeLaserInfoCur, timeLastProcessing, mapVars, loopVars, loopQueue>>

(* The factors, the optimization, and the pose of the new key frame          *)
SaveKeyPose ==
    /\ handler = "save"
    /\ \E gps \in BOOLEAN :
          /\ gps => keyPoses3D # <<>>
          /\ aLoopIsClosed' = (gps \/ loopQueue # <<>> \/ aLoopIsClosed)
    /\ graph' = graph \o loopQueue
    /\ loopQueue' = <<>>
    /\ estimate' = IF aLoopIsClosed' THEN estimate + 1 ELSE estimate
    /\ keyPoses3D' = Append(keyPoses3D, estimate')
    /\ handler' = "save6D"
    /\ UNCHANGED <<mtx, timeLaserInfoCur, timeLastProcessing, keyPoses6D, clouds,
                   mapContainer, loopVars>>

SaveKeyPose6D ==
    /\ handler = "save6D"
    /\ keyPoses6D' = Append(keyPoses6D, [pose |-> estimate, time |-> timeLaserInfoCur])
    /\ handler' = "saveCloud"
    /\ UNCHANGED <<mtx, timeLaserInfoCur, timeLastProcessing, keyPoses3D, clouds, mapContainer,
                   aLoopIsClosed, estimate, graph, loopVars, loopQueue>>

SaveKeyCloud ==
    /\ handler = "saveCloud"
    /\ clouds' = clouds + 1
    /\ handler' = "correct"
    /\ UNCHANGED <<mtx, timeLaserInfoCur, timeLastProcessing, keyPoses3D, keyPoses6D,
                   mapContainer, aLoopIsClosed, estimate, graph, loopVars, loopQueue>>

(* correctPoses(), then the handler returns *)

(* mutation: the clouds extracted before stay where they were *)
MapCacheCleared_Kept == mapContainer
MapCacheCleared == <<>>

CorrectPoses ==
    /\ handler = "correct"
    /\ IF aLoopIsClosed
          THEN /\ mapContainer' = MapCacheCleared
               /\ keyPoses3D' = [k \in DOMAIN keyPoses3D |-> estimate]
               /\ keyPoses6D' = [k \in DOMAIN keyPoses6D |->
                                    [keyPoses6D[k] EXCEPT !.pose = estimate]]
               /\ aLoopIsClosed' = FALSE
          ELSE UNCHANGED <<mapContainer, keyPoses3D, keyPoses6D, aLoopIsClosed>>
    /\ mtx' = "free"
    /\ handler' = "idle"
    /\ UNCHANGED <<timeLaserInfoCur, timeLastProcessing, clouds, estimate, graph, loopVars,
                   loopQueue>>

-----------------------------------------------------------------------------
(* performLoopClosure().  The first test is made without the lock.           *)

LoopBegins ==
    /\ loop = "idle" /\ keyPoses3D # <<>>
    /\ loop' = "lock"
    /\ UNCHANGED <<mtx, handlerVars, mapVars, copy3D, copy6D, loopKeyCur, loopKeyPre,
                   loopIndexContainer, loopQueue>>

(* mutation: the poses are copied without the lock *)
MayCopy_Unlocked == TRUE
MayCopy == mtx = "free"

CopyKeyPoses ==
    /\ loop = "lock" /\ MayCopy
    /\ mtx' = "loop"
    /\ copy3D' = keyPoses3D
    /\ loop' = "copying"
    /\ UNCHANGED <<handlerVars, mapVars, copy6D, loopKeyCur, loopKeyPre, loopIndexContainer,
                   loopQueue>>

CopyKeyPoses6D ==
    /\ loop = "copying"
    /\ copy6D' = keyPoses6D
    /\ mtx' = "free"
    /\ loop' = "detect"
    /\ UNCHANGED <<handlerVars, mapVars, copy3D, loopKeyCur, loopKeyPre, loopIndexContainer,
                   loopQueue>>

(* detectLoopClosureDistance(): of the key frames around the newest, nearest *)
(* first, the first whose scan is old compared with the one being handled    *)
(* now.  The nearest to the newest is itself.                                *)
Old(k) == timeLaserInfoCur - copy6D[k].time > SearchTimeDiff

LoopKeyPre(near) ==
    IF Old(Len(copy3D)) THEN {Len(copy3D)} ELSE {k \in near : Old(k)}

(* mutation: a key frame a loop was found for is tried again *)
MayLoop_Again(k) == TRUE
MayLoop(k) == k \notin loopIndexContainer

LoopDetected ==
    /\ loop = "detect"
    /\ MayLoop(Len(copy3D))
    /\ \E pre \in LoopKeyPre(DOMAIN copy3D) :
          /\ pre # Len(copy3D)
          /\ loopKeyCur' = Len(copy3D) /\ loopKeyPre' = pre
    /\ loop' = "gather"
    /\ UNCHANGED <<mtx, handlerVars, mapVars, copy3D, copy6D, loopIndexContainer, loopQueue>>

(* no loop is detected, or the key frames have too few points or do not align *)
NoLoop ==
    /\ loop \in {"detect", "gather", "align"}
    /\ loop' = "idle"
    /\ UNCHANGED <<mtx, handlerVars, mapVars, copy3D, copy6D, loopKeyCur, loopKeyPre,
                   loopIndexContainer, loopQueue>>

(* loopFindNearKeyframes(): the clouds of the two and of their neighbours    *)
LoopFindNearKeyframes ==
    /\ loop = "gather"
    /\ loop' = "align"
    /\ UNCHANGED <<mtx, handlerVars, mapVars, copy3D, copy6D, loopKeyCur, loopKeyPre,
                   loopIndexContainer, loopQueue>>

(* The constraint between the two poses of the copy *)
AddPoseConstraint ==
    /\ loop = "align" /\ mtx = "free"
    /\ loopQueue' = Append(loopQueue,
          [from |-> loopKeyCur, to |-> loopKeyPre,
           poseFrom |-> copy6D[loopKeyCur].pose, poseTo |-> copy6D[loopKeyPre].pose])
    /\ loop' = "record"
    /\ UNCHANGED <<mtx, handlerVars, mapVars, copy3D, copy6D, loopKeyCur, loopKeyPre,
                   loopIndexContainer>>

AddLoopConstraint ==
    /\ loop = "record"
    /\ loopIndexContainer' = loopIndexContainer \union {loopKeyCur}
    /\ loop' = "idle"
    /\ UNCHANGED <<mtx, handlerVars, mapVars, copy3D, copy6D, loopKeyCur, loopKeyPre, loopQueue>>

Handler == Receive \/ SkipScan \/ ProcessScan \/ ExtractSurroundingKeyFrames \/ KeepFrame
           \/ SaveKeyPose \/ SaveKeyPose6D \/ SaveKeyCloud \/ CorrectPoses
Loop == LoopBegins \/ CopyKeyPoses \/ CopyKeyPoses6D \/ LoopDetected \/ NoLoop
        \/ LoopFindNearKeyframes \/ AddPoseConstraint \/ AddLoopConstraint

Next == Handler \/ Loop

Spec == Init /\ [][Next]_vars

-----------------------------------------------------------------------------
Pose == 0..MaxStamp
LoopFactor == [from : Nat, to : Nat, poseFrom : Pose, poseTo : Pose]

TypeOK ==
    /\ mtx \in {"free", "handler", "loop"}
    /\ handler \in {"idle", "waiting", "extract", "save", "save6D", "saveCloud", "correct"}
    /\ timeLaserInfoCur \in 0..MaxStamp /\ timeLastProcessing \in -1..MaxStamp
    /\ {keyPoses3D, copy3D} \subseteq Seq(Pose)
    /\ {keyPoses6D, copy6D} \subseteq Seq([pose : Pose, time : Stamp])
    /\ clouds \in 0..Len(keyPoses3D)
    /\ DOMAIN mapContainer \subseteq DOMAIN keyPoses3D
    /\ aLoopIsClosed \in BOOLEAN /\ estimate \in Pose
    /\ {graph, loopQueue} \subseteq Seq(LoopFactor)
    /\ loop \in {"idle", "lock", "copying", "detect", "gather", "align", "record"}
    /\ {loopKeyCur, loopKeyPre} \subseteq 0..Len(copy3D)
    /\ loopIndexContainer \subseteq DOMAIN copy3D

(* What the loop thread works on without the lock is one map as the handler  *)
(* left it: as many positions as poses, all from one estimate, so that what  *)
(* is measured between two of them is not off by a correction of one, and a  *)
(* cloud for every pose (loopFindNearKeyframes() does not look).             *)
SnapshotOfOneMap ==
    loop \in {"detect", "gather", "align", "record"} =>
        /\ Len(copy3D) = Len(copy6D) /\ Len(copy6D) <= clouds
        /\ \A j, k \in DOMAIN copy3D : copy3D[j] = copy6D[k].pose

(* A cloud kept in laserCloudMapContainer is where its key frame is now: the *)
(* surrounding map is never made of clouds from before and after a loop was  *)
(* closed.                                                                   *)
MapCacheFresh ==
    handler \in {"idle", "waiting", "extract", "save"} =>
        \A k \in DOMAIN mapContainer : mapContainer[k] = keyPoses6D[k].pose

(* A loop factor joins two different key frames the factor graph knows, with *)
(* poses of one estimate, and no key frame gets two: however long the        *)
(* alignment took and whatever was saved or corrected meanwhile.             *)
LoopFactorsSound ==
    LET factors == graph \o loopQueue
    IN /\ \A i \in DOMAIN factors :
             /\ {factors[i].from, factors[i].to} \subseteq DOMAIN keyPoses3D
             /\ factors[i].from # factors[i].to
             /\ factors[i].poseFrom = factors[i].poseTo
       /\ \A i, j \in DOMAIN factors : factors[i].from = factors[j].from => i = j
=============================================================================
