------------------------ MODULE MapOptimization_proofs ------------------------
(***************************************************************************)
(* For any stamps and intervals: what the loop thread copies is one map,   *)
(* the cached clouds are where their key frames are, and loop factors are  *)
(* sound.                                                                  *)
(***************************************************************************)
EXTENDS MapOptimization, SequenceTheorems, TLAPS

Factors == graph \o loopQueue

(* The types the proof needs; TypeOK also bounds the versions.               *)
Key6D == [pose : Nat, time : Nat]
Factor == [from : Nat, to : Nat, poseFrom : Nat, poseTo : Nat]
Shapes ==
    /\ timeLaserInfoCur \in Nat /\ estimate \in Nat /\ clouds \in Nat
    /\ keyPoses3D \in Seq(Nat) /\ copy3D \in Seq(Nat)
    /\ keyPoses6D \in Seq(Key6D) /\ copy6D \in Seq(Key6D)
    /\ graph \in Seq(Factor) /\ loopQueue \in Seq(Factor)

Flag == aLoopIsClosed \in BOOLEAN

(* mtx is held by whom its critical section says.                            *)
MtxOwner ==
    /\ mtx = "handler" <=> handler \notin {"idle", "waiting"}
    /\ mtx = "loop" <=> loop = "copying"

(* The three vectors grow one after another.                                 *)
MapGrows ==
    /\ handler = "save6D" => Len(keyPoses3D) = Len(keyPoses6D) + 1
    /\ handler # "save6D" => Len(keyPoses3D) = Len(keyPoses6D)
    /\ handler \in {"save6D", "saveCloud"} => Len(keyPoses3D) = clouds + 1
    /\ handler \notin {"save6D", "saveCloud"} => Len(keyPoses3D) = clouds

(* Unless a loop was closed and correctPoses() has not run, every pose is of *)
(* the newest estimate.                                                      *)
OneEstimate ==
    /\ handler \in {"idle", "waiting", "extract", "save"} => aLoopIsClosed = FALSE
    /\ aLoopIsClosed = FALSE =>
          /\ \A k \in DOMAIN keyPoses3D : keyPoses3D[k] = estimate
          /\ \A k \in DOMAIN keyPoses6D : keyPoses6D[k].pose = estimate

Cached ==
    \A k \in DOMAIN mapContainer :
        k \in DOMAIN keyPoses6D /\ mapContainer[k] = keyPoses6D[k].pose

(* What the loop thread copied, while it copies and when it has.             *)
Copied ==
    /\ loop = "copying" => copy3D = keyPoses3D
    /\ loop \in {"detect", "gather", "align", "record"} => Len(copy3D) <= clouds
    /\ SnapshotOfOneMap

(* The loop thread has found two key frames and none before for the first.   *)
Found ==
    loop \in {"gather", "align"} =>
        /\ loopKeyCur \in DOMAIN copy3D /\ loopKeyPre \in DOMAIN copy3D
        /\ loopKeyCur # loopKeyPre
        /\ loopKeyCur \notin loopIndexContainer

(* A key with a factor is recorded, or about to be.                          *)
Recorded ==
    \A i \in DOMAIN Factors :
        \/ Factors[i].from \in loopIndexContainer
        \/ loop = "record" /\ Factors[i].from = loopKeyCur

IInv ==
    /\ Shapes /\ Flag /\ MtxOwner /\ MapGrows /\ OneEstimate /\ Cached /\ Copied /\ Found
    /\ Recorded /\ LoopFactorsSound

LEMMA FunctionIsSeq ==
    ASSUME NEW S, NEW n \in Nat, NEW f \in [1..n -> S]
    PROVE  f \in Seq(S)
BY SeqDef

(* What the loop thread found are key frames of its copies.                  *)
LEMMA FoundKeys ==
    ASSUME Shapes, Copied, Found, loop \in {"gather", "align"}
    PROVE  /\ loopKeyCur \in 1..Len(copy3D) /\ loopKeyPre \in 1..Len(copy3D)
           /\ loopKeyCur \in Nat /\ loopKeyPre \in Nat
           /\ copy6D[loopKeyCur] \in Key6D /\ copy6D[loopKeyPre] \in Key6D
           /\ copy6D[loopKeyCur].pose = copy6D[loopKeyPre].pose
<1>1. loopKeyCur \in 1..Len(copy3D) /\ loopKeyPre \in 1..Len(copy3D)
  BY LenProperties DEF Shapes, Found
<1>2. Len(copy3D) = Len(copy6D) /\ DOMAIN copy6D = 1..Len(copy6D) /\ Len(copy6D) \in Nat
  BY LenProperties DEF Shapes, Copied, SnapshotOfOneMap
<1>3. copy6D[loopKeyCur] \in Key6D /\ copy6D[loopKeyPre] \in Key6D
  BY <1>1, <1>2, ElementOfSeq DEF Shapes
<1>4. copy6D[loopKeyCur].pose = copy6D[loopKeyPre].pose
  BY <1>1, <1>2, LenProperties DEF Shapes, Copied, SnapshotOfOneMap
<1>. QED
  BY <1>1, <1>2, <1>3, <1>4

LEMMA ShapesHold ==
    ASSUME Shapes, MapGrows, Copied, Found, [Next]_vars
    PROVE  Shapes'
<1>. USE DEF Shapes, Key6D, Factor, Stamp, handlerVars, mapVars, loopVars
<1>1. CASE Receive
  BY <1>1 DEF Receive
<1>2. CASE SkipScan
  BY <1>2 DEF SkipScan
<1>3. CASE ProcessScan
  BY <1>3 DEF ProcessScan
<1>4. CASE ExtractSurroundingKeyFrames
  BY <1>4 DEF ExtractSurroundingKeyFrames
<1>5. CASE KeepFrame
  BY <1>5 DEF KeepFrame
<1>6. CASE SaveKeyPose
  <2>1. /\ estimate' \in Nat /\ keyPoses3D' = Append(keyPoses3D, estimate')
        /\ graph' = graph \o loopQueue /\ loopQueue' = <<>>
        /\ UNCHANGED <<timeLaserInfoCur, clouds, keyPoses6D, copy3D, copy6D>>
    BY <1>6 DEF SaveKeyPose
  <2>. QED
    BY <2>1
<1>7. CASE SaveKeyPose6D
  <2>1. [pose |-> estimate, time |-> timeLaserInfoCur] \in Key6D
    OBVIOUS
  <2>. HIDE DEF Key6D
  <2>. QED
    BY <2>1, <1>7 DEF SaveKeyPose6D
<1>8. CASE SaveKeyCloud
  BY <1>8 DEF SaveKeyCloud
<1>9. CASE CorrectPoses
  <2>1. [k \in DOMAIN keyPoses3D |-> estimate] \in [1..Len(keyPoses3D) -> Nat]
    BY LenProperties
  <2>2. ASSUME NEW k \in DOMAIN keyPoses6D
        PROVE  [keyPoses6D[k] EXCEPT !.pose = estimate] \in Key6D
    <3>1. keyPoses6D[k] \in Key6D
      BY LenProperties, ElementOfSeq
    <3>. QED
      BY <3>1
  <2>. HIDE DEF Key6D
  <2>3. [k \in DOMAIN keyPoses6D |-> [keyPoses6D[k] EXCEPT !.pose = estimate]] \in
            [1..Len(keyPoses6D) -> Key6D]
    BY <2>2, LenProperties
  <2>4. /\ [k \in DOMAIN keyPoses3D |-> estimate] \in Seq(Nat)
        /\ [k \in DOMAIN keyPoses6D |-> [keyPoses6D[k] EXCEPT !.pose = estimate]] \in Seq(Key6D)
    BY <2>1, <2>3, FunctionIsSeq, LenProperties
  <2>. QED
    BY <2>4, <1>9 DEF CorrectPoses
<1>10. CASE LoopBegins
  BY <1>10 DEF LoopBegins
<1>11. CASE CopyKeyPoses
  BY <1>11 DEF CopyKeyPoses
<1>12. CASE CopyKeyPoses6D
  BY <1>12 DEF CopyKeyPoses6D
<1>13. CASE LoopDetected
  BY <1>13 DEF LoopDetected
<1>14. CASE NoLoop
  BY <1>14 DEF NoLoop
<1>15. CASE LoopFindNearKeyframes
  BY <1>15 DEF LoopFindNearKeyframes
<1>16. CASE AddPoseConstraint
  <2>. DEFINE new == [from |-> loopKeyCur, to |-> loopKeyPre,
                     poseFrom |-> copy6D[loopKeyCur].pose, poseTo |-> copy6D[loopKeyPre].pose]
  <2>1. new \in Factor
    BY <1>16, FoundKeys DEF AddPoseConstraint
  <2>. HIDE DEF Factor, new
  <2>2. /\ loopQueue' = Append(loopQueue, new)
        /\ UNCHANGED <<timeLaserInfoCur, estimate, clouds, keyPoses3D, keyPoses6D, copy3D, copy6D,
                       graph>>
    BY <1>16 DEF AddPoseConstraint, new
  <2>. QED
    BY <2>1, <2>2
<1>17. CASE AddLoopConstraint
  BY <1>17 DEF AddLoopConstraint
<1>18. CASE UNCHANGED vars
  BY <1>18 DEF vars
<1>. QED
  BY <1>1, <1>2, <1>3, <1>4, <1>5, <1>6, <1>7, <1>8, <1>9, <1>10, <1>11, <1>12,
     <1>13, <1>14, <1>15, <1>16, <1>17, <1>18
  DEF Next, Handler, Loop

LEMMA MtxHolds ==
    ASSUME MtxOwner, [Next]_vars
    PROVE  MtxOwner'
<1>. USE DEF MtxOwner, MayCopy, handlerVars, mapVars, loopVars
<1>1. CASE Receive
  BY <1>1 DEF Receive
<1>2. CASE SkipScan
  BY <1>2 DEF SkipScan
<1>3. CASE ProcessScan
  BY <1>3 DEF ProcessScan
<1>4. CASE ExtractSurroundingKeyFrames
  BY <1>4 DEF ExtractSurroundingKeyFrames
<1>5. CASE KeepFrame
  BY <1>5 DEF KeepFrame
<1>6. CASE SaveKeyPose
  BY <1>6 DEF SaveKeyPose
<1>7. CASE SaveKeyPose6D
  BY <1>7 DEF SaveKeyPose6D
<1>8. CASE SaveKeyCloud
  BY <1>8 DEF SaveKeyCloud
<1>9. CASE CorrectPoses
  BY <1>9 DEF CorrectPoses
<1>10. CASE LoopBegins
  BY <1>10 DEF LoopBegins
<1>11. CASE CopyKeyPoses
  BY <1>11 DEF CopyKeyPoses
<1>12. CASE CopyKeyPoses6D
  BY <1>12 DEF CopyKeyPoses6D
<1>13. CASE LoopDetected
  BY <1>13 DEF LoopDetected
<1>14. CASE NoLoop
  BY <1>14 DEF NoLoop
<1>15. CASE LoopFindNearKeyframes
  BY <1>15 DEF LoopFindNearKeyframes
<1>16. CASE AddPoseConstraint
  BY <1>16 DEF AddPoseConstraint
<1>17. CASE AddLoopConstraint
  BY <1>17 DEF AddLoopConstraint
<1>18. CASE UNCHANGED vars
  BY <1>18 DEF vars
<1>. QED
  BY <1>1, <1>2, <1>3, <1>4, <1>5, <1>6, <1>7, <1>8, <1>9, <1>10, <1>11, <1>12,
     <1>13, <1>14, <1>15, <1>16, <1>17, <1>18
  DEF Next, Handler, Loop

LEMMA GrowsHolds ==
    ASSUME Shapes, MapGrows, [Next]_vars
    PROVE  MapGrows'
<1>. USE DEF Shapes, MapGrows, Key6D, handlerVars, mapVars, loopVars
<1>1. CASE Receive
  BY <1>1 DEF Receive
<1>2. CASE SkipScan
  BY <1>2 DEF SkipScan
<1>3. CASE ProcessScan
  BY <1>3 DEF ProcessScan
<1>4. CASE ExtractSurroundingKeyFrames
  BY <1>4 DEF ExtractSurroundingKeyFrames
<1>5. CASE KeepFrame
  BY <1>5 DEF KeepFrame
<1>6. CASE SaveKeyPose
  BY <1>6 DEF SaveKeyPose
<1>7. CASE SaveKeyPose6D
  BY <1>7 DEF SaveKeyPose6D
<1>8. CASE SaveKeyCloud
  BY <1>8 DEF SaveKeyCloud
<1>9. CASE CorrectPoses
  BY <1>9 DEF CorrectPoses
<1>10. CASE LoopBegins
  BY <1>10 DEF LoopBegins
<1>11. CASE CopyKeyPoses
  BY <1>11 DEF CopyKeyPoses
<1>12. CASE CopyKeyPoses6D
  BY <1>12 DEF CopyKeyPoses6D
<1>13. CASE LoopDetected
  BY <1>13 DEF LoopDetected
<1>14. CASE NoLoop
  BY <1>14 DEF NoLoop
<1>15. CASE LoopFindNearKeyframes
  BY <1>15 DEF LoopFindNearKeyframes
<1>16. CASE AddPoseConstraint
  BY <1>16 DEF AddPoseConstraint
<1>17. CASE AddLoopConstraint
  BY <1>17 DEF AddLoopConstraint
<1>18. CASE UNCHANGED vars
  BY <1>18 DEF vars
<1>. QED
  BY <1>1, <1>2, <1>3, <1>4, <1>5, <1>6, <1>7, <1>8, <1>9, <1>10, <1>11, <1>12,
     <1>13, <1>14, <1>15, <1>16, <1>17, <1>18
  DEF Next, Handler, Loop

LEMMA FlagHolds ==
    ASSUME Flag, [Next]_vars
    PROVE  Flag'
<1>. USE DEF Flag, handlerVars, mapVars, loopVars
<1>1. CASE Receive
  BY <1>1 DEF Receive
<1>2. CASE SkipScan
  BY <1>2 DEF SkipScan
<1>3. CASE ProcessScan
  BY <1>3 DEF ProcessScan
<1>4. CASE ExtractSurroundingKeyFrames
  BY <1>4 DEF ExtractSurroundingKeyFrames
<1>5. CASE KeepFrame
  BY <1>5 DEF KeepFrame
<1>6. CASE SaveKeyPose
  BY <1>6 DEF SaveKeyPose
<1>7. CASE SaveKeyPose6D
  BY <1>7 DEF SaveKeyPose6D
<1>8. CASE SaveKeyCloud
  BY <1>8 DEF SaveKeyCloud
<1>9. CASE CorrectPoses
  BY <1>9 DEF CorrectPoses
<1>10. CASE LoopBegins
  BY <1>10 DEF LoopBegins
<1>11. CASE CopyKeyPoses
  BY <1>11 DEF CopyKeyPoses
<1>12. CASE CopyKeyPoses6D
  BY <1>12 DEF CopyKeyPoses6D
<1>13. CASE LoopDetected
  BY <1>13 DEF LoopDetected
<1>14. CASE NoLoop
  BY <1>14 DEF NoLoop
<1>15. CASE LoopFindNearKeyframes
  BY <1>15 DEF LoopFindNearKeyframes
<1>16. CASE AddPoseConstraint
  BY <1>16 DEF AddPoseConstraint
<1>17. CASE AddLoopConstraint
  BY <1>17 DEF AddLoopConstraint
<1>18. CASE UNCHANGED vars
  BY <1>18 DEF vars
<1>. QED
  BY <1>1, <1>2, <1>3, <1>4, <1>5, <1>6, <1>7, <1>8, <1>9, <1>10, <1>11, <1>12,
     <1>13, <1>14, <1>15, <1>16, <1>17, <1>18
  DEF Next, Handler, Loop

LEMMA EstimateHolds ==
    ASSUME Shapes, MapGrows, OneEstimate, Flag, [Next]_vars
    PROVE  OneEstimate'
<1>. USE DEF Shapes, OneEstimate, Key6D, handlerVars, mapVars, loopVars
<1>1. CASE Receive
  BY <1>1 DEF Receive
<1>2. CASE SkipScan
  BY <1>2 DEF SkipScan
<1>3. CASE ProcessScan
  BY <1>3 DEF ProcessScan
<1>4. CASE ExtractSurroundingKeyFrames
  BY <1>4 DEF ExtractSurroundingKeyFrames
<1>5. CASE KeepFrame
  BY <1>5 DEF KeepFrame
<1>6. CASE SaveKeyPose
  BY <1>6, SMTT(30) DEF SaveKeyPose
<1>7. CASE SaveKeyPose6D
  <2>. DEFINE new == [pose |-> estimate, time |-> timeLaserInfoCur]
  <2>1. new \in Key6D /\ new.pose = estimate
    OBVIOUS
  <2>. HIDE DEF Key6D, new
  <2>2. keyPoses6D' = Append(keyPoses6D, new)
    BY <1>7 DEF SaveKeyPose6D, new
  <2>3. aLoopIsClosed = FALSE => \A k \in DOMAIN keyPoses6D' : keyPoses6D'[k].pose = estimate
    BY <2>1, <2>2, SMTT(30)
  <2>. QED
    BY <2>3, <1>7 DEF SaveKeyPose6D
<1>8. CASE SaveKeyCloud
  BY <1>8 DEF SaveKeyCloud
<1>9. CASE CorrectPoses
  <2>1. CASE aLoopIsClosed = FALSE
    BY <2>1, <1>9 DEF CorrectPoses
  <2>2. CASE aLoopIsClosed
    <3>1. \A k \in DOMAIN keyPoses6D : [keyPoses6D[k] EXCEPT !.pose = estimate].pose = estimate
      OBVIOUS
    <3>2. keyPoses6D' = [k \in DOMAIN keyPoses6D |-> [keyPoses6D[k] EXCEPT !.pose = estimate]]
      BY <2>2, <1>9 DEF CorrectPoses
    <3>3. \A k \in DOMAIN keyPoses6D' : keyPoses6D'[k].pose = estimate
      BY <3>1, <3>2
    <3>. QED
      BY <3>3, <2>2, <1>9 DEF CorrectPoses
  <2>. QED
    BY <2>1, <2>2, ~aLoopIsClosed => aLoopIsClosed = FALSE DEF Flag
<1>10. CASE LoopBegins
  BY <1>10 DEF LoopBegins
<1>11. CASE CopyKeyPoses
  BY <1>11 DEF CopyKeyPoses
<1>12. CASE CopyKeyPoses6D
  BY <1>12 DEF CopyKeyPoses6D
<1>13. CASE LoopDetected
  BY <1>13 DEF LoopDetected
<1>14. CASE NoLoop
  BY <1>14 DEF NoLoop
<1>15. CASE LoopFindNearKeyframes
  BY <1>15 DEF LoopFindNearKeyframes
<1>16. CASE AddPoseConstraint
  BY <1>16 DEF AddPoseConstraint
<1>17. CASE AddLoopConstraint
  BY <1>17 DEF AddLoopConstraint
<1>18. CASE UNCHANGED vars
  BY <1>18 DEF vars
<1>. QED
  BY <1>1, <1>2, <1>3, <1>4, <1>5, <1>6, <1>7, <1>8, <1>9, <1>10, <1>11, <1>12,
     <1>13, <1>14, <1>15, <1>16, <1>17, <1>18
  DEF Next, Handler, Loop

LEMMA CachedHolds ==
    ASSUME IInv, [Next]_vars
    PROVE  Cached'
<1>. USE DEF IInv, Shapes, MapGrows, Cached, Key6D, Extracted, MapCacheCleared,
            handlerVars, mapVars, loopVars
<1>1. CASE Receive
  BY <1>1 DEF Receive
<1>2. CASE SkipScan
  BY <1>2 DEF SkipScan
<1>3. CASE ProcessScan
  BY <1>3 DEF ProcessScan
<1>4. CASE ExtractSurroundingKeyFrames
  BY <1>4, SMTT(30) DEF ExtractSurroundingKeyFrames
<1>5. CASE KeepFrame
  BY <1>5 DEF KeepFrame
<1>6. CASE SaveKeyPose
  BY <1>6 DEF SaveKeyPose
<1>7. CASE SaveKeyPose6D
  <2>. DEFINE new == [pose |-> estimate, time |-> timeLaserInfoCur]
  <2>1. new \in Key6D
    OBVIOUS
  <2>. HIDE DEF Key6D, new
  <2>2. keyPoses6D' = Append(keyPoses6D, new) /\ mapContainer' = mapContainer
    BY <1>7 DEF SaveKeyPose6D, new
  <2>. QED
    BY <2>1, <2>2
<1>8. CASE SaveKeyCloud
  BY <1>8 DEF SaveKeyCloud
<1>9. CASE CorrectPoses
  <2>1. CASE aLoopIsClosed
    BY <2>1, <1>9, EmptySeq DEF CorrectPoses
  <2>2. CASE ~aLoopIsClosed
    BY <2>2, <1>9 DEF CorrectPoses
  <2>. QED
    BY <2>1, <2>2
<1>10. CASE LoopBegins
  BY <1>10 DEF LoopBegins
<1>11. CASE CopyKeyPoses
  BY <1>11 DEF CopyKeyPoses
<1>12. CASE CopyKeyPoses6D
  BY <1>12 DEF CopyKeyPoses6D
<1>13. CASE LoopDetected
  BY <1>13 DEF LoopDetected
<1>14. CASE NoLoop
  BY <1>14 DEF NoLoop
<1>15. CASE LoopFindNearKeyframes
  BY <1>15 DEF LoopFindNearKeyframes
<1>16. CASE AddPoseConstraint
  BY <1>16 DEF AddPoseConstraint
<1>17. CASE AddLoopConstraint
  BY <1>17 DEF AddLoopConstraint
<1>18. CASE UNCHANGED vars
  BY <1>18 DEF vars
<1>. QED
  BY <1>1, <1>2, <1>3, <1>4, <1>5, <1>6, <1>7, <1>8, <1>9, <1>10, <1>11, <1>12,
     <1>13, <1>14, <1>15, <1>16, <1>17, <1>18
  DEF Next, Handler, Loop

LEMMA CopiedHolds ==
    ASSUME IInv, [Next]_vars
    PROVE  Copied'
<1>. USE DEF IInv, Shapes, MtxOwner, MapGrows, OneEstimate, Copied, SnapshotOfOneMap,
            Key6D, MayCopy, handlerVars, mapVars, loopVars
<1>1. CASE Receive
  BY <1>1 DEF Receive
<1>2. CASE SkipScan
  BY <1>2 DEF SkipScan
<1>3. CASE ProcessScan
  BY <1>3 DEF ProcessScan
<1>4. CASE ExtractSurroundingKeyFrames
  BY <1>4 DEF ExtractSurroundingKeyFrames
<1>5. CASE KeepFrame
  BY <1>5 DEF KeepFrame
<1>6. CASE SaveKeyPose
  BY <1>6 DEF SaveKeyPose
<1>7. CASE SaveKeyPose6D
  BY <1>7 DEF SaveKeyPose6D
<1>8. CASE SaveKeyCloud
  BY <1>8, SMTT(30) DEF SaveKeyCloud
<1>9. CASE CorrectPoses
  BY <1>9 DEF CorrectPoses
<1>10. CASE LoopBegins
  BY <1>10 DEF LoopBegins
<1>11. CASE CopyKeyPoses
  BY <1>11 DEF CopyKeyPoses
<1>12. CASE CopyKeyPoses6D
  BY <1>12 DEF CopyKeyPoses6D
<1>13. CASE LoopDetected
  BY <1>13 DEF LoopDetected
<1>14. CASE NoLoop
  BY <1>14 DEF NoLoop
<1>15. CASE LoopFindNearKeyframes
  BY <1>15 DEF LoopFindNearKeyframes
<1>16. CASE AddPoseConstraint
  BY <1>16 DEF AddPoseConstraint
<1>17. CASE AddLoopConstraint
  BY <1>17 DEF AddLoopConstraint
<1>18. CASE UNCHANGED vars
  BY <1>18 DEF vars
<1>. QED
  BY <1>1, <1>2, <1>3, <1>4, <1>5, <1>6, <1>7, <1>8, <1>9, <1>10, <1>11, <1>12,
     <1>13, <1>14, <1>15, <1>16, <1>17, <1>18
  DEF Next, Handler, Loop

LEMMA FoundHolds ==
    ASSUME IInv, [Next]_vars
    PROVE  Found'
<1>. USE DEF IInv, Shapes, Found, Key6D, MayLoop, LoopKeyPre, handlerVars, mapVars,
            loopVars
<1>1. CASE Receive
  BY <1>1 DEF Receive
<1>2. CASE SkipScan
  BY <1>2 DEF SkipScan
<1>3. CASE ProcessScan
  BY <1>3 DEF ProcessScan
<1>4. CASE ExtractSurroundingKeyFrames
  BY <1>4 DEF ExtractSurroundingKeyFrames
<1>5. CASE KeepFrame
  BY <1>5 DEF KeepFrame
<1>6. CASE SaveKeyPose
  BY <1>6 DEF SaveKeyPose
<1>7. CASE SaveKeyPose6D
  BY <1>7 DEF SaveKeyPose6D
<1>8. CASE SaveKeyCloud
  BY <1>8 DEF SaveKeyCloud
<1>9. CASE CorrectPoses
  BY <1>9 DEF CorrectPoses
<1>10. CASE LoopBegins
  BY <1>10 DEF LoopBegins
<1>11. CASE CopyKeyPoses
  BY <1>11 DEF CopyKeyPoses
<1>12. CASE CopyKeyPoses6D
  BY <1>12 DEF CopyKeyPoses6D
<1>13. CASE LoopDetected
  BY <1>13 DEF LoopDetected
<1>14. CASE NoLoop
  BY <1>14 DEF NoLoop
<1>15. CASE LoopFindNearKeyframes
  BY <1>15 DEF LoopFindNearKeyframes
<1>16. CASE AddPoseConstraint
  BY <1>16 DEF AddPoseConstraint
<1>17. CASE AddLoopConstraint
  BY <1>17 DEF AddLoopConstraint
<1>18. CASE UNCHANGED vars
  BY <1>18 DEF vars
<1>. QED
  BY <1>1, <1>2, <1>3, <1>4, <1>5, <1>6, <1>7, <1>8, <1>9, <1>10, <1>11, <1>12,
     <1>13, <1>14, <1>15, <1>16, <1>17, <1>18
  DEF Next, Handler, Loop

(* The factors that were found: the loop thread adds one, and the handler    *)
(* moves them into the graph in their order.                                 *)
NewFactor ==
    [from |-> loopKeyCur, to |-> loopKeyPre,
     poseFrom |-> copy6D[loopKeyCur].pose, poseTo |-> copy6D[loopKeyPre].pose]

LEMMA FactorsChange ==
    ASSUME Shapes, Copied, Found, [Next]_vars
    PROVE  /\ Factors \in Seq(Factor)
           /\ AddPoseConstraint => NewFactor \in Factor /\ Factors' = Append(Factors, NewFactor)
           /\ ~AddPoseConstraint => Factors' = Factors
<1>. USE DEF handlerVars, mapVars, loopVars
<1>1. Factors \in Seq(Factor)
  BY ConcatProperties DEF Shapes, Factors
<1>2. CASE AddPoseConstraint
  <2>1. NewFactor \in Factor
    BY <1>2, FoundKeys DEF AddPoseConstraint, NewFactor, Factor, Key6D
  <2>2. graph' = graph /\ loopQueue' = Append(loopQueue, NewFactor)
    BY <1>2 DEF AddPoseConstraint, NewFactor
  <2>. HIDE DEF Factor
  <2>3. graph \o Append(loopQueue, NewFactor) = Append(graph \o loopQueue, NewFactor)
    BY <2>1 DEF Shapes
  <2>. QED
    BY <1>1, <1>2, <2>1, <2>2, <2>3 DEF Factors
<1>3. CASE SaveKeyPose
  <2>1. graph' \o loopQueue' = graph \o loopQueue
    BY <1>1, <1>3, ConcatEmptySeq DEF SaveKeyPose, Factors
  <2>2. ~AddPoseConstraint
    BY <1>3 DEF SaveKeyPose, AddPoseConstraint
  <2>. QED
    BY <1>1, <2>1, <2>2 DEF Factors
<1>4. ASSUME \/ Receive \/ SkipScan \/ ProcessScan \/ ExtractSurroundingKeyFrames \/ KeepFrame
             \/ SaveKeyPose6D \/ SaveKeyCloud \/ CorrectPoses
      PROVE  UNCHANGED <<graph, loopQueue>>
  BY <1>4 DEF Receive, SkipScan, ProcessScan, ExtractSurroundingKeyFrames, KeepFrame,
              SaveKeyPose6D, SaveKeyCloud, CorrectPoses
<1>5. ASSUME \/ LoopBegins \/ CopyKeyPoses \/ CopyKeyPoses6D \/ LoopDetected \/ NoLoop
             \/ LoopFindNearKeyframes \/ AddLoopConstraint
      PROVE  UNCHANGED <<graph, loopQueue>>
  BY <1>5 DEF LoopBegins, CopyKeyPoses, CopyKeyPoses6D, LoopDetected, NoLoop,
              LoopFindNearKeyframes, AddLoopConstraint
<1>6. CASE UNCHANGED vars
  BY <1>1, <1>2, <1>6 DEF vars, Factors
<1>7. UNCHANGED <<graph, loopQueue>> => Factors' = Factors
  BY DEF Factors
<1>. QED
  BY <1>1, <1>2, <1>3, <1>4, <1>5, <1>6, <1>7 DEF Next, Handler, Loop

LEMMA RecordedHolds ==
    ASSUME Shapes, Copied, Found, Recorded, [Next]_vars
    PROVE  Recorded'
<1>. USE DEF handlerVars, mapVars, loopVars
<1>1. CASE AddPoseConstraint
  <2>1. /\ loop = "align" /\ loop' = "record" /\ loopKeyCur' = loopKeyCur
        /\ loopIndexContainer' = loopIndexContainer
    BY <1>1 DEF AddPoseConstraint
  <2>2. \A i \in DOMAIN Factors : Factors[i].from \in loopIndexContainer
    BY <2>1 DEF Recorded
  <2>3. NewFactor.from = loopKeyCur
    BY DEF NewFactor
  <2>. HIDE DEF NewFactor
  <2>4. Factors \in Seq(Factor) /\ NewFactor \in Factor /\ Factors' = Append(Factors, NewFactor)
    BY <1>1, FactorsChange
  <2>. HIDE DEF Factor
  <2>5. ASSUME NEW i \in DOMAIN Factors'
        PROVE  Factors'[i] = NewFactor \/ (i \in DOMAIN Factors /\ Factors'[i] = Factors[i])
    BY <2>4
  <2>. QED
    BY <2>1, <2>2, <2>3, <2>5 DEF Recorded
<1>2. CASE AddLoopConstraint
  <2>1. Factors' = Factors
    BY <1>2, FactorsChange DEF AddLoopConstraint, AddPoseConstraint
  <2>. QED
    BY <1>2, <2>1 DEF AddLoopConstraint, Recorded
<1>3. CASE ~AddPoseConstraint /\ ~AddLoopConstraint
  <2>1. Factors' = Factors
    BY <1>3, FactorsChange
  <2>2. ASSUME Handler
        PROVE  UNCHANGED <<loop, loopKeyCur, loopIndexContainer>>
    BY <2>2 DEF Handler, Receive, SkipScan, ProcessScan, ExtractSurroundingKeyFrames, KeepFrame,
                SaveKeyPose, SaveKeyPose6D, SaveKeyCloud, CorrectPoses
  <2>3. ASSUME LoopBegins \/ CopyKeyPoses \/ CopyKeyPoses6D \/ LoopDetected \/ NoLoop
               \/ LoopFindNearKeyframes
        PROVE  loop # "record" /\ loopIndexContainer' = loopIndexContainer
    BY <2>3 DEF LoopBegins, CopyKeyPoses, CopyKeyPoses6D, LoopDetected, NoLoop,
                LoopFindNearKeyframes
  <2>4. CASE UNCHANGED vars
    BY <2>1, <2>4 DEF vars, Recorded
  <2>. QED
    BY <1>3, <2>1, <2>2, <2>3, <2>4 DEF Next, Loop, Recorded
<1>. QED
  BY <1>1, <1>2, <1>3

(* The handler never takes a key frame back.                                 *)
LEMMA KeysStay ==
    ASSUME Shapes, MapGrows, [Next]_vars
    PROVE  DOMAIN keyPoses3D \subseteq DOMAIN keyPoses3D'
<1>. USE DEF handlerVars, mapVars, loopVars
<1>1. CASE SaveKeyPose
  <2>1. estimate' \in Nat /\ keyPoses3D' = Append(keyPoses3D, estimate')
    BY <1>1 DEF SaveKeyPose, Shapes
  <2>. QED
    BY <2>1 DEF Shapes
<1>2. CASE CorrectPoses
  BY <1>2 DEF CorrectPoses
<1>3. ASSUME \/ Receive \/ SkipScan \/ ProcessScan \/ ExtractSurroundingKeyFrames \/ KeepFrame
             \/ SaveKeyPose6D \/ SaveKeyCloud
      PROVE  keyPoses3D' = keyPoses3D
  BY <1>3 DEF Receive, SkipScan, ProcessScan, ExtractSurroundingKeyFrames, KeepFrame,
              SaveKeyPose6D, SaveKeyCloud
<1>4. ASSUME Loop
      PROVE  keyPoses3D' = keyPoses3D
  BY <1>4 DEF Loop, LoopBegins, CopyKeyPoses, CopyKeyPoses6D, LoopDetected, NoLoop,
              LoopFindNearKeyframes, AddPoseConstraint, AddLoopConstraint
<1>5. CASE UNCHANGED vars
  BY <1>5 DEF vars
<1>. QED
  BY <1>1, <1>2, <1>3, <1>4, <1>5 DEF Next, Handler

LEMMA SoundHolds ==
    ASSUME Shapes, MapGrows, Copied, Found, Recorded, LoopFactorsSound, [Next]_vars
    PROVE  LoopFactorsSound'
<1>1. Factors \in Seq(Factor) /\ DOMAIN keyPoses3D \subseteq DOMAIN keyPoses3D'
  BY FactorsChange, KeysStay
<1>2. CASE ~AddPoseConstraint
  <2>1. Factors' = Factors
    BY <1>2, FactorsChange
  <2>. QED
    BY <1>1, <2>1 DEF LoopFactorsSound, Factors
<1>3. CASE AddPoseConstraint
  <2>1. NewFactor \in Factor /\ Factors' = Append(Factors, NewFactor)
    BY <1>3, FactorsChange
  <2>2. /\ NewFactor.from = loopKeyCur /\ NewFactor.to = loopKeyPre
        /\ NewFactor.poseFrom = copy6D[loopKeyCur].pose
        /\ NewFactor.poseTo = copy6D[loopKeyPre].pose
    BY DEF NewFactor
  <2>3. loop = "align"
    BY <1>3 DEF AddPoseConstraint
  <2>4. NewFactor.from # NewFactor.to /\ NewFactor.poseFrom = NewFactor.poseTo
    BY <2>2, <2>3, FoundKeys DEF Found
  <2>5. NewFactor.from \in DOMAIN keyPoses3D /\ NewFactor.to \in DOMAIN keyPoses3D
    <3>1. Len(copy3D) <= Len(keyPoses3D)
      BY <2>3 DEF Copied, MapGrows, Shapes
    <3>2. /\ DOMAIN keyPoses3D = 1..Len(keyPoses3D)
          /\ Len(keyPoses3D) \in Nat /\ Len(copy3D) \in Nat
      BY LenProperties DEF Shapes
    <3>3. loopKeyCur \in 1..Len(copy3D) /\ loopKeyPre \in 1..Len(copy3D)
      BY <2>3, FoundKeys
    <3>. QED
      BY <2>2, <3>1, <3>2, <3>3
  <2>6. \A i \in DOMAIN Factors : Factors[i].from # NewFactor.from
    BY <2>2, <2>3 DEF Recorded, Found
  <2>. HIDE DEF NewFactor
  <2>7. \A i \in DOMAIN Factors' :
           \/ i \in DOMAIN Factors /\ Factors'[i] = Factors[i]
           \/ i = Len(Factors) + 1 /\ Factors'[i] = NewFactor
    BY <1>1, <2>1
  <2>8. /\ \A i \in DOMAIN Factors :
              /\ Factors[i].from \in DOMAIN keyPoses3D /\ Factors[i].to \in DOMAIN keyPoses3D
              /\ Factors[i].from # Factors[i].to
              /\ Factors[i].poseFrom = Factors[i].poseTo
        /\ \A i, j \in DOMAIN Factors : Factors[i].from = Factors[j].from => i = j
    BY DEF LoopFactorsSound, Factors
  <2>9. ASSUME NEW i \in DOMAIN Factors'
        PROVE  /\ {Factors'[i].from, Factors'[i].to} \subseteq DOMAIN keyPoses3D'
               /\ Factors'[i].from # Factors'[i].to
               /\ Factors'[i].poseFrom = Factors'[i].poseTo
    BY <1>1, <2>4, <2>5, <2>7, <2>8
  <2>10. ASSUME NEW i \in DOMAIN Factors', NEW j \in DOMAIN Factors',
                Factors'[i].from = Factors'[j].from
         PROVE  i = j
    BY <2>6, <2>7, <2>8, <2>10
  <2>. QED
    BY <2>9, <2>10 DEF LoopFactorsSound, Factors
<1>. QED
  BY <1>2, <1>3

LEMMA InitHolds == Init => IInv
<1>. SUFFICES ASSUME Init PROVE IInv
  OBVIOUS
<1>1. Shapes /\ MapGrows
  BY EmptySeq DEF Init, Shapes, MapGrows
<1>2. Factors = <<>>
  BY ConcatEmptySeq, EmptySeq DEF Init, Factors
<1>3. Flag /\ MtxOwner
  BY DEF Init, Flag, MtxOwner
<1>4. OneEstimate /\ Cached /\ Copied /\ Found
  BY DEF Init, OneEstimate, Cached, Copied, SnapshotOfOneMap, Found
<1>5. Recorded /\ LoopFactorsSound
  BY <1>2 DEF Recorded, LoopFactorsSound, Factors
<1>. QED
  BY <1>1, <1>3, <1>4, <1>5 DEF IInv

LEMMA InvariantHolds == Spec => []IInv
<1>1. IInv /\ [Next]_vars => IInv'
  BY ShapesHold, FlagHolds, MtxHolds, GrowsHolds, EstimateHolds, CachedHolds, CopiedHolds,
     FoundHolds, RecordedHolds, SoundHolds
  DEF IInv
<1>. QED
  BY InitHolds, <1>1, PTL DEF Spec

(* What the loop thread works on without the lock is one map.                *)
THEOREM CopiesAreOneMap == Spec => []SnapshotOfOneMap
<1>1. IInv => SnapshotOfOneMap
  BY DEF IInv, Copied
<1>. QED
  BY <1>1, InvariantHolds, PTL

(* No cloud of the surrounding map is where its key frame was.               *)
THEOREM NoStaleCloud == Spec => []MapCacheFresh
<1>1. IInv => MapCacheFresh
  BY DEF IInv, Cached, MapCacheFresh
<1>. QED
  BY <1>1, InvariantHolds, PTL

(* Loop factors join two key frames, and no key frame gets two.              *)
THEOREM LoopsAreClosedSoundly == Spec => []LoopFactorsSound
<1>1. IInv => LoopFactorsSound
  BY DEF IInv
<1>. QED
  BY <1>1, InvariantHolds, PTL

===============================================================================
