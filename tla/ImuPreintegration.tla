------------------------ MODULE ImuPreintegration ------------------------
(***************************************************************************)
(* IMUPreintegration (lio_sam/src/imuPreintegration.cpp): from LiDAR       *)
(* odometry ("corrections", slow) and IMU measurements (fast) it publishes *)
(* an odometry at the rate of the IMU.                                     *)
(*                                                                         *)
(* Two queues hold the same measurements.  A correction moves those of     *)
(* imuQueOpt that are older than itself into a factor between the last     *)
(* pose of the factor graph and a new one.  It throws those of imuQueImu   *)
(* that are older away and integrates the others again from the corrected  *)
(* pose: this is the prediction each later measurement continues.  The     *)
(* graph starts afresh every ResetKey keys, and when the result is absurd  *)
(* (failureDetection) everything waits for the next correction.            *)
(*                                                                         *)
(* The two callbacks belong to different callback groups of a              *)
(* multi-threaded executor: they run in any order, each under mtx.  A      *)
(* measurement is its stamp; measurements arrive in the order of their     *)
(* stamps and corrections do, but a correction may be older or newer than  *)
(* the measurements that have arrived.                                     *)
(***************************************************************************)
EXTENDS Integers, Sequences, SequencesExt, Functions

CONSTANTS ResetKey,     \* 100 in the code
          MaxStamp      \* bound: the newest stamp of a message

ASSUME ConstantsAssumption == ResetKey \in Nat \ {0, 1} /\ MaxStamp \in Nat

Stamp == 1..MaxStamp
None == -1

VARIABLES
    imuQueOpt, imuQueImu,               \* stamps of the measurements, oldest first
    imuIntegratorOpt, imuIntegratorImu, \* what was integrated since the last reset
    lastImuT_opt, lastImuT_imu,         \* stamp of the last measurement, or None
    systemInitialized, doneFirstOpt,
    key,
    graph,              \* keys X(i), V(i), B(i) of the optimizer, in order of insertion
    prevStateOdom,      \* stamp of the correction predictions start from
    odomTime,           \* stamp of the last correction received
    received,           \* history: every measurement, in order
    integrated,         \* history: what the IMU factors integrated, one after another
    initTime,           \* history: stamp of the correction that initialized the system
    failTime,           \* history: stamp of the last correction that failed
    seen                \* history: how many were received before prevStateOdom

queues == <<imuQueOpt, imuQueImu, received>>
vars == <<queues, imuIntegratorOpt, imuIntegratorImu, lastImuT_opt, lastImuT_imu,
          systemInitialized, doneFirstOpt, key, graph, prevStateOdom, odomTime,
          integrated, initTime, failTime, seen>>

Init ==
    /\ imuQueOpt = <<>> /\ imuQueImu = <<>>
    /\ imuIntegratorOpt = <<>> /\ imuIntegratorImu = <<>>
    /\ lastImuT_opt = None /\ lastImuT_imu = None
    /\ systemInitialized = FALSE /\ doneFirstOpt = FALSE
    /\ key = 1 /\ graph = <<>>
    /\ prevStateOdom = 0 /\ odomTime = 0
    /\ received = <<>> /\ integrated = <<>>
    /\ initTime = 0 /\ failTime = 0 /\ seen = 0

-----------------------------------------------------------------------------
(* integrateMeasurement(): a measurement and the time it is taken to last,   *)
(* from another one's stamp to its own, or 1/500 s when from is None.        *)
Measure(from, stamp) == [from |-> from, at |-> stamp]

(* Measurements integrated one after another, the first since "last" *)
IntegrateAll(q, last) ==
    [i \in DOMAIN q |-> Measure(IF i = 1 THEN last ELSE q[i - 1], q[i])]

(* How many the loops pop: all before the first that is not older than c *)
CountBefore(q, stay) == IF stay = {} THEN Len(q) ELSE Min(stay) - 1

(* mutation: the loops also pop a measurement made at the time of c *)
CountOlder_OrEqual(q, c) == CountBefore(q, {i \in DOMAIN q : q[i] > c})
CountOlder(q, c) == CountBefore(q, {i \in DOMAIN q : q[i] >= c})

Older(q, c) == SubSeq(q, 1, CountOlder(q, c))
Newer(q, c) == SubSeq(q, CountOlder(q, c) + 1, Len(q))

(* The stamp of the last one popped, if one was *)
LastPopped(q, c, otherwise) == IF Older(q, c) = <<>> THEN otherwise ELSE Last(Older(q, c))

-----------------------------------------------------------------------------
(* odometryHandler() *)

(* mutation: the measurements popped do not count as the last ones seen *)
LastSkipped_Forgotten(c) == lastImuT_opt
LastSkipped(c) == LastPopped(imuQueOpt, c, lastImuT_opt)

(* 0. initialize system *)
Initialize(c) ==
    /\ imuQueOpt # <<>> /\ ~systemInitialized
    /\ lastImuT_opt' = LastSkipped(c)
    /\ imuQueOpt' = Newer(imuQueOpt, c)
    /\ graph' = <<0>> /\ key' = 1
    /\ imuIntegratorOpt' = <<>> /\ imuIntegratorImu' = <<>>
    /\ systemInitialized' = TRUE
    /\ initTime' = c
    /\ UNCHANGED <<imuQueImu, received, lastImuT_imu, doneFirstOpt, prevStateOdom,
                   integrated, failTime, seen>>

(* The key and the graph at the time the factor is added: they start afresh  *)
(* when there were ResetKey keys                                             *)
FreshGraph == key = ResetKey

KeyNow == IF FreshGraph THEN 1 ELSE key
GraphNow == IF FreshGraph THEN <<0>> ELSE graph

(* 1. integrate imu data and optimize *)
AddFactor(c) ==
    /\ imuQueOpt' = Newer(imuQueOpt, c)
    /\ lastImuT_opt' = LastPopped(imuQueOpt, c, lastImuT_opt)
    /\ integrated' = integrated \o imuIntegratorOpt
                        \o IntegrateAll(Older(imuQueOpt, c), lastImuT_opt)
    /\ graph' = Append(GraphNow, KeyNow)
    /\ imuIntegratorOpt' = <<>>

(* resetParams() *)

(* mutation: the next correction is taken for one more of the same graph *)
ResetSystemInitialized_Kept == systemInitialized
ResetSystemInitialized == FALSE

ResetParams(c) ==
    /\ lastImuT_imu' = None
    /\ doneFirstOpt' = FALSE
    /\ systemInitialized' = ResetSystemInitialized
    /\ failTime' = c

CorrectionFails(c) ==
    /\ imuQueOpt # <<>> /\ systemInitialized
    /\ AddFactor(c)
    /\ ResetParams(c)
    /\ key' = KeyNow
    /\ UNCHANGED <<imuQueImu, received, imuIntegratorImu, prevStateOdom, initTime, seen>>

(* 2. re-propagate; an empty queue leaves the integrator as it is *)
Repropagate(c) ==
    /\ prevStateOdom' = c /\ seen' = Len(received)
    /\ imuQueImu' = Newer(imuQueImu, c)
    /\ imuIntegratorImu' = IF imuQueImu' = <<>> THEN imuIntegratorImu
                           ELSE IntegrateAll(imuQueImu', LastPopped(imuQueImu, c, None))

Correct(c) ==
    /\ imuQueOpt # <<>> /\ systemInitialized
    /\ AddFactor(c)
    /\ Repropagate(c)
    /\ key' = KeyNow + 1
    /\ doneFirstOpt' = TRUE
    /\ UNCHANGED <<received, lastImuT_imu, systemInitialized, initTime, failTime>>

(* no IMU data: the correction is ignored *)
IgnoreCorrection ==
    /\ imuQueOpt = <<>>
    /\ UNCHANGED <<queues, imuIntegratorOpt, imuIntegratorImu, lastImuT_opt,
                   lastImuT_imu, systemInitialized, doneFirstOpt, key, graph,
                   prevStateOdom, integrated, initTime, failTime, seen>>

OdometryHandler(c) ==
    /\ c > odomTime /\ odomTime' = c
    /\ IgnoreCorrection \/ Initialize(c) \/ Correct(c) \/ CorrectionFails(c)

-----------------------------------------------------------------------------
(* imuHandler(): the measurement is kept for the next correction and, when   *)
(* there is a state to predict from, integrated and a prediction published.  *)

ImuHandler(t) ==
    /\ received # <<>> => t > Last(received)
    /\ received' = Append(received, t)
    /\ imuQueOpt' = Append(imuQueOpt, t)
    /\ imuQueImu' = Append(imuQueImu, t)
    /\ IF doneFirstOpt
          THEN /\ lastImuT_imu' = t
               /\ imuIntegratorImu' = Append(imuIntegratorImu, Measure(lastImuT_imu, t))
          ELSE UNCHANGED <<lastImuT_imu, imuIntegratorImu>>
    /\ UNCHANGED <<imuIntegratorOpt, lastImuT_opt, systemInitialized, doneFirstOpt, key,
                   graph, prevStateOdom, odomTime, integrated, initTime, failTime, seen>>

Next == \E t \in Stamp : ImuHandler(t) \/ OdometryHandler(t)

Spec == Init /\ [][Next]_vars

-----------------------------------------------------------------------------
Measurement == [from : Stamp \union {None}, at : Stamp]

(* Types: queues and integrators hold measurements in the order they were    *)
(* made, a prediction has a state to start from, and between two callbacks   *)
(* the optimizer's integrator is empty.                                      *)
Increasing(q) == \A i, j \in DOMAIN q : i < j => q[i] < q[j]
StampsOf(measures) == [i \in DOMAIN measures |-> measures[i].at]

TypeOK ==
    /\ \A q \in {imuQueOpt, imuQueImu, received} : q \in Seq(Stamp) /\ Increasing(q)
    /\ imuIntegratorOpt = <<>>
    /\ imuIntegratorImu \in Seq(Measurement) /\ Increasing(StampsOf(imuIntegratorImu))
    /\ {lastImuT_opt, lastImuT_imu} \subseteq Stamp \union {None}
    /\ systemInitialized \in BOOLEAN /\ doneFirstOpt \in BOOLEAN
    /\ doneFirstOpt => systemInitialized
    /\ key \in 1..ResetKey
    /\ graph \in Seq(0..ResetKey)
    /\ integrated \in Seq(Measurement)
    /\ {prevStateOdom, odomTime, initTime, failTime} \subseteq Stamp \union {0}
    /\ seen \in 0..Len(received)

(* The keys in the optimizer are 0, 1, 2, ... each inserted once, whatever   *)
(* failed or was started afresh (ISAM2 throws on a key it has), and key is   *)
(* the next one: the factor from X(key - 1) to X(key), and the marginals of  *)
(* X(key - 1) when the graph starts afresh, refer to keys that are there.    *)
GraphIsAChain ==
    /\ \A i \in DOMAIN graph : graph[i] = i - 1
    /\ systemInitialized => Len(graph) = key

(* The measurement received before this one *)
Before(t) ==
    LET i == CHOOSE j \in DOMAIN received : received[j] = t
    IN IF i = 1 THEN None ELSE received[i - 1]

(* Every measurement is part of at most one factor, for exactly the time     *)
(* since the measurement before it, across failures and new beginnings too;  *)
(* and while the system is initialized none made since it began is missing:  *)
(* it is in a factor or waits for the next correction.                       *)
EachMeasurementInOneFactor ==
    /\ Increasing(StampsOf(integrated))
    /\ \A m \in Range(integrated) : m.from = Before(m.at)
    /\ systemInitialized =>
         \A t \in Range(received) : t >= initTime =>
             t \in Range(StampsOf(integrated)) \union Range(imuQueOpt)

(* What a prediction continues the last correction with is the measurements  *)
(* "from the beginning of this optimization": those imuQueImu holds, which   *)
(* arrived after that correction or are not older.                           *)
IntegratesFromOptimization == doneFirstOpt => StampsOf(imuIntegratorImu) = imuQueImu

(* A prediction starts from a correction newer than the last that failed,    *)
(* and imuQueImu holds what arrived after that correction or is not older.   *)
(* All of it has been integrated, once and last, and nothing else has when   *)
(* the correction found a measurement as new as itself.  (When it found none *)
(* the integrator goes on with what it has: IntegratesFromOptimization.)  No *)
(* measurement counts for longer than since the one before it, although the  *)
(* two callbacks each keep a stamp of the last: it counts for that, or for   *)
(* the 1/500 s of a first one.                                               *)
PredictsSinceCorrection ==
    doneFirstOpt =>
      LET since == {i \in DOMAIN received : i > seen \/ received[i] >= prevStateOdom}
          fed == \E i \in 1..seen : received[i] >= prevStateOdom
      IN /\ prevStateOdom > failTime
         /\ Range(imuQueImu) = {received[i] : i \in since}
         /\ IsSuffix(imuQueImu, StampsOf(imuIntegratorImu))
         /\ fed => IntegratesFromOptimization
         /\ \A m \in Range(imuIntegratorImu) : m.from \in {None, Before(m.at)}
=============================================================================
