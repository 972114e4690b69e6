# A verification development of lynx_sensor_drivers

TLA+ modules of the concurrent and stateful parts of this repository, TLC
configurations that check them on small instances, and TLAPS proofs of the
properties that matter most for every value of the constants.

    tlc -config MCLidarDriver_socket.cfg MCLidarDriver     # a run
    tlapm LidarDriver_proofs.tla                           # a proof

`PROJECT.json` names for each definition the lines of source it models, for each
property a mutation of the code that breaks it, the hazards of the code, and the
places where the code does not do what it says.

## 1. The system

The repository is a ROS 2 workspace for a vehicle with LiDARs, two inertial
sensors and a radar. `bringup/launch/bringup.launch.py` starts one process per
driver; `lio_sam` estimates the vehicle's motion from LiDAR and IMU. Processes
talk through ROS topics only. Inside a process there are threads, queues and
callbacks, and that is where the difficulty lies.

    sensor --UDP/pcap/ROS--> rs_driver --callbacks--> rslidar_sdk --topic--> lio_sam
    (input thread -> packet queue -> handler thread -> frame -> cloud queue -> publisher thread)

    TransducerM --serial--> tm_imu --topic--> lio_sam          Fixposition --TCP/serial--> fixposition_driver
    radar --TCP--> nav_radar (navtech SDK)

### Components

| component | state | operations | interacts with | what is hard |
|---|---|---|---|---|
| **SyncQueue** (`rs_driver/utility/sync_queue.hpp`) | `queue_`, mutex, condition variable | push, pop, popWait, clear | every queue of the two parts below | wakeup after unlock, notified only when the queue was empty, timeouts, spurious wakeups |
| **LidarDriverImpl** (`driver/lidar_driver_impl.hpp`) | `free_pkt_queue_`, `pkt_queue_`, `init_flag_`, `start_flag_`, `to_exit_handle_`, decoder and its cloud | init, start, stop, decodePacket, packetGet/Put, processPacket, splitFrame | Input (calls back per packet), Decoder, the user's callbacks | buffers recycled between threads, overflow, sessions, joins |
| **Input**, InputSock, InputRaw, InputPcap, jumbo variants (`driver/input/`) | thread, `to_exit_recv_`, sockets, file | start, stop, recvPacket, feedPacket | calls packetGet/packetPut | exit flag polled, select errors, end of file, reassembly |
| **split strategies** (`decoder/split_strategy.hpp`) | last angle; last, largest and safe range of packet numbers | newBlock, newPacket | decoders | wrap at 36000, rewind of the numbers; lost, late and duplicated packets |
| **decoders** (`decoder/*.hpp`) | angle and distance tables, device info, cloud | decodeMsopPkt, decodeDifopPkt | split strategies | mostly table look-up and floating point |
| **SourceDriver**, Source (`rslidar_sdk/src/source/`) | free and filled cloud queues (and two of IMU data), publisher thread, destinations | init, start, stop, getPointCloud, putPointCloud, processPointCloud | LidarDriver below, destinations above | a cloud recycled while others use it, shutdown order, double stop |
| **NodeManager**, `main()` (`rslidar_sdk/src/manager/`, `node/`) | sources, condition variable | init, start, stop, sigHandler | SourceDriver | lost signal, order of stop and destruction |
| **IMUPreintegration** (`lio_sam/src/imuPreintegration.cpp`) | two queues of one topic, two integrators, factor graph and key, flags | odometryHandler, imuHandler, resetParams | mapOptimization, TransformFusion | two callback groups, late messages, failure half way, periodic reset |
| **TransformFusion** (same file) | IMU odometry queue, last LiDAR odometry | lidarOdometryHandler, imuOdometryHandler | IMUPreintegration, on the same executor | two topics without an order between them: one overtakes the other |
| **ImageProjection** (`imageProjection.cpp`) | cloud, IMU and odometry queues | imuHandler, odometryHandler, cloudHandler | all of lio_sam | three callback groups; scans dropped while data is missing; fixed arrays |
| **mapOptimization** (`mapOptmization.cpp`) | key frames (positions, poses, clouds), cache of transformed clouds, graph, loop queues | laserCloudInfoHandler, loop-closure thread, visualization thread | IMUPreintegration | constraints measured on copies of poses that move, caches of what moves, vectors read without the lock |
| **FeatureExtraction**, utilities | one scan | laserCloudInfoHandler | | none: a function of a message |
| **FixpositionDriver** (`fixposition_driver_lib/`) | `sensor_fd_`, parser, observers, worker thread | Connect, Disconnect, Read, Write, StartDriver, StopDriver, Worker | ROS node through observers | no locks: a flag, a semaphore and a join keep two threads apart; reconnection, interruptible sleep, end of stream |
| **EasyProtocol**, EasyQueue, tm_imu (`TransducerM_TM341/`) | byte queue, parser of packages, last message | timer, OnSerialRX, push, AssembleInputPackage, UnWrapInData | ROS | resynchronization, sizes taken from the line, overwritten bytes, stale message published |
| **navtech-radar-SDK** | connections, dispatcher threads, buffers | connect, send, deliver, stop | nav_radar nodes | a vendor's SDK, with unit tests |
| **fixposition-sdk**, serialib, message packages, bringup, viewers | | | | vendored, generated or pure I/O |

What makes each of them correct:

- *SyncQueue*: no consumer sleeps over a queue that holds something unless
  somebody is about to notify it; values come out in the order they went in.
- *LidarDriverImpl*: a buffer is in one place at a time; what is decoded is what
  was received, in order; memory is bounded although nobody counts it; stop()
  returns, leaves nothing running, and start() works again.
- *split strategies*: one frame is one revolution, or all packets of one scan,
  whatever the network does within the range the strategy allows for.
- *SourceDriver*: the cloud the decoder fills is nobody else's; frames are
  published whole, in order, once; nothing is published after stop().
- *node*: a signal stops all sources, and they are stopped before one is destroyed.
- *IMUPreintegration*: each measurement counts once and for as long as it lasted,
  in the factors and in the prediction, across failures and resets; the optimizer
  is asked only for keys it has.
- *TransformFusion*: what it adds to the newest LiDAR odometry is all IMU odometry
  after it and none before. (That it never reads an empty queue is not so.)
- *ImageProjection*: a scan is de-skewed with the IMU data that surrounds it or not at all.
- *mapOptimization*: what is copied, cached and joined by a loop belongs to one
  estimate of the poses, although the estimate changes while threads work on it;
  a loop is closed once.
- *FixpositionDriver*: one thread at a time uses the connection; StopDriver()
  returns at once and leaves nothing running. (That it reconnects is not so.)
- *EasyProtocol*: no size taken from the line leads out of the buffer; a package is
  not lost for how its bytes are spread over reads; after garbage or an overflow
  packages are found again within the length of one.

## 2. Modules

| module | models | state and actions |
|---|---|---|
| `BlockingFifo` | what a SyncQueue promises | an atomic FIFO whose consumer does not starve |
| `SyncQueue` | SyncQueue, both builds | one action per critical section, `NotifyOne` apart; the waits end by notification, by timeout or spuriously |
| `PacketChannel` | what the buffers of a driver promise | a FIFO of packet values that may lose all it holds |
| `LidarDriver` | LidarDriverImpl with InputSock or InputRaw | a program counter for each thread (`producer`, `handler`) and for the caller of start/stop (`ctl`); one action between two synchronizations |
| `FrameChannel` | what SourceDriver's clouds promise | frames published once, in order, as decoded |
| `SourceDriver` | SourceDriver with the part of LidarDriverImpl that fills clouds | decoder and publisher threads, the owner's init, start, stop and destructor |
| `RsNode` | main(), sigHandler, NodeManager | one action per source and phase, signals at any moment |
| `RslidarSdk` | the process: `RsNode` with its first source as `SourceDriver` | joint steps where main() calls the source and where its publisher ends; each part alone otherwise |
| `FrameAssembler` | what splitting by number promises | a frame ends when a packet of a later one arrives |
| `SeqSplitter` | SplitStrategyBySeq, its caller in DecoderRSM1 and the others, and the network | one action per packet; the network displaces, repeats and loses packets |
| `AngleSplitter` | SplitStrategyByAngle and the rotating sensor | one action per block |
| `ImuPreintegration` | IMUPreintegration | one action per way through a callback, with histories of what was integrated |
| `TransformFusion` | TransformFusion | one action per callback; the loop that pops is an operator on the queue |
| `ImuOdometry` | the process of both | composes the two by the topic between them, and gives each its own share of the LiDAR odometry |
| `MapOptimization` | laserCloudInfoHandler and loopClosureThread | one action per vector the handler changes, and per part of the loop thread with or without `mtx` |
| `FixpositionDriver` | FixpositionDriver, fpsdk's Thread and BinarySemaphore, StartNode/StopNode and the sensor | program counters `main` and `worker`; `line` and `wire` are the connection |
| `EasyProtocol` | EasyProtocol, EasyQueue, the timer of tm_imu, the device and the line | one action per byte taken from the queue, by what the parser does with it |

`SyncQueue` stands alone; `LidarDriver` and `SourceDriver` use each queue as an
atomic one with a timed wait, which is what `ImplementsBlockingFifo` justifies.
SyncQueue is modelled for one waiting consumer, as each queue of the program has one.
`SourceDriver` contains what it sees of the driver, and `RsNode` what it sees of a
source: whether its threads run and have been joined. `RslidarSdk` joins the two at
the first source: main() is the source's owner, and the process ends for both at
once. `ImuOdometry` EXTENDS `ImuPreintegration` and instantiates `TransformFusion`.
The other modules stand alone, as the processes do.

How code becomes actions. A step reaches from one synchronization (a lock taken
and released, a flag polled, a join) to the next. `producer = "filling"` is a
thread between `cb_get_pkt_` and `cb_put_pkt_`, with its buffer in `hand`;
`"overflow"` is one between `pkt_queue_.push()` and `clear()`, which are two
critical sections. Flags that threads poll (`to_exit_handle_`, ...) are read in
a step of their own. `stop()` is a step up to its first join, and one for each join.

In `FixpositionDriver` the order of `Thread::Start()` (create the thread, then set
the status StopDriver() looks at) and of `Stop()` (flag, notify, join) are steps,
as the worker may be anywhere between them. `Connect` and `Disconnect` are
operators that both threads use. In `MapOptimization` the handler holds `mtx`
from `ProcessScan` to `CorrectPoses`; the loop thread holds it for the two
copies only, and `AddPoseConstraint` takes and releases it.

What is abstracted. A packet is a number and a kind, a cloud the set of what is
in it, an angle one of `Round` values, a pose the measurements it stems from or,
in `MapOptimization`, the number of the estimate it was taken from; a byte of the
serial line carries which package it belongs to, which is what a checksum that
detects every damage tells.
Points, tables, decoding, floating-point geometry, optimization, logging and
parameters are left out; their outcomes that change control (an invalid packet,
a failed initialization, `failureDetection`, a callback without a cloud, the
outcome of connecting, which key frames are near, whether two scans align) are
nondeterministic choices.

Build options and constructor arguments that never change are variables chosen
in `Init` (`polling` of SyncQueue, `splitAtMax` of SeqSplitter, `split_angle`, and
`mechanical` of MCSplitters, which of the two splitters a decoder has),
so that one run covers all of them.

## 3. What the runs show

| run | shows | bounds |
|---|---|---|
| `syncqueue` | no lost wakeup (`NoLostWakeup`), refinement of `BlockingFifo` with its order and its liveness | 2 producers, 5 pushes, both builds |
| `driver_socket` | exclusive buffers, bounded queue and memory, refinement of `PacketChannel`, sessions end, `stop()` returns, the queue is served | 1 receive thread, limit 1, 4 packets, 2 sessions |
| `sdk_clouds` | the whole process: exclusive clouds, allocation follows the backlog, quiet after stop, `stop()` returns, refinement of `FrameChannel`; a signal while main() waits stops all sources, none is destroyed before, and one that counts as stopped has no thread left (`StoppedAsSeen`) | 3 sources, 2 signals; the first with 2 destinations, 4 frames |
| `split` | by number: the splitter knows the newest packet (`TracksNewest`), refines `FrameAssembler`, and RSM1's early frames are whole. By angle: splits nowhere but at the split angle; at 0, the default, and at an angle at least a block's width before 0 splits at every crossing (`SplitsAtEverySafeCrossing`), and frames are rounds. For other angles: `split_crossing` below | 7 packets per frame, RANGE 3, 6 frames; 12 angles, steps up to 4 |
| `imu_preintegration` | every measurement in one factor and for its own duration, predictions that go on from the last correction with what it did not use, none of it for longer than it lasted, the graph's keys; TransformFusion on top of it adds exactly the IMU odometry since the LiDAR's | 6 stamps, reset after 3 keys |
| `fixposition_stop` | worker, StartDriver() and StopDriver() never use the connection at once (Write() is not in the model), observers have what they publish with, nothing is left to join, and StopDriver() is prompt and returns | 3 pieces of messages, 2 starts, TCP and serial |
| `map_optimization` | copies are of one map, cached clouds are where their key frames are, loop factors join poses of one estimate and each key frame once | 9 stamps, every second processed, loops more than 2 stamps apart, 2 clouds cached |
| `easy_protocol` | the parser stays in its buffer, omits no sound package after one it delivered, and resynchronizes within the largest package | payloads up to 1 of 8 admitted, queue 10, read 12, 4 packages, 1 damaged |

Why the bounds are enough. The driver's interesting cases need an overflow, a
recycled and an allocated buffer and a second session: a limit of one packet and four
packets give all of them (one receive thread has at most one pending overflow;
`QueueIsBounded` speaks of any number of threads). The buffers and clouds given
suffice that none is ever missing (`MemoryBounded`, `AllocationFollowsBacklog` bound
them). Two producers are as many as can differ in the order of unlock and notify;
five pushes fill, empty and refill the queue. Seven packets are the fewest a frame
may have for RANGE 3 and packets displaced as far as that permits
(`DisplacementAssumption` of `SeqSplitter`); six frames let DecoderRSM1 learn the
length of a frame, lose the end of one and go on. Twelve angles and steps of up to
four hold all relations of split angle, block and wrap. Six stamps are room for an
initialization, a correction, a failure, a new initialization and a graph that starts
afresh, with measurements before, at and after each; IMU odometry that is delivered
late and LiDAR odometry that either side loses are in them too. Two starts let a node
that failed to connect, or whose worker ended by itself, be stopped and started
again; three pieces are a message in two and one after it. Nine stamps with every
second processed give five key frames: the fewest that hold an old one and one that
is not old when a loop is found, with a correction before, during and after the
alignment; a cache of two is filled and cleared. A queue smaller than a read, as in
the code (680 and 1024), overwrites its oldest bytes, and payloads that may be
declared larger than there is room for are omitted; four packages are one damaged,
two swallowed and one found again. What does not depend on such a choice is proved,
section 5.

Runs that find a violation, each of one property that a document or a comment of
the repository states:

| run | states | what happens |
|---|---|---|
| `sdk_orderly` | NodeManager creates, starts and stops its sources (`rslidar_sdk_intro_CN.md:215`) | after a SIGINT `~SourceDriver()` calls `stop()` once more, the second `join()` throws and the process terminates |
| `split_crossing` | a block that crosses the split angle splits, also when it crosses 0 (`rs_driver_intro_CN.md:874`, `905-906`) | `newBlock()` moves the previous angle a turn back, but not the split angle: a block that passes a split angle just before 0 and then 0 does not split, and two rounds become one frame (`split_strategy.hpp:64`) |
| `imu_optimization` | what the prediction integrates begins with the last optimization (`imuPreintegration.cpp:440`, `455`) | a correction newer than every measurement received leaves `imuIntegratorImu_` as it is: what happened before the correction is counted again from the corrected state (`imuPreintegration.cpp:451`) |
| `fixposition_reconnect` | "Automatic reconnect after connection is lost" (`fixposition_driver/CHANGELOG.md:57`) | `Disconnect()` clears `params_.stream_`, so every later `Connect()` of the worker fails with a bad stream spec |

Deadlock is not checked, as each of these systems may stop: the bounds run out,
the driver is stopped, the node returns. That nothing stops too early is what
the liveness properties say.

## 4. Fairness

Safety properties and the proofs need none. Liveness is checked under weak
fairness of single threads, which is what an operating system's scheduler gives:

- `SyncQueue`: a producer that has unlocked goes on to notify, a consumer that
  is awake goes on. A timed-out wait is *not* fair there: delivery has to rest
  on the notifications alone.
- `LidarDriver`: a thread inside its loop goes on, select() and popWait() time out
  (1 s and 0.5 s in the code), and a `join()` goes on when its thread has ended.
  Neither the arrival of packets nor the user's calls are fair.
- `SourceDriver`: publisher, handler and the call of `stop()` go on, as above.
- `RsNode`: main() and the publishers go on. Signals are not fair.
- `RslidarSdk`, which the runs check: the same of the process. `stop()` of the first
  source is main()'s step here, and main() goes on once it is signalled.
- `FixpositionDriver`: the worker goes on and its sleep ends (`WaitFor` has a
  timeout), the main thread goes on once StartNode() or StopNode() has begun, but
  nobody has to begin. For `Reconnects` only, a sensor that can be connected to
  again and again is connected to in the end (strong fairness of a successful
  `Reconnect`): without it the counterexample would be a sensor that is gone.

`ImuOdometry`, `MapOptimization` and `EasyProtocol` claim no liveness and state no
fairness: what they must do at last depends on messages, scans and bytes that
nothing in the repository promises.

## 5. Proofs

Every proof is checked by `tlapm` to the last leaf; the only assumptions are the
named assumptions on the constants of the modules, which TLC evaluates in the runs.
Each invariant below is inductive, alone or with those named before it: the proof
has one lemma or step per action. Where a part of an invariant was not already one
of a run, TLC checked it on the run's instance before it was proved.

- **`SyncQueue_proofs`** (any producers, any number of pushes, both builds).
  `WakeupsAreNotLost` is inductive with the types, which tell the two builds
  apart: only in the one that notifies can the consumer be waiting. Whoever finds
  the queue empty owes a notification; the one who pays it wakes the consumer,
  and removing values in between only makes the claim weaker. `ValuesComeInOrder`
  needs that the queue holds increasing numbers above the one delivered last.
  `ImplementsSafely` says that each step is a step of `BlockingFifo` or a stutter.
- **`LidarDriver_proofs`** (any threads, limit, packets and sessions).
  `BuffersAreExclusive` is inductive with types and with `SessionsEnd`: a session
  may reuse flags and queues only because no thread of the last one is left.
  `Stuffed` (what is queued or being decoded holds a packet) added to it gives
  `ImplementsChannel`: the refinement mapping looks through the buffers at their
  contents, and a write to one buffer leaves every other position of the mapping
  alone because buffers are exclusive. `QueueIsBounded` and `MemoryIsBounded`
  count: a queue may be over the limit only by the threads that noticed and have
  not cleared it yet, and buffers are allocated only when the free queue is empty.
  `DriverIsQuietWhenStopped` needs `Cleared`: between sessions the handler is joined
  *and* the cloud empty, which holds because stop() joins before it clears.
- **`RslidarSdk_proofs`** (any clouds, destinations and frames; any number of sources
  and signals). For `SourceDriver`, the types are inductive with `Life`: a publisher
  runs only while there is something to join. `CloudsAreExclusive` is inductive with
  them. `Filled` (what waits or is published holds a frame and its number) then gives
  `ImplementsChannel`: as in the driver, the mapping looks through the clouds, and
  `AddPoints` and `GetPointCloud` write to one that no position of the mapping shows.
  The theorem is about the safety part of `ImplementsFrameChannel`, whose fairness
  stays with the run. `Sized` counts: a cloud is allocated only when none is free, and
  then each that exists waits in the queue or is with one of two threads.
  `SourceIsQuietAfterStop` follows from `Life`. For `RsNode`, `Phases` says
  for each phase of main() what the sources below the loop's index have had done to
  them and the others not; in the destructor that is `stopped` for all of them, which is
  `StopsBeforeDestroying`. `NeverReturns` is the finding of `sdk_orderly` seen from
  main(): with at least one source it never returns, but terminates. `SdkStepsOfParts`:
  every step of `RslidarSdk` is one of the node, of the source, or of both, so that all
  of this holds of the process (`SdkKeepsPromises`). `SdkStopsItsThreads` needs `Seen`
  besides: the node has the publisher ending only from the source's `to_exit_process_`
  on, which `stop()` raises after the handler is joined.
- **`Splitters_proofs`** (any frame length, RANGE and displacement; any division of the
  turn, any step). `SplitterTracksNewest` holds by itself once packets are displaced
  less than the frame length permits; `PacketIsRecognized` is the arithmetic of the
  safe range on both sides of the wrap. `SplitsByFrame` is the refinement of
  `FrameAssembler`. `TearsNoFrame` needs `Untorn`: while the network keeps the order, a
  frame that is given away before its end was given away with its largest packet so
  far, so that whatever of it still comes is given away too.
  `NewBlockCrosses` is the arithmetic of `newBlock()`, and `NeverMissesSafeAngle` that of
  a split angle that is 0 or at least a block's width before it. The invariant adds that
  what a frame has covered is how far the azimuth is past the split angle, but for less
  than a block (`CoveredIsPast`); `PastGrows` says what one block does to that, and
  `EveryFrameIsARound` follows for every such angle.
- **`ImuPreintegration_proofs`** (any reset key, any interleaving).
  `OptimizerKeysAreAChain`: the graph holds 0, 1, 2, ... once each, and key is the
  next. It needs that key never passes `ResetKey`, as the code tests for equality,
  and that a graph left by a failure is a chain too, although it has one key more.
  For the queues the invariant says where each stands in the history of what was
  received: it is the end of it, and what is gone from it is older than the last
  correction (`Rest`). How far a correction pops is the least place of what stays,
  which exists because `<` is well-founded on Nat: no induction over the queue.
  `MeasurementsCountOnce` follows from `Optimizer` (what the factors integrated is
  made of what has left `imuQueOpt`, and misses none of it since the system was
  initialized), `PredictionContinuesCorrection` from `Prediction` (what the last
  correction did not use is the part of the history `imuQueImu` is the end of, and
  the integrator ends with that queue; it holds nothing else if the correction found a
  measurement as new as itself) and from `Durations` (each was integrated since the one
  received before it or as a first one: the stamp of the last that `imuHandler` keeps is
  that of the last received, or none, and a failure forgets it). `OdometryImplementsSpec`: with
  `TransformFusion` behind it the component behaves as it does alone, so all of this
  holds of the process. `FusionReachesToNewest` needs `Sent` (the topic carries
  measurements in their order, none twice) and `FusionQueue` (the queue is the end of
  what was heard, and what is gone from it is not newer than the LiDAR odometry); that
  the first and last element of such a queue are the least and the greatest is again
  shown without induction.
- **`FixpositionDriver_proofs`** (any number of messages and starts). The invariant
  is flags, places and counts, which type the variables, and `Control`: which
  places of the two threads go together. `started` is what `~Thread()` relies on
  and the status what StopDriver() does, and a worker may end and set its status
  before `Start()` sets it: the invariant says that whoever leaves a worker alone
  leaves one that is over. `NotificationIsNotLost` needs that the notification
  pending from `Wakeup` is consumed only by a worker that then returns.
- **`MapOptimization_proofs`** (any stamps, intervals and sizes). Nine parts, one lemma
  each, from shapes to the claim: who holds `mtx`, that the map only grows and by
  which vector first (`MapGrows`), that all poses are of one estimate but between
  the optimization and `correctPoses()`, when `aLoopIsClosed` says so
  (`OneEstimate`), hence what is cached and copied, then what a loop was found
  among, and that it is recorded before the thread looks again. The copies are
  never refreshed while a loop is measured, so it is the copies, not the map, that
  its two poses must agree in.
- **`EasyProtocol_proofs`** (any sizes, whatever the line does to the bytes). Bytes
  stay bytes through damage, queue and overwriting; with that, the parser's
  position, the size it was given and the length of `inBuf` bound each other, one
  lemma for each part of a package. The size is a signed byte: the bound needs
  that what is not positive is refused before it is used (`BufferIsLargeEnough`).
  Two more invariants are on top of this one. `Synchronized` says of the `Stream`, the
  bytes in queue and port together, that each byte of a sound package is followed by
  the next one and the last byte of any package by the next package if that is sound
  (`Carries`), and that the parser holds exactly what it has taken of the package that
  is due (`Following`): `NoneIsOmitted`. It does not matter where queue and port
  divide the stream, nor what a call leaves unread, which is why it is stated of both.
  `Resynchronizing` says, of each package that has begun to be taken, how far astray
  the parser can be while all that comes is clean: in step, looking for a head in a
  package that began within `Reach`, or taking the rest of a package that never was,
  which ends within `Reach` because no size above `MAX_PAYLOAD_SIZE_` is accepted:
  `FindsItsWayBack`.

`LidarDriver_proofs` holds for one receive thread as for any number of threads that
feed raw packets; the run checks a receive thread only.

Every invariant and every safety property of the passing runs is a theorem. Only
model-checked is what needs fairness, which is outside the prover's reach:
`StopReturns` of `LidarDriver`, `SourceDriver` (in `RslidarSdk`) and `FixpositionDriver`,
`QueueIsServed`, `SignalStopsSources`, and the fairness part of
`ImplementsBlockingFifo` and `ImplementsFrameChannel`, whose safety parts are proved.

## 6. Observations

What the models show the code to do and no property forbids, as no line of the
repository says otherwise or as it needs no run to be seen:

- `stop()` of the driver clears the decoder's cloud "before next session"
  (`lidar_driver_impl.hpp:299`) but leaves packets in `pkt_queue_`: the next session
  decodes them (`HandlerTake`, `ThreadsEndWithSession` holds nevertheless).
- A SIGINT before main() waits is lost (`rslidar_sdk_node.cpp:132`): the wait has no
  predicate and sigHandler() (`:54`) records nothing. `SignalStopsSources` therefore
  starts from a main() that waits.
- LiDAR odometry that overtakes the newest IMU odometry lets
  `imuOdometryHandler` pop all of its queue and call `front()` and `back()` of it
  (`imuPreintegration.cpp:111`); `Undefined` in `TransformFusion`.
- `StopNode()` clears the maps of observers while the worker may be walking what it
  registered (`fixposition_driver_node.cpp:490`).
- `read()` and `recv()` are swapped in the driver's `Read()`: a serial line is read
  with recv(), which fails for what is not a socket, so serial data never arrives
  (`ReadFails`). And an orderly end of a TCP connection is taken for no data: the
  worker polls and reads it again without end (`ReadNothing`,
  `fixposition_driver.cpp:212`).
- The loop thread reads clouds of key frames after it has released `mtx`
  (`mapOptmization.cpp:710`) while the handler may append and move them. Which
  elements it reads exists (`SnapshotOfOneMap`); whether a read is torn is not modelled.
- The age of a key frame is measured from the scan being handled
  (`mapOptmization.cpp:630`): when the sensor has stood still for long, the newest key
  frame is old, is its own nearest neighbour, and hides every loop.
- One read may bring 1024 bytes and the queue holds 680: packages in a burst are
  overwritten although `tm_imu_node.cpp:121` says that none is omitted.
  `NoneOmittedAfterDelivered` holds for packages that kept their bytes. And the
  timer stamps and publishes the last message whenever a byte came (`:62`).

## 7. What is not modelled

- Data races on plain flags (`to_exit_process_`, `to_exit_recv_`) are taken as
  atomic accesses: between two reads there is a lock or a system call.
- The IMU queues of `SourceDriver` repeat what its cloud queues do, without a
  second module. Jumbo and pcap inputs, `SplitStrategyByNum`, the gating of
  decoders and `AzimuthSection` are in the plan.
- `safe_seq_max_` is a uint16_t sum (`split_strategy.hpp:172`); no frame has as many
  packets as would wrap it, which `ConstantsAssumption` of `SeqSplitter` states.
- `Write()` of FixpositionDriver, which ROS callbacks call on the main thread: it
  tests and uses `sensor_fd_` without a lock while the worker may close it
  (`fixposition_driver.cpp:240`). It changes no state of the driver; `OneUserOfConnection`
  does not speak of it.
- In `MapOptimization` an estimate is new when a loop or GPS factor corrects the poses.
  `isam->update()` on a plain odometry factor (`mapOptmization.cpp:1517-1518`) may
  relinearize too: the pose saved then and those before it are taken to be of one
  estimate all the same, as the code takes them to be, which corrects nothing.
- A user callback that never returns a cloud keeps `getPointCloud()` in its loop;
  the model lets the handler wait there and claims nothing about it.
- In `mapOptimization`: loops announced from outside ("not used yet"), the map
  server and the visualization thread.
- Floating-point geometry, scan matching, ICP and the optimizer's numbers.
- Vendored libraries, generated messages, launch files, viewers, ROS 1 builds.

Of the repository's 239 000 lines three quarters are third-party headers and
vendors' SDKs (Protobuf and Botan in `navtech-radar-SDK`, the parsers and tables of
`fixposition-sdk`), tables of decoders, conversions of messages and
floating-point geometry. The parts that hold state across threads, callbacks or
messages are a few thousand lines; the map covers most of those, and a small share
of the whole. It cannot cover much more of it without modelling what has no state.

## 8. Plan

Done: SyncQueue; LidarDriver; SourceDriver and RsNode, composed in RslidarSdk; the splitters;
ImuPreintegration with TransformFusion; FixpositionDriver; MapOptimization;
EasyProtocol. What is left, in this order:

1. Proofs: `AllocationIsBounded` and `MemoryIsBounded` repeat each other, as do the
   lemmas on what push() and pop() do to a queue: a module of its own for them.
2. `ImageProjection`: what becomes of each scan when its IMU data is late.
3. `InputPcap`, jumbo reassembly, `SplitStrategyByNum`, and `AzimuthSection` as an
   operator checked against set membership on the circle.
4. The connection and dispatcher threads of the navtech SDK's client.
