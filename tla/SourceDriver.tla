---------------------------- MODULE SourceDriver ----------------------------
(***************************************************************************)
(* SourceDriver (rslidar_sdk/src/source/source_driver.hpp and source.hpp): *)
(* the point clouds between the decoder and the destinations.              *)
(*                                                                         *)
(*   owner      NodeManager, in the order it makes its calls: init(), the  *)
(*              registrations, start(), stop(), and the destructor         *)
(*   decoder    the handler thread of LidarDriverImpl: adds points to      *)
(*              decoder_ptr_->point_cloud_; when a frame ends it gives the *)
(*              cloud away (putPointCloud) and takes another               *)
(*              (getPointCloud: a recycled one, or a new one)              *)
(*   publisher  point_cloud_process_thread_: takes clouds from the queue,  *)
(*              sends each to every destination and recycles it            *)
(*                                                                         *)
(* A frame is known by the number setPointCloudHeader gives its cloud (one *)
(* more than point_cloud_seq_, which starts at 0).                         *)
(***************************************************************************)
EXTENDS Naturals, Sequences, FiniteSets, Functions

CONSTANTS Cloud,        \* addresses of point clouds
          NoCloud,
          MaxDest,      \* bound: destinations registered
          MaxFrames     \* bound: frames made

ASSUME ConstantsAssumption ==
    /\ NoCloud \notin Cloud
    /\ MaxDest \in Nat /\ MaxFrames \in Nat

VARIABLES
    owner,          \* the call the owner is in, or what it did last
    started,        \* start_flag_ of the driver
    toExit,         \* to_exit_process_
    joinable,       \* point_cloud_process_thread_ is a thread to join
    destinations,   \* how many are in pc_cb_vec_
    decoder,        \* the handler thread: between or inside splitFrame()
    current,        \* decoder_ptr_->point_cloud_
    made,           \* point_cloud_seq_
    publisher,      \* where the publisher is in processPointCloud()
    publishing,     \* the cloud it holds
    toSend,         \* destinations it has yet to send it to
    freeQueue,      \* free_point_cloud_queue_
    cloudQueue,     \* point_cloud_queue_
    points,         \* does each cloud hold points ?
    seq,            \* seq in the header of each cloud
    peak            \* the longest cloudQueue was so far

ownerVars == <<owner, started, toExit, joinable, destinations>>
decoderVars == <<decoder, current, made>>
publisherVars == <<publisher, publishing, toSend>>
vars == <<ownerVars, decoderVars, publisherVars, freeQueue, cloudQueue, points, seq, peak>>

(* the clouds some thread or queue refers to; another one is released memory *)
Live == Range(freeQueue) \union Range(cloudQueue)
        \union ({current, publishing} \ {NoCloud})

(* std::terminate() and exit(-1) end all the threads *)
Alive == owner \notin {"terminated", "exited"}

Init ==
    /\ owner = "new" /\ started = FALSE /\ toExit = FALSE /\ joinable = FALSE
    /\ destinations = 0
    /\ decoder = "none" /\ current = NoCloud /\ made = 0
    /\ publisher = "none" /\ publishing = NoCloud /\ toSend = 0
    /\ freeQueue = <<>> /\ cloudQueue = <<>>
    /\ points = [c \in Cloud |-> FALSE] /\ seq = [c \in Cloud |-> 0]
    /\ peak = 0

-----------------------------------------------------------------------------
(* getPointCloud(): a cloud of the free queue, else a new one; its points    *)
(* are removed.                                                              *)
(* mutation: nothing is recycled *)
PickCloud_Fresh(c) ==
    /\ c \in Cloud \ Live
    /\ UNCHANGED freeQueue
PickCloud(c) ==
    \/ /\ freeQueue # <<>>
       /\ c = Head(freeQueue)
       /\ freeQueue' = Tail(freeQueue)
    \/ /\ freeQueue = <<>>
       /\ Cloud # Live
       /\ c = CHOOSE new \in Cloud \ Live : TRUE
       /\ UNCHANGED freeQueue

GetPointCloud ==
    \E c \in Cloud :
       /\ PickCloud(c)
       /\ current' = c
       /\ points' = [points EXCEPT ![c] = FALSE]

-----------------------------------------------------------------------------
(* The owner. *)

(* init(): the publisher runs before the driver is initialized; when that    *)
(* fails the process exits.                                                  *)
InitSource ==
    /\ owner = "new"
    /\ joinable' = TRUE /\ publisher' = "loop"
    /\ \/ /\ owner' = "registering"
          /\ GetPointCloud
       \/ /\ owner' = "exited"
          /\ UNCHANGED <<current, points, freeQueue>>
    /\ UNCHANGED <<started, toExit, destinations, decoder, made, publishing, toSend,
                   cloudQueue, seq, peak>>

(* NodeManager::init() registers between the init() and the start() of a     *)
(* source; pc_cb_vec_ is a vector without a lock.                            *)
MayRegister == owner = "registering"

RegPointCloudCallback ==
    /\ MayRegister
    /\ destinations < MaxDest
    /\ destinations' = destinations + 1
    /\ UNCHANGED <<owner, started, toExit, joinable, decoderVars, publisherVars,
                   freeQueue, cloudQueue, points, seq, peak>>

StartSource ==
    /\ owner = "registering"
    /\ owner' = "started" /\ started' = TRUE /\ decoder' = "decode"
    /\ UNCHANGED <<toExit, joinable, destinations, current, made, publisherVars,
                   freeQueue, cloudQueue, points, seq, peak>>

(* stop(), called by NodeManager::stop() and again by the destructor: the    *)
(* driver's stop() returns at once when it is not started                    *)
Stop ==
    /\ owner \in {"started", "stopped"}
    /\ owner' = IF started THEN "joinHandle" ELSE "raiseExit"
    /\ UNCHANGED <<started, toExit, joinable, destinations, decoderVars, publisherVars,
                   freeQueue, cloudQueue, points, seq, peak>>

(* mutation: the handler is left to end by itself *)
DriverStopped_NotJoined == TRUE
DriverStopped == decoder = "none"

StopDriver ==
    /\ owner = "joinHandle" /\ DriverStopped
    /\ points' = [points EXCEPT ![current] = FALSE]
    /\ started' = FALSE
    /\ owner' = "raiseExit"
    /\ UNCHANGED <<toExit, joinable, destinations, decoderVars, publisherVars,
                   freeQueue, cloudQueue, seq, peak>>

RaiseExit ==
    /\ owner = "raiseExit"
    /\ toExit' = TRUE /\ owner' = "joinPublisher"
    /\ UNCHANGED <<started, joinable, destinations, decoderVars, publisherVars,
                   freeQueue, cloudQueue, points, seq, peak>>

PublisherEnded == publisher = "none"

(* join() of a thread that was joined before throws, out of a destructor *)
JoinPublisher ==
    /\ owner = "joinPublisher"
    /\ IF joinable THEN PublisherEnded /\ owner' = "stopped"
                   ELSE owner' = "terminated"
    /\ joinable' = FALSE
    /\ UNCHANGED <<started, toExit, destinations, decoderVars, publisherVars,
                   freeQueue, cloudQueue, points, seq, peak>>

-----------------------------------------------------------------------------
(* The decoder. *)

AddPoints ==
    /\ Alive /\ decoder = "decode"
    /\ points' = [points EXCEPT ![current] = TRUE]
    /\ UNCHANGED <<ownerVars, decoderVars, publisherVars, freeQueue, cloudQueue, seq, peak>>

(* splitFrame() of a cloud that holds points, to the end of putPointCloud()  *)
PutPointCloud ==
    /\ Alive /\ decoder = "decode" /\ points[current]
    /\ made < MaxFrames
    /\ made' = made + 1
    /\ seq' = [seq EXCEPT ![current] = made + 1]
    /\ cloudQueue' = Append(cloudQueue, current)
    /\ peak' = IF Len(cloudQueue) + 1 > peak THEN Len(cloudQueue) + 1 ELSE peak
    /\ decoder' = "get"
    /\ UNCHANGED <<ownerVars, current, publisherVars, freeQueue, points>>

NextCloud ==
    /\ Alive /\ decoder = "get"
    /\ GetPointCloud
    /\ decoder' = "decode"
    /\ UNCHANGED <<ownerVars, made, publisherVars, cloudQueue, seq, peak>>

HandlerEnds ==
    /\ Alive /\ decoder = "decode" /\ owner = "joinHandle"
    /\ decoder' = "none"
    /\ UNCHANGED <<ownerVars, current, made, publisherVars, freeQueue, cloudQueue,
                   points, seq, peak>>

-----------------------------------------------------------------------------
(* The publisher: processPointCloud() with sendPointCloud(). *)

PublisherLoop ==
    /\ Alive /\ publisher = "loop"
    /\ publisher' = IF toExit THEN "none" ELSE "popWait"
    /\ UNCHANGED <<ownerVars, decoderVars, publishing, toSend, freeQueue, cloudQueue,
                   points, seq, peak>>

(* mutation: the publisher waits without a timeout *)
PopWaitExpires_Never == FALSE
PopWaitExpires == cloudQueue = <<>>

PublisherTimeout ==
    /\ Alive /\ publisher = "popWait" /\ PopWaitExpires
    /\ publisher' = "loop"
    /\ UNCHANGED <<ownerVars, decoderVars, publishing, toSend, freeQueue, cloudQueue,
                   points, seq, peak>>

(* mutation: the cloud is recycled before it is sent *)
FreeAtTake_Early(c) == freeQueue' = Append(freeQueue, c)
FreeAtTake(c) == UNCHANGED freeQueue

PublisherTake ==
    /\ Alive /\ publisher = "popWait" /\ cloudQueue # <<>>
    /\ publishing' = Head(cloudQueue)
    /\ cloudQueue' = Tail(cloudQueue)
    /\ FreeAtTake(Head(cloudQueue))
    /\ toSend' = destinations
    /\ publisher' = "publish"
    /\ UNCHANGED <<ownerVars, decoderVars, points, seq, peak>>

SendPointCloud ==
    /\ Alive /\ publisher = "publish" /\ toSend > 0
    /\ toSend' = toSend - 1
    /\ UNCHANGED <<ownerVars, decoderVars, publisher, publishing, freeQueue, cloudQueue,
                   points, seq, peak>>

PublisherRecycle ==
    /\ Alive /\ publisher = "publish" /\ toSend = 0
    /\ freeQueue' = Append(freeQueue, publishing)
    /\ publishing' = NoCloud
    /\ publisher' = "loop"
    /\ UNCHANGED <<ownerVars, decoderVars, toSend, cloudQueue, points, seq, peak>>

-----------------------------------------------------------------------------
Own == InitSource \/ RegPointCloudCallback \/ StartSource \/ Stop
FinishStop == StopDriver \/ RaiseExit \/ JoinPublisher
Decode == AddPoints \/ PutPointCloud \/ NextCloud \/ HandlerEnds
Publish == PublisherLoop \/ PublisherTimeout \/ PublisherTake \/ SendPointCloud
           \/ PublisherRecycle

Next == Own \/ FinishStop \/ Decode \/ Publish

SafeSpec == Init /\ [][Next]_vars

(* The threads run and a call of stop() goes on; packets need not come.  The *)
(* handler ends when told to: LidarDriver!StopReturns.                       *)
Spec == SafeSpec /\ WF_vars(Publish) /\ WF_vars(FinishStop)
                 /\ WF_vars(NextCloud) /\ WF_vars(HandlerEnds)

-----------------------------------------------------------------------------
(* Types, and what each thread holds in each of its states. *)
TypeOK ==
    /\ owner \in {"new", "registering", "started", "joinHandle", "raiseExit",
                  "joinPublisher", "stopped", "terminated", "exited"}
    /\ started \in BOOLEAN /\ toExit \in BOOLEAN /\ joinable \in BOOLEAN
    /\ destinations \in 0..MaxDest
    /\ decoder \in {"none", "decode", "get"}
    /\ current \in Cloud \union {NoCloud}
    /\ current = NoCloud <=> owner \in {"new", "exited"}
    /\ started <=> owner \in {"started", "joinHandle"}
    /\ decoder # "none" => started
    /\ made \in 0..MaxFrames
    /\ publisher \in {"none", "loop", "popWait", "publish"}
    /\ publishing \in Cloud \union {NoCloud}
    /\ publishing # NoCloud <=> publisher = "publish"
    /\ toSend \in 0..MaxDest
    /\ freeQueue \in Seq(Cloud) /\ cloudQueue \in Seq(Cloud)
    /\ points \in [Cloud -> BOOLEAN] /\ seq \in [Cloud -> 0..MaxFrames]
    /\ peak \in Nat

(* A cloud is in one place: the decoder writes none that is queued, being    *)
(* published or free, although splitFrame() puts the cloud into the queue    *)
(* before the decoder has another one.                                       *)
CloudsExclusive ==
    /\ IsInjective(freeQueue) /\ IsInjective(cloudQueue)
    /\ Range(freeQueue) \intersect Range(cloudQueue) = {}
    /\ publishing \notin Range(freeQueue) \union Range(cloudQueue)
    /\ decoder # "get" /\ current # NoCloud =>
          current \notin Range(freeQueue) \union Range(cloudQueue) \union {publishing}

(* getPointCloud() allocates only when nothing is free: there never are more *)
(* clouds than were waiting at once, and the two the threads work on.        *)
AllocationFollowsBacklog == Cardinality(Live) <= peak + 2

(* stop() leaves nothing running: after it no cloud changes hands, is        *)
(* written to or is published.                                               *)
QuietAfterStop ==
    [][(owner = "stopped" \/ owner = "terminated") =>
          UNCHANGED <<decoderVars, publisherVars, freeQueue, cloudQueue, points, seq>>]_vars

(* stop() returns, although nobody wakes the publisher for it. *)
StopReturns == owner = "joinHandle" ~> owner = "stopped"

(* Every frame is published once, as it was when it was split, in order and, *)
(* while the source is not closed, eventually.                               *)
Channel == INSTANCE FrameChannel WITH
    pending <- [i \in 1..Len(cloudQueue) |->
                   IF points[cloudQueue[i]] THEN seq[cloudQueue[i]] ELSE 0],
    publishing <- IF publishing = NoCloud THEN 0
                  ELSE IF points[publishing] THEN seq[publishing] ELSE 0,
    closed <- owner \notin {"new", "registering", "started"}
ImplementsFrameChannel == Channel!Spec

-----------------------------------------------------------------------------
(* rslidar_sdk_intro_CN.md:215: NodeManager manages its sources, which       *)
(* includes creating, initializing, starting and stopping them.  A node that *)
(* is stopped goes down in order, without std::terminate().                  *)
StopsOrderly == owner # "terminated"
=============================================================================
