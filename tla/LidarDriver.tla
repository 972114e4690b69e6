----------------------------- MODULE LidarDriver -----------------------------
(***************************************************************************)
(* LidarDriverImpl (rs_driver/driver/lidar_driver_impl.hpp) with the       *)
(* thread its Input owns (driver/input/input.hpp, input_raw.hpp and        *)
(* unix/input_sock_select.hpp).                                            *)
(*                                                                         *)
(*   controller   the user's thread: init(), start(), stop()               *)
(*   producers    the receive thread, or, for RAW_PACKET, the threads that *)
(*                call decodePacket(); each takes a buffer from the free   *)
(*                queue or allocates one, fills it, pushes it              *)
(*   handler      handle_thread_: pops a buffer, decodes it into the point *)
(*                cloud, gives the buffer back to the free queue           *)
(*                                                                         *)
(* The two SyncQueues are the atomic queues of BlockingFifo, which         *)
(* SyncQueue is shown to implement: popWait() returns the front value, or  *)
(* NULL after its timeout when there is none.  A buffer nobody holds is    *)
(* released (std::shared_ptr), and may be what the next allocation returns.*)
(***************************************************************************)
EXTENDS Naturals, Sequences, FiniteSets, Functions

CONSTANTS Producer,     \* the threads that deliver packets
          Raw,          \* InputType::RAW_PACKET: no receive thread of its own
          Sockets,      \* packets one round of the receive thread reads at most
          Buffer,       \* addresses of buffers
          NoBuffer,
          PoolMax,      \* PACKET_POOL_MAX
          Kind,         \* packet kinds, told apart by their first bytes
          MaxPackets,   \* bound: packets delivered
          MaxSessions   \* bound: calls of start() that start something

ASSUME ConstantsAssumption ==
    /\ Raw \in BOOLEAN
    /\ Sockets \in Nat \ {0}
    /\ IsFiniteSet(Producer)
    /\ NoBuffer \notin Buffer
    /\ PoolMax \in Nat \ {0}
    /\ Kind \subseteq {"msop", "difop", "imu", "other"}
    /\ MaxPackets \in Nat
    /\ MaxSessions \in Nat

VARIABLES
    ctl,            \* the controller: outside a call, or at a join of stop()
    initFlag,       \* init_flag_
    startFlag,      \* start_flag_
    toExitRecv,     \* Input::to_exit_recv_
    toExitHandle,   \* to_exit_handle_
    session,        \* how many sessions were started
    producer,       \* where each producer is in its loop
    left,           \* sockets the receive thread has yet to look at in this round
    hand,           \* the buffer each producer is filling
    handler,        \* where the handler is in processPacket
    handled,        \* the buffer the handler holds
    freeQueue,      \* free_pkt_queue_
    pktQueue,       \* pkt_queue_
    content,        \* what was last written into each buffer
    received,       \* packets delivered so far: numbers the next one
    cloud,          \* the sessions whose points are in decoder_ptr_->point_cloud_
    frame,          \* the same of the cloud last given to cb_put_cloud_
    cloudSeq,       \* point_cloud_seq_
    pktSeq          \* pkt_seq_

controlVars == <<ctl, initFlag, startFlag, toExitRecv, toExitHandle, session>>
cloudVars == <<cloud, frame, cloudSeq, pktSeq>>
producerVars == <<producer, left, hand>>
vars == <<controlVars, producerVars, handler, handled, freeQueue, pktQueue,
          content, received, cloudVars>>

Packet == [seq : 1..MaxPackets, kind : Kind, session : 0..MaxSessions]
NoPacket == [seq |-> 0, kind |-> "none", session |-> 0]

(* The buffers some queue or some thread refers to. *)
Live == Range(freeQueue) \union Range(pktQueue)
        \union (Range(hand) \ {NoBuffer}) \union ({handled} \ {NoBuffer})

Overflowing == {p \in Producer : producer[p] = "overflow"}

Init ==
    /\ ctl = "outside"
    /\ initFlag = FALSE /\ startFlag = FALSE
    /\ toExitRecv = FALSE /\ toExitHandle = FALSE
    /\ session = 0
    /\ producer = [p \in Producer |-> IF Raw THEN "reading" ELSE "none"]
    /\ left = [p \in Producer |-> Sockets]
    /\ hand = [p \in Producer |-> NoBuffer]
    /\ handler = "none" /\ handled = NoBuffer
    /\ freeQueue = <<>> /\ pktQueue = <<>>
    /\ content = [b \in Buffer |-> NoPacket]
    /\ received = 0
    /\ cloud = {} /\ frame = {} /\ cloudSeq = 0 /\ pktSeq = 0

-----------------------------------------------------------------------------
(* The controller.  A failing init() leaves the driver as it was; start()    *)
(* before init(), start() twice and stop() twice change nothing.             *)

InitDriver ==
    /\ ctl = "outside" /\ ~initFlag
    /\ initFlag' = TRUE
    /\ cloud' = {}
    /\ UNCHANGED <<ctl, startFlag, toExitRecv, toExitHandle, session, producerVars,
                   handler, handled, freeQueue, pktQueue, content, received,
                   frame, cloudSeq, pktSeq>>

(* mutation: the exit flag of the previous session stays up *)
HandleFlagAtStart_Kept == toExitHandle
HandleFlagAtStart == FALSE

Start ==
    /\ ctl = "outside" /\ initFlag /\ ~startFlag
    /\ session < MaxSessions
    /\ toExitHandle' = HandleFlagAtStart
    /\ handler' = "loop"
    /\ IF Raw THEN UNCHANGED <<toExitRecv, producer>>
              ELSE /\ toExitRecv' = FALSE
                   /\ producer' = [p \in Producer |-> "loop"]
    /\ startFlag' = TRUE
    /\ session' = session + 1
    /\ UNCHANGED <<ctl, initFlag, left, hand, handled, freeQueue, pktQueue, content, received,
                   cloudVars>>

(* stop(): Input::stop() raises to_exit_recv_ and joins; InputRaw::stop()    *)
(* does nothing                                                              *)
StopInput ==
    /\ ctl = "outside" /\ startFlag
    /\ ctl' = "joinRecv"
    /\ toExitRecv' = IF Raw THEN toExitRecv ELSE TRUE
    /\ UNCHANGED <<initFlag, startFlag, toExitHandle, session, producerVars, handler,
                   handled, freeQueue, pktQueue, content, received, cloudVars>>

(* mutation: the flag is raised and the thread left to end by itself *)
RecvEnded_NotJoined == TRUE
RecvEnded == Raw \/ \A p \in Producer : producer[p] = "none"

JoinRecv ==
    /\ ctl = "joinRecv"
    /\ RecvEnded
    /\ toExitHandle' = TRUE
    /\ ctl' = "joinHandle"
    /\ UNCHANGED <<initFlag, startFlag, toExitRecv, session, producerVars, handler,
                   handled, freeQueue, pktQueue, content, received, cloudVars>>

(* mutation: stop() does not wait for the handler to end *)
HandlerEnded_NotJoined == TRUE
HandlerEnded == handler = "none"

JoinHandle ==
    /\ ctl = "joinHandle"
    /\ HandlerEnded
    /\ cloud' = {}
    /\ startFlag' = FALSE
    /\ ctl' = "outside"
    /\ UNCHANGED <<initFlag, toExitRecv, toExitHandle, session, producerVars, handler,
                   handled, freeQueue, pktQueue, content, received, frame, cloudSeq, pktSeq>>

-----------------------------------------------------------------------------
(* A producer: InputSock::recvPacket or InputRaw::feedPacket, with the       *)
(* driver's packetGet and packetPut.                                         *)

(* mutation: a fresh buffer every time, the free queue only grows *)
PacketGet_NeverReuse(b) ==
    /\ b \in Buffer \ Live
    /\ UNCHANGED freeQueue

PacketGet(b) ==
    \/ /\ freeQueue # <<>>
       /\ b = Head(freeQueue)
       /\ freeQueue' = Tail(freeQueue)
    \/ /\ freeQueue = <<>>
       /\ Buffer # Live
       /\ b = CHOOSE new \in Buffer \ Live : TRUE
       /\ UNCHANGED freeQueue

ReceiveLoop(p) ==
    /\ ~Raw
    /\ producer[p] = "loop"
    /\ producer' = [producer EXCEPT ![p] = IF toExitRecv THEN "none" ELSE "reading"]
    /\ left' = [left EXCEPT ![p] = Sockets]
    /\ UNCHANGED <<controlVars, hand, handler, handled, freeQueue, pktQueue, content,
                   received, cloudVars>>

(* select() timed out, no further socket is readable, or recvfrom() failed *)
RoundEnds(p) ==
    /\ ~Raw
    /\ producer[p] = "reading"
    /\ producer' = [producer EXCEPT ![p] = "loop"]
    /\ UNCHANGED <<controlVars, left, hand, handler, handled, freeQueue, pktQueue,
                   content, received, cloudVars>>

(* select() failed, or the PCAP file ended: the thread ends on its own *)
ReceiveDies(p) ==
    /\ ~Raw
    /\ producer[p] = "reading" /\ left[p] = Sockets
    /\ producer' = [producer EXCEPT ![p] = "none"]
    /\ UNCHANGED <<controlVars, left, hand, handler, handled, freeQueue, pktQueue,
                   content, received, cloudVars>>

Receive(p) ==
    /\ producer[p] = "reading"
    /\ IF Raw THEN initFlag /\ UNCHANGED left
              ELSE left[p] > 0 /\ left' = [left EXCEPT ![p] = @ - 1]
    /\ received < MaxPackets
    /\ \E b \in Buffer : PacketGet(b) /\ hand' = [hand EXCEPT ![p] = b]
    /\ producer' = [producer EXCEPT ![p] = "filling"]
    /\ UNCHANGED <<controlVars, handler, handled, pktQueue, content, received, cloudVars>>

(* packetPut(pkt, true), after the packet was written into the buffer.  Its  *)
(* test of the length is on what push() returned.                            *)
(* mutation: the overflow is never noticed *)
TooLong_Never(size) == FALSE
TooLong(size) == size > PoolMax

FillAndPut(p) ==
    /\ producer[p] = "filling"
    /\ received < MaxPackets
    /\ received' = received + 1
    /\ \E k \in Kind :
          content' = [content EXCEPT ![hand[p]] =
                        [seq |-> received + 1, kind |-> k, session |-> session]]
    /\ pktQueue' = Append(pktQueue, hand[p])
    /\ producer' = [producer EXCEPT ![p] = IF TooLong(Len(pktQueue) + 1)
                                           THEN "overflow" ELSE "reading"]
    /\ hand' = [hand EXCEPT ![p] = NoBuffer]
    /\ UNCHANGED <<controlVars, left, handler, handled, freeQueue, cloudVars>>

(* recvfrom() failed or read nothing, or the size did not fit: the buffer is *)
(* not pushed anywhere                                                       *)
DropBuffer(p) ==
    /\ ~Raw
    /\ producer[p] = "filling"
    /\ producer' = [producer EXCEPT ![p] = "reading"]
    /\ hand' = [hand EXCEPT ![p] = NoBuffer]
    /\ UNCHANGED <<controlVars, left, handler, handled, freeQueue, pktQueue, content, received,
                   cloudVars>>

(* the rest of packetPut: ERRCODE_PKTBUFOVERFLOW, then clear() under a lock  *)
(* taken anew                                                                *)
ClearOverflow(p) ==
    /\ producer[p] = "overflow"
    /\ pktQueue' = <<>>
    /\ producer' = [producer EXCEPT ![p] = "reading"]
    /\ UNCHANGED <<controlVars, left, hand, handler, handled, freeQueue, content, received,
                   cloudVars>>

-----------------------------------------------------------------------------
(* The handler: processPacket and internalProcessPacket.                     *)

HandlerLoop ==
    /\ handler = "loop"
    /\ handler' = IF toExitHandle THEN "none" ELSE "popWait"
    /\ UNCHANGED <<controlVars, producerVars, handled, freeQueue, pktQueue, content,
                   received, cloudVars>>

(* mutation: popWait() without its timeout *)
PopWaitExpires_Never == FALSE
PopWaitExpires == pktQueue = <<>>

HandlerTimeout ==
    /\ handler = "popWait"
    /\ PopWaitExpires
    /\ handler' = "loop"
    /\ UNCHANGED <<controlVars, producerVars, handled, freeQueue, pktQueue, content,
                   received, cloudVars>>

(* mutation: the buffer is given back before it is decoded *)
FreeAtTake_Early(b) == freeQueue' = Append(freeQueue, b)
FreeAtTake(b) == UNCHANGED freeQueue

HandlerTake ==
    /\ handler = "popWait"
    /\ pktQueue # <<>>
    /\ handled' = Head(pktQueue)
    /\ pktQueue' = Tail(pktQueue)
    /\ FreeAtTake(Head(pktQueue))
    /\ handler' = "decode"
    /\ UNCHANGED <<controlVars, producerVars, content, received, cloudVars>>

(* processMsopPkt adds points to the cloud and may find that a frame ended:  *)
(* splitFrame() then gives the cloud away, if it holds any point, and takes  *)
(* an empty one.  The frame may end inside the packet, and a packet may have *)
(* no valid point before or after that place.                                *)
DecodeMsop(s) ==
    \E before, after \in SUBSET {s} :
       LET points == cloud \union before IN
       \/ cloud' = points /\ UNCHANGED <<frame, cloudSeq>>
       \/ /\ points # {}
          /\ frame' = points
          /\ cloudSeq' = cloudSeq + 1
          /\ cloud' = after

Decode ==
    /\ handler = "decode"
    /\ LET pkt == content[handled] IN
          /\ IF pkt.kind = "msop" THEN DecodeMsop(pkt.session)
                                  ELSE UNCHANGED <<cloud, frame, cloudSeq>>
          /\ pktSeq' = IF pkt.kind \in {"msop", "difop"} THEN pktSeq + 1 ELSE pktSeq
    /\ handler' = "recycle"
    /\ UNCHANGED <<controlVars, producerVars, handled, freeQueue, pktQueue, content,
                   received>>

Recycle ==
    /\ handler = "recycle"
    /\ freeQueue' = Append(freeQueue, handled)
    /\ handled' = NoBuffer
    /\ handler' = "loop"
    /\ UNCHANGED <<controlVars, producerVars, pktQueue, content, received, cloudVars>>

-----------------------------------------------------------------------------
Control == InitDriver \/ Start \/ StopInput \/ JoinRecv \/ JoinHandle
GoOn(p) == ReceiveLoop(p) \/ RoundEnds(p) \/ FillAndPut(p) \/ DropBuffer(p)
           \/ ClearOverflow(p)
Produce(p) == GoOn(p) \/ Receive(p) \/ ReceiveDies(p)
Handle == HandlerLoop \/ HandlerTimeout \/ HandlerTake \/ Decode \/ Recycle

Next == Control \/ (\E p \in Producer : Produce(p)) \/ Handle

SafeSpec == Init /\ [][Next]_vars

(* The user may call what he likes, packets may come or not; a thread that   *)
(* runs goes on, the waits of select() and popWait() are timed, and a call   *)
(* of stop() goes on once the thread it joins has ended.                     *)
Spec ==
    /\ SafeSpec
    /\ WF_vars(Handle)
    /\ \A p \in Producer : WF_vars(GoOn(p))
    /\ WF_vars(JoinRecv \/ JoinHandle)

-----------------------------------------------------------------------------
(* Types, and that a thread holds a buffer exactly while it works on one. *)
TypeOK ==
    /\ ctl \in {"outside", "joinRecv", "joinHandle"}
    /\ initFlag \in BOOLEAN /\ startFlag \in BOOLEAN
    /\ toExitRecv \in BOOLEAN /\ toExitHandle \in BOOLEAN
    /\ session \in 0..MaxSessions
    /\ producer \in [Producer -> {"none", "loop", "reading", "filling", "overflow"}]
    /\ left \in [Producer -> 0..Sockets]
    /\ hand \in [Producer -> Buffer \union {NoBuffer}]
    /\ \A p \in Producer : hand[p] # NoBuffer <=> producer[p] = "filling"
    /\ handler \in {"none", "loop", "popWait", "decode", "recycle"}
    /\ handled \in Buffer \union {NoBuffer}
    /\ handled # NoBuffer <=> handler \in {"decode", "recycle"}
    /\ freeQueue \in Seq(Buffer)
    /\ pktQueue \in Seq(Buffer)
    /\ content \in [Buffer -> Packet \union {NoPacket}]
    /\ received \in 0..MaxPackets
    /\ cloud \subseteq 0..MaxSessions /\ frame \subseteq 0..MaxSessions
    /\ cloudSeq \in Nat /\ pktSeq \in Nat

(* No thread of the driver outlives its session, so that start() may reuse   *)
(* the flags, the queues and the decoder.                                    *)
ThreadsEndWithSession ==
    /\ ctl # "outside" => startFlag
    /\ startFlag => initFlag
    /\ ~startFlag => handler = "none"
    /\ ~Raw /\ (~startFlag \/ ctl = "joinHandle") => \A p \in Producer : producer[p] = "none"

(* A buffer is in one place: nobody writes one that is queued, being decoded *)
(* or in another thread's hands, although buffers are recycled and released  *)
(* under the threads that use them.                                          *)
BuffersExclusive ==
    /\ IsInjective(freeQueue) /\ IsInjective(pktQueue)
    /\ Range(freeQueue) \intersect Range(pktQueue) = {}
    /\ \A p \in Producer :
          hand[p] # NoBuffer =>
             /\ hand[p] \notin Range(freeQueue) \union Range(pktQueue) \union {handled}
             /\ \A q \in Producer \ {p} : hand[q] # hand[p]
    /\ handled # NoBuffer => handled \notin Range(freeQueue) \union Range(pktQueue)

(* packetPut tests the length after its push and clears under another lock:  *)
(* the queue goes over PACKET_POOL_MAX by no more than the threads that      *)
(* noticed and have not cleared it yet.                                      *)
QueueBounded == Len(pktQueue) <= PoolMax + Cardinality(Overflowing)

(* Buffers are only allocated when the free queue is empty, so their number  *)
(* is bounded by the queue, the threads that deliver and the handler.        *)
MemoryBounded == Cardinality(Live) <= PoolMax + Cardinality(Producer) + 1

(* Between stop() and start() nothing is decoded, published or given back,   *)
(* and the decoder's cloud is empty: stop() joined the handler before it     *)
(* cleared the cloud and returned.                                           *)
QuietWhenStopped ==
    [][ctl = "outside" /\ ~startFlag =>
          cloud' = {} /\ (startFlag' \/ UNCHANGED <<frame, cloudSeq, pktSeq, handler>>)]_vars

(* stop() returns.  Nothing wakes the handler for it: this rests on the      *)
(* timeout of popWait().                                                     *)
StopReturns == ctl = "joinRecv" ~> ctl = "outside"

(* While the driver runs, what is queued is taken by the handler or, when    *)
(* the queue is too long, thrown away; it is not left there.                 *)
QueueIsServed ==
    \A s \in 1..MaxSessions :
        (startFlag /\ session = s /\ pktQueue # <<>>)
           ~> (handler = "decode" \/ pktQueue = <<>> \/ ctl # "outside")

(* For the outside the recycled buffers are a channel of packets: what is    *)
(* decoded is what was received, in order, once.                             *)
Channel == INSTANCE PacketChannel WITH
    pending <- [i \in 1..Len(pktQueue) |-> content[pktQueue[i]]],
    decoding <- IF handler = "decode" THEN content[handled] ELSE NoPacket
ImplementsPacketChannel == Channel!Spec

=============================================================================
