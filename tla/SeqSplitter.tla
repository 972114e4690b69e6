---------------------------- MODULE SeqSplitter ----------------------------
(***************************************************************************)
(* SplitStrategyBySeq (rs_driver/driver/decoder/split_strategy.hpp) in the *)
(* decodeMsopPkt() of a solid-state LiDAR, fed by a network.               *)
(*                                                                         *)
(* The LiDAR numbers the packets of each frame 1..PktsPerFrame.  The       *)
(* splitter sees the numbers only, and finds the end of a frame by a       *)
(* number far below the last one; packets within RANGE of the last one are *)
(* taken as lost or reordered ones.  DecoderRSM1 also gives the cloud away *)
(* after the packet with the largest number it knows (splitAtMax).         *)
(*                                                                         *)
(* The network delivers packets late, twice or not at all: relative to the *)
(* newest packet delivered so far, one is fewer than Late packets older    *)
(* (1: it is delivered twice) and at most Ahead packets newer.             *)
(***************************************************************************)
EXTENDS Integers

CONSTANTS PktsPerFrame,   \* packets of a frame: 630 or 1260 for RSM1
          RANGE,
          Late, Ahead,    \* how far the network displaces packets
          SeqLimit,       \* 2^16: the numbers are of type uint16_t
          MaxFrames,      \* bound: frames sent
          MaxClouds       \* bound: clouds given away

ASSUME ConstantsAssumption ==
    /\ PktsPerFrame \in Nat \ {0} /\ RANGE \in Nat
    /\ Late \in Nat /\ Ahead \in Nat \ {0}
    /\ MaxFrames \in Nat /\ MaxClouds \in Nat
    /\ SeqLimit \in Nat /\ PktsPerFrame + RANGE < SeqLimit

(* What RANGE is there for: it covers what the network does, and a frame is  *)
(* longer than the two together.                                             *)
ASSUME DisplacementAssumption ==
    /\ Ahead <= RANGE /\ Late <= RANGE + 1
    /\ Ahead + RANGE < PktsPerFrame /\ Late + RANGE <= PktsPerFrame

Seq16 == 0..(SeqLimit - 1)
Frame == 1..MaxFrames
PktSeq == 1..PktsPerFrame

VARIABLES splitAtMax,   \* is it DecoderRSM1 ?  It never changes.
          newest,       \* the frame of the newest packet delivered
          newestSeq,    \* and its number in the frame
          ordered,      \* was every packet so far newer than those before ?
          prev_seq, max_seq, looped,
          cloud,        \* the frames with points in point_cloud_
          given,        \* the cloud given to cb_put_cloud_ last
          count         \* point_cloud_seq_: how many were given

splitVars == <<prev_seq, max_seq, looped>>
vars == <<splitAtMax, newest, newestSeq, ordered, splitVars, cloud, given, count>>

-----------------------------------------------------------------------------
(* setSafeRange() *)
(* mutation: no room below the last packet *)
SafeMin_Tight(prev) == prev
SafeMin(prev) == IF prev > RANGE THEN prev - RANGE ELSE 0
Wrapped(n) == IF n < SeqLimit THEN n ELSE n - SeqLimit
SafeMax(prev) == Wrapped(prev + RANGE)

(* newPacket() *)
Rewinds(seq) == seq < SafeMin(prev_seq)

(* mutation: any later number is taken as the last one *)
Advances_Any(seq) == prev_seq <= seq
Advances(seq) == prev_seq <= seq /\ (seq <= SafeMax(prev_seq) \/ prev_seq = 0)

(* mutation: the largest number is that of the current frame *)
LargestSeq_Reset(seq) == IF Rewinds(seq) THEN 0 ELSE IF seq > max_seq THEN seq ELSE max_seq
LargestSeq(seq) == IF seq > max_seq THEN seq ELSE max_seq

NewPacket(seq) ==
    /\ max_seq' = LargestSeq(seq)
    /\ looped' = (looped \/ Rewinds(seq))
    /\ prev_seq' = IF Rewinds(seq) \/ Advances(seq) THEN seq ELSE prev_seq

(* maxSeq() after that *)
(* mutation: off by one *)
IsMaxSeq_OffByOne(seq) == looped' /\ max_seq' <= seq + 1
IsMaxSeq(seq) == looped' /\ max_seq' = seq

(* splitFrame(), which ignores an empty cloud, at the start of the packet    *)
(* and, for RSM1, at its end; between the two the points are added           *)
DecodeMsopPkt(f, seq) ==
    /\ NewPacket(seq)
    /\ \E new \in SUBSET {f} :
          LET early == Rewinds(seq) /\ cloud # {}
              filled == IF early THEN new ELSE cloud \union new
              atEnd == splitAtMax /\ IsMaxSeq(seq) /\ filled # {}
          IN /\ cloud' = IF atEnd THEN {} ELSE filled
             /\ given' = IF atEnd THEN filled ELSE IF early THEN cloud ELSE given
             /\ count' = count + (IF early THEN 1 ELSE 0) + (IF atEnd THEN 1 ELSE 0)

-----------------------------------------------------------------------------
(* The network. *)
InFrame(seq) == seq - newestSeq <= Ahead /\ newestSeq - seq < Late
InNextFrame(seq) == PktsPerFrame + seq - newestSeq <= Ahead
InPreviousFrame(seq) == PktsPerFrame + newestSeq - seq < Late

Near(f, seq) ==
    \/ newest = 0
    \/ f = newest /\ InFrame(seq)
    \/ f = newest + 1 /\ InNextFrame(seq)
    \/ f = newest - 1 /\ InPreviousFrame(seq)

IsNewest(f, seq) == f > newest \/ (f = newest /\ seq > newestSeq)

Deliver(f, seq) ==
    /\ count < MaxClouds
    /\ Near(f, seq)
    /\ IF IsNewest(f, seq) THEN newest' = f /\ newestSeq' = seq
                           ELSE UNCHANGED <<newest, newestSeq>>
    /\ ordered' = (ordered /\ IsNewest(f, seq))
    /\ DecodeMsopPkt(f, seq)
    /\ UNCHANGED splitAtMax

Init ==
    /\ splitAtMax \in BOOLEAN
    /\ newest = 0 /\ newestSeq = 0 /\ ordered = TRUE
    /\ prev_seq = 0 /\ max_seq = 0 /\ looped = FALSE
    /\ cloud = {} /\ given = {} /\ count = 0

Next == \E f \in Frame, seq \in PktSeq : Deliver(f, seq)

Spec == Init /\ [][Next]_vars

-----------------------------------------------------------------------------
(* Types. *)
TypeOK ==
    /\ splitAtMax \in BOOLEAN /\ ordered \in BOOLEAN
    /\ newest \in Frame \union {0} /\ newestSeq \in PktSeq \union {0}
    /\ newest = 0 <=> newestSeq = 0
    /\ prev_seq \in Seq16 /\ max_seq \in Seq16 /\ looped \in BOOLEAN
    /\ prev_seq <= max_seq
    /\ newest = 0 => cloud = {}
    /\ cloud \subseteq Frame /\ given \subseteq Frame /\ count \in Nat

(* The splitter is never led astray: its last number is that of the newest   *)
(* packet, whatever came late, twice or not at all before.  It would not     *)
(* recover by itself: with a number that is too large it ignores a frame,    *)
(* with one that is too small it misses the next rewind.                     *)
TracksNewest == prev_seq = newestSeq

(* The splitter implements splitting by frame number. *)
Ideal == INSTANCE FrameAssembler
ImplementsFrameAssembler == Ideal!Spec

(* RSM1, once it has seen the number of a frame's last packet, and as long   *)
(* as the network kept the order: no frame is given away in two pieces, and  *)
(* none together with another one, whatever is lost.  (Before, a frame whose *)
(* last packets are lost makes it take a smaller number for the last.)       *)
Newest(c) == CHOOSE f \in c : \A g \in c : g <= f
FramesNotTorn ==
    [][ordered' /\ max_seq = PktsPerFrame /\ count' # count /\ given # {} =>
          \A f, g \in given' : f = g /\ f > Newest(given)]_vars
=============================================================================
