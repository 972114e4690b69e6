-------------------------- MODULE Splitters_proofs --------------------------
(***************************************************************************)
(* Both ways to find the end of a frame.  By packet number, for every      *)
(* frame length, every RANGE and every network that displaces packets by   *)
(* no more than RANGE: the splitter's last number is that of the newest    *)
(* packet, it splits as if it saw the frame numbers, and tears no frame    *)
(* while the network keeps the order.  By angle, for every division of the *)
(* turn and every rotation speed: it never splits at a wrong place, and    *)
(* misses none at an angle that is not just before 0, so that each frame   *)
(* is one round.                                                           *)
(***************************************************************************)
EXTENDS SeqSplitter, AngleSplitter, TLAPS

-----------------------------------------------------------------------------
(* SeqSplitter. *)

(* The uint16_t safe_seq_max_ does not wrap for a number of a packet. *)
LEMMA SafeMaxDoesNotWrap ==
    ASSUME NEW prev \in 0..PktsPerFrame
    PROVE  SafeMax(prev) = prev + RANGE
  BY ConstantsAssumption DEF SafeMax, Wrapped

(* What newPacket() answers about any packet the network may deliver. *)
LEMMA PacketIsRecognized ==
    ASSUME TypeOK, TracksNewest,
           NEW f \in Frame, NEW seq \in PktSeq, Near(f, seq)
    PROVE  /\ Rewinds(seq) <=> newest # 0 /\ f > newest
           /\ IsNewest(f, seq) => Rewinds(seq) \/ Advances(seq)
           /\ ~IsNewest(f, seq) => ~Rewinds(seq) /\ (Advances(seq) => seq = prev_seq)
  <1> DEFINE prev == prev_seq
  <1>1. /\ prev \in 0..PktsPerFrame /\ newestSeq = prev
        /\ newest \in Nat /\ (newest = 0 <=> prev = 0)
        /\ f \in Nat \ {0} /\ seq \in Nat \ {0} /\ seq <= PktsPerFrame
    BY ConstantsAssumption DEF TypeOK, TracksNewest, Frame, PktSeq
  <1>2. /\ SafeMax(prev) = prev + RANGE
        /\ SafeMin(prev) = IF prev > RANGE THEN prev - RANGE ELSE 0
    BY <1>1, SafeMaxDoesNotWrap DEF SafeMin
  <1>3. /\ PktsPerFrame \in Nat /\ RANGE \in Nat /\ Late \in Nat /\ Ahead \in Nat
        /\ Ahead <= RANGE /\ Late <= RANGE + 1
        /\ Ahead + RANGE < PktsPerFrame /\ Late + RANGE <= PktsPerFrame
    BY ConstantsAssumption, DisplacementAssumption
  <1> USE DEF Rewinds, Advances, IsNewest
  <1>4. CASE newest = 0
    BY <1>1, <1>2, <1>3, <1>4
  <1>5. CASE newest # 0 /\ f = newest /\ InFrame(seq)
    BY <1>1, <1>2, <1>3, <1>5 DEF InFrame
  <1>6. CASE newest # 0 /\ f = newest + 1 /\ InNextFrame(seq)
    <2>1. PktsPerFrame + seq - prev <= Ahead
      BY <1>1, <1>6 DEF InNextFrame
    <2>2. prev > RANGE /\ seq < prev - RANGE
      BY <1>1, <1>3, <2>1
    <2>3. Rewinds(seq)
      BY <1>2, <2>2
    <2>4. f > newest
      BY <1>1, <1>6
    <2> QED
      BY <1>6, <2>3, <2>4
  <1>7. CASE newest # 0 /\ f = newest - 1 /\ InPreviousFrame(seq)
    <2>1. PktsPerFrame + prev - seq < Late
      BY <1>1, <1>7 DEF InPreviousFrame
    <2>2. seq > prev + RANGE /\ prev # 0
      BY <1>1, <1>3, <1>7, <2>1
    <2>3. ~Advances(seq)
      BY <1>1, <1>2, <1>3, <2>2
    <2>4. ~Rewinds(seq)
      BY <1>1, <1>2, <1>3, <2>2
    <2>5. ~(f > newest) /\ f # newest
      BY <1>1, <1>7
    <2> QED
      BY <2>3, <2>4, <2>5
  <1> QED
    BY <1>4, <1>5, <1>6, <1>7 DEF Near

LEMMA InitHolds == Init => TypeOK /\ TracksNewest
  <1>1. 0 \in Seq16 /\ 0 <= 0 /\ 0 \in Nat
    BY ConstantsAssumption DEF Seq16
  <1> SUFFICES ASSUME Init PROVE TypeOK /\ TracksNewest
    OBVIOUS
  <1>2. /\ splitAtMax \in BOOLEAN /\ ordered \in BOOLEAN
        /\ looped \in BOOLEAN /\ cloud \subseteq Frame /\ given \subseteq Frame
    BY DEF Init
  <1>3. /\ newest \in Frame \union {0} /\ newestSeq \in PktSeq \union {0}
        /\ newest = 0 <=> newestSeq = 0
        /\ newest = 0 => cloud = {}
    BY DEF Init
  <1>4. /\ prev_seq \in Seq16 /\ max_seq \in Seq16
        /\ prev_seq <= max_seq /\ count \in Nat
    BY <1>1 DEF Init
  <1>5. prev_seq = newestSeq
    BY DEF Init
  <1> QED
    BY <1>2, <1>3, <1>4, <1>5 DEF TypeOK, TracksNewest

LEMMA DeliverHolds ==
    ASSUME TypeOK, TracksNewest, NEW f \in Frame, NEW seq \in PktSeq, Deliver(f, seq)
    PROVE  TypeOK' /\ TracksNewest'
  <1>1. Near(f, seq) /\ NewPacket(seq)
    BY DEF Deliver, DecodeMsopPkt
  <1>2. /\ seq \in Seq16 \ {0} /\ f \in Nat \ {0} /\ newest \in Nat
        /\ prev_seq \in Nat /\ max_seq \in Nat
    BY ConstantsAssumption DEF PktSeq, Seq16, Frame, TypeOK
  <1>3. TracksNewest'
    <2>1. CASE IsNewest(f, seq)
      BY <1>1, <2>1, PacketIsRecognized DEF Deliver, NewPacket, TracksNewest
    <2>2. CASE ~IsNewest(f, seq)
      BY <1>1, <2>2, PacketIsRecognized DEF Deliver, NewPacket, TracksNewest
    <2> QED
      BY <2>1, <2>2
  <1>4. newest' \in Frame /\ newestSeq' \in PktSeq
    <2>1. CASE IsNewest(f, seq)
      BY <2>1 DEF Deliver
    <2>2. CASE ~IsNewest(f, seq)
      <3>1. newest # 0
        BY <1>2, <2>2 DEF IsNewest
      <3> QED
        BY <2>2, <3>1 DEF Deliver, TypeOK
    <2> QED
      BY <2>1, <2>2
  <1>5. /\ prev_seq' \in Seq16 /\ max_seq' \in Seq16
        /\ prev_seq' <= max_seq'
    BY <1>1, <1>2 DEF NewPacket, LargestSeq, TypeOK, Seq16
  <1>6. splitAtMax' \in BOOLEAN /\ ordered' \in BOOLEAN /\ looped' \in BOOLEAN
    <2>1. splitAtMax' \in BOOLEAN /\ ordered' \in BOOLEAN
      BY Zenon DEF Deliver, TypeOK
    <2> QED
      BY <1>1, <2>1 DEF NewPacket, TypeOK
  <1>7. cloud' \subseteq Frame /\ given' \subseteq Frame
    BY DEF Deliver, DecodeMsopPkt, TypeOK
  <1>8. count' \in Nat
    BY DEF Deliver, DecodeMsopPkt, TypeOK
  <1>9. newest' # 0 /\ newestSeq' # 0
    BY <1>4 DEF Frame, PktSeq
  <1> QED
    BY <1>3, <1>4, <1>5, <1>6, <1>7, <1>8, <1>9 DEF TypeOK

LEMMA StutterHolds ==
    ASSUME TypeOK, TracksNewest, UNCHANGED vars
    PROVE  TypeOK' /\ TracksNewest'
  BY DEF vars, splitVars, TypeOK, TracksNewest

(* TypeOK and TracksNewest are inductive together. *)
LEMMA Inductive == Spec => [](TypeOK /\ TracksNewest)
  <1>1. TypeOK /\ TracksNewest /\ [Next]_vars => (TypeOK /\ TracksNewest)'
    BY DeliverHolds, StutterHolds DEF Next
  <1> QED
    BY <1>1, InitHolds, PTL DEF Spec

(* The types of the splitter, and that no number is larger than max_seq_. *)
THEOREM TypeCorrect == Spec => []TypeOK
  BY Inductive, PTL

(* After any packet, late, repeated or after a loss, prev_seq_ is the number *)
(* of the newest packet of the newest frame.                                 *)
THEOREM SplitterTracksNewest == Spec => []TracksNewest
  BY Inductive, PTL

(* A solid-state decoder gives a cloud away exactly when a newer frame       *)
(* begins; only DecoderRSM1 also does so at the end of a packet.             *)
THEOREM SplitsByFrame == Spec => ImplementsFrameAssembler
  <1>1. Init => Ideal!Init
    BY DEF Init, Ideal!Init
  <1>2. ASSUME TypeOK, TracksNewest, NEW f \in Frame, NEW seq \in PktSeq, Deliver(f, seq)
        PROVE  Ideal!Deliver(f)
    <2> DEFINE ends == f > newest /\ cloud # {}
    <2>1. Rewinds(seq) <=> newest # 0 /\ f > newest
      BY <1>2, PacketIsRecognized DEF Deliver
    <2>2. newest \in Nat /\ f \in Nat /\ f # 0
      BY <1>2, ConstantsAssumption DEF TypeOK, Frame
    <2>3. newest' = IF f > newest THEN f ELSE newest
      BY <1>2, <2>2 DEF Deliver, IsNewest
    <2>4. Rewinds(seq) /\ cloud # {} <=> ends
      BY <1>2, <2>1, <2>2 DEF TypeOK
    <2>5. PICK new \in SUBSET {f} :
             LET early == Rewinds(seq) /\ cloud # {}
                 filled == IF early THEN new ELSE cloud \union new
                 atEnd == splitAtMax /\ IsMaxSeq(seq) /\ filled # {}
             IN /\ cloud' = IF atEnd THEN {} ELSE filled
                /\ given' = IF atEnd THEN filled ELSE IF early THEN cloud ELSE given
                /\ count' = count + (IF early THEN 1 ELSE 0) + (IF atEnd THEN 1 ELSE 0)
      BY <1>2 DEF Deliver, DecodeMsopPkt
    <2> DEFINE filled == IF ends THEN new ELSE cloud \union new
               before == count + (IF ends THEN 1 ELSE 0)
               atEnd == splitAtMax /\ IsMaxSeq(seq) /\ filled # {}
    <2>6. /\ cloud' = IF atEnd THEN {} ELSE filled
          /\ given' = IF atEnd THEN filled ELSE IF ends THEN cloud ELSE given
          /\ count' = before + (IF atEnd THEN 1 ELSE 0)
      BY <2>4, <2>5
    <2>7. before \in Nat /\ splitAtMax' = splitAtMax
      BY <1>2 DEF TypeOK, Deliver
    <2> HIDE DEF ends, filled, before
    <2>8. CASE atEnd
      <3>1. splitAtMax /\ filled # {}
        BY <2>8
      <3>2. cloud' = {} /\ given' = filled /\ count' = before + 1
        BY <2>6, <2>8
      <3> QED
        BY <2>3, <2>7, <3>1, <3>2 DEF Ideal!Deliver, ends, filled, before
    <2>9. CASE ~atEnd
      <3>1. /\ cloud' = filled /\ count' = before
            /\ given' = IF ends THEN cloud ELSE given
        BY <2>6, <2>7, <2>9
      <3> QED
        BY <2>3, <2>7, <3>1 DEF Ideal!Deliver, ends, filled, before
    <2> QED
      BY <2>8, <2>9
  <1>3. TypeOK /\ TracksNewest /\ [Next]_vars => [Ideal!Next]_(Ideal!vars)
    <2>1. ASSUME UNCHANGED vars
          PROVE  UNCHANGED Ideal!vars
      BY <2>1 DEF vars, Ideal!vars
    <2> QED
      BY <1>2, <2>1 DEF Next, Ideal!Next
  <1> QED
    BY <1>1, <1>3, Inductive, PTL DEF Spec, ImplementsFrameAssembler, Ideal!Spec

-----------------------------------------------------------------------------
(* While the network keeps the order a cloud holds points of one frame.  If  *)
(* the newest frame has been given away already, it was given away after its *)
(* packet with the largest number so far, and the packets that still come    *)
(* have larger ones: each is given away by itself.                           *)
Untorn ==
    ordered =>
       /\ cloud \subseteq {newest}
       /\ \A f, g \in given : f = g
       /\ \A f \in given : f <= newest
       /\ newest \in given =>
             cloud = {} /\ splitAtMax /\ looped /\ newestSeq = max_seq

(* What a packet in order does, in terms of its frame. *)
LEMMA DeliverInOrder ==
    ASSUME TypeOK, TracksNewest, Untorn,
           NEW f \in Frame, NEW seq \in PktSeq, Deliver(f, seq), ordered'
    PROVE  /\ ordered /\ f \in Nat \ {0} /\ newest \in Nat
           /\ newest' = f /\ newestSeq' = seq
           /\ splitAtMax' = splitAtMax
           /\ f >= newest /\ (f = newest => seq > newestSeq)
           /\ max_seq' = LargestSeq(seq) /\ (looped => looped')
           /\ \E new \in SUBSET {f} :
                 LET early == f > newest /\ cloud # {}
                     filled == IF early THEN new ELSE cloud \union new
                     atEnd == splitAtMax /\ IsMaxSeq(seq) /\ filled # {}
                 IN /\ cloud' = IF atEnd THEN {} ELSE filled
                    /\ given' = IF atEnd THEN filled ELSE IF early THEN cloud ELSE given
                    /\ filled \subseteq {f}
                    /\ count' # count => atEnd \/ early
  <1>1. /\ ordered /\ IsNewest(f, seq) /\ newest' = f /\ newestSeq' = seq
        /\ splitAtMax' = splitAtMax /\ Near(f, seq)
    BY DEF Deliver
  <1>2. f \in Nat \ {0} /\ newest \in Nat /\ count \in Nat
    BY ConstantsAssumption DEF TypeOK, Frame
  <1>3. f >= newest /\ (f = newest => seq > newestSeq)
    BY <1>1, <1>2 DEF IsNewest
  <1>4. max_seq' = LargestSeq(seq) /\ (looped => looped')
    BY DEF Deliver, DecodeMsopPkt, NewPacket
  <1>5. Rewinds(seq) /\ cloud # {} <=> f > newest /\ cloud # {}
    BY <1>1, PacketIsRecognized DEF TypeOK
  <1>6. PICK new \in SUBSET {f} :
           LET early == Rewinds(seq) /\ cloud # {}
               filled == IF early THEN new ELSE cloud \union new
               atEnd == splitAtMax /\ IsMaxSeq(seq) /\ filled # {}
           IN /\ cloud' = IF atEnd THEN {} ELSE filled
              /\ given' = IF atEnd THEN filled ELSE IF early THEN cloud ELSE given
              /\ count' = count + (IF early THEN 1 ELSE 0) + (IF atEnd THEN 1 ELSE 0)
    BY DEF Deliver, DecodeMsopPkt
  <1> DEFINE early == f > newest /\ cloud # {}
             filled == IF early THEN new ELSE cloud \union new
             atEnd == splitAtMax /\ IsMaxSeq(seq) /\ filled # {}
  <1>7. /\ cloud' = IF atEnd THEN {} ELSE filled
        /\ given' = IF atEnd THEN filled ELSE IF early THEN cloud ELSE given
        /\ count' = count + (IF early THEN 1 ELSE 0) + (IF atEnd THEN 1 ELSE 0)
    BY <1>5, <1>6
  <1>8. filled \subseteq {f}
    <2>1. cloud # {} /\ ~early => f = newest
      BY <1>2, <1>3
    <2> QED BY <1>1, <2>1 DEF Untorn
  <1>9. count' # count => atEnd \/ early
    <2> HIDE DEF atEnd, early
    <2> QED BY <1>2, <1>7
  <1> QED BY <1>1, <1>2, <1>3, <1>4, <1>7, <1>8, <1>9

LEMMA UntornKept ==
    ASSUME TypeOK, TracksNewest, Untorn, NEW f \in Frame, NEW seq \in PktSeq, Deliver(f, seq)
    PROVE  Untorn'
  <1> SUFFICES ASSUME ordered'
               PROVE  /\ cloud' \subseteq {newest'}
                      /\ \A g, h \in given' : g = h
                      /\ \A g \in given' : g <= newest'
                      /\ newest' \in given' =>
                            /\ cloud' = {} /\ splitAtMax' /\ looped'
                            /\ newestSeq' = max_seq'
    BY DEF Untorn
  <1>1. /\ ordered /\ f \in Nat \ {0} /\ newest \in Nat
        /\ newest' = f /\ newestSeq' = seq
        /\ splitAtMax' = splitAtMax
        /\ f >= newest /\ (f = newest => seq > newestSeq)
        /\ max_seq' = LargestSeq(seq) /\ (looped => looped')
    BY DeliverInOrder
  <1>2. PICK new \in SUBSET {f} :
           LET early == f > newest /\ cloud # {}
               filled == IF early THEN new ELSE cloud \union new
               atEnd == splitAtMax /\ IsMaxSeq(seq) /\ filled # {}
           IN /\ cloud' = IF atEnd THEN {} ELSE filled
              /\ given' = IF atEnd THEN filled ELSE IF early THEN cloud ELSE given
              /\ filled \subseteq {f}
    BY DeliverInOrder
  <1> DEFINE early == f > newest /\ cloud # {}
             filled == IF early THEN new ELSE cloud \union new
             atEnd == splitAtMax /\ IsMaxSeq(seq) /\ filled # {}
  <1>3. CASE atEnd
    <2>1. cloud' = {} /\ given' = filled /\ filled \subseteq {f}
      BY <1>2, <1>3
    <2>2. splitAtMax' /\ looped' /\ max_seq' = seq
      BY <1>1, <1>3 DEF IsMaxSeq
    <2> HIDE DEF filled, atEnd
    <2> QED BY <1>1, <2>1, <2>2
  <1>4. CASE ~atEnd /\ early
    <2>1. cloud' = filled /\ given' = cloud /\ filled \subseteq {f}
      BY <1>2, <1>4
    <2>2. cloud \subseteq {newest} /\ f > newest
      BY <1>1, <1>4 DEF Untorn
    <2> HIDE DEF filled, atEnd, early
    <2> QED BY <1>1, <2>1, <2>2
  <1>5. CASE ~atEnd /\ ~early
    <2>1. /\ cloud' = filled /\ given' = given /\ filled \subseteq {f}
          /\ filled = cloud \union new
      BY <1>2, <1>5
    <2>2. /\ \A g, h \in given : g = h
          /\ \A g \in given : g <= newest
      BY <1>1 DEF Untorn
    <2>3. \A g \in given : g <= f
      <3>1. given \subseteq Nat
        BY ConstantsAssumption DEF TypeOK, Frame
      <3> QED BY <1>1, <2>2, <3>1
    <2>4. ASSUME f \in given
          PROVE  filled = {} /\ splitAtMax' /\ looped' /\ seq = max_seq'
      <3>1. f = newest
        BY <1>1, <2>2, <2>4
      <3>2. splitAtMax /\ looped /\ newestSeq = max_seq
        BY <1>1, <2>4, <3>1 DEF Untorn
      <3>3. max_seq' = seq
        BY <1>1, <3>1, <3>2 DEF LargestSeq
      <3>4. IsMaxSeq(seq)
        BY <1>1, <3>2, <3>3 DEF IsMaxSeq
      <3>5. filled = {}
        BY <1>5, <3>2, <3>4
      <3> QED BY <1>1, <3>2, <3>3, <3>5
    <2> HIDE DEF filled, atEnd, early
    <2> QED BY <1>1, <2>1, <2>2, <2>3, <2>4
  <1> QED BY <1>3, <1>4, <1>5

LEMMA UntornHolds == Spec => []Untorn
  <1>1. Init => Untorn
    BY DEF Init, Untorn
  <1>2. TypeOK /\ TracksNewest /\ Untorn /\ [Next]_vars => Untorn'
    <2>1. ASSUME Untorn, UNCHANGED vars PROVE Untorn'
      BY <2>1 DEF vars, splitVars, Untorn
    <2> QED BY <2>1, UntornKept DEF Next
  <1> QED BY <1>1, <1>2, Inductive, PTL DEF Spec

(* DecoderRSM1, once it knows the number of a frame's last packet and while  *)
(* the network keeps the order, gives no frame away in two pieces and none   *)
(* together with another one, whatever packets are lost.                     *)
THEOREM TearsNoFrame == Spec => FramesNotTorn
  <1>1. ASSUME TypeOK, TracksNewest, Untorn, [Next]_vars
        PROVE  [ordered' /\ max_seq = PktsPerFrame /\ count' # count /\ given # {} =>
                   \A f, g \in given' : f = g /\ f > Newest(given)]_vars
    <2> SUFFICES ASSUME Next, ordered', max_seq = PktsPerFrame, count' # count, given # {},
                        NEW g \in given', NEW h \in given'
                 PROVE  g = h /\ g > Newest(given)
      BY <1>1
    <2>1. PICK f \in Frame, seq \in PktSeq : Deliver(f, seq)
      BY DEF Next
    <2>2. /\ ordered /\ f \in Nat \ {0} /\ newest \in Nat
          /\ newest' = f
          /\ f >= newest /\ (f = newest => seq > newestSeq)
      BY <1>1, <2>1, DeliverInOrder
    <2>3. PICK new \in SUBSET {f} :
             LET early == f > newest /\ cloud # {}
                 filled == IF early THEN new ELSE cloud \union new
                 atEnd == splitAtMax /\ IsMaxSeq(seq) /\ filled # {}
             IN /\ cloud' = IF atEnd THEN {} ELSE filled
                /\ given' = IF atEnd THEN filled ELSE IF early THEN cloud ELSE given
                /\ filled \subseteq {f}
                /\ count' # count => atEnd \/ early
      BY <1>1, <2>1, DeliverInOrder
    <2>4. PICK last \in given : given = {last}
      BY <1>1, <2>2 DEF Untorn
    <2>5. Newest(given) = last /\ last \in Nat
      <3>1. last \in Nat
        BY <1>1, <2>4, ConstantsAssumption DEF TypeOK, Frame
      <3> QED BY <2>4, <3>1 DEF Newest
    <2>6. last <= newest
      BY <1>1, <2>2, <2>4 DEF Untorn
    <2>7. ASSUME last = newest PROVE f > newest /\ cloud = {}
      <3>1. newestSeq = PktsPerFrame /\ cloud = {}
        BY <1>1, <2>2, <2>4, <2>7 DEF Untorn
      <3>2. ~(seq > PktsPerFrame)
        BY ConstantsAssumption DEF PktSeq
      <3> QED BY <2>2, <3>1, <3>2
    <2>8. CASE f > newest /\ cloud # {} /\ given' = cloud
      <3>1. g = newest /\ h = newest
        BY <1>1, <2>2, <2>8 DEF Untorn
      <3>2. last < newest
        BY <2>2, <2>5, <2>6, <2>7, <2>8
      <3> QED BY <2>2, <2>5, <3>1, <3>2
    <2>9. CASE given' \subseteq {f}
      <3>1. g = f /\ h = f
        BY <2>9
      <3>2. last < f
        BY <2>2, <2>5, <2>6, <2>7
      <3> QED BY <2>2, <2>5, <3>1, <3>2
    <2>10. \/ f > newest /\ cloud # {} /\ given' = cloud
           \/ given' \subseteq {f}
      <3> DEFINE early == f > newest /\ cloud # {}
                 filled == IF early THEN new ELSE cloud \union new
                 atEnd == splitAtMax /\ IsMaxSeq(seq) /\ filled # {}
      <3>1. /\ given' = IF atEnd THEN filled ELSE IF early THEN cloud ELSE given
            /\ filled \subseteq {f}
            /\ atEnd \/ early
        BY <2>3
      <3>2. early <=> f > newest /\ cloud # {}
        OBVIOUS
      <3> HIDE DEF early, filled, atEnd
      <3> QED BY <3>1, <3>2
    <2> QED BY <2>8, <2>9, <2>10
  <1> QED BY <1>1, Inductive, UntornHolds, PTL DEF Spec, FramesNotTorn

-----------------------------------------------------------------------------
(* AngleSplitter. *)

(* How far the LiDAR has turned past the split angle: this, unlike the       *)
(* azimuth, only grows until the next crossing.                              *)
Past == IF prev_angle < split_angle THEN prev_angle - split_angle + Round
                                    ELSE prev_angle - split_angle

(* A cloud has covered what lies past the split angle, but for what the      *)
(* block at which it began had turned past it.                               *)
CoveredIsPast ==
    NotJustBeforeZero /\ complete => covered <= Past /\ Past < covered + Step

AngleInv ==
    AngleTypeOK /\ SplitsOnlyAtSplitAngle /\ SplitsAtEverySafeCrossing /\ CoveredIsPast

(* What newBlock() answers when the LiDAR turns from a by d. *)
LEMMA NewBlockCrosses ==
    ASSUME split_angle \in Angle, prev_angle \in Angle, NEW d \in 0..Step
    PROVE  LET angle == Turned(prev_angle, d) IN
           /\ angle \in Angle
           /\ NewBlock(angle) => Crosses(prev_angle, d)
           /\ NotJustBeforeZero /\ Crosses(prev_angle, d) => NewBlock(angle)
  <1>1. /\ prev_angle \in Nat /\ prev_angle < Round
        /\ d \in Nat /\ d <= Step /\ Step \in Nat /\ Step < Round
        /\ split_angle \in Nat /\ split_angle < Round /\ Round \in Nat
    BY AngleConstantsAssumption DEF Angle
  <1>2. CASE prev_angle + d < Round
    <2>1. Turned(prev_angle, d) = prev_angle + d
      BY <1>2 DEF Turned
    <2> QED
      BY <1>1, <1>2, <2>1 DEF Angle, NewBlock, Unwound, Crosses
  <1>3. CASE ~(prev_angle + d < Round)
    <2>1. Turned(prev_angle, d) = prev_angle + d - Round
      BY <1>3 DEF Turned
    <2> QED
      BY <1>1, <1>3, <2>1 DEF Angle, NewBlock, Unwound, Crosses, NotJustBeforeZero
  <1> QED
    BY <1>2, <1>3

(* What lies past the split angle after a turn by d, and that it is a whole  *)
(* round at a crossing and no sooner.                                        *)
LEMMA PastGrows ==
    ASSUME split_angle \in Angle, prev_angle \in Angle, NEW d \in 0..Step,
           prev_angle' = Turned(prev_angle, d), split_angle' = split_angle
    PROVE  /\ Past \in Nat /\ Past < Round /\ Past' \in Nat
           /\ ~Crosses(prev_angle, d) => Past' = Past + d
           /\ Crosses(prev_angle, d) => Past' = Past + d - Round /\ Past' < Step
  <1>1. /\ prev_angle \in Nat /\ prev_angle < Round
        /\ d \in Nat /\ d <= Step /\ Step \in Nat /\ Step < Round
        /\ split_angle \in Nat /\ split_angle < Round /\ Round \in Nat
    BY AngleConstantsAssumption DEF Angle
  <1>2. CASE prev_angle + d < Round
    <2>1. prev_angle' = prev_angle + d
      BY <1>2 DEF Turned
    <2> QED
      BY <1>1, <1>2, <2>1 DEF Past, Crosses
  <1>3. CASE ~(prev_angle + d < Round)
    <2>1. prev_angle' = prev_angle + d - Round
      BY <1>3 DEF Turned
    <2> QED
      BY <1>1, <1>3, <2>1 DEF Past, Crosses
  <1> QED
    BY <1>2, <1>3

LEMMA AngleInitHolds == AngleInit => AngleInv
  <1> SUFFICES ASSUME AngleInit PROVE AngleInv
    OBVIOUS
  <1>1. split_angle \in Angle /\ prev_angle \in Angle /\ covered \in Nat
    BY AngleConstantsAssumption DEF AngleInit, Angle
  <1>2. blocks = FALSE /\ split = FALSE /\ crossed = FALSE /\ complete = FALSE
    BY DEF AngleInit
  <1>3. AngleTypeOK
    BY <1>1, <1>2 DEF AngleTypeOK
  <1> QED
    BY <1>2, <1>3 DEF AngleInv, SplitsOnlyAtSplitAngle, SplitsAtEverySafeCrossing,
       SplitsAtEveryCrossing, CoveredIsPast

(* The first block comes from nowhere: it never splits, and no cloud began.  *)
LEMMA FirstBlockHolds ==
    ASSUME AngleInv, blocks = FALSE => prev_angle = split_angle,
           blocks = FALSE => complete = FALSE,
           NEW a \in Angle, FirstBlock(a)
    PROVE  AngleInv'
  <1>1. prev_angle = split_angle /\ complete = FALSE
    BY DEF FirstBlock, AngleInv, AngleTypeOK
  <1>2. ~NewBlock(a)
    BY <1>1, AngleConstantsAssumption DEF NewBlock, Unwound, Angle, AngleInv, AngleTypeOK
  <1>3. split' = FALSE
    BY <1>2 DEF FirstBlock, NewBlock
  <1> QED
    BY <1>1, <1>3 DEF FirstBlock, AngleInv, AngleTypeOK, SplitsOnlyAtSplitAngle,
       SplitsAtEverySafeCrossing, SplitsAtEveryCrossing, CoveredIsPast

LEMMA BlockHolds ==
    ASSUME AngleInv, NEW d \in 0..Step, Block(d)
    PROVE  AngleInv'
  <1> DEFINE angle == Turned(prev_angle, d)
  <1>1. /\ split_angle \in Angle /\ prev_angle \in Angle /\ covered \in Nat /\ d \in Nat
        /\ Step \in Nat /\ Round \in Nat
    BY AngleConstantsAssumption DEF AngleInv, AngleTypeOK
  <1>2. /\ angle \in Angle
        /\ NewBlock(angle) => Crosses(prev_angle, d)
        /\ NotJustBeforeZero /\ Crosses(prev_angle, d) => NewBlock(angle)
    BY <1>1, NewBlockCrosses
  <1>3. /\ prev_angle' = angle /\ split' = NewBlock(angle)
        /\ covered' = (IF NewBlock(angle) THEN 0 ELSE covered + d)
        /\ complete' = (complete \/ NewBlock(angle))
        /\ crossed' = Crosses(prev_angle, d) /\ blocks' = blocks
        /\ split_angle' = split_angle
    BY DEF Block
  <1>4. /\ Past \in Nat /\ Past' \in Nat
        /\ ~Crosses(prev_angle, d) => Past' = Past + d
        /\ Crosses(prev_angle, d) => Past' < Step
    BY <1>1, <1>3, PastGrows
  <1> HIDE DEF angle
  <1>5. AngleTypeOK'
    <2>1. split' \in BOOLEAN /\ crossed' \in BOOLEAN
      <3>1. NewBlock(angle) \in BOOLEAN
        BY Zenon DEF NewBlock
      <3>2. Crosses(prev_angle, d) \in BOOLEAN
        BY Zenon DEF Crosses
      <3> QED
        BY <1>3, <3>1, <3>2, Zenon
    <2>2. complete' \in BOOLEAN /\ blocks' \in BOOLEAN
      BY <1>3 DEF AngleInv, AngleTypeOK
    <2>3. covered' \in Nat /\ prev_angle' \in Angle /\ split_angle' \in Angle
      BY <1>1, <1>2, <1>3
    <2> QED
      BY <2>1, <2>2, <2>3 DEF AngleTypeOK
  <1>6. SplitsOnlyAtSplitAngle' /\ SplitsAtEverySafeCrossing'
    BY <1>2, <1>3 DEF SplitsOnlyAtSplitAngle, SplitsAtEverySafeCrossing,
       SplitsAtEveryCrossing, NotJustBeforeZero
  <1>7. CoveredIsPast'
    <2> SUFFICES ASSUME NotJustBeforeZero, complete'
                 PROVE  covered' <= Past' /\ Past' < covered' + Step
      BY <1>3 DEF CoveredIsPast, NotJustBeforeZero
    <2>1. CASE NewBlock(angle)
      <3>1. covered' = 0
        BY <1>3, <2>1
      <3>2. Past' < Step
        BY <1>2, <1>4, <2>1
      <3> QED
        BY <1>1, <1>4, <3>1, <3>2
    <2>2. CASE ~NewBlock(angle)
      <3>1. covered' = covered + d /\ Past' = Past + d
        BY <1>2, <1>3, <1>4, <2>2
      <3>2. complete
        BY <1>3, <2>2, Zenon
      <3>3. covered <= Past /\ Past < covered + Step
        BY <3>2 DEF AngleInv, CoveredIsPast
      <3> QED
        BY <1>1, <1>4, <3>1, <3>3
    <2> QED
      BY <2>1, <2>2
  <1> QED
    BY <1>5, <1>6, <1>7 DEF AngleInv

(* Before the first block the splitter is in its initial state. *)
Fresh == ~blocks => prev_angle = split_angle /\ complete = FALSE

LEMMA AngleInductive == AngleSpec => [](AngleInv /\ Fresh)
  <1>1. AngleInit => AngleInv /\ Fresh
    BY AngleInitHolds DEF AngleInit, Fresh
  <1>2. ASSUME AngleInv, Fresh, [AngleNext]_angleVars
        PROVE  (AngleInv /\ Fresh)'
    <2>1. ASSUME NEW a \in Angle, FirstBlock(a)
          PROVE  AngleInv' /\ Fresh'
      BY <1>2, <2>1, FirstBlockHolds DEF Fresh, FirstBlock
    <2>2. ASSUME NEW d \in 0..Step, Block(d)
          PROVE  AngleInv' /\ Fresh'
      BY <1>2, <2>2, BlockHolds DEF Fresh, Block
    <2>3. CASE UNCHANGED angleVars
      BY <1>2, <2>3 DEF angleVars, AngleInv, Fresh, AngleTypeOK, SplitsOnlyAtSplitAngle,
         SplitsAtEverySafeCrossing, SplitsAtEveryCrossing, NotJustBeforeZero,
         CoveredIsPast, Past
    <2> QED
      BY <1>2, <2>1, <2>2, <2>3 DEF AngleNext
  <1> QED
    BY <1>1, <1>2, PTL DEF AngleSpec

(* newBlock() never splits away from the split angle, wherever that is.      *)
THEOREM NeverSplitsElsewhere == AngleSpec => []SplitsOnlyAtSplitAngle
  BY AngleInductive, PTL DEF AngleInv

(* A split angle that is at least a block's width away from the end of the   *)
(* turn, as the default 0 is, is missed by no block that reaches or passes   *)
(* it: however wide each block is, also when it passes 0 at the same time.   *)
THEOREM NeverMissesSafeAngle == AngleSpec => []SplitsAtEverySafeCrossing
  BY AngleInductive, PTL DEF AngleInv

LEMMA TurnAtSplit ==
    ASSUME AngleInv, NotJustBeforeZero, complete,
           NEW d \in 0..Step, Block(d), NewBlock(prev_angle')
    PROVE  Round - Step < covered + Turn /\ covered + Turn < Round + Step
  <1>1. /\ split_angle \in Angle /\ prev_angle \in Angle /\ covered \in Nat
        /\ Step \in Nat /\ Step < Round /\ Round \in Nat /\ d \in Nat /\ d <= Step
    BY AngleConstantsAssumption DEF AngleInv, AngleTypeOK
  <1>2. /\ prev_angle' = Turned(prev_angle, d) /\ split_angle' = split_angle
    BY DEF Block
  <1>3. Crosses(prev_angle, d) /\ prev_angle' \in Angle
    BY <1>1, <1>2, NewBlockCrosses
  <1>4. /\ Past \in Nat /\ Past' \in Nat
        /\ Past' = Past + d - Round /\ Past' < Step
    BY <1>1, <1>2, <1>3, PastGrows
  <1>5. Turn = d
    BY <1>1, <1>2 DEF Turn, Turned, Angle
  <1>6. covered <= Past /\ Past < covered + Step
    BY DEF AngleInv, CoveredIsPast
  <1> QED
    BY <1>1, <1>4, <1>5, <1>6

(* Then every frame turns Round units, up to the width of a block.           *)
THEOREM EveryFrameIsARound == AngleSpec => FramesAreRounds
  <1>1. ASSUME AngleInv, Fresh, [AngleNext]_angleVars
        PROVE  [NotJustBeforeZero /\ complete /\ split' =>
                  /\ Round - Step < covered + Turn
                  /\ covered + Turn < Round + Step]_angleVars
    <2> SUFFICES ASSUME AngleNext, NotJustBeforeZero, complete, split'
                 PROVE  Round - Step < covered + Turn /\ covered + Turn < Round + Step
      BY <1>1
    <2>1. PICK d \in 0..Step : Block(d)
      <3>1. ASSUME NEW a \in Angle, FirstBlock(a)
            PROVE  FALSE
        BY <1>1, <3>1 DEF FirstBlock, Fresh
      <3> QED
        BY <3>1 DEF AngleNext
    <2>2. NewBlock(prev_angle')
      BY <2>1 DEF Block
    <2> QED
      BY <1>1, <2>1, <2>2, TurnAtSplit
  <1> QED
    BY <1>1, AngleInductive, PTL DEF AngleSpec, FramesAreRounds
=============================================================================
