-------------------------- MODULE LidarDriver_proofs --------------------------
(***************************************************************************)
(* LidarDriver for any producers, any pool limit and any number of packets *)
(* and sessions: types, the exclusive use of buffers, the bounds on the    *)
(* packet queue and on the buffers, that the recycled buffers implement    *)
(* PacketChannel, and that nothing happens between stop() and start().     *)
(***************************************************************************)
EXTENDS LidarDriver, FiniteSetTheorems, TLAPS

-----------------------------------------------------------------------------
(* What push() and pop() do to the contents of a queue. *)

LEMMA PushedRange ==
    ASSUME NEW S, NEW q \in Seq(S), NEW b \in S
    PROVE  /\ Append(q, b) \in Seq(S)
           /\ Range(Append(q, b)) = Range(q) \union {b}
           /\ Len(Append(q, b)) = Len(q) + 1
           /\ IsInjective(q) /\ b \notin Range(q) => IsInjective(Append(q, b))
  <1>1. /\ Append(q, b) \in Seq(S)
        /\ Len(q) \in Nat
        /\ Len(Append(q, b)) = Len(q) + 1
        /\ DOMAIN q = 1..Len(q)
        /\ DOMAIN Append(q, b) = 1..(Len(q) + 1)
        /\ \A i \in 1..Len(q) : Append(q, b)[i] = q[i]
        /\ Append(q, b)[Len(q) + 1] = b
    OBVIOUS
  <1>2. 1..(Len(q) + 1) = (1..Len(q)) \union {Len(q) + 1}
    BY <1>1
  <1>3. Range(Append(q, b)) = Range(q) \union {b}
    BY <1>1, <1>2 DEF Range
  <1>4. IsInjective(q) /\ b \notin Range(q) => IsInjective(Append(q, b))
    BY <1>1, <1>2 DEF Range, IsInjective
  <1> QED BY <1>1, <1>3, <1>4

LEMMA PoppedRange ==
    ASSUME NEW S, NEW q \in Seq(S), q # <<>>
    PROVE  /\ Tail(q) \in Seq(S)
           /\ Head(q) \in S
           /\ Head(q) \in Range(q)
           /\ Range(Tail(q)) \subseteq Range(q)
           /\ Len(Tail(q)) = Len(q) - 1
           /\ IsInjective(q) => IsInjective(Tail(q)) /\ Head(q) \notin Range(Tail(q))
  <1>1. /\ Tail(q) \in Seq(S) /\ Len(q) \in Nat \ {0} /\ Len(Tail(q)) = Len(q) - 1
        /\ Head(q) = q[1] /\ Head(q) \in S
        /\ DOMAIN q = 1..Len(q) /\ DOMAIN Tail(q) = 1..(Len(q) - 1)
        /\ \A i \in 1..(Len(q) - 1) : Tail(q)[i] = q[i + 1]
    OBVIOUS
  <1>2. \A i \in 1..(Len(q) - 1) : i + 1 \in 1..Len(q) /\ i + 1 # 1
    BY <1>1
  <1>3. ASSUME IsInjective(q)
        PROVE  IsInjective(Tail(q)) /\ Head(q) \notin Range(Tail(q))
    BY <1>1, <1>2, <1>3 DEF Range, IsInjective
  <1> QED BY <1>1, <1>2, <1>3 DEF Range

LEMMA EmptyRange == Range(<<>>) = {} /\ IsInjective(<<>>)
  BY DEF Range, IsInjective

LEMMA QueueElements == \A S : \A q \in Seq(S) : Range(q) \subseteq S
  BY DEF Range

(* The actions of Next, one to a case. *)
LEMMA NextCases ==
    ASSUME Next
    PROVE  \/ InitDriver \/ Start \/ StopInput \/ JoinRecv \/ JoinHandle
           \/ \E p \in Producer : ReceiveLoop(p)
           \/ \E p \in Producer : RoundEnds(p)
           \/ \E p \in Producer : ReceiveDies(p)
           \/ \E p \in Producer : Receive(p)
           \/ \E p \in Producer : FillAndPut(p)
           \/ \E p \in Producer : DropBuffer(p)
           \/ \E p \in Producer : ClearOverflow(p)
           \/ HandlerLoop \/ HandlerTimeout \/ HandlerTake \/ Decode \/ Recycle
  BY DEF Next, Control, Produce, GoOn, Handle

(* packetGet() returns a buffer that was free or that nobody referred to. *)
LEMMA PacketGetResult ==
    ASSUME TypeOK, NEW b \in Buffer, PacketGet(b)
    PROVE  /\ freeQueue' \in Seq(Buffer)
           /\ Range(freeQueue') \subseteq Range(freeQueue)
           /\ b \in Range(freeQueue) \/ b \notin Live
           /\ IsInjective(freeQueue) =>
                 IsInjective(freeQueue') /\ b \notin Range(freeQueue')
  <1>1. CASE freeQueue # <<>>
    <2>1. freeQueue \in Seq(Buffer) /\ b = Head(freeQueue) /\ freeQueue' = Tail(freeQueue)
      BY <1>1 DEF PacketGet, TypeOK
    <2> QED BY <1>1, <2>1, PoppedRange
  <1>2. CASE freeQueue = <<>>
    <2>1. Live \subseteq Buffer
      BY QueueElements DEF Live, TypeOK, Range
    <2>2. b \in Buffer \ Live
      BY <1>2, <2>1 DEF PacketGet
    <2> QED BY <1>2, <2>2, EmptyRange DEF PacketGet
  <1> QED BY <1>1, <1>2

-----------------------------------------------------------------------------
(* Types.  They need the phases of a session: start() finds every producer   *)
(* without a buffer because stop() joined them.                              *)
Typing == TypeOK /\ ThreadsEndWithSession

LEMMA TypingHolds == SafeSpec => []Typing
  <1>1. Init => TypeOK
    <2> SUFFICES ASSUME Init PROVE TypeOK
      OBVIOUS
    <2>1. /\ producer \in [Producer -> {"none", "loop", "reading", "filling", "overflow"}]
          /\ \A p \in Producer : producer[p] # "filling"
          /\ hand = [p \in Producer |-> NoBuffer]
          /\ left \in [Producer -> 0..Sockets]
      <3>1. CASE Raw
        BY <3>1, ConstantsAssumption DEF Init
      <3>2. CASE ~Raw
        BY <3>2, ConstantsAssumption DEF Init
      <3> QED BY <3>1, <3>2
    <2>2. \A p \in Producer : hand[p] # NoBuffer <=> producer[p] = "filling"
      BY <2>1
    <2>4. hand \in [Producer -> Buffer \union {NoBuffer}]
      BY <2>1
    <2>3. content \in [Buffer -> Packet \union {NoPacket}]
      BY DEF Init
    <2>5. freeQueue \in Seq(Buffer) /\ pktQueue \in Seq(Buffer)
      BY DEF Init
    <2>6. /\ cloud \subseteq 0..MaxSessions /\ frame \subseteq 0..MaxSessions
          /\ cloudSeq \in Nat /\ pktSeq \in Nat
      BY DEF Init
    <2>7. handled \in Buffer \union {NoBuffer} /\ (handled # NoBuffer <=> handler \in {"decode", "recycle"})
      BY DEF Init
    <2>8. initFlag \in BOOLEAN /\ startFlag \in BOOLEAN /\ toExitRecv \in BOOLEAN /\ toExitHandle \in BOOLEAN
      BY DEF Init
    <2>9. session \in 0..MaxSessions /\ received \in 0..MaxPackets
      BY ConstantsAssumption DEF Init
    <2>10. ctl \in {"outside", "joinRecv", "joinHandle"} /\ handler \in {"none", "loop", "popWait", "decode", "recycle"}
      BY DEF Init
    <2> QED BY <2>1, <2>2, <2>3, <2>4, <2>5, <2>6, <2>7, <2>8, <2>9, <2>10 DEF TypeOK
  <1>2. Typing /\ [Next]_vars => TypeOK'
    <2> SUFFICES ASSUME TypeOK, ThreadsEndWithSession, [Next]_vars PROVE TypeOK'
      BY DEF Typing
    <2> USE ConstantsAssumption DEF TypeOK, controlVars, producerVars, cloudVars
    <2>1. CASE InitDriver
      BY <2>1 DEF InitDriver
    <2>2. CASE Start
      <3>1. /\ toExitRecv' \in BOOLEAN
            /\ producer' \in [Producer -> {"none", "loop", "reading", "filling", "overflow"}]
            /\ \A p \in Producer : hand'[p] # NoBuffer <=> producer'[p] = "filling"
        <4>1. CASE Raw
          BY <4>1, <2>2 DEF Start
        <4>2. CASE ~Raw
          <5>1. hand' = hand /\ producer' = [p \in Producer |-> "loop"] /\ toExitRecv' = FALSE
            BY <4>2, <2>2 DEF Start
          <5>2. \A p \in Producer : hand[p] = NoBuffer
            BY <4>2, <2>2 DEF Start, ThreadsEndWithSession
          <5> QED BY <5>1, <5>2
        <4> QED BY <4>1, <4>2
      <3>2. session' \in 0..MaxSessions
        BY <2>2 DEF Start
      <3>3. /\ startFlag' = TRUE /\ toExitHandle' = FALSE /\ handler' = "loop"
            /\ UNCHANGED <<ctl, initFlag, left, hand, handled, freeQueue, pktQueue, content,
                           received, cloud, frame, cloudSeq, pktSeq>>
        BY <2>2 DEF Start, HandleFlagAtStart
      <3>4. handled = NoBuffer
        BY <2>2 DEF Start, ThreadsEndWithSession
      <3> QED BY <3>1, <3>2, <3>3, <3>4
    <2>3. CASE StopInput
      BY <2>3 DEF StopInput
    <2>4. CASE JoinRecv
      BY <2>4 DEF JoinRecv
    <2>5. CASE JoinHandle
      BY <2>5 DEF JoinHandle, HandlerEnded
    <2>6. ASSUME NEW p \in Producer, ReceiveLoop(p) PROVE TypeOK'
      BY <2>6 DEF ReceiveLoop
    <2>7. ASSUME NEW p \in Producer, RoundEnds(p) PROVE TypeOK'
      BY <2>7 DEF RoundEnds
    <2>8. ASSUME NEW p \in Producer, ReceiveDies(p) PROVE TypeOK'
      BY <2>8 DEF ReceiveDies
    <2>9. ASSUME NEW p \in Producer, Receive(p) PROVE TypeOK'
      <3>1. PICK b \in Buffer : PacketGet(b) /\ hand' = [hand EXCEPT ![p] = b]
        BY <2>9 DEF Receive
      <3>2. freeQueue' \in Seq(Buffer)
        BY <3>1, PacketGetResult
      <3>3. /\ hand' \in [Producer -> Buffer \union {NoBuffer}]
            /\ producer' = [producer EXCEPT ![p] = "filling"]
        BY <2>9, <3>1 DEF Receive
      <3>5. left' \in [Producer -> 0..Sockets]
        <4>1. CASE Raw
          BY <4>1, <2>9 DEF Receive
        <4>2. CASE ~Raw
          <5>1. left[p] > 0 /\ left' = [left EXCEPT ![p] = @ - 1]
            BY <4>2, <2>9 DEF Receive
          <5>2. left[p] - 1 \in 0..Sockets
            BY <5>1
          <5> QED BY <5>1, <5>2
        <4> QED BY <4>1, <4>2
      <3>4. \A q \in Producer : hand'[q] # NoBuffer <=> producer'[q] = "filling"
        BY <3>1, <3>3
      <3> QED BY <2>9, <3>2, <3>3, <3>4, <3>5 DEF Receive
    <2>10. ASSUME NEW p \in Producer, FillAndPut(p) PROVE TypeOK'
      <3>1. hand[p] \in Buffer
        BY <2>10 DEF FillAndPut
      <3>2. pktQueue' \in Seq(Buffer)
        BY <2>10, <3>1, PushedRange DEF FillAndPut
      <3>3. content' \in [Buffer -> Packet \union {NoPacket}]
        <4>1. PICK k \in Kind :
                content' = [content EXCEPT ![hand[p]] =
                              [seq |-> received + 1, kind |-> k, session |-> session]]
          BY <2>10 DEF FillAndPut
        <4>2. [seq |-> received + 1, kind |-> k, session |-> session] \in Packet
          BY <2>10 DEF FillAndPut, Packet
        <4> QED BY <4>1, <4>2
      <3> QED BY <2>10, <3>2, <3>3 DEF FillAndPut
    <2>11. ASSUME NEW p \in Producer, DropBuffer(p) PROVE TypeOK'
      BY <2>11 DEF DropBuffer
    <2>12. ASSUME NEW p \in Producer, ClearOverflow(p) PROVE TypeOK'
      BY <2>12 DEF ClearOverflow
    <2>13. CASE HandlerLoop
      BY <2>13 DEF HandlerLoop
    <2>14. CASE HandlerTimeout
      BY <2>14 DEF HandlerTimeout
    <2>15. CASE HandlerTake
      <3>1. pktQueue' \in Seq(Buffer) /\ handled' \in Buffer /\ freeQueue' = freeQueue
        BY <2>15, PoppedRange DEF HandlerTake, FreeAtTake
      <3> QED BY <2>15, <3>1 DEF HandlerTake
    <2>16. CASE Decode
      <3> DEFINE s == content[handled].session
      <3>1. content[handled] \in Packet \union {NoPacket}
        BY <2>16 DEF Decode
      <3>2. s \in 0..MaxSessions
        BY <3>1 DEF Packet, NoPacket
      <3>3. /\ cloud' \subseteq 0..MaxSessions
            /\ frame' \subseteq 0..MaxSessions
            /\ cloudSeq' \in Nat
        <4>1. CASE DecodeMsop(s)
          <5>1. PICK before \in SUBSET {s}, after \in SUBSET {s} :
                  /\ cloud' = cloud \union before \/ cloud' = after
                  /\ frame' = frame \/ frame' = cloud \union before
                  /\ cloudSeq' = cloudSeq \/ cloudSeq' = cloudSeq + 1
            BY <4>1 DEF DecodeMsop
          <5>2. before \subseteq 0..MaxSessions /\ after \subseteq 0..MaxSessions
            BY <3>2
          <5>3. cloudSeq' \in Nat
            BY <5>1
          <5> QED BY <5>1, <5>2, <5>3
        <4>2. CASE UNCHANGED <<cloud, frame, cloudSeq>>
          BY <4>2
        <4> QED BY <4>1, <4>2, <2>16 DEF Decode
      <3>4. pktSeq' \in Nat
        BY <2>16 DEF Decode
      <3> QED BY <2>16, <3>3, <3>4 DEF Decode
    <2>17. CASE Recycle
      <3>1. freeQueue' \in Seq(Buffer)
        BY <2>17, PushedRange DEF Recycle
      <3> QED BY <2>17, <3>1 DEF Recycle
    <2>18. CASE UNCHANGED vars
      BY <2>18 DEF vars
    <2> QED BY <2>1, <2>2, <2>3, <2>4, <2>5, <2>6, <2>7, <2>8, <2>9, <2>10, <2>11, <2>12,
               <2>13, <2>14, <2>15, <2>16, <2>17, <2>18, NextCases
  <1>3. Init => ThreadsEndWithSession
    BY DEF Init, ThreadsEndWithSession
  <1>4. Typing /\ [Next]_vars => ThreadsEndWithSession'
    <2> SUFFICES ASSUME TypeOK, ThreadsEndWithSession, [Next]_vars
                 PROVE  ThreadsEndWithSession'
      BY DEF Typing
    <2> USE DEF TypeOK, ThreadsEndWithSession, controlVars, producerVars
    <2>1. CASE InitDriver
      BY <2>1 DEF InitDriver
    <2>2. CASE Start
      BY <2>2 DEF Start
    <2>3. CASE StopInput
      BY <2>3 DEF StopInput
    <2>4. CASE JoinRecv
      BY <2>4 DEF JoinRecv, RecvEnded
    <2>5. CASE JoinHandle
      BY <2>5 DEF JoinHandle, HandlerEnded
    <2>6. ASSUME NEW p \in Producer, producer[p] # "none",
                 producer' = [producer EXCEPT ![p] = producer'[p]],
                 UNCHANGED <<controlVars, handler>>
          PROVE  ThreadsEndWithSession'
      BY <2>6
    <2>7. ASSUME NEW p \in Producer,
                 ReceiveLoop(p) \/ RoundEnds(p) \/ ReceiveDies(p) \/ Receive(p)
                 \/ FillAndPut(p) \/ DropBuffer(p) \/ ClearOverflow(p)
          PROVE  ThreadsEndWithSession'
      <3>1. /\ producer[p] # "none"
            /\ producer' = [producer EXCEPT ![p] = producer'[p]]
            /\ UNCHANGED <<controlVars, handler>>
        BY <2>7 DEF ReceiveLoop, RoundEnds, ReceiveDies, Receive, FillAndPut, DropBuffer,
                    ClearOverflow
      <3> QED BY <3>1, <2>6
    <2>8. CASE HandlerLoop \/ HandlerTimeout \/ HandlerTake \/ Decode \/ Recycle
      <3>1. UNCHANGED <<controlVars, producer>> /\ handler # "none"
        BY <2>8 DEF HandlerLoop, HandlerTimeout, HandlerTake, Decode, Recycle
      <3> QED BY <3>1
    <2>9. CASE UNCHANGED vars
      BY <2>9 DEF vars
    <2> QED BY <2>1, <2>2, <2>3, <2>4, <2>5, <2>7, <2>8, <2>9, NextCases
  <1> QED BY <1>1, <1>2, <1>3, <1>4, PTL DEF SafeSpec, Typing

THEOREM TypeCorrect == SafeSpec => []TypeOK
  BY TypingHolds, PTL DEF Typing

(* No thread of the driver runs outside of start() ... stop(). *)
THEOREM SessionsEnd == SafeSpec => []ThreadsEndWithSession
  BY TypingHolds, PTL DEF Typing

-----------------------------------------------------------------------------
(* Every buffer has at most one holder: a queue, once, or a thread. *)
THEOREM BuffersAreExclusive == SafeSpec => []BuffersExclusive
  <1>1. Init => BuffersExclusive
    BY EmptyRange DEF Init, BuffersExclusive
  <1>2. TypeOK /\ BuffersExclusive /\ [Next]_vars => BuffersExclusive'
    <2> SUFFICES ASSUME TypeOK, BuffersExclusive, [Next]_vars
                 PROVE  BuffersExclusive'
      OBVIOUS
    <2>1. ASSUME UNCHANGED <<hand, handled, freeQueue, pktQueue>>
          PROVE  BuffersExclusive'
      BY <2>1 DEF BuffersExclusive
    <2>2. ASSUME NEW p \in Producer, Receive(p) PROVE BuffersExclusive'
      <3>1. PICK b \in Buffer : PacketGet(b) /\ hand' = [hand EXCEPT ![p] = b]
        BY <2>2 DEF Receive
      <3>2. /\ IsInjective(freeQueue')
            /\ Range(freeQueue') \subseteq Range(freeQueue)
            /\ b \notin Range(freeQueue')
            /\ b \in Range(freeQueue) \/ b \notin Live
        BY <3>1, PacketGetResult DEF BuffersExclusive
      <3>3. /\ b # NoBuffer
            /\ b \notin Range(pktQueue)
            /\ b # handled
            /\ \A q \in Producer : hand[q] # b
        BY <3>2, ZenonT(30), ConstantsAssumption DEF BuffersExclusive, Live, TypeOK, Range
      <3>4. hand' \in [Producer -> Buffer \union {NoBuffer}] /\ hand'[p] = b
            /\ \A q \in Producer \ {p} : hand'[q] = hand[q]
        BY <3>1 DEF TypeOK
      <3>5. pktQueue' = pktQueue /\ handled' = handled
        BY <2>2 DEF Receive
      <3> QED BY <3>2, <3>3, <3>4, <3>5 DEF BuffersExclusive
    <2>3. ASSUME NEW p \in Producer, FillAndPut(p) PROVE BuffersExclusive'
      <3> DEFINE b == hand[p]
      <3>1. b \in Buffer /\ b # NoBuffer
        BY <2>3 DEF FillAndPut, TypeOK
      <3>2. /\ Range(pktQueue') = Range(pktQueue) \union {b}
            /\ IsInjective(pktQueue')
        BY <2>3, <3>1, PushedRange DEF FillAndPut, TypeOK, BuffersExclusive
      <3>3. hand' = [hand EXCEPT ![p] = NoBuffer] /\ freeQueue' = freeQueue /\ handled' = handled
        BY <2>3 DEF FillAndPut
      <3>4. /\ b \notin Range(freeQueue) \union Range(pktQueue) \union {handled}
            /\ \A q \in Producer \ {p} : hand[q] # b
        BY <3>1 DEF BuffersExclusive
      <3>5. hand'[p] = NoBuffer /\ \A q \in Producer \ {p} : hand'[q] = hand[q]
        BY <3>3 DEF TypeOK
      <3> QED BY <3>2, <3>3, <3>4, <3>5 DEF BuffersExclusive
    <2>4. ASSUME NEW p \in Producer, DropBuffer(p) PROVE BuffersExclusive'
      <3>1. hand'[p] = NoBuffer /\ \A q \in Producer \ {p} : hand'[q] = hand[q]
        BY <2>4 DEF DropBuffer, TypeOK
      <3>2. UNCHANGED <<handled, freeQueue, pktQueue>>
        BY <2>4 DEF DropBuffer
      <3> QED BY <3>1, <3>2 DEF BuffersExclusive
    <2>5. ASSUME NEW p \in Producer, ClearOverflow(p) PROVE BuffersExclusive'
      <3>1. pktQueue' = <<>> /\ UNCHANGED <<hand, handled, freeQueue>>
        BY <2>5 DEF ClearOverflow
      <3>2. Range(pktQueue') = {} /\ IsInjective(pktQueue')
        BY <3>1, EmptyRange
      <3> QED BY <3>1, <3>2 DEF BuffersExclusive
    <2>6. CASE HandlerTake
      <3>1. /\ handled' = Head(pktQueue) /\ pktQueue' = Tail(pktQueue)
            /\ pktQueue # <<>> /\ pktQueue \in Seq(Buffer)
            /\ freeQueue' = freeQueue /\ hand' = hand
        BY <2>6 DEF HandlerTake, FreeAtTake, producerVars, TypeOK
      <3>2. /\ handled' \in Range(pktQueue)
            /\ handled' \notin Range(pktQueue')
            /\ Range(pktQueue') \subseteq Range(pktQueue)
            /\ IsInjective(pktQueue')
        BY <3>1, PoppedRange DEF BuffersExclusive
      <3> QED BY <3>1, <3>2 DEF BuffersExclusive
    <2>7. CASE Recycle
      <3>1. /\ freeQueue' = Append(freeQueue, handled) /\ handled' = NoBuffer
            /\ pktQueue' = pktQueue /\ hand' = hand
            /\ handled \in Buffer /\ handled # NoBuffer
        BY <2>7, ConstantsAssumption DEF Recycle, producerVars, TypeOK
      <3>2. /\ Range(freeQueue') = Range(freeQueue) \union {handled}
            /\ IsInjective(freeQueue')
        BY <3>1, PushedRange DEF BuffersExclusive, TypeOK
      <3> QED BY <3>1, <3>2 DEF BuffersExclusive
    <2>8. ASSUME InitDriver \/ Start \/ StopInput \/ JoinRecv \/ JoinHandle
                 \/ HandlerLoop \/ HandlerTimeout \/ Decode
          PROVE  BuffersExclusive'
      BY <2>1, <2>8 DEF InitDriver, Start, StopInput, JoinRecv, JoinHandle, HandlerLoop,
                        HandlerTimeout, Decode, producerVars
    <2>9. ASSUME NEW p \in Producer, ReceiveLoop(p) \/ RoundEnds(p) \/ ReceiveDies(p)
          PROVE  BuffersExclusive'
      BY <2>1, <2>9 DEF ReceiveLoop, RoundEnds, ReceiveDies
    <2>10. CASE UNCHANGED vars
      BY <2>1, <2>10 DEF vars, producerVars
    <2> QED BY <2>2, <2>3, <2>4, <2>5, <2>6, <2>7, <2>8, <2>9, <2>10, NextCases
  <1> QED BY <1>1, <1>2, TypeCorrect, PTL DEF SafeSpec

-----------------------------------------------------------------------------
(* A queued buffer, and the one being decoded, hold a packet: nothing is     *)
(* decoded that was not received.                                            *)
Stuffed ==
    /\ \A b \in Range(pktQueue) : content[b] \in Packet
    /\ handler = "decode" => content[handled] \in Packet

LEMMA StuffedHolds == SafeSpec => []Stuffed
  <1>1. Init => Stuffed
    BY EmptyRange DEF Init, Stuffed
  <1>2. Typing /\ BuffersExclusive /\ Stuffed /\ [Next]_vars => Stuffed'
    <2> SUFFICES ASSUME TypeOK, ThreadsEndWithSession, BuffersExclusive, Stuffed, [Next]_vars
                 PROVE  Stuffed'
      BY DEF Typing
    <2>1. ASSUME NEW p \in Producer, FillAndPut(p) PROVE Stuffed'
      <3>1. hand[p] \in Buffer /\ hand[p] # NoBuffer
        BY <2>1 DEF FillAndPut, TypeOK
      <3>2. /\ hand[p] \notin Range(pktQueue)
            /\ handler = "decode" => handled # hand[p]
        BY <3>1 DEF BuffersExclusive
      <3>3. PICK pkt \in Packet : content' = [content EXCEPT ![hand[p]] = pkt]
        <4>1. PICK k \in Kind :
                content' = [content EXCEPT ![hand[p]] =
                              [seq |-> received + 1, kind |-> k, session |-> session]]
          BY <2>1 DEF FillAndPut
        <4>2. [seq |-> received + 1, kind |-> k, session |-> session] \in Packet
          BY <2>1, ConstantsAssumption DEF FillAndPut, Packet, TypeOK
        <4> QED BY <4>1, <4>2
      <3>4. content'[hand[p]] = pkt /\ \A b \in Buffer \ {hand[p]} : content'[b] = content[b]
        BY <3>3, <3>1 DEF TypeOK
      <3>5. Range(pktQueue') = Range(pktQueue) \union {hand[p]}
        BY <2>1, <3>1, PushedRange DEF FillAndPut, TypeOK
      <3>6. Range(pktQueue) \subseteq Buffer
        BY QueueElements DEF TypeOK
      <3>7. handler' = handler /\ handled' = handled
        BY <2>1 DEF FillAndPut
      <3>8. handler = "decode" => handled \in Buffer \ {hand[p]}
        BY <3>2 DEF TypeOK
      <3> QED BY <3>2, <3>4, <3>5, <3>6, <3>7, <3>8 DEF Stuffed
    <2>2. CASE HandlerTake
      <3>1. /\ Head(pktQueue) \in Range(pktQueue)
            /\ Range(Tail(pktQueue)) \subseteq Range(pktQueue)
        BY <2>2, PoppedRange DEF HandlerTake, TypeOK
      <3>2. /\ handled' = Head(pktQueue) /\ pktQueue' = Tail(pktQueue) /\ content' = content
        BY <2>2 DEF HandlerTake
      <3> QED BY <3>1, <3>2 DEF Stuffed
    <2>3. ASSUME NEW p \in Producer, ClearOverflow(p) PROVE Stuffed'
      <3>1. Range(pktQueue') = {} /\ UNCHANGED <<content, handler, handled>>
        BY <2>3, EmptyRange DEF ClearOverflow
      <3> QED BY <3>1 DEF Stuffed
    <2>4. ASSUME UNCHANGED <<pktQueue, content>>, handler' # "decode" \/ UNCHANGED <<handler, handled>>
          PROVE  Stuffed'
      BY <2>4 DEF Stuffed
    <2>5. ASSUME NEW p \in Producer, ReceiveLoop(p) \/ RoundEnds(p) \/ ReceiveDies(p)
                                     \/ Receive(p) \/ DropBuffer(p)
          PROVE  Stuffed'
      BY <2>4, <2>5 DEF ReceiveLoop, RoundEnds, ReceiveDies, Receive, DropBuffer
    <2>6. ASSUME InitDriver \/ StopInput \/ JoinRecv \/ JoinHandle \/ Start
                 \/ HandlerLoop \/ HandlerTimeout \/ Decode \/ Recycle
          PROVE  Stuffed'
      BY <2>4, <2>6 DEF InitDriver, StopInput, JoinRecv, JoinHandle, Start, HandlerLoop,
                        HandlerTimeout, Decode, Recycle
    <2>7. CASE UNCHANGED vars
      BY <2>4, <2>7 DEF vars
    <2> QED BY <2>1, <2>2, <2>3, <2>5, <2>6, <2>7, NextCases
  <1> QED BY <1>1, <1>2, TypingHolds, BuffersAreExclusive, PTL DEF SafeSpec

-----------------------------------------------------------------------------
(* The recycled buffers are a channel of packets: a step that writes into a  *)
(* buffer writes into one that is neither queued nor being decoded, so what  *)
(* is decoded is what was received, in that order.                           *)
THEOREM ImplementsChannel == SafeSpec => ImplementsPacketChannel
  <1> DEFINE pend == [i \in 1..Len(pktQueue) |-> content[pktQueue[i]]]
             deco == IF handler = "decode" THEN content[handled] ELSE NoPacket
  <1>1. Init => Channel!Init
    BY DEF Init, Channel!Init
  <1>2. Typing /\ BuffersExclusive /\ Stuffed /\ [Next]_vars => [Channel!Next]_Channel!vars
    <2> SUFFICES ASSUME TypeOK, ThreadsEndWithSession, BuffersExclusive, Stuffed, [Next]_vars
                 PROVE  [Channel!Next]_Channel!vars
      BY DEF Typing
    <2>1. ASSUME UNCHANGED <<pktQueue, content>>,
                 UNCHANGED <<handler, handled>> \/ (handler # "decode" /\ handler' # "decode")
          PROVE  UNCHANGED Channel!vars
      <3>1. pend' = pend /\ deco' = deco
        BY <2>1
      <3> QED BY <3>1 DEF Channel!vars
    <2>2. ASSUME NEW p \in Producer, FillAndPut(p) PROVE Channel!Receive
      <3> DEFINE b == hand[p]
      <3>1. b \in Buffer /\ b # NoBuffer
        BY <2>2 DEF FillAndPut, TypeOK
      <3>2. /\ b \notin Range(pktQueue)
            /\ handler = "decode" => handled # b
        BY <3>1 DEF BuffersExclusive
      <3>3. PICK pkt \in Packet : content' = [content EXCEPT ![b] = pkt]
        <4>1. PICK k \in Kind :
                content' = [content EXCEPT ![b] =
                              [seq |-> received + 1, kind |-> k, session |-> session]]
          BY <2>2 DEF FillAndPut
        <4>2. [seq |-> received + 1, kind |-> k, session |-> session] \in Packet
          BY <2>2, ConstantsAssumption DEF FillAndPut, Packet, TypeOK
        <4> QED BY <4>1, <4>2
      <3>4. content'[b] = pkt /\ \A c \in Buffer \ {b} : content'[c] = content[c]
        BY <3>3, <3>1 DEF TypeOK
      <3>5. /\ pktQueue \in Seq(Buffer)
            /\ pktQueue' = Append(pktQueue, b)
            /\ Len(pktQueue) \in Nat
            /\ Len(pktQueue') = Len(pktQueue) + 1
            /\ \A i \in 1..Len(pktQueue) : pktQueue'[i] = pktQueue[i]
            /\ pktQueue'[Len(pktQueue) + 1] = b
        BY <2>2, <3>1 DEF FillAndPut, TypeOK
      <3>6. \A i \in 1..Len(pktQueue) : pktQueue[i] \in Buffer \ {b}
        BY <3>2, <3>5 DEF Range
      <3>7. pend' = Append(pend, pkt)
        <4>1. pend' = [i \in 1..(Len(pktQueue) + 1) |-> content'[pktQueue'[i]]]
          BY <3>5
        <4>2. \A i \in 1..Len(pktQueue) : content'[pktQueue'[i]] = content[pktQueue[i]]
          BY <3>4, <3>5, <3>6
        <4>3. content'[pktQueue'[Len(pktQueue) + 1]] = pkt
          BY <3>4, <3>5
        <4>4. \A i \in 1..Len(pktQueue) : content[pktQueue[i]] \in Packet
          BY <3>5 DEF Stuffed, Range
        <4>5. pend \in Seq(Packet) /\ Len(pend) = Len(pktQueue)
          BY <4>4, <3>5
        <4>6. Append(pend, pkt) = [i \in 1..(Len(pktQueue) + 1) |->
                                     IF i = Len(pktQueue) + 1 THEN pkt ELSE pend[i]]
          BY <4>5, <3>5
        <4> QED BY <4>1, <4>2, <4>3, <4>6, <3>5
      <3>8. deco' = deco
        BY <2>2, <3>2, <3>4 DEF FillAndPut, TypeOK
      <3> QED BY <3>7, <3>8 DEF Channel!Receive
    <2>3. ASSUME HandlerTake PROVE Channel!Take
      <3>1. /\ pktQueue \in Seq(Buffer) /\ pktQueue # <<>>
            /\ pktQueue' = Tail(pktQueue) /\ handled' = Head(pktQueue)
            /\ content' = content /\ handler = "popWait" /\ handler' = "decode"
        BY <2>3 DEF HandlerTake, TypeOK
      <3>2. /\ Len(pktQueue) \in Nat \ {0}
            /\ Len(pktQueue') = Len(pktQueue) - 1
            /\ \A i \in 1..(Len(pktQueue) - 1) : pktQueue'[i] = pktQueue[i + 1]
            /\ Head(pktQueue) = pktQueue[1]
        BY <3>1
      <3>3. \A i \in 1..Len(pktQueue) : content[pktQueue[i]] \in Packet
        BY <3>1 DEF Stuffed, Range
      <3>4. pend \in Seq(Packet) /\ Len(pend) = Len(pktQueue) /\ pend # <<>>
        BY <3>2, <3>3
      <3>5. pend' = Tail(pend)
        <4>1. Tail(pend) = [i \in 1..(Len(pktQueue) - 1) |-> pend[i + 1]]
          BY <3>2, <3>4
        <4>2. \A i \in 1..(Len(pktQueue) - 1) : pend[i + 1] = content[pktQueue'[i]]
          BY <3>2
        <4>3. pend' = [i \in 1..(Len(pktQueue) - 1) |-> content[pktQueue'[i]]]
          BY <3>1, <3>2
        <4> QED BY <4>1, <4>2, <4>3
      <3>6. deco = NoPacket /\ deco' = Head(pend)
        BY <3>1, <3>2, <3>4
      <3> QED BY <3>4, <3>5, <3>6 DEF Channel!Take
    <2>4. ASSUME Decode PROVE Channel!Finish
      <3>1. deco # NoPacket /\ deco' = NoPacket
        <4>1. handler = "decode" /\ handler' = "recycle" /\ content[handled] \in Packet
          BY <2>4 DEF Decode, Stuffed
        <4>2. NoPacket \notin Packet
          BY ConstantsAssumption DEF NoPacket, Packet
        <4> QED BY <4>1, <4>2
      <3>2. pend' = pend
        BY <2>4 DEF Decode
      <3> QED BY <3>1, <3>2 DEF Channel!Finish
    <2>5. ASSUME NEW p \in Producer, ClearOverflow(p) PROVE Channel!Discard
      <3>1. pend' = <<>> /\ deco' = deco
        BY <2>5 DEF ClearOverflow
      <3> QED BY <3>1 DEF Channel!Discard
    <2>6. ASSUME NEW p \in Producer, ReceiveLoop(p) \/ RoundEnds(p) \/ ReceiveDies(p)
                                     \/ Receive(p) \/ DropBuffer(p)
          PROVE  UNCHANGED Channel!vars
      BY <2>1, <2>6 DEF ReceiveLoop, RoundEnds, ReceiveDies, Receive, DropBuffer
    <2>7. ASSUME InitDriver \/ StopInput \/ JoinRecv \/ JoinHandle
          PROVE  UNCHANGED Channel!vars
      BY <2>1, <2>7 DEF InitDriver, StopInput, JoinRecv, JoinHandle
    <2>8. ASSUME Start PROVE UNCHANGED Channel!vars
      BY <2>1, <2>8 DEF Start, ThreadsEndWithSession
    <2>9. ASSUME HandlerLoop \/ HandlerTimeout \/ Recycle
          PROVE  UNCHANGED Channel!vars
      BY <2>1, <2>9 DEF HandlerLoop, HandlerTimeout, Recycle
    <2>10. ASSUME UNCHANGED vars PROVE UNCHANGED Channel!vars
      BY <2>1, <2>10 DEF vars
    <2> QED BY <2>2, <2>3, <2>4, <2>5, <2>6, <2>7, <2>8, <2>9, <2>10, NextCases
            DEF Channel!Next
  <1> QED BY <1>1, <1>2, TypingHolds, BuffersAreExclusive, StuffedHolds,
             PTL DEF SafeSpec, ImplementsPacketChannel, Channel!Spec

-----------------------------------------------------------------------------
LEMMA OverflowingFinite ==
    /\ IsFiniteSet(Overflowing)
    /\ Cardinality(Overflowing) \in Nat
  BY ConstantsAssumption, FS_Subset, FS_CardinalityType DEF Overflowing

(* However many threads deliver, the packet queue exceeds PACKET_POOL_MAX by *)
(* at most one packet for each thread that has noticed and not cleared yet.  *)
THEOREM QueueIsBounded == SafeSpec => []QueueBounded
  <1>1. Init => QueueBounded
    BY OverflowingFinite, ConstantsAssumption DEF Init, QueueBounded
  <1>2. Typing /\ QueueBounded /\ [Next]_vars => QueueBounded'
    <2> SUFFICES ASSUME TypeOK, ThreadsEndWithSession, QueueBounded, [Next]_vars
                 PROVE  QueueBounded'
      BY DEF Typing
    <2>0. /\ IsFiniteSet(Overflowing) /\ Cardinality(Overflowing) \in Nat
          /\ IsFiniteSet(Overflowing') /\ Cardinality(Overflowing') \in Nat
          /\ PoolMax \in Nat /\ Len(pktQueue) \in Nat
      BY OverflowingFinite, ConstantsAssumption, FS_Subset, FS_CardinalityType
         DEF Overflowing, TypeOK
    <2>1. ASSUME Overflowing' = Overflowing, pktQueue' = pktQueue PROVE QueueBounded'
      BY <2>1 DEF QueueBounded
    <2>2. ASSUME NEW p \in Producer, FillAndPut(p) PROVE QueueBounded'
      <3>1. Len(pktQueue') = Len(pktQueue) + 1
        BY <2>2, PushedRange DEF FillAndPut, TypeOK
      <3>2. CASE TooLong(Len(pktQueue) + 1)
        <4>1. producer' = [producer EXCEPT ![p] = "overflow"] /\ producer[p] = "filling"
          BY <2>2, <3>2 DEF FillAndPut
        <4>2. p \notin Overflowing /\ Overflowing' = Overflowing \union {p}
          BY <4>1 DEF Overflowing, TypeOK
        <4>3. Cardinality(Overflowing') = Cardinality(Overflowing) + 1
          BY <4>2, <2>0, FS_AddElement
        <4> QED BY <3>1, <4>3, <2>0 DEF QueueBounded
      <3>3. CASE ~TooLong(Len(pktQueue) + 1)
        BY <3>1, <3>3, <2>0 DEF QueueBounded, TooLong
      <3> QED BY <3>2, <3>3
    <2>3. ASSUME NEW p \in Producer, ClearOverflow(p) PROVE QueueBounded'
      BY <2>0, <2>3 DEF ClearOverflow, QueueBounded
    <2>4. CASE HandlerTake
      <3>1. Len(pktQueue') = Len(pktQueue) - 1
        BY <2>4, PoppedRange DEF HandlerTake, TypeOK
      <3>2. Overflowing' = Overflowing
        BY <2>4 DEF HandlerTake, producerVars, Overflowing
      <3> QED BY <3>1, <3>2, <2>0 DEF QueueBounded
    <2>5. CASE Start
      <3>1. Overflowing' = Overflowing
        BY <2>5 DEF Start, ThreadsEndWithSession, Overflowing
      <3> QED BY <3>1, <2>1, <2>5 DEF Start
    <2>6. ASSUME NEW p \in Producer, ReceiveLoop(p) \/ RoundEnds(p) \/ ReceiveDies(p)
                                     \/ Receive(p) \/ DropBuffer(p)
          PROVE  QueueBounded'
      <3>1. /\ pktQueue' = pktQueue
            /\ producer[p] # "overflow" /\ producer'[p] # "overflow"
            /\ producer' = [producer EXCEPT ![p] = producer'[p]]
        BY <2>6 DEF ReceiveLoop, RoundEnds, ReceiveDies, Receive, DropBuffer, TypeOK
      <3>2. Overflowing' = Overflowing
        BY <3>1 DEF Overflowing, TypeOK
      <3> QED BY <2>1, <3>1, <3>2
    <2>7. ASSUME UNCHANGED <<producer, pktQueue>> PROVE QueueBounded'
      BY <2>1, <2>7 DEF Overflowing
    <2>8. ASSUME InitDriver \/ StopInput \/ JoinRecv \/ JoinHandle
                 \/ HandlerLoop \/ HandlerTimeout \/ Decode \/ Recycle
          PROVE  QueueBounded'
      BY <2>7, <2>8 DEF InitDriver, StopInput, JoinRecv, JoinHandle, HandlerLoop,
                        HandlerTimeout, Decode, Recycle, producerVars
    <2>9. CASE UNCHANGED vars
      BY <2>7, <2>9 DEF vars, producerVars
    <2> QED BY <2>2, <2>3, <2>4, <2>5, <2>6, <2>8, <2>9, NextCases
  <1> QED BY <1>1, <1>2, TypingHolds, PTL DEF SafeSpec

-----------------------------------------------------------------------------
LEMMA RangeCardinality ==
    ASSUME NEW S, NEW V, IsFiniteSet(S), NEW f \in [S -> V]
    PROVE  /\ IsFiniteSet(Range(f))
           /\ Cardinality(Range(f)) \in Nat
           /\ Cardinality(Range(f)) <= Cardinality(S)
  <1>1. f \in Surjection(S, Range(f))
    BY DEF Surjection, Range
  <1> QED BY <1>1, FS_Surjection, FS_CardinalityType

LEMMA QueueCardinality ==
    ASSUME NEW S, NEW q \in Seq(S)
    PROVE  /\ IsFiniteSet(Range(q))
           /\ Cardinality(Range(q)) \in Nat
           /\ Cardinality(Range(q)) <= Len(q)
  <1>1. q \in [1..Len(q) -> S] /\ Len(q) \in Nat
    OBVIOUS
  <1>2. IsFiniteSet(1..Len(q)) /\ Cardinality(1..Len(q)) = Len(q)
    <2>1. /\ IsFiniteSet(1..Len(q))
          /\ Cardinality(1..Len(q)) = IF 1 > Len(q) THEN 0 ELSE Len(q) - 1 + 1
      BY <1>1, FS_Interval
    <2> QED BY <1>1, <2>1
  <1> QED BY <1>1, <1>2, RangeCardinality

LEMMA UnionBound ==
    ASSUME NEW S, NEW T, IsFiniteSet(S), IsFiniteSet(T)
    PROVE  /\ IsFiniteSet(S \union T)
           /\ Cardinality(S \union T) \in Nat
           /\ Cardinality(S \union T) <= Cardinality(S) + Cardinality(T)
           /\ S \intersect T = {} => Cardinality(S \union T) = Cardinality(S) + Cardinality(T)
  <1>1. Cardinality(S) \in Nat /\ Cardinality(T) \in Nat
    BY FS_CardinalityType
  <1>2. IsFiniteSet(S \intersect T)
    BY FS_Intersection
  <1>3. Cardinality(S \intersect T) \in Nat
    BY <1>2, FS_CardinalityType
  <1>4. S \intersect T = {} => Cardinality(S \intersect T) = 0
    BY FS_EmptySet
  <1>5. /\ IsFiniteSet(S \union T)
        /\ Cardinality(S \union T) = Cardinality(S) + Cardinality(T) - Cardinality(S \intersect T)
    BY FS_Union
  <1>6. Cardinality(S \union T) \in Nat
    BY <1>5, FS_CardinalityType
  <1> QED BY <1>1, <1>3, <1>4, <1>5, <1>6

(* A buffer is allocated only when the free queue is empty; all buffers are  *)
(* then in the packet queue or in the hands of a thread.  No other step adds *)
(* one.  So their number is bounded although the driver never counts them.   *)
THEOREM MemoryIsBounded == SafeSpec => []MemoryBounded
  <1> DEFINE Hands == Range(hand) \ {NoBuffer}
             Filling == {p \in Producer : producer[p] = "filling"}
             N == Cardinality(Producer)
  <1>0. N \in Nat /\ PoolMax \in Nat \ {0}
    BY ConstantsAssumption, FS_CardinalityType
  <1>1. Init => MemoryBounded
    <2> SUFFICES ASSUME Init PROVE MemoryBounded
      OBVIOUS
    <2>1. Live = {}
      BY EmptyRange DEF Init, Live, Range
    <2> QED BY <2>1, <1>0, FS_EmptySet DEF MemoryBounded
  <1>2. Typing /\ TypeOK' /\ QueueBounded /\ MemoryBounded /\ [Next]_vars => MemoryBounded'
    <2> SUFFICES ASSUME TypeOK, ThreadsEndWithSession, TypeOK', QueueBounded, MemoryBounded,
                        [Next]_vars
                 PROVE  MemoryBounded'
      BY DEF Typing
    <2>1. /\ IsFiniteSet(Filling) /\ Cardinality(Filling) \in Nat
          /\ IsFiniteSet(Hands) /\ Cardinality(Hands) \in Nat
          /\ Cardinality(Hands) <= Cardinality(Filling)
      <3> DEFINE h == [p \in Filling |-> hand[p]]
      <3>1. IsFiniteSet(Filling) /\ Cardinality(Filling) \in Nat
        BY ConstantsAssumption, FS_Subset, FS_CardinalityType
      <3>2. h \in [Filling -> Buffer]
        BY DEF TypeOK
      <3>3. Range(h) = Hands
        <4>1. Range(h) = {hand[p] : p \in Filling}
          BY DEF Range
        <4>2. Hands = {hand[p] : p \in Filling}
          <5>1. \A p \in Producer : hand[p] # NoBuffer <=> p \in Filling
            BY DEF TypeOK
          <5>2. Range(hand) = {hand[p] : p \in Producer}
            BY DEF TypeOK, Range
          <5> QED BY <5>1, <5>2
        <4> QED BY <4>1, <4>2
      <3>4. Cardinality(Range(h)) <= Cardinality(Filling) /\ IsFiniteSet(Range(h))
            /\ Cardinality(Range(h)) \in Nat
        <4> HIDE DEF h, Filling
        <4> QED BY <3>1, <3>2, RangeCardinality
      <3> HIDE DEF h, Filling, Hands
      <3> QED BY <3>1, <3>3, <3>4
    <2>2. IsFiniteSet(Live) /\ Cardinality(Live) \in Nat
      <3>1. IsFiniteSet(Range(freeQueue)) /\ IsFiniteSet(Range(pktQueue))
        BY QueueCardinality DEF TypeOK
      <3>2. IsFiniteSet({handled} \ {NoBuffer})
        BY FS_Singleton, FS_Difference
      <3>3. IsFiniteSet(Range(freeQueue) \union Range(pktQueue))
        BY <3>1, FS_Union
      <3>4. IsFiniteSet(Range(freeQueue) \union Range(pktQueue) \union Hands)
        BY <3>3, <2>1, FS_Union
      <3>5. IsFiniteSet(Live)
        BY <3>2, <3>4, FS_Union DEF Live
      <3> QED BY <3>5, FS_CardinalityType
    <2>3. ASSUME Live' \subseteq Live PROVE MemoryBounded'
      <3>1. Cardinality(Live') <= Cardinality(Live) /\ Cardinality(Live') \in Nat
        BY <2>2, <2>3, FS_Subset, FS_CardinalityType
      <3> QED BY <3>1, <2>2, <1>0 DEF MemoryBounded
    <2>4. ASSUME NEW p \in Producer, Receive(p) PROVE MemoryBounded'
      <3>1. PICK b \in Buffer : PacketGet(b) /\ hand' = [hand EXCEPT ![p] = b]
        BY <2>4 DEF Receive
      <3>2. pktQueue' = pktQueue /\ handled' = handled
        BY <2>4 DEF Receive
      <3>3. Range(hand') \ {NoBuffer} \subseteq Hands \union {b}
        BY <3>1 DEF TypeOK, Range
      <3>4. CASE freeQueue # <<>>
        <4>1. Head(freeQueue) = b /\ freeQueue' = Tail(freeQueue) /\ freeQueue \in Seq(Buffer)
          BY <3>1, <3>4 DEF PacketGet, TypeOK
        <4>2. b \in Range(freeQueue) /\ Range(freeQueue') \subseteq Range(freeQueue)
          BY <4>1, <3>4, PoppedRange
        <4>3. Live' \subseteq Live
          BY <4>2, <3>2, <3>3 DEF Live
        <4> QED BY <4>3, <2>3
      <3>5. CASE freeQueue = <<>>
        <4> DEFINE Q == Range(pktQueue)
                   H == {handled} \ {NoBuffer}
        <4>1. freeQueue' = <<>> /\ Range(freeQueue') = {}
          BY <3>1, <3>5, EmptyRange DEF PacketGet
        <4>2. Live' \subseteq Q \union Hands \union H \union {b}
          BY <4>1, <3>2, <3>3 DEF Live
        <4>3. /\ IsFiniteSet(Q) /\ Cardinality(Q) \in Nat
              /\ Cardinality(Q) <= Len(pktQueue) /\ Len(pktQueue) \in Nat
          BY QueueCardinality DEF TypeOK
        <4>4. IsFiniteSet(H) /\ Cardinality(H) \in Nat /\ Cardinality(H) <= 1
          <5>1. IsFiniteSet({handled}) /\ Cardinality({handled}) = 1
            BY FS_Singleton
          <5>2. IsFiniteSet(H) /\ Cardinality(H) <= Cardinality({handled})
            BY <5>1, FS_Subset
          <5>3. Cardinality(H) \in Nat
            BY <5>2, FS_CardinalityType
          <5> QED BY <5>1, <5>2, <5>3
        <4>5. /\ IsFiniteSet(Q \union Hands) /\ Cardinality(Q \union Hands) \in Nat
              /\ Cardinality(Q \union Hands) <= Cardinality(Q) + Cardinality(Hands)
          BY <4>3, <2>1, UnionBound
        <4>6. /\ IsFiniteSet(Q \union Hands \union H)
              /\ Cardinality(Q \union Hands \union H) \in Nat
              /\ Cardinality(Q \union Hands \union H) <= Cardinality(Q \union Hands) + Cardinality(H)
          BY <4>4, <4>5, UnionBound
        <4>7. /\ IsFiniteSet(Q \union Hands \union H \union {b})
              /\ Cardinality(Q \union Hands \union H \union {b})
                   <= Cardinality(Q \union Hands \union H) + 1
              /\ Cardinality(Q \union Hands \union H \union {b}) \in Nat
          <5>1. IsFiniteSet({b}) /\ Cardinality({b}) = 1
            BY FS_Singleton
          <5> HIDE DEF Q, Hands, H
          <5> QED BY <5>1, <4>6, UnionBound
        <4>8. Cardinality(Live') \in Nat
              /\ Cardinality(Live') <= Cardinality(Q \union Hands \union H \union {b})
          BY <4>2, <4>7, FS_Subset, FS_CardinalityType
        <4>9. /\ Cardinality(Overflowing) \in Nat
              /\ Cardinality(Filling) + Cardinality(Overflowing) + 1 <= N
          <5>1. /\ Filling \intersect Overflowing = {}
                /\ p \notin Filling \union Overflowing
                /\ Filling \union Overflowing \union {p} \subseteq Producer
            BY <2>4 DEF Receive, Overflowing
          <5>2. /\ IsFiniteSet(Filling \union Overflowing)
                /\ Cardinality(Filling \union Overflowing)
                      = Cardinality(Filling) + Cardinality(Overflowing)
            BY <5>1, <2>1, OverflowingFinite, UnionBound
          <5>3. Cardinality(Filling \union Overflowing \union {p})
                  = Cardinality(Filling) + Cardinality(Overflowing) + 1
            BY <5>1, <5>2, FS_AddElement
          <5>4. Cardinality(Filling \union Overflowing \union {p}) <= N
            BY <5>1, ConstantsAssumption, FS_Subset
          <5> QED BY <5>3, <5>4, OverflowingFinite
        <4>10. Len(pktQueue) <= PoolMax + Cardinality(Overflowing)
          BY DEF QueueBounded
        <4> HIDE DEF Q, Hands, H, Filling
        <4>11. Cardinality(Live') <= PoolMax + N + 1
          <5> HIDE DEF N
          <5>1. Cardinality(Q \union Hands) <= PoolMax + N - 1
            BY <4>3, <4>5, <4>9, <4>10, <2>1, <1>0
          <5>2. Cardinality(Q \union Hands \union H) <= PoolMax + N
            BY <5>1, <4>4, <4>5, <4>6, <1>0
          <5> QED BY <5>2, <4>6, <4>7, <4>8, <1>0
        <4> QED BY <4>11 DEF MemoryBounded
      <3> QED BY <3>4, <3>5
    <2>5. ASSUME NEW p \in Producer, FillAndPut(p) PROVE MemoryBounded'
      <3>1. /\ hand[p] \in Buffer /\ hand[p] \in Hands
            /\ Range(hand') \ {NoBuffer} \subseteq Hands
        BY <2>5, SMTT(30), ConstantsAssumption DEF FillAndPut, TypeOK, Range
      <3>2. Range(pktQueue') = Range(pktQueue) \union {hand[p]}
        BY <2>5, <3>1, PushedRange DEF FillAndPut, TypeOK
      <3>3. Live' \subseteq Live
        BY <2>5, <3>1, <3>2 DEF FillAndPut, Live
      <3> QED BY <3>3, <2>3
    <2>6. ASSUME NEW p \in Producer, DropBuffer(p) PROVE MemoryBounded'
      <3>1. Range(hand') \ {NoBuffer} \subseteq Hands
        BY <2>6 DEF DropBuffer, TypeOK, Range
      <3>2. Live' \subseteq Live
        BY <2>6, <3>1 DEF DropBuffer, Live
      <3> QED BY <3>2, <2>3
    <2>7. ASSUME NEW p \in Producer, ClearOverflow(p) PROVE MemoryBounded'
      <3>1. Live' \subseteq Live
        BY <2>7, EmptyRange DEF ClearOverflow, Live
      <3> QED BY <3>1, <2>3
    <2>8. CASE HandlerTake
      <3>1. /\ Head(pktQueue) \in Range(pktQueue)
            /\ Range(Tail(pktQueue)) \subseteq Range(pktQueue)
        BY <2>8, PoppedRange DEF HandlerTake, TypeOK
      <3>2. Live' \subseteq Live
        BY <2>8, <3>1 DEF HandlerTake, FreeAtTake, producerVars, Live
      <3> QED BY <3>2, <2>3
    <2>9. CASE Recycle
      <3>1. handled \in Buffer /\ Range(freeQueue') = Range(freeQueue) \union {handled}
        BY <2>9, PushedRange DEF Recycle, TypeOK
      <3>2. Live' \subseteq Live
        BY <2>9, <3>1, ConstantsAssumption DEF Recycle, producerVars, Live
      <3> QED BY <3>2, <2>3
    <2>10. ASSUME UNCHANGED <<hand, handled, freeQueue, pktQueue>> PROVE MemoryBounded'
      BY <2>3, <2>10 DEF Live
    <2>11. ASSUME InitDriver \/ Start \/ StopInput \/ JoinRecv \/ JoinHandle
                  \/ HandlerLoop \/ HandlerTimeout \/ Decode
           PROVE  MemoryBounded'
      BY <2>10, <2>11 DEF InitDriver, Start, StopInput, JoinRecv, JoinHandle, HandlerLoop,
                          HandlerTimeout, Decode, producerVars
    <2>12. ASSUME NEW p \in Producer, ReceiveLoop(p) \/ RoundEnds(p) \/ ReceiveDies(p)
           PROVE  MemoryBounded'
      BY <2>10, <2>12 DEF ReceiveLoop, RoundEnds, ReceiveDies
    <2>13. CASE UNCHANGED vars
      BY <2>10, <2>13 DEF vars, producerVars
    <2> QED BY <2>4, <2>5, <2>6, <2>7, <2>8, <2>9, <2>11, <2>12, <2>13, NextCases
  <1> QED BY <1>1, <1>2, TypingHolds, TypeCorrect, QueueIsBounded, PTL DEF SafeSpec

-----------------------------------------------------------------------------
(* Between stop() and start() the decoder's cloud is empty: the handler had  *)
(* ended when stop() cleared it.                                             *)
Cleared == ctl = "outside" /\ ~startFlag => handler = "none" /\ cloud = {}

LEMMA ClearedHolds == SafeSpec => []Cleared
  <1>1. Init => Cleared
    BY DEF Init, Cleared
  <1>2. Typing /\ Cleared /\ [Next]_vars => Cleared'
    <2> SUFFICES ASSUME TypeOK, ThreadsEndWithSession, Cleared, [Next]_vars PROVE Cleared'
      BY DEF Typing
    <2> USE DEF Cleared, controlVars, cloudVars
    <2>1. CASE InitDriver
      BY <2>1 DEF InitDriver
    <2>2. CASE Start \/ StopInput \/ JoinRecv
      BY <2>2 DEF Start, StopInput, JoinRecv, TypeOK
    <2>3. CASE JoinHandle
      BY <2>3 DEF JoinHandle, HandlerEnded
    <2>4. ASSUME UNCHANGED <<controlVars, handler, cloudVars>> PROVE Cleared'
      BY <2>4
    <2>5. ASSUME NEW p \in Producer,
                 ReceiveLoop(p) \/ RoundEnds(p) \/ ReceiveDies(p) \/ Receive(p)
                 \/ FillAndPut(p) \/ DropBuffer(p) \/ ClearOverflow(p)
          PROVE  Cleared'
      BY <2>4, <2>5 DEF ReceiveLoop, RoundEnds, ReceiveDies, Receive, FillAndPut, DropBuffer,
                        ClearOverflow
    <2>6. CASE HandlerLoop \/ HandlerTimeout \/ HandlerTake \/ Decode \/ Recycle
      <3>1. UNCHANGED controlVars /\ handler # "none"
        BY <2>6 DEF HandlerLoop, HandlerTimeout, HandlerTake, Decode, Recycle
      <3> QED BY <3>1 DEF ThreadsEndWithSession
    <2>7. CASE UNCHANGED vars
      BY <2>4, <2>7 DEF vars
    <2> QED BY <2>1, <2>2, <2>3, <2>5, <2>6, <2>7, NextCases
  <1> QED BY <1>1, <1>2, TypingHolds, PTL DEF SafeSpec

(* Between stop() and start() nothing is decoded, published or given back,   *)
(* whatever the threads that deliver packets still do.                       *)
THEOREM DriverIsQuietWhenStopped == SafeSpec => QuietWhenStopped
  <1>1. ASSUME Typing, Cleared, [Next]_vars
        PROVE  [ctl = "outside" /\ ~startFlag =>
                   cloud' = {} /\ (startFlag' \/ UNCHANGED <<frame, cloudSeq, pktSeq,
                                                           handler>>)]_vars
    <2> SUFFICES ASSUME Next, ctl = "outside", ~startFlag
                 PROVE  cloud' = {} /\ (startFlag' \/ UNCHANGED <<frame, cloudSeq, pktSeq,
                                                                handler>>)
      BY <1>1
    <2> USE DEF controlVars, cloudVars
    <2>1. handler = "none" /\ cloud = {}
      BY <1>1 DEF Cleared
    <2>2. ~(HandlerLoop \/ HandlerTimeout \/ HandlerTake \/ Decode \/ Recycle)
      BY <2>1 DEF HandlerLoop, HandlerTimeout, HandlerTake, Decode, Recycle
    <2>3. ~(StopInput \/ JoinRecv \/ JoinHandle)
      BY DEF StopInput, JoinRecv, JoinHandle
    <2>4. CASE InitDriver \/ Start
      BY <2>1, <2>4 DEF InitDriver, Start
    <2>5. ASSUME NEW p \in Producer,
                 ReceiveLoop(p) \/ RoundEnds(p) \/ ReceiveDies(p) \/ Receive(p)
                 \/ FillAndPut(p) \/ DropBuffer(p) \/ ClearOverflow(p)
          PROVE  UNCHANGED <<cloudVars, handler>>
      BY <2>5 DEF ReceiveLoop, RoundEnds, ReceiveDies, Receive, FillAndPut, DropBuffer,
                  ClearOverflow
    <2> QED BY <2>1, <2>2, <2>3, <2>4, <2>5, NextCases
  <1> QED BY <1>1, TypingHolds, ClearedHolds, PTL DEF SafeSpec, QuietWhenStopped
=============================================================================
